--------------------------- MODULE ParameterDevice ---------------------------
(****************************************************************************)
(* ch17_weather_device, run again and again on one image file: a run        *)
(* restores the parameters, applies the updates of its command line, and    *)
(* may save the image.  Between runs the inspection tool may put a damaged  *)
(* copy in the place of the file, and a copy of that one.                   *)
(*                                                                          *)
(* Saving is one step here, with the outcomes AtomicImageFile allows.       *)
(****************************************************************************)
EXTENDS ParameterImage

CONSTANTS Texts,      \* Texts[id]: what the command line may ask for id
          MaxRuns,    \* bound: runs of the device
          MaxDamages, \* bound: runs of the inspection tool
          None        \* an option that is not given, or a file that is not there

ASSUME DeviceAssumption ==
    /\ DOMAIN Texts = ParameterID
    /\ \A id \in ParameterID :
         /\ None \in Texts[id]
         /\ \A t \in Texts[id] \ {None} : t.parsed \in BOOLEAN /\ t.value \in Int
    /\ None \notin Image /\ None \notin [image : Image, values : ParameterValues]
    /\ MaxRuns \in Nat /\ MaxDamages \in Nat

VARIABLES
    file,          \* the image at path, or None
    runs,          \* runs so far
    damages,       \* damaged copies so far
    pc,            \* where the run is
    options,       \* its command line
    parameters,    \* the parameter store
    image,         \* the image in memory
    restoreResult, \* what the run says after "restore=", or None
    saved          \* history: the image last saved at path and the store's values, or None

vars == <<file, runs, damages, pc, options, parameters, image, restoreResult, saved>>

FileStatus == {"Ok", "ImageNotFound", "OpenFailed", "ReadFailed"}

Options == [restore : BOOLEAN, save : BOOLEAN,
            set : {s \in [ParameterID -> UNION {Texts[id] : id \in ParameterID}] :
                     \A id \in ParameterID : s[id] \in Texts[id]}]

TypeOK ==
    /\ file \in Image \cup {None}
    /\ runs \in 0..MaxRuns /\ damages \in 0..MaxDamages
    /\ pc \in {"off", "restore", "ReportingInterval", "TemperatureLimit",
               "OperatingMode", "save"}
    /\ options \in Options
    /\ parameters \in Store
    /\ image \in Image
    /\ restoreResult \in FileStatus \cup HeaderStatus \cup RecordStatus \cup {None}
    /\ saved \in [image : Image, values : ParameterValues] \cup {None}

NoOptions == [restore |-> TRUE, save |-> FALSE, set |-> [id \in ParameterID |-> None]]

Init ==
    /\ file = None /\ runs = 0 /\ damages = 0 /\ pc = "off" /\ options = NoOptions
    /\ parameters = NewStore /\ image = create(NewStore)
    /\ restoreResult = None /\ saved = None

--------------------------------------------------------------------------------
Start ==
    /\ pc = "off" /\ runs < MaxRuns
    /\ runs' = runs + 1
    /\ \E o \in Options : options' = o
    /\ parameters' = NewStore
    /\ image' = create(NewStore)
    /\ restoreResult' = None
    /\ pc' = "restore"
    /\ UNCHANGED <<file, damages, saved>>

\* readImageFile: the file may be there and yet not be opened or read
readImageFile == {"OpenFailed", "ReadFailed", IF file = None THEN "ImageNotFound" ELSE "Ok"}

\* Mutant: the image is taken over whether or not it could be restored.
RestoreFrom_TakesImage ==
    /\ restoreResult' = restoreStatus(file)
    /\ parameters' = restore(file, parameters)
    /\ image' = file

\* what has been read is taken over as a whole, or not at all
RestoreFrom ==
    /\ restoreResult' = restoreStatus(file)
    /\ parameters' = restore(file, parameters)
    /\ image' = IF restoreStatus(file) = "Ok" THEN file ELSE image

\* A file that is missing, or cannot be read, leaves the compiled defaults.
Restore ==
    /\ pc = "restore" /\ options.restore
    /\ \E status \in readImageFile :
         IF status = "Ok" THEN RestoreFrom
         ELSE restoreResult' = status /\ UNCHANGED <<parameters, image>>
    /\ pc' = "ReportingInterval"
    /\ UNCHANGED <<file, runs, damages, options, saved>>

NoRestore ==
    /\ pc = "restore" /\ ~options.restore
    /\ pc' = "ReportingInterval"
    /\ UNCHANGED <<file, runs, damages, options, parameters, image, restoreResult, saved>>

NextPlace(id) == CASE id = "ReportingInterval" -> "TemperatureLimit"
                   [] id = "TemperatureLimit" -> "OperatingMode"
                   [] id = "OperatingMode" -> "save"

\* Mutant: the record is not updated with the parameter.
Apply_NoRecord(id) ==
    /\ pc = id /\ options.set[id] # None
    /\ LET t == options.set[id] IN
       IF CheckText(parameters, id, t, "CommandLine") = "OK"
         THEN /\ parameters' = Updated(parameters, id, t.value, "CommandLine")
              /\ pc' = NextPlace(id)
         ELSE UNCHANGED parameters /\ pc' = "off"
    /\ UNCHANGED <<file, runs, damages, options, image, restoreResult, saved>>

\* the lambda apply; a rejected update ends the run
Apply(id) ==
    /\ pc = id /\ options.set[id] # None
    /\ LET t == options.set[id] IN
       IF CheckText(parameters, id, t, "CommandLine") = "OK"
         THEN /\ parameters' = Updated(parameters, id, t.value, "CommandLine")
              /\ image' = update(image, id, parameters')
              /\ pc' = IF findRecord(image, id) = {} THEN "off" ELSE NextPlace(id)
         ELSE UNCHANGED <<parameters, image>> /\ pc' = "off"
    /\ UNCHANGED <<file, runs, damages, options, restoreResult, saved>>

NoUpdate(id) ==
    /\ pc = id /\ options.set[id] = None
    /\ pc' = NextPlace(id)
    /\ UNCHANGED <<file, runs, damages, options, parameters, image, restoreResult, saved>>

\* the image is at path: writeImageFileAtomically returns Ok, or ReplaceFailed
\* because the directory could not be synchronised
Save ==
    /\ pc = "save" /\ options.save
    /\ file' = image
    /\ saved' = [image |-> image, values |-> parameters.values]
    /\ pc' = "off"
    /\ UNCHANGED <<runs, damages, options, parameters, image, restoreResult>>

\* nothing was to be saved, or the save failed before the rename
End ==
    /\ pc = "save"
    /\ pc' = "off"
    /\ UNCHANGED <<file, runs, damages, options, parameters, image, restoreResult, saved>>

\* the inspection tool reads the image and writes a damaged copy of it
InjectError ==
    /\ pc = "off" /\ file # None /\ damages < MaxDamages
    /\ damages' = damages + 1
    /\ \E mode \in Corruption : file' \in corruptImage(file, mode)
    /\ UNCHANGED <<runs, pc, options, parameters, image, restoreResult, saved>>

\* the bound is reached
Over == pc = "off" /\ runs = MaxRuns /\ UNCHANGED vars

Next ==
    \/ Start \/ Restore \/ NoRestore \/ Save \/ End \/ InjectError \/ Over
    \/ \E id \in ParameterID : Apply(id) \/ NoUpdate(id)

Spec == Init /\ [][Next]_vars

--------------------------------------------------------------------------------
(* Properties. *)

ValuesOf(m) == [id \in ParameterID |->
                  LET k == CHOOSE k \in DOMAIN m.records : m.records[k].id = id
                  IN  m.records[k].value]

\* The image in memory is the store's: while a run goes on it can be restored
\* and holds, for every parameter, the value the store has, one that is valid
\* for the parameter.
ImageTracksStore ==
    /\ TypeOK
    /\ pc # "off" => /\ restoreStatus(image) = "Ok"
                     /\ ValuesOf(image) = parameters.values

\* What was saved is what a later run restores, with the provenance of storage,
\* over any number of runs that fail or do not save in between, and also when
\* the damage done to the file was undone.  A run that cannot read the file goes
\* on with the compiled defaults, and says so.
SavedIsRestored ==
    /\ saved # None => /\ restoreStatus(saved.image) = "Ok"
                       /\ ValuesOf(saved.image) = saved.values
    /\ pc = "ReportingInterval" /\ options.restore /\ saved # None =>
         \/ restoreResult \in {"OpenFailed", "ReadFailed"} /\ parameters = NewStore
         \/ file # saved.image
         \/ /\ restoreResult = "Ok" /\ parameters.values = saved.values
            /\ \A id \in ParameterID : parameters.sources[id] = "PersistentStorage"

\* A file in which anything differs from what was saved, whatever the damages and
\* however many records before them are sound, changes no parameter ("active
\* parameters unchanged"): damages may undo, but never hide each other.
DamageChangesNothing ==
    pc = "ReportingInterval" /\ file # None /\ file # saved.image => parameters = NewStore
================================================================================
