---------------------------- MODULE ParameterStore ----------------------------
(****************************************************************************)
(* The parameter store of Chapter 16, which Chapter 17 persists: a value, a *)
(* provenance for every parameter, and a count of the accepted updates.     *)
(*                                                                          *)
(* The store is a record and its operations are operators.  A temperature   *)
(* is a whole number of degrees, an operating mode its code.  The text of a *)
(* request is what parsing finds in it.                                     *)
(****************************************************************************)
EXTENDS Integers

ParameterID == {"ReportingInterval", "TemperatureLimit", "OperatingMode"}

ParameterSource == {"CompiledDefault", "PersistentStorage", "ConfigurationFile",
                    "CommandLine", "Runtime"}

precedence == [CompiledDefault |-> 0, PersistentStorage |-> 1,
               ConfigurationFile |-> 2, CommandLine |-> 3, Runtime |-> 4]

UpdateResult == {"OK", "INVALID_VALUE", "NOT_RUNTIME_WRITABLE", "LOWER_PRECEDENCE"}

defaultValue == [ReportingInterval |-> 1000, TemperatureLimit |-> 45, OperatingMode |-> 0]

runtimeWritable == ParameterID \ {"TemperatureLimit"}

ValidValues == [ReportingInterval |-> 100..60000, TemperatureLimit |-> -40..125,
                OperatingMode |-> 0..2]
validate(id, value) == value \in ValidValues[id]

ParameterValues ==
    {v \in [ParameterID -> Int] : \A id \in ParameterID : validate(id, v[id])}

Store == [values : ParameterValues,
          sources : [ParameterID -> ParameterSource],
          generation : Nat]

NewStore == [values |-> defaultValue,
             sources |-> [id \in ParameterID |-> "CompiledDefault"],
             generation |-> 0]

\* Mutant: an update has to come from a higher source than the last one.
CheckUpdate_HigherOnly(store, id, value, source) ==
    IF source = "Runtime" /\ id \notin runtimeWritable THEN "NOT_RUNTIME_WRITABLE"
    ELSE IF ~validate(id, value) THEN "INVALID_VALUE"
    ELSE IF precedence[source] <= precedence[store.sources[id]] THEN "LOWER_PRECEDENCE"
    ELSE "OK"

\* what set answers, without changing the store
CheckUpdate(store, id, value, source) ==
    IF source = "Runtime" /\ id \notin runtimeWritable THEN "NOT_RUNTIME_WRITABLE"
    ELSE IF ~validate(id, value) THEN "INVALID_VALUE"
    ELSE IF precedence[source] < precedence[store.sources[id]] THEN "LOWER_PRECEDENCE"
    ELSE "OK"

\* set writes the image first, then the provenance and the generation, which
\* no text of the lab is long enough to overflow
CopyValue(store, id, value) == [store EXCEPT !.values[id] = value]
RecordUpdate(store, id, source) ==
    [store EXCEPT !.sources[id] = source, !.generation = @ + 1]

\* set, for a caller nobody can interrupt
Updated(store, id, value, source) ==
    IF CheckUpdate(store, id, value, source) = "OK"
      THEN RecordUpdate(CopyValue(store, id, value), id, source)
      ELSE store

\* setFromText: text.parsed says whether text.value could be read from it
CheckText(store, id, text, source) ==
    IF text.parsed THEN CheckUpdate(store, id, text.value, source) ELSE "INVALID_VALUE"
================================================================================
