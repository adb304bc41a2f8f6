---------------------------- MODULE ParameterImage ----------------------------
(****************************************************************************)
(* The storage image of Chapter 17: a header, and for each parameter of the *)
(* store a record with its identifier and a framed, typed value.            *)
(*                                                                          *)
(* An image is a record and its operations are operators.  Of a header only *)
(* what is wrong with it is kept, of a checksum whether it matches, and of  *)
(* the length how many pieces there are: an identifier and a frame for each *)
(* record.  The piece after them may be there in part.                      *)
(****************************************************************************)
EXTENDS ParameterStore, Sequences

ParameterMessageType == {"UInt32", "Float32", "Enum8"}

expectedMessageType == [ReportingInterval |-> "UInt32", TemperatureLimit |-> "Float32",
                        OperatingMode |-> "Enum8"]

\* the identifiers in the order of the enumeration
IDs == <<"ReportingInterval", "TemperatureLimit", "OperatingMode">>

HeaderFault == {"magic", "version", "crc"}
HeaderStatus == {"Ok", "InvalidImageMagic", "UnsupportedImageVersion", "InvalidImageHeader"}
RecordStatus == {"Ok", "ReadFailed", "UnknownParameter", "DuplicateParameter",
                 "InvalidBdsMessage", "TypeMismatch", "InvalidValue"}

ImageRecord == [id : ParameterID \cup {"Unknown"}, type : ParameterMessageType,
                crcOk : BOOLEAN, value : Int]
AllPieces == 2 * Len(IDs)
Image == {m \in [wrong : SUBSET HeaderFault, records : Seq(ImageRecord),
                 pieces : 0..AllPieces] :
            Len(m.records) = Len(IDs)}

--------------------------------------------------------------------------------
(* create and update *)

makeFrame(id, store) == [id |-> id, type |-> expectedMessageType[id], crcOk |-> TRUE,
                         value |-> store.values[id]]

create(store) == [wrong |-> {}, pieces |-> AllPieces,
                  records |-> [k \in DOMAIN IDs |-> makeFrame(IDs[k], store)]]

--------------------------------------------------------------------------------
(* walkRecords *)

\* decodeImageHeader: the checks in their order
headerStatus(image) ==
    IF "magic" \in image.wrong THEN "InvalidImageMagic"
    ELSE IF "version" \in image.wrong THEN "UnsupportedImageVersion"
    ELSE IF "crc" \in image.wrong THEN "InvalidImageHeader"
    ELSE "Ok"

\* set refuses only a value that is not valid: a store that has the value from
\* a higher source keeps it, and that is no error
decodeAndStage(r) ==
    IF r.type # expectedMessageType[r.id] THEN "TypeMismatch"
    ELSE IF ~validate(r.id, r.value) THEN "InvalidValue"
    ELSE "Ok"

\* what walkRecords makes of record k; staging: its callback is decodeAndStage,
\* and not one that accepts every record
StatusOf(image, k, staging) ==
    LET r == image.records[k] IN
      IF image.pieces < 2 * k - 1 THEN "ReadFailed"
      ELSE IF r.id = "Unknown" THEN "UnknownParameter"
      ELSE IF \E j \in 1..(k - 1) : image.records[j].id = r.id THEN "DuplicateParameter"
      ELSE IF ~r.crcOk \/ image.pieces < 2 * k THEN "InvalidBdsMessage"
      ELSE IF staging THEN decodeAndStage(r)
      ELSE "Ok"

\* the records before the first one with something wrong
Processed(image, staging) ==
    IF headerStatus(image) # "Ok" THEN 0
    ELSE CHOOSE n \in 0..Len(image.records) :
           /\ \A k \in 1..n : StatusOf(image, k, staging) = "Ok"
           /\ n < Len(image.records) => StatusOf(image, n + 1, staging) # "Ok"

walkRecords(image, staging) ==
    LET n == Processed(image, staging) IN
      IF headerStatus(image) # "Ok" THEN headerStatus(image)
      ELSE IF n < Len(image.records) THEN StatusOf(image, n + 1, staging)
      ELSE "Ok"

\* findRecord walks the whole image: in a damaged one nothing is found
findRecord(image, id) ==
    IF walkRecords(image, FALSE) # "Ok" THEN {}
    ELSE {k \in DOMAIN image.records : image.records[k].id = id}

\* update replaces the record of id
update(image, id, store) ==
    [image EXCEPT !.records = [k \in DOMAIN @ |->
       IF k \in findRecord(image, id) THEN makeFrame(id, store) ELSE @[k]]]

--------------------------------------------------------------------------------
(* restore *)

\* record by record, each into the store that the ones before it left
Stage(store, records) ==
    LET staged[n \in 0..Len(records)] ==
          IF n = 0 THEN store
          ELSE Updated(staged[n - 1], records[n].id, records[n].value, "PersistentStorage")
    IN  staged[Len(records)]

restoreStatus(image) == walkRecords(image, TRUE)

\* Mutant: the records are decoded into the live store.
restore_InPlace(image, store) ==
    Stage(store, SubSeq(image.records, 1, Processed(image, TRUE)))

\* the store that restore leaves
restore(image, store) ==
    IF restoreStatus(image) = "Ok" THEN Stage(store, image.records) ELSE store

--------------------------------------------------------------------------------
(* corruptImage, and truncation by the inspection tool *)

HeaderCorruption == {"BadMagic", "BadVersion", "BadHeaderCrc"}
RecordCorruption == {"BadPayload", "UnknownParameter", "DuplicateParameter",
                     "TypeMismatch", "InvalidValue"}
Corruption == HeaderCorruption \cup {"Truncate"} \cup RecordCorruption

\* a bit is inverted twice and is what it was; the version is overwritten
Toggle(S, x) == (S \ {x}) \cup ({x} \ S)
damageHeader(image, mode) ==
    [image EXCEPT !.wrong =
       CASE mode = "BadMagic" -> Toggle(@, "magic")
         [] mode = "BadVersion" -> @ \cup {"version"}
         [] mode = "BadHeaderCrc" -> Toggle(@, "crc")]

\* one byte less: the last whole piece loses it, or the rest of the next one
Truncated(image) ==
    {[image EXCEPT !.pieces = p] :
       p \in {q \in 0..(AllPieces - 1) : image.pieces - 1 <= q /\ q <= image.pieces}}

\* every record of one of ids gets another value in one field
Damage(image, ids, field, value) ==
    [image EXCEPT !.records = [k \in DOMAIN @ |->
       IF @[k].id \in ids THEN [@[k] EXCEPT ![field] = value] ELSE @[k]]]

damageRecord(image, mode) ==
    LET First == {"ReportingInterval"} IN
    CASE mode = "BadPayload" -> Damage(image, First, "crcOk", FALSE)
      [] mode = "UnknownParameter" -> Damage(image, First, "id", "Unknown")
      [] mode = "DuplicateParameter" ->
           Damage(image, {"TemperatureLimit"}, "id", "ReportingInterval")
      [] mode = "TypeMismatch" -> Damage(image, First, "type", "Float32")
      [] mode = "InvalidValue" -> Damage(image, First, "value", 0)

\* What may become of an image.  A header or an end is damaged whatever else is
\* wrong; a record has to be found first, and is not in a damaged image.
corruptImage(image, mode) ==
    IF mode \in HeaderCorruption THEN {damageHeader(image, mode)}
    ELSE IF mode = "Truncate" THEN Truncated(image)
    ELSE IF findRecord(image, "ReportingInterval") = {} THEN {}
    ELSE {damageRecord(image, mode)}
================================================================================
