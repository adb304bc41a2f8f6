---------------------------- MODULE BinaryStreams ----------------------------
(****************************************************************************)
(* BinaryWriteStream and BinaryReadStream: a chain of writes into a buffer  *)
(* of fixed size, and the chain of reads, of the same types, from what has  *)
(* arrived of it or from bytes of another origin.  The first error is       *)
(* latched: the calls after it do nothing.                                  *)
(*                                                                          *)
(* A value is [kind, bytes, n].  A "scalar" is its bytes, the least         *)
(* significant first, of any width; "bytes" is a view of a length the       *)
(* reader knows; a "string" carries its length; "size" is a length n alone. *)
(****************************************************************************)
EXTENDS Integers, Sequences, SequencesExt

CONSTANTS
    Values,              \* the values there are to write
    Capacities,          \* sizes of the writer's buffer
    MaxSizedField,       \* the writer's limit of a length
    ReaderLimit,         \* the reader's
    Foreign,             \* byte sequences that no such writer has made
    MaxCalls             \* bound: calls of a chain

VARIABLES
    codecAt,             \* "writing", "reading"
    host, wire,          \* the byte orders: "little", "big"
    capacity,
    calls,               \* the values given to the write calls
    writer,              \* [bytes, err]
    received,            \* what the reader's buffer holds
    ours,                \* whether it comes from the writer
    reader,              \* [pos, err]
    reads,               \* read calls made
    got                  \* the values they returned

vars == <<codecAt, host, wire, capacity, calls, writer, received, ours, reader, reads, got>>

Init ==
    /\ codecAt = "writing"
    /\ host \in {"little", "big"} /\ wire \in {"little", "big"}
    /\ capacity \in Capacities
    /\ calls = <<>> /\ writer = [bytes |-> <<>>, err |-> "None"]
    /\ received = <<>> /\ ours = TRUE
    /\ reader = [pos |-> 0, err |-> "None"] /\ reads = 0 /\ got = <<>>

--------------------------------------------------------------------------------
(* BinaryWriteStream *)

\* a scalar as the host keeps it
InMemory(bytes) == IF host = "little" THEN bytes ELSE Reverse(bytes)

\* m_swap: copyReversed or copyForward
Swapped(bytes) == IF host # wire THEN Reverse(bytes) ELSE bytes

\* writeRawBytes, writeBytes and writeScalar, behind ensureCapacity
writeRawBytes(w, bytes) ==
    IF w.err # "None" THEN w
    ELSE IF capacity - Len(w.bytes) < Len(bytes) THEN [w EXCEPT !.err = "BufferOverflow"]
    ELSE [w EXCEPT !.bytes = @ \o bytes]

writeSize(w, n) ==
    IF w.err # "None" THEN w
    ELSE IF n > MaxSizedField \/ n > 16777215 THEN [w EXCEPT !.err = "SizeLimitExceeded"]
    ELSE IF n <= 254 THEN writeRawBytes(w, <<n>>)
    ELSE writeRawBytes(w, <<255, (n \div 65536) % 256, (n \div 256) % 256, n % 256>>)

\* A string writes its length first, which stays if the text does not fit.
write(w, v) ==
    CASE v.kind = "scalar" -> writeRawBytes(w, Swapped(InMemory(v.bytes)))
      [] v.kind = "bytes"  -> writeRawBytes(w, v.bytes)
      [] v.kind = "string" -> writeRawBytes(writeSize(w, Len(v.bytes)), v.bytes)
      [] v.kind = "size"   -> writeSize(w, v.n)

Write ==
    /\ codecAt = "writing" /\ Len(calls) < MaxCalls
    /\ \E v \in Values :
        /\ calls' = Append(calls, v)
        /\ writer' = write(writer, v)
    /\ UNCHANGED <<codecAt, host, wire, capacity, received, ours, reader, reads, got>>

\* The reader is given what the writer has written, as much of it as has arrived, or
\* something else.
Arrive ==
    /\ codecAt = "writing" /\ calls # <<>>
    /\ codecAt' = "reading"
    /\ \/ /\ ours' = TRUE
          /\ \E n \in 0..Len(writer.bytes) : received' = SubSeq(writer.bytes, 1, n)
       \/ ours' = FALSE /\ received' \in Foreign
    /\ UNCHANGED <<host, wire, capacity, calls, writer, reader, reads, got>>

--------------------------------------------------------------------------------
(* BinaryReadStream.  A read returns the reader and what it has found: <<>> *)
(* or <<value>>.                                                            *)

Fails(err) == [reader |-> [reader EXCEPT !.err = err], found |-> <<>>]

Takes(pos, n, value) == [reader |-> [reader EXCEPT !.pos = pos + n], found |-> <<value>>]

Here(pos, n) == SubSeq(received, pos + 1, pos + n)

available(pos, n) == Len(received) - pos >= n

\* readScalar and readBytesView, of the width of v
readFixed(v) ==
    IF ~available(reader.pos, Len(v.bytes)) THEN Fails("BufferUnderflow")
    ELSE Takes(reader.pos, Len(v.bytes),
               [v EXCEPT !.bytes = IF v.kind = "scalar"
                                   THEN InMemory(Swapped(Here(reader.pos, Len(v.bytes))))
                                   ELSE Here(reader.pos, Len(v.bytes))])

\* Mutant: a length in the long form may be one that fits the short one.
readSize_NotCanonical ==
    IF ~available(reader.pos, 1) THEN Fails("BufferUnderflow")
    ELSE IF received[reader.pos + 1] <= 254 THEN Takes(reader.pos, 1, received[reader.pos + 1])
    ELSE IF ~available(reader.pos, 4) THEN Fails("BufferUnderflow")
    ELSE LET b == Here(reader.pos, 4)
             n == b[2] * 65536 + b[3] * 256 + b[4]
         IN
              IF n > ReaderLimit THEN Fails("InvalidData") ELSE Takes(reader.pos, 4, n)

\* readSize: a length that would have fitted one byte is not accepted in four.
readSize ==
    IF ~available(reader.pos, 1) THEN Fails("BufferUnderflow")
    ELSE IF received[reader.pos + 1] <= 254 THEN Takes(reader.pos, 1, received[reader.pos + 1])
    ELSE IF ~available(reader.pos, 4) THEN Fails("BufferUnderflow")
    ELSE LET b == Here(reader.pos, 4)
             n == b[2] * 65536 + b[3] * 256 + b[4]
         IN
              IF n <= 254 \/ n > ReaderLimit THEN Fails("InvalidData")
              ELSE Takes(reader.pos, 4, n)

\* readStringView: a length that cannot be satisfied has been consumed.
readString ==
    LET size == readSize IN
    IF size.found = <<>> THEN size
    ELSE IF ~available(size.reader.pos, size.found[1])
    THEN [size EXCEPT !.reader.err = "BufferUnderflow", !.found = <<>>]
    ELSE Takes(size.reader.pos, size.found[1],
               [kind |-> "string", n |-> 0, bytes |-> Here(size.reader.pos, size.found[1])])

read(v) ==
    CASE v.kind \in {"scalar", "bytes"} -> readFixed(v)
      [] v.kind = "string" -> readString
      [] v.kind = "size"   ->
            [readSize EXCEPT !.found = IF @ = <<>> THEN @
                                       ELSE <<[kind |-> "size", bytes |-> <<>>, n |-> @[1]]>>]

Read ==
    /\ codecAt = "reading" /\ reads < Len(calls)
    /\ reads' = reads + 1
    /\ IF reader.err # "None" THEN UNCHANGED <<reader, got>>
       ELSE LET answer == read(calls[reads'])
            IN  reader' = answer.reader /\ got' = got \o answer.found
    /\ UNCHANGED <<codecAt, host, wire, capacity, calls, writer, received, ours>>

Ended == codecAt = "reading" /\ reads = Len(calls)

Next == Write \/ Arrive \/ Read

--------------------------------------------------------------------------------
(* Properties *)

\* What a length and a value look like on the wire, by definition.
Length(n) == IF n < 255 THEN <<n>>
             ELSE [i \in 1..4 |-> IF i = 1 THEN 255 ELSE (n \div (256 ^ (4 - i))) % 256]

Encoded(v) ==
    CASE v.kind = "scalar" -> IF wire = "little" THEN v.bytes ELSE Reverse(v.bytes)
      [] v.kind = "bytes"  -> v.bytes
      [] v.kind = "string" -> Length(Len(v.bytes)) \o v.bytes
      [] v.kind = "size"   -> Length(v.n)

EncodedAll(values) == FlattenSeq([i \in DOMAIN values |-> Encoded(values[i])])

\* The length a value carries on the wire.
Size(v) == IF v.kind = "string" THEN Len(v.bytes) ELSE IF v.kind = "size" THEN v.n ELSE 0

\* The calls before the n-th, and what a failed n-th call may have left in the buffer,
\* or taken from it: nothing, or of a string its length, without the text.
Before(n) == SubSeq(calls, 1, n - 1)
LeftOf(v) == IF v.kind = "string" THEN {<<>>, Length(Len(v.bytes))} ELSE {<<>>}

\* The bytes written do not depend on the host.  Without an error they are those of all
\* calls; with one, of the calls before the first that does not fit or whose length is
\* over the limit.  Of that call nothing is written, but for the length of a string:
\* not quite "no partial reads or writes", Common/tests/BdsTestMain.cpp:9-10.
WritesInWireOrder ==
    /\ Len(writer.bytes) <= capacity
    /\ IF writer.err = "None" THEN writer.bytes = EncodedAll(calls)
       ELSE \E n \in DOMAIN calls :
              /\ \E left \in LeftOf(calls[n]) : writer.bytes = EncodedAll(Before(n)) \o left
              /\ \/ Len(EncodedAll(Before(n + 1))) > capacity
                 \/ Size(calls[n]) > MaxSizedField

\* The values read are those written, in order, up to the first that has not arrived or
\* whose length is over the reader's limit.  The bytes consumed, of whatever origin, are
\* the one encoding of the values returned, and after a failed call nothing else, but
\* for the length of a string whose text has not arrived.
ReadsWhatWasWritten ==
    LET consumed == SubSeq(received, 1, reader.pos)
        failed == calls[Len(got) + 1]
    IN  /\ reader.pos <= Len(received)
        /\ ours => IsPrefix(got, calls)
        /\ IF reader.err = "None" THEN Len(got) = reads /\ consumed = EncodedAll(got)
           ELSE /\ ours => \/ Len(EncodedAll(Before(Len(got) + 2))) > Len(received)
                           \/ Size(failed) > ReaderLimit
                /\ \/ consumed = EncodedAll(got)
                   \/ /\ failed.kind = "string"
                      /\ \E n \in 0..ReaderLimit :
                           /\ consumed = EncodedAll(got) \o Length(n)
                           /\ reader.pos + n > Len(received)

\* Both directions of the streams agree (BinaryWriteStream.cpp, BinaryReadStream.cpp).
StreamsAgree == WritesInWireOrder /\ ReadsWhatWasWritten
================================================================================
