---------------------------- MODULE SentenceCodec ----------------------------
(****************************************************************************)
(* The sentences of Chapter 15, which Chapter 20 uses too: a body between a *)
(* dollar sign and its checksum, built by one program, carried by a         *)
(* datagram that may be damaged, and parsed by another.  Characters are     *)
(* their codes.                                                             *)
(****************************************************************************)
EXTENDS Integers, Sequences, FiniteSets, SequencesExt

CONSTANTS
    Bodies,              \* what is sent
    MaxSentenceSize,     \* of the sender's buffer, in which a terminator must fit
    MaxFields,
    Damages              \* what a character may turn into

VARIABLES
    sentenceAt,          \* "build", "carry", "parse", "done"
    body,
    sentence,
    parsed               \* [status, identifier, fields]

vars == <<sentenceAt, body, sentence, parsed>>

LF == 10
CR == 13
Dollar == 36
Star == 42
Comma == 44

Init ==
    /\ sentenceAt = "build"
    /\ body \in Bodies
    /\ sentence = <<>>
    /\ parsed = [status |-> "none", identifier |-> <<>>, fields |-> <<>>]

--------------------------------------------------------------------------------
\* All characters xored: a bit is set if it is in an odd number of them.
nmeaChecksum(text) ==
    LET set(k) == Cardinality({i \in DOMAIN text : (text[i] \div (2 ^ k)) % 2 = 1}) % 2
    IN  FoldLeft(LAMBDA sum, k : sum + set(k) * 2 ^ k, 0, <<0, 1, 2, 3, 4, 5, 6, 7>>)

HexDigit(n) == IF n < 10 THEN 48 + n ELSE 55 + n

hexValue(c) ==
    CASE c \in 48..57  -> c - 48
      [] c \in 65..70  -> c - 55
      [] c \in 97..102 -> c - 87
      [] OTHER         -> -1

SentenceOf(text) ==
    <<Dollar>> \o text \o <<Star, HexDigit(nmeaChecksum(text) \div 16),
                            HexDigit(nmeaChecksum(text) % 16), CR, LF>>

\* buildSentence: a sentence too long for the buffer is none.
Build ==
    /\ sentenceAt = "build"
    /\ IF Len(body) + 6 >= MaxSentenceSize
       THEN sentenceAt' = "done" /\ UNCHANGED sentence
       ELSE /\ sentenceAt' = "carry"
            /\ sentence' = SentenceOf(body)
    /\ UNCHANGED <<body, parsed>>

\* Intact, one character damaged, or cut short.
Carry ==
    /\ sentenceAt = "carry" /\ sentenceAt' = "parse"
    /\ \/ UNCHANGED sentence
       \/ \E i \in DOMAIN sentence, c \in Damages : sentence' = [sentence EXCEPT ![i] = c]
       \/ \E n \in 0..(Len(sentence) - 1) : sentence' = SubSeq(sentence, 1, n)
    /\ UNCHANGED <<body, parsed>>

--------------------------------------------------------------------------------
(* parseSentence *)

\* remove_suffix of line ends
Stripped(text) ==
    SubSeq(text, 1, CHOOSE n \in 0..Len(text) :
                        /\ \A i \in (n + 1)..Len(text) : text[i] \in {CR, LF}
                        /\ n = 0 \/ text[n] \notin {CR, LF})

\* find from a position on, and rfind; 0 is npos
Find(text, c, from) ==
    LET at == {i \in from..Len(text) : text[i] = c}
    IN  IF at = {} THEN 0 ELSE CHOOSE i \in at : \A j \in at : i <= j

Rfind(text, c) ==
    LET at == {i \in DOMAIN text : text[i] = c}
    IN  IF at = {} THEN 0 ELSE CHOOSE i \in at : \A j \in at : j <= i

Refused(status) == [status |-> status, identifier |-> <<>>, fields |-> <<>>]

\* Mutant: a comma at the end of the body ends its last field.
RECURSIVE FieldsFrom_NoLast(_, _, _)
FieldsFrom_NoLast(text, start, found) ==
    IF start > Len(text) + 1 THEN <<found>>
    ELSE IF Len(found) >= MaxFields THEN <<>>
    ELSE LET comma == Find(text, Comma, start) IN
         IF comma = 0 THEN <<Append(found, SubSeq(text, start, Len(text)))>>
         ELSE IF comma = Len(text) THEN <<Append(found, SubSeq(text, start, comma - 1))>>
         ELSE FieldsFrom_NoLast(text, comma + 1, Append(found, SubSeq(text, start, comma - 1)))

\* The loop over the fields, from position start of the body on: <<>> if there are too
\* many.  A comma at the very end has an empty field behind it.
RECURSIVE FieldsFrom(_, _, _)
FieldsFrom(text, start, found) ==
    IF start > Len(text) + 1 THEN <<found>>
    ELSE IF Len(found) >= MaxFields THEN <<>>
    ELSE LET comma == Find(text, Comma, start) IN
         IF comma = 0 THEN <<Append(found, SubSeq(text, start, Len(text)))>>
         ELSE LET next == Append(found, SubSeq(text, start, comma - 1)) IN
              IF comma < Len(text) THEN FieldsFrom(text, comma + 1, next)
              ELSE IF Len(next) >= MaxFields THEN <<>> ELSE <<Append(next, <<>>)>>

parseBody(text) ==
    LET comma == Find(text, Comma, 1)
        identifier == IF comma = 0 THEN text ELSE SubSeq(text, 1, comma - 1)
        fields == IF comma = 0 THEN << <<>> >> ELSE FieldsFrom(text, comma + 1, <<>>)
    IN  IF Len(identifier) # 5
        THEN [status |-> "BadIdentifier", identifier |-> identifier, fields |-> <<>>]
        ELSE IF fields = <<>> THEN Refused("TooManyFields")
        ELSE [status |-> "Ok", identifier |-> identifier, fields |-> fields[1]]

parseSentence(received) ==
    LET text == Stripped(received)
        star == Rfind(text, Star)
        digits == SubSeq(text, star + 1, Len(text))
    IN  IF text = <<>> THEN Refused("Empty")
        ELSE IF text[1] # Dollar THEN Refused("MissingStart")
        ELSE IF star = 0 \/ Len(digits) # 2 THEN Refused("MissingChecksum")
        ELSE IF \E d \in Range(digits) : hexValue(d) < 0 THEN Refused("BadChecksumText")
        ELSE IF nmeaChecksum(SubSeq(text, 2, star - 1)) # 16 * hexValue(digits[1]) + hexValue(digits[2])
        THEN Refused("ChecksumMismatch")
        ELSE parseBody(SubSeq(text, 2, star - 1))

Parse ==
    /\ sentenceAt = "parse" /\ sentenceAt' = "done"
    /\ parsed' = parseSentence(sentence)
    /\ UNCHANGED <<body, sentence>>

Ended == sentenceAt = "done"

Next == Build \/ Carry \/ Parse

--------------------------------------------------------------------------------
(* Properties *)

\* the body an identifier and fields stand for
Joined(identifier, fields) ==
    FoldLeft(LAMBDA text, f : text \o <<Comma>> \o f, identifier, fields)

Commas(text) == Cardinality({i \in DOMAIN text : text[i] = Comma})

IdentifierLength == IF Commas(body) = 0 THEN Len(body) ELSE Find(body, Comma, 1) - 1

\* A sentence with one character damaged, or cut short, either is refused or says what
\* it said before; an intact one is understood exactly if its identifier has five
\* characters and its fields are not too many; and the fields are the body's, empty
\* ones too.  (WeatherMonitoringProtocol.cpp:69-154)
SentencesAreTrue ==
    Ended /\ sentence # <<>> =>
        /\ parsed.status = "Ok" =>
               /\ Joined(parsed.identifier, parsed.fields) = body
               /\ Len(parsed.identifier) = 5 /\ Len(parsed.fields) = Commas(body)
        /\ sentence = SentenceOf(body) =>
               (parsed.status = "Ok" <=> IdentifierLength = 5 /\ Commas(body) <= MaxFields)
================================================================================
