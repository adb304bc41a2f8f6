---------------------------- MODULE MessageFrame ----------------------------
(****************************************************************************)
(* A version 1 BDS frame: header, payload and their two checksums, written  *)
(* by writeFrameV1, carried by something that may damage it, and read by    *)
(* readFrameV1.                                                             *)
(*                                                                          *)
(* A field of the header is the sequence of its bytes, the least            *)
(* significant first, which is the order the header has on the wire.        *)
(****************************************************************************)
EXTENDS Integers, Sequences, SequencesExt

CONSTANTS
    Headers,             \* headers a sender fills in
    Payloads,
    Destinations,        \* sizes of the buffer the frame is written to
    Masks                \* damage: what a byte is xored with, numbers in 1..255

VARIABLES
    frameAt,             \* "write", "carry", "read", "done"
    given,               \* [header, payload, destination]
    frame,               \* the bytes
    frameStatus,         \* what the last call returned
    decoded,             \* [header, payload]: readFrameV1's outputs
    looked               \* history: how far into memory the reader has looked

vars == <<frameAt, given, frame, frameStatus, decoded, looked>>

MessageMagicV1 == <<66, 68, 83, 49>>
MessageHeaderV1WireSize == 28

\* the fields in the order of writeHeaderV1 and readHeaderV1, with their widths
Fields == << <<"magic", 4>>, <<"version", 1>>, <<"headerSize", 1>>, <<"payloadEndian", 1>>,
             <<"headerFlags", 1>>, <<"serviceId", 2>>, <<"messageType", 2>>,
             <<"transactionId", 4>>, <<"payloadSize", 4>>, <<"flags", 4>>,
             <<"headerCrc", 2>>, <<"payloadCrc", 2>> >>

writeHeaderV1(header) == FlattenSeq([i \in DOMAIN Fields |-> header[Fields[i][1]]])

Offset(name) ==
    LET at == CHOOSE i \in DOMAIN Fields : Fields[i][1] = name
    IN  FoldLeft(LAMBDA sum, f : sum + f[2], 0, SubSeq(Fields, 1, at - 1))

Width(name) == (CHOOSE f \in Range(Fields) : f[1] = name)[2]

readHeaderV1(bytes) ==
    [name \in {f[1] : f \in Range(Fields)} |->
        SubSeq(bytes, Offset(name) + 1, Offset(name) + Width(name))]

--------------------------------------------------------------------------------
(* crc16CcittFalse, one bit at a time *)

Bit(n, k) == (n \div (2 ^ k)) % 2
FlipBit(n, k) == IF Bit(n, k) = 1 THEN n - 2 ^ k ELSE n + 2 ^ k

\* The register is shifted; if what falls out differs from the bit that comes in, the
\* polynomial 0x1021 is xored to it.
crcBit(crc, bit) ==
    LET shifted == (crc * 2) % 65536 IN
    IF Bit(crc, 15) # bit THEN FlipBit(FlipBit(FlipBit(shifted, 12), 5), 0) ELSE shifted

crcByte[crc \in Nat, byte \in Nat] ==
    LET register[k \in 0..8] == IF k = 0 THEN crc ELSE crcBit(register[k - 1], Bit(byte, 8 - k))
    IN  register[8]

crc16CcittFalse(bytes) ==
    LET crc[n \in 0..Len(bytes)] == IF n = 0 THEN 65535 ELSE crcByte[crc[n - 1], bytes[n]]
    IN  <<crc[Len(bytes)] % 256, crc[Len(bytes)] \div 256>>

--------------------------------------------------------------------------------
computeHeaderCrc(header) ==
    crc16CcittFalse(writeHeaderV1([header EXCEPT !.headerCrc = <<0, 0>>]))

\* a length as the four bytes of payloadSize
SizeBytes(n) == [i \in 1..4 |-> (n \div (256 ^ (i - 1))) % 256]

\* The header's checksum comes last, as it covers the payload's.
finalizeCrcs(header, payload) ==
    LET sized == [header EXCEPT !.headerSize = <<MessageHeaderV1WireSize>>,
                                !.payloadSize = SizeBytes(Len(payload)),
                                !.payloadCrc = crc16CcittFalse(payload)]
    IN  [sized EXCEPT !.headerCrc = computeHeaderCrc(sized)]

\* Mutant: the checksum of the header is not looked at.
validateHeaderV1_NoCrc(header) ==
    /\ header.magic = MessageMagicV1 /\ header.version = <<1>>
    /\ header.headerSize = <<MessageHeaderV1WireSize>>
    /\ header.payloadEndian \in {<<0>>, <<1>>} /\ header.headerFlags = <<0>>
    /\ header.flags \in {<<0, 0, 0, 0>>, <<1, 0, 0, 0>>}

validateHeaderV1(header) ==
    /\ header.magic = MessageMagicV1 /\ header.version = <<1>>
    /\ header.headerSize = <<MessageHeaderV1WireSize>>
    /\ header.payloadEndian \in {<<0>>, <<1>>} /\ header.headerFlags = <<0>>
    /\ header.flags \in {<<0, 0, 0, 0>>, <<1, 0, 0, 0>>}
    /\ computeHeaderCrc(header) = header.headerCrc

Init ==
    /\ frameAt = "write"
    /\ given \in [header : Headers, payload : Payloads, destination : Destinations]
    /\ frame = <<>> /\ frameStatus = "none"
    /\ decoded = [header |-> <<>>, payload |-> <<>>] /\ looked = 0

writeFrameV1 ==
    /\ frameAt = "write"
    /\ IF given.destination < MessageHeaderV1WireSize + Len(given.payload)
       THEN frameStatus' = "OutputTooSmall" /\ frameAt' = "done" /\ UNCHANGED frame
       ELSE /\ frame' = writeHeaderV1(finalizeCrcs(given.header, given.payload)) \o given.payload
            /\ frameStatus' = "Ok" /\ frameAt' = "carry"
    /\ UNCHANGED <<given, decoded, looked>>

\* Intact, one byte damaged, cut short, or with a byte too many.
Xor(a, b) == FoldLeft(LAMBDA n, k : IF Bit(b, k) = 1 THEN FlipBit(n, k) ELSE n, a,
                      <<0, 1, 2, 3, 4, 5, 6, 7>>)

Carry ==
    /\ frameAt = "carry" /\ frameAt' = "read"
    /\ \/ UNCHANGED frame
       \/ \E i \in DOMAIN frame, mask \in Masks : frame' = [frame EXCEPT ![i] = Xor(@, mask)]
       \/ \E n \in 0..(Len(frame) - 1) : frame' = SubSeq(frame, 1, n)
       \/ frame' = Append(frame, 0)
    /\ UNCHANGED <<given, frameStatus, decoded, looked>>

Answer(status, header, payload, extent) ==
    /\ frameStatus' = status /\ decoded' = [header |-> header, payload |-> payload]
    /\ looked' = extent

\* The view of as many bytes as the header says, wherever the datagram ends; what is
\* behind its end is any byte, 0 here.
payloadSize(header) == FoldLeft(LAMBDA n, b : n * 256 + b, 0, Reverse(header.payloadSize))
PayloadView(header) ==
    [i \in 1..payloadSize(header) |-> IF MessageHeaderV1WireSize + i <= Len(frame)
                                       THEN frame[MessageHeaderV1WireSize + i] ELSE 0]

\* Mutant: the payload is looked at before the sizes are compared.
readFrameV1_PayloadFirst ==
    /\ frameAt = "read" /\ frameAt' = "done"
    /\ IF Len(frame) < MessageHeaderV1WireSize THEN Answer("FrameTooSmall", <<>>, <<>>, 0)
       ELSE LET header == readHeaderV1(SubSeq(frame, 1, MessageHeaderV1WireSize))
                payload == PayloadView(header)
                end == MessageHeaderV1WireSize + payloadSize(header)
            IN  IF ~validateHeaderV1(header)
                THEN Answer("InvalidHeader", header, <<>>, MessageHeaderV1WireSize)
                ELSE IF crc16CcittFalse(payload) # header.payloadCrc
                THEN Answer("InvalidPayloadCrc", header, <<>>, end)
                ELSE IF header.payloadSize # SizeBytes(Len(frame) - MessageHeaderV1WireSize)
                THEN Answer("InvalidFrameSize", header, <<>>, end)
                ELSE Answer("Ok", header, payload, end)
    /\ UNCHANGED <<given, frame>>

\* The sizes are compared before the payload is looked at.
readFrameV1 ==
    /\ frameAt = "read" /\ frameAt' = "done"
    /\ IF Len(frame) < MessageHeaderV1WireSize THEN Answer("FrameTooSmall", <<>>, <<>>, 0)
       ELSE LET header == readHeaderV1(SubSeq(frame, 1, MessageHeaderV1WireSize))
                payload == PayloadView(header)
                end == MessageHeaderV1WireSize + payloadSize(header)
            IN  IF ~validateHeaderV1(header)
                THEN Answer("InvalidHeader", header, <<>>, MessageHeaderV1WireSize)
                ELSE IF header.payloadSize # SizeBytes(Len(frame) - MessageHeaderV1WireSize)
                THEN Answer("InvalidFrameSize", header, <<>>, MessageHeaderV1WireSize)
                ELSE IF crc16CcittFalse(payload) # header.payloadCrc
                THEN Answer("InvalidPayloadCrc", header, <<>>, end)
                ELSE Answer("Ok", header, payload, end)
    /\ UNCHANGED <<given, frame>>

Ended == frameAt = "done"

Next == writeFrameV1 \/ Carry \/ readFrameV1

--------------------------------------------------------------------------------
(* Properties *)

sent == finalizeCrcs(given.header, given.payload)
intact == frame = writeHeaderV1(sent) \o given.payload

\* A frame is accepted exactly if it arrives as it was sent and its header is one of
\* version 1; then header and payload are the sender's.  From any other no payload is
\* handed out, whatever has happened to it: a byte, the size, the end; and no byte is
\* looked at behind its end.  (MessageFrame.h:80-129, MessageHeader.h:193-240)
FramesAreTrue ==
    Ended /\ frame # <<>> =>
        /\ frameStatus = "Ok" <=> intact /\ validateHeaderV1(sent)
        /\ frameStatus = "Ok" => decoded = [header |-> sent, payload |-> given.payload]
        /\ frameStatus # "Ok" => decoded.payload = <<>>
        /\ looked <= Len(frame)
================================================================================
