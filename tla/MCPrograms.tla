----------------------------- MODULE MCPrograms -----------------------------
(****************************************************************************)
(* The smaller programs of the book, each checked alone, in one run: a      *)
(* behavior is that of one program, chosen at the beginning, and the        *)
(* variables of the others keep the value Off.  Each program is an instance *)
(* of its module; a variable with the module's name is substituted for it.  *)
(****************************************************************************)
EXTENDS Integers, Sequences

CONSTANT Programs    \* those to be checked

VARIABLES
    program,
    \* QueueMeasurementDemo
    items, stopped, producer, sequence, depth, consumer, produced, demoConsumed,
        highWaterMark,
    \* NmeaMonitor
    tty, rx, line, stats, lines, consumed, options, phase, batch, current,
        stopRequested, coming, socket, udpStats, udpLines, udpRead, signals,
        expirations, total,
    \* SampleFusion
    time, transmitter, link, strays, stopping, remoteItems, localItems,
        queuesStopped, receiver, acquisition, fusion, mainAt, taken, drained, fused,
        dropped, skipped,
    \* FilteringDemo
    csvOptions, csvState, csvRead, previousTime, previousValid, average,
        exponential, counts, output,
    \* AnomalyNode
    clock, rate, stuck, lastReceived, latest, staleReported, displayed, emitted,
    \* ProcessOven
    plan, ovenAt, commands, rampers, activeRampers, cycle, predictedCycles, now,
        began, nextCycle, rows,
    \* BinaryStreams
    codecAt, host, wire, capacity, calls, writer, received, ours, reader, reads,
        got,
    \* MessageFrame
    frameAt, given, frame, frameStatus, decoded, looked,
    \* SentenceCodec
    sentenceAt, body, sentence, parsed,
    \* RetryTransaction
    client, server, requests, responses, duplicates, executions

Off == <<>>
LF == 10
CR == 13

--------------------------------------------------------------------------------
(* Bounds *)

\* A stream of given line ends: 0 is a byte of text, a different one at each place.
Stream(s) == [k \in DOMAIN s |-> IF s[k] = 0 THEN 100 + k ELSE s[k]]

MonitorScenarios ==
         [options : {{"signal", "uart"}}, udp : {<<>>},
          uart : {Stream(s) : s \in [1..3 -> {0, CR, LF}]
                                    \cup {<<0, 0, 0, 0, LF, 0>>, <<0, LF, LF, 0, CR, LF>>}}]
    \cup [options : {{"signal", "udp", "uart"}}, uart : {<<101, LF>>},
          udp : {<< <<102, CR, LF, 103, 104, 105>>, <<>>, <<LF, 106>> >>}]
    \cup [options : {{"signal", "stats", "duration", "uart"}}, uart : {<<LF>>}, udp : {<<>>}]

Asked(window, alpha) == [window |-> window, alpha |-> alpha, minimum |-> 0, maximum |-> 4, rate |-> 1]

FilterOptions == {Asked(2, 1), Asked(0, 2), Asked(1, 3), [Asked(1, 0) EXCEPT !.minimum = 4]}

MeasurementLines ==
         [kind : {"blank", "short", "text"}, time : {1}, value : {0}]
    \cup [kind : {"missing"}, time : {1, 3}, value : {0}]
    \cup [kind : {"nonfinite"}, time : {2}, value : {0}]
    \cup [kind : {"value"}, time : 1..4, value : {0, 2, 3, 9}]

\* increments that divide the way and some that do not, and a plan that is refused
OvenPlans ==
    LET Command == [{"preheat", "core"} -> {0, 3, 5}]
    IN       [starting : Command, target : Command, increment : {2, 3}, period : {2}, realTime : {FALSE}]
        \cup [starting : {[z \in {"preheat", "core"} |-> 1]}, target : Command, increment : {1, 2},
              period : {2}, realTime : {TRUE}]
        \cup [starting : {[z \in {"preheat", "core"} |-> 0]}, target : Command, increment : {0},
              period : {2}, realTime : {FALSE}]

StreamValue(kind, bytes, n) == [kind |-> kind, bytes |-> bytes, n |-> n]
StreamValues ==
    {StreamValue("scalar", <<1>>, 0), StreamValue("scalar", <<1, 2>>, 0),
     StreamValue("scalar", <<1, 2, 3, 4>>, 0), StreamValue("bytes", <<5, 6>>, 0),
     StreamValue("string", <<7, 8>>, 0), StreamValue("string", <<>>, 0),
     StreamValue("size", <<>>, 254), StreamValue("size", <<>>, 255),
     StreamValue("size", <<>>, 65536), StreamValue("size", <<>>, 65537)}

\* a length in the wrong form, one without its text, and one byte
ForeignBytes == {<<255, 0, 0, 5, 0>>, <<255, 0, 1, 0, 1>>, <<5>>}

Header ==
    [magic |-> <<66, 68, 83, 49>>, version |-> <<1>>, headerSize |-> <<28>>, payloadEndian |-> <<0>>,
     headerFlags |-> <<0>>, serviceId |-> <<14, 0>>, messageType |-> <<1, 0>>,
     transactionId |-> <<1, 2, 3, 4>>, payloadSize |-> <<0, 0, 0, 0>>, flags |-> <<0, 0, 0, 0>>,
     headerCrc |-> <<0, 0>>, payloadCrc |-> <<0, 0>>]

\* one of each kind that version 1 allows, and some that it does not
FrameHeaders ==
    {Header, [Header EXCEPT !.payloadEndian = <<1>>, !.flags = <<1, 0, 0, 0>>],
     [Header EXCEPT !.version = <<2>>], [Header EXCEPT !.payloadEndian = <<2>>],
     [Header EXCEPT !.flags = <<2, 0, 0, 0>>], [Header EXCEPT !.headerFlags = <<1>>]}

\* "WXTMP" and what follows it: fields of all lengths, as many as there may be and one
\* more, an empty one at the end, the characters of the syntax; a short identifier
SentenceBodies ==
    LET id == <<87, 88, 84, 77, 80>> IN
    {id \o s : s \in {<<>>, <<44>>, <<44, 49, 44, 50>>, <<44, 49, 44>>, <<44, 44>>,
                      <<44, 42, 36>>, <<44, 44, 44>>, <<44, 44, 44, 44>>,
                      <<44, 49, 44, 50, 44, 51>>, <<44, 49, 50, 51, 52, 53>>,
                      <<44, 49, 50, 51, 52, 53, 54>>}}
    \cup {<<87, 44, 49>>, <<>>}

--------------------------------------------------------------------------------
(* The programs *)

demo == INSTANCE QueueMeasurementDemo WITH
        consumed <- demoConsumed, Capacity <- 2, MaxItems <- 5

nmea == INSTANCE NmeaMonitor WITH
        MaxLineBytes <- 2, ReadSize <- 2, DatagramBytes <- 5,
        Scenarios <- MonitorScenarios, MaxSignals <- 2, MaxExpirations <- 1, MaxReadErrors <- 1

fusionDevice == INSTANCE SampleFusion WITH
        Capacity <- 1, MatchWindow <- 1, FifoLink <- TRUE,
        MaxTime <- 2, MaxTemperatures <- 2, MaxStrays <- 1

filter == INSTANCE FilteringDemo WITH
        options <- csvOptions, Options <- FilterOptions, AlphaDenominator <- 2,
        CsvLines <- MeasurementLines, MaxLines <- 4

anomaly == INSTANCE AnomalyNode WITH
        Values <- {0, 2, 9}, Lower <- 0, Upper <- 5, MaximumRate <- 1,
        StuckThreshold <- 2, MaximumAge <- 1, MaxEmitted <- 3, MaxTime <- 3

oven == INSTANCE ProcessOven WITH
        Zones <- {"preheat", "core"}, Plans <- OvenPlans, MaxLateness <- 3

streams == INSTANCE BinaryStreams WITH
        Values <- StreamValues, Capacities <- {5, 9}, MaxSizedField <- 65536,
        ReaderLimit <- 65535, Foreign <- ForeignBytes, MaxCalls <- 2

framing == INSTANCE MessageFrame WITH
        Headers <- FrameHeaders, Payloads <- {<<>>, <<0>>, <<1, 255>>}, Destinations <- {28, 64},
        Masks <- {1, 128, 255}

sentences == INSTANCE SentenceCodec WITH
        Bodies <- SentenceBodies, MaxSentenceSize <- 18, MaxFields <- 3,
        Damages <- {LF, CR, 36, 42, 44, 48, 49, 65, 97}

refused == INSTANCE RetryTransaction WITH
        Clients <- {1}, TxnId <- [c \in {1} |-> 42], Interval <- [c \in {1} |-> 50],
        Port <- [c \in {1} |-> 1], MaxAttempts <- 2,
        ServerModes <- {"Normal", "DropFirstAck", "BusyOnce"}, Sequential <- TRUE,
        FifoLink <- TRUE, MaxDuplicates <- 0, LocalFaults <- FALSE

Instances ==
    /\ demo!DemoOK /\ nmea!LineOK /\ nmea!ScenariosOK /\ filter!OptionsOK

ASSUME ProgramsAssumption == Instances

demoOff ==
    /\ items = Off /\ stopped = Off /\ producer = Off /\ sequence = Off /\ depth = Off
    /\ consumer = Off /\ produced = Off /\ demoConsumed = Off /\ highWaterMark = Off

nmeaOff ==
    /\ tty = Off /\ rx = Off /\ line = Off /\ stats = Off /\ lines = Off
    /\ consumed = Off /\ options = Off /\ phase = Off /\ batch = Off /\ current = Off
    /\ stopRequested = Off /\ coming = Off /\ socket = Off /\ udpStats = Off
    /\ udpLines = Off /\ udpRead = Off /\ signals = Off /\ expirations = Off
    /\ total = Off

fusionDeviceOff ==
    /\ time = Off /\ transmitter = Off /\ link = Off /\ strays = Off /\ stopping = Off
    /\ remoteItems = Off /\ localItems = Off /\ queuesStopped = Off /\ receiver = Off
    /\ acquisition = Off /\ fusion = Off /\ mainAt = Off /\ taken = Off
    /\ drained = Off /\ fused = Off /\ dropped = Off /\ skipped = Off

filterOff ==
    /\ csvOptions = Off /\ csvState = Off /\ csvRead = Off /\ previousTime = Off
    /\ previousValid = Off /\ average = Off /\ exponential = Off /\ counts = Off
    /\ output = Off

anomalyOff ==
    /\ clock = Off /\ rate = Off /\ stuck = Off /\ lastReceived = Off /\ latest = Off
    /\ staleReported = Off /\ displayed = Off /\ emitted = Off

ovenOff ==
    /\ plan = Off /\ ovenAt = Off /\ commands = Off /\ rampers = Off
    /\ activeRampers = Off /\ cycle = Off /\ predictedCycles = Off /\ now = Off
    /\ began = Off /\ nextCycle = Off /\ rows = Off

streamsOff ==
    /\ codecAt = Off /\ host = Off /\ wire = Off /\ capacity = Off /\ calls = Off
    /\ writer = Off /\ received = Off /\ ours = Off /\ reader = Off /\ reads = Off
    /\ got = Off

framingOff ==
    /\ frameAt = Off /\ given = Off /\ frame = Off /\ frameStatus = Off
    /\ decoded = Off /\ looked = Off

sentencesOff ==
    /\ sentenceAt = Off /\ body = Off /\ sentence = Off /\ parsed = Off

refusedOff ==
    /\ client = Off /\ server = Off /\ requests = Off /\ responses = Off
    /\ duplicates = Off /\ executions = Off

demoVars ==
    <<items, stopped, producer, sequence, depth, consumer, produced, demoConsumed,
      highWaterMark>>
nmeaVars ==
    <<tty, rx, line, stats, lines, consumed, options, phase, batch, current,
      stopRequested, coming, socket, udpStats, udpLines, udpRead, signals,
      expirations, total>>
fusionDeviceVars ==
    <<time, transmitter, link, strays, stopping, remoteItems, localItems,
      queuesStopped, receiver, acquisition, fusion, mainAt, taken, drained,
      fused, dropped, skipped>>
filterVars ==
    <<csvOptions, csvState, csvRead, previousTime, previousValid, average,
      exponential, counts, output>>
anomalyVars ==
    <<clock, rate, stuck, lastReceived, latest, staleReported, displayed, emitted>>
ovenVars ==
    <<plan, ovenAt, commands, rampers, activeRampers, cycle, predictedCycles, now,
      began, nextCycle, rows>>
streamsVars ==
    <<codecAt, host, wire, capacity, calls, writer, received, ours, reader, reads,
      got>>
framingVars ==
    <<frameAt, given, frame, frameStatus, decoded, looked>>
sentencesVars ==
    <<sentenceAt, body, sentence, parsed>>
refusedVars ==
    <<client, server, requests, responses, duplicates, executions>>

Init ==
    /\ program \in Programs
    /\ IF program = "demo" THEN demo!Init ELSE demoOff
    /\ IF program = "nmea" THEN nmea!Init ELSE nmeaOff
    /\ IF program = "fusionDevice" THEN fusionDevice!Init ELSE fusionDeviceOff
    /\ IF program = "filter" THEN filter!Init ELSE filterOff
    /\ IF program = "anomaly" THEN anomaly!Init ELSE anomalyOff
    /\ IF program = "oven" THEN oven!Init ELSE ovenOff
    /\ IF program = "streams" THEN streams!Init ELSE streamsOff
    /\ IF program = "framing" THEN framing!Init ELSE framingOff
    /\ IF program = "sentences" THEN sentences!Init ELSE sentencesOff
    /\ IF program = "refused" THEN refused!Init ELSE refusedOff

\* A step of one program: the variables of all others stay.
Others(p) ==
    /\ program = p /\ UNCHANGED program
    /\ IF p = "demo" THEN TRUE ELSE UNCHANGED demoVars
    /\ IF p = "nmea" THEN TRUE ELSE UNCHANGED nmeaVars
    /\ IF p = "fusionDevice" THEN TRUE ELSE UNCHANGED fusionDeviceVars
    /\ IF p = "filter" THEN TRUE ELSE UNCHANGED filterVars
    /\ IF p = "anomaly" THEN TRUE ELSE UNCHANGED anomalyVars
    /\ IF p = "oven" THEN TRUE ELSE UNCHANGED ovenVars
    /\ IF p = "streams" THEN TRUE ELSE UNCHANGED streamsVars
    /\ IF p = "framing" THEN TRUE ELSE UNCHANGED framingVars
    /\ IF p = "sentences" THEN TRUE ELSE UNCHANGED sentencesVars
    /\ IF p = "refused" THEN TRUE ELSE UNCHANGED refusedVars

Demo == Others("demo") /\ (demo!Producer \/ demo!Consumer)
Nmea == Others("nmea") /\ nmea!Next
Fusion == Others("fusionDevice") /\ fusionDevice!Next
Filter == Others("filter") /\ filter!Next
Anomaly == Others("anomaly") /\ anomaly!Next
Oven == Others("oven") /\ oven!Next
Streams == Others("streams") /\ streams!Next
Framing == Others("framing") /\ framing!Next
Sentences == Others("sentences") /\ sentences!Next
Refused == Others("refused") /\ refused!Next

Next == Demo \/ Nmea \/ Fusion \/ Filter \/ Anomaly \/ Oven \/ Streams \/ Framing \/ Sentences
        \/ Refused

vars == <<program, demoVars, nmeaVars, fusionDeviceVars, filterVars, anomalyVars, ovenVars,
          streamsVars, framingVars, sentencesVars, refusedVars>>

\* What runs is scheduled: one process of each program here, the others below.
FirstProcess ==
    \/ Others("demo") /\ demo!Producer
    \/ Others("nmea") /\ nmea!Monitor
    \/ Others("fusionDevice") /\ fusionDevice!Receiver
    \/ Others("filter") /\ filter!Next
    \/ Others("oven") /\ oven!Oven
    \/ Others("refused") /\ refused!ClientStep(1)

SecondProcess ==
    \/ Others("demo") /\ demo!Consumer
    \/ Others("fusionDevice") /\ fusionDevice!Acquisition
    \/ Others("oven") /\ oven!TimePasses
    \/ Others("refused") /\ refused!TimerExpires(1)

ThirdProcess == Others("fusionDevice") /\ fusionDevice!Fusion
FourthProcess == Others("fusionDevice") /\ fusionDevice!Join

Spec == /\ Init /\ [][Next]_vars
        /\ WF_vars(FirstProcess) /\ WF_vars(SecondProcess)
        /\ WF_vars(ThirdProcess) /\ WF_vars(FourthProcess)

--------------------------------------------------------------------------------
(* The properties of the programs; what they say is told in the modules. *)

\* Everything pushed is popped, in order, and counted (Chapter 4, the demonstration).
Conservation == program = "demo" => demo!Conservation

\* The monitor prints what came in (Chapter 3, nmea_monitor.cpp).
PrintsWhatCameIn == program = "nmea" => nmea!PrintsWhatCameIn /\ nmea!LinesWellFormed

\* The fusion is faithful to what was measured (Chapter 14, synchronized_fusion.cpp).
FusionFaithful == program = "fusionDevice" => fusionDevice!FusionFaithful

\* The filters see the valid measurements and nothing else (Chapter 7).
FilteringFaithful == program = "filter" => filter!FilteringFaithful

\* Every measurement is as good as its node says, silence is told once (Chapter 19).
AnomaliesAreTold == program = "anomaly" => anomaly!AnomaliesAreTold

\* All zones follow their ramps, on schedule (Chapter 10).
RampsAsPlanned == program = "oven" => oven!RampsAsPlanned

\* What is read is what was written or is refused: streams (Common), frames (Common,
\* Chapter 11) and sentences (Chapter 15).
WireIsFaithful ==
    /\ program = "streams" => streams!StreamsAgree
    /\ program = "framing" => framing!FramesAreTrue
    /\ program = "sentences" => sentences!SentencesAreTrue

\* Programs that have nothing more to wait for: a test that ends by itself, a file, an
\* oven; a monitor with a signal or its time over; a fusion device told to stop; a client
\* whose request is refused, or lost.
ShouldEnd ==
    \/ program \in {"demo", "filter", "oven"}
    \/ program = "nmea" /\ (signals \/ expirations.duration > 0)
    \/ program = "fusionDevice" /\ stopping
    \/ program = "refused" /\ refused!Alive(1)

HasEnded ==
    \/ program = "demo" /\ demo!Ended
    \/ program = "filter" /\ filter!Ended
    \/ program = "oven" /\ oven!Ended
    \/ program = "nmea" /\ nmea!Ended
    \/ program = "fusionDevice" /\ fusionDevice!Ended
    \/ program = "refused" /\ client[1].phase = "Exited"

\* Whoever should end does: no thread is left waiting for another, no loop turns for
\* ever (the joins of Chapters 4 and 14, the event loop of Chapter 3).
EveryProgramEnds == ShouldEnd ~> HasEnded
================================================================================
