---------------------------- MODULE SampleFusion ----------------------------
(****************************************************************************)
(* The synchronized fusion of Chapter 14: a transmitter sends temperatures  *)
(* with the time of the event; the device receives them in one thread,      *)
(* takes pressures of its own in a second, and brings each pressure         *)
(* together with the newest temperature in a third.  The threads hand on    *)
(* measurements through two bounded queues, which are QueueSpec, and drop   *)
(* what a full queue does not take.                                         *)
(*                                                                          *)
(* Both programs read one clock, which PTP keeps synchronized; it counts    *)
(* periods and advances at any time.  A measurement is its sequence number  *)
(* and its time: the values are synthetic.                                  *)
(****************************************************************************)
EXTENDS Integers, Sequences, SequencesExt

CONSTANTS
    Capacity,            \* QueueCapacity
    MatchWindow,         \* match-window-ms, in periods
    FifoLink,            \* whether the link keeps the order of datagrams
    MaxTime, MaxTemperatures, MaxStrays      \* bounds

VARIABLES
    time,
    transmitter,         \* sequence of temperature_tx
    link,                \* datagrams on their way
    strays,              \* datagrams of other kinds sent so far
    stopping,            \* the device's stopRequested
    remoteItems, localItems,     \* the contents of the queues
    queuesStopped,               \* their flag, which nothing sets
    receiver,            \* [at, holds]: the thread, and the temperature it has decoded
    acquisition,         \* [at, sequence, holds]
    fusion,              \* [at, latestTemperature, latestPressure]
    mainAt,
    \* history: the temperatures the remote queue took, how many there were when the
    \* last drain ended, what was printed, and the pressures dropped and skipped
    taken, drained, fused, dropped, skipped

queues == <<remoteItems, localItems, queuesStopped>>
history == <<taken, drained, fused, dropped, skipped>>
outside == <<time, transmitter, link, strays>>
vars == <<outside, stopping, queues, receiver, acquisition, fusion, mainAt, history>>

\* tryPop and tryPush never wait, and nobody stops these queues.
Measurement == [sequence : Nat, eventTime : Nat]
remoteQueue == INSTANCE QueueSpec WITH items <- remoteItems, stopped <- queuesStopped, Item <- Measurement
localQueue == INSTANCE QueueSpec WITH items <- localItems, stopped <- queuesStopped, Item <- Measurement

None == <<>>

Init ==
    /\ time = 0 /\ transmitter = 0 /\ link = <<>> /\ strays = 0
    /\ stopping = FALSE
    /\ remoteItems = <<>> /\ localItems = <<>> /\ queuesStopped = FALSE
    /\ receiver = [at |-> "loop", holds |-> None]
    /\ acquisition = [at |-> "loop", sequence |-> 0, holds |-> None]
    /\ fusion = [at |-> "loop", latestTemperature |-> None, latestPressure |-> None]
    /\ mainAt = "running"
    /\ taken = <<>> /\ drained = 0 /\ fused = <<>> /\ dropped = 0 /\ skipped = 0

--------------------------------------------------------------------------------
(* Outside the device *)

\* temperature_tx: one sample for each period that has passed, late or not.  The
\* datagram may be lost.
Transmit ==
    /\ transmitter < time /\ transmitter < MaxTemperatures
    /\ transmitter' = transmitter + 1
    /\ \/ UNCHANGED link
       \/ link' = Append(link, [sequence |-> transmitter + 1, eventTime |-> time])
    /\ UNCHANGED <<time, strays>>

\* A datagram that is no frame, or not one with a temperature: sequence 0.
Stray ==
    /\ strays < MaxStrays
    /\ strays' = strays + 1
    /\ link' = Append(link, [sequence |-> 0, eventTime |-> 0])
    /\ UNCHANGED <<time, transmitter>>

TimePasses ==
    /\ time < MaxTime
    /\ time' = time + 1
    /\ UNCHANGED <<transmitter, link, strays>>

Outside ==
    /\ Transmit \/ Stray \/ TimePasses
    /\ UNCHANGED <<stopping, queues, receiver, acquisition, fusion, mainAt, history>>

\* SIGINT or SIGTERM
Signal ==
    /\ ~stopping
    /\ stopping' = TRUE
    /\ UNCHANGED <<outside, queues, receiver, acquisition, fusion, mainAt, history>>

--------------------------------------------------------------------------------
(* receiverLoop *)

\* The loop condition.  poll and recvfrom: the first datagram to arrive, on a link
\* that keeps the order; what is not a temperature is dropped.
Receive ==
    /\ receiver.at = "loop" /\ ~stopping
    /\ \E i \in DOMAIN link :
        /\ FifoLink => i = 1
        /\ link' = RemoveAt(link, i)
        /\ receiver' = IF link[i].sequence = 0 THEN receiver
                       ELSE [at |-> "push", holds |-> <<link[i]>>]
    /\ UNCHANGED <<time, transmitter, strays, stopping, queues, acquisition, fusion, mainAt, history>>

\* tryPush; a full queue drops the newest
PushTemperature ==
    /\ receiver.at = "push"
    /\ \/ remoteQueue!Push(receiver.holds[1]) /\ taken' = Append(taken, receiver.holds[1])
       \/ Len(remoteItems) = Capacity /\ UNCHANGED <<remoteItems, queuesStopped, taken>>
    /\ receiver' = [at |-> "loop", holds |-> None]
    /\ UNCHANGED <<outside, stopping, localItems, acquisition, fusion, mainAt,
                   drained, fused, dropped, skipped>>

ReceiverStops ==
    /\ receiver.at = "loop" /\ stopping
    /\ receiver' = [receiver EXCEPT !.at = "done"]
    /\ UNCHANGED <<outside, stopping, queues, acquisition, fusion, mainAt, history>>

--------------------------------------------------------------------------------
(* localAcquisitionLoop *)

\* The period is over, and no stop has been requested meanwhile: take a pressure.
Acquire ==
    /\ acquisition.at = "loop" /\ ~stopping
    /\ acquisition.sequence < time
    /\ acquisition' = [at |-> "push", sequence |-> acquisition.sequence + 1,
                       holds |-> <<[sequence |-> acquisition.sequence + 1, eventTime |-> time]>>]
    /\ UNCHANGED <<outside, stopping, queues, receiver, fusion, mainAt, history>>

PushPressure ==
    /\ acquisition.at = "push"
    /\ \/ localQueue!Push(acquisition.holds[1]) /\ UNCHANGED dropped
       \/ Len(localItems) = Capacity /\ dropped' = dropped + 1 /\ UNCHANGED <<localItems, queuesStopped>>
    /\ acquisition' = [acquisition EXCEPT !.at = "loop", !.holds = None]
    /\ UNCHANGED <<outside, stopping, remoteItems, receiver, fusion, mainAt,
                   taken, drained, fused, skipped>>

\* at the loop condition, or after the sleep
AcquisitionStops ==
    /\ acquisition.at = "loop" /\ stopping
    /\ acquisition' = [acquisition EXCEPT !.at = "done"]
    /\ UNCHANGED <<outside, stopping, queues, receiver, fusion, mainAt, history>>

--------------------------------------------------------------------------------
(* fusionLoop *)

FusionTurns ==
    /\ fusion.at = "loop"
    /\ fusion' = [fusion EXCEPT !.at = IF stopping THEN "done" ELSE "drain"]
    /\ UNCHANGED <<outside, stopping, queues, receiver, acquisition, mainAt, history>>

\* the inner loop: keep only the newest
PopTemperature ==
    /\ fusion.at = "drain"
    /\ \E item \in Range(remoteItems) :
        /\ remoteQueue!Pop(item)
        /\ fusion' = [fusion EXCEPT !.latestTemperature = <<item>>]
    /\ UNCHANGED <<outside, stopping, localItems, receiver, acquisition, mainAt, history>>

RemoteEmpty ==
    /\ fusion.at = "drain" /\ remoteItems = <<>>
    /\ fusion' = [fusion EXCEPT !.at = "local"]
    /\ drained' = Len(taken)
    /\ UNCHANGED <<outside, stopping, queues, receiver, acquisition, mainAt,
                   taken, fused, dropped, skipped>>

\* Mutant: the pressure is taken before the temperatures are drained.
PopPressure_First ==
    /\ fusion.at \in {"drain", "local"}
    /\ \E item \in Range(localItems) :
        /\ localQueue!Pop(item)
        /\ fusion' = [fusion EXCEPT !.at = "fuse", !.latestPressure = <<item>>]
    /\ UNCHANGED <<outside, stopping, remoteItems, receiver, acquisition, mainAt, history>>

PopPressure ==
    /\ fusion.at = "local"
    /\ \E item \in Range(localItems) :
        /\ localQueue!Pop(item)
        /\ fusion' = [fusion EXCEPT !.at = "fuse", !.latestPressure = <<item>>]
    /\ UNCHANGED <<outside, stopping, remoteItems, receiver, acquisition, mainAt, history>>

\* no pressure: sleep
LocalEmpty ==
    /\ fusion.at = "local" /\ localItems = <<>>
    /\ fusion' = [fusion EXCEPT !.at = "loop"]
    /\ UNCHANGED <<outside, stopping, queues, receiver, acquisition, mainAt, history>>

absoluteDifference(a, b) == IF a >= b THEN a - b ELSE b - a

\* "Waiting for first remote temperature measurement", or a MATCH or a MISS
Fuse ==
    /\ fusion.at = "fuse"
    /\ LET p == fusion.latestPressure[1] IN
        IF fusion.latestTemperature = None
        THEN skipped' = skipped + 1 /\ UNCHANGED fused
        ELSE LET t == fusion.latestTemperature[1] IN
             /\ fused' = Append(fused, [temperature |-> t, pressure |-> p,
                    match |-> absoluteDifference(t.eventTime, p.eventTime) <= MatchWindow])
             /\ UNCHANGED skipped
    /\ fusion' = [fusion EXCEPT !.at = "loop"]
    /\ UNCHANGED <<outside, stopping, queues, receiver, acquisition, mainAt, taken, drained, dropped>>

--------------------------------------------------------------------------------
(* main: the joins *)

Join ==
    /\ \/ mainAt = "running" /\ stopping /\ mainAt' = "receiver"
       \/ mainAt = "receiver" /\ receiver.at = "done" /\ mainAt' = "acquisition"
       \/ mainAt = "acquisition" /\ acquisition.at = "done" /\ mainAt' = "fusion"
       \/ mainAt = "fusion" /\ fusion.at = "done" /\ mainAt' = "done"
    /\ UNCHANGED <<outside, stopping, queues, receiver, acquisition, fusion, history>>

Receiver == Receive \/ PushTemperature \/ ReceiverStops
Acquisition == Acquire \/ PushPressure \/ AcquisitionStops
Fusion == FusionTurns \/ PopTemperature \/ RemoteEmpty \/ PopPressure \/ LocalEmpty \/ Fuse

Ended == mainAt = "done"

Next == Outside \/ Signal \/ Receiver \/ Acquisition \/ Fusion \/ Join

--------------------------------------------------------------------------------
(* Properties *)

\* No pressure is lost but to a full queue, none is used twice or out of order:
\* those fused, skipped for want of a temperature, dropped, waiting and held are
\* all there were.
PressuresAccounted ==
    /\ acquisition.sequence = Len(fused) + skipped + dropped + Len(localItems)
                              + Len(acquisition.holds) + (IF fusion.at = "fuse" THEN 1 ELSE 0)
    /\ \A i, j \in DOMAIN fused : i < j =>
           fused[i].pressure.sequence < fused[j].pressure.sequence

\* A pressure meets the newest temperature the queue had taken when it was drained for
\* that pressure, and on a link that keeps order never an older one than before.
TemperatureIsNewest ==
    /\ fusion.at \in {"local", "fuse"} =>
           fusion.latestTemperature = IF drained = 0 THEN None ELSE <<taken[drained]>>
    /\ FifoLink => \A i, j \in DOMAIN fused : i < j =>
           fused[i].temperature.sequence <= fused[j].temperature.sequence

\* What is said to match was measured within the window, by the clock of the events:
\* waiting in queues does not change it.
MatchesAreClose ==
    \A i \in DOMAIN fused :
        fused[i].match <=> /\ fused[i].pressure.eventTime <= fused[i].temperature.eventTime + MatchWindow
                           /\ fused[i].temperature.eventTime <= fused[i].pressure.eventTime + MatchWindow

\* The fusion is faithful to what was measured (synchronized_fusion.cpp:222-292).
FusionFaithful == PressuresAccounted /\ TemperatureIsNewest /\ MatchesAreClose
================================================================================
