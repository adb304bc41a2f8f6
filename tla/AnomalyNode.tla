------------------------------ MODULE AnomalyNode ------------------------------
(****************************************************************************)
(* AnomalyDetectionNode of Chapter 19: what a source emits is judged and    *)
(* passed on; now and then the node is asked to look for silence.  Calls    *)
(* come one after another, at times that never decrease.                    *)
(****************************************************************************)
EXTENDS AnomalyDetection, SequencesExt, FiniteSetsExt

CONSTANTS
    Values, Lower, Upper, MaximumRate, StuckThreshold, MaximumAge,
    MaxEmitted, MaxTime          \* bounds

VARIABLES
    clock,
    rate, stuck, lastReceived,   \* the checkers, as AnomalyDetection keeps them
    latest,                      \* latestMeasurement_: <<>> or <<[value, quality]>>
    staleReported,
    displayed,       \* what has been passed downstream: [value, quality, why, time]
    emitted          \* history: what the source emitted: [value, quality, time]

vars == <<clock, rate, stuck, lastReceived, latest, staleReported, displayed, emitted>>

Qualities == {"Good", "Suspect", "Invalid"}

Init ==
    /\ clock = 0
    /\ rate = <<>> /\ stuck = <<>> /\ lastReceived = <<>>
    /\ latest = <<>> /\ staleReported = FALSE
    /\ displayed = <<>> /\ emitted = <<>>

display(value, quality, why) ==
    displayed' = Append(displayed, [value |-> value, quality |-> quality, why |-> why, time |-> clock])

\* process: what is invalid or out of range reaches no checker.
Judge(value, given) ==
    IF given = "Invalid" \/ ~inRange(Lower, Upper, value)
    THEN /\ display(value, "Invalid", "emitted")
         /\ UNCHANGED <<rate, stuck, lastReceived, latest, staleReported>>
    ELSE LET quality == IF changeNormal(rate, MaximumRate, value) /\ valueNormal(stuck, StuckThreshold, value)
                        THEN given ELSE "Suspect"
         IN  /\ lastReceived' = <<0>> /\ staleReported' = FALSE
             /\ rate' = changeSeen(rate, value)
             /\ stuck' = valueSeen(stuck, StuckThreshold, value)
             /\ latest' = <<[value |-> value, quality |-> quality]>>
             /\ display(value, quality, "emitted")

\* MeasurementSourceNode::emit
emit ==
    /\ Len(emitted) < MaxEmitted
    /\ \E value \in Values, given \in Qualities :
        /\ Judge(value, given)
        /\ emitted' = Append(emitted, [value |-> value, quality |-> given, time |-> clock])
    /\ UNCHANGED clock

checkForStaleMeasurement ==
    /\ latest # <<>> /\ ~staleReported /\ stale(lastReceived, MaximumAge)
    /\ latest' = [latest EXCEPT ![1].quality = IF @ = "Good" THEN "Suspect" ELSE @]
    /\ staleReported' = TRUE
    /\ display(latest[1].value, latest'[1].quality, "stale")
    /\ UNCHANGED <<clock, rate, stuck, lastReceived, emitted>>

TimePasses ==
    /\ clock < MaxTime
    /\ clock' = clock + 1
    /\ rate' = [i \in DOMAIN rate |-> [rate[i] EXCEPT !.age = Older(@, MaxTime)]]
    /\ lastReceived' = [i \in DOMAIN lastReceived |-> Older(lastReceived[i], MaxTime)]
    /\ UNCHANGED <<stuck, latest, staleReported, displayed, emitted>>

Next == emit \/ checkForStaleMeasurement \/ TimePasses

--------------------------------------------------------------------------------
(* Properties, of what has been displayed *)

Answers == SelectSeq(displayed, LAMBDA d : d.why = "emitted")

Usable(i) == emitted[i].quality # "Invalid" /\ inRange(Lower, Upper, emitted[i].value)
UsableUpTo(i) == {j \in 1..i : Usable(j)}

\* the rate is measured from the first usable measurement of the latest time before
ReferenceOf(i) == LET before == UsableUpTo(i - 1)
                  IN  Min({j \in before : emitted[j].time = emitted[Max(before)].time})

RateNormal(i) ==
    UsableUpTo(i - 1) # {} =>
        LET j == ReferenceOf(i)
            elapsed == emitted[i].time - emitted[j].time
        IN  elapsed > 0 /\ Distance(emitted[i].value, emitted[j].value) <= MaximumRate * elapsed

\* how long the usable measurements have shown the value of the i-th
RepeatedBy(i) ==
    Cardinality({j \in UsableUpTo(i) : \A k \in UsableUpTo(i) : k >= j => emitted[k].value = emitted[i].value})

StuckNormal(i) == UsableUpTo(i - 1) # {} => RepeatedBy(i) < StuckThreshold

\* Every measurement is passed on, once and in order, and is as good as it came exactly
\* if it is usable and neither too fast nor stuck, seen over the usable ones alone: one
\* that is invalid or out of range changes nothing for those after it.
QualityIsEarned ==
    /\ Len(Answers) = Len(emitted)
    /\ \A i \in DOMAIN emitted :
        /\ Answers[i].value = emitted[i].value
        /\ Answers[i].quality = IF ~Usable(i) THEN "Invalid"
                                ELSE IF RateNormal(i) /\ StuckNormal(i) THEN emitted[i].quality
                                ELSE "Suspect"

\* the time of the last usable measurement displayed before position p
LastUsable(p) == Max({q \in 1..(p - 1) : displayed[q].why = "emitted" /\ displayed[q].quality # "Invalid"})

\* Silence is told once, with the last usable value and never as good, and only after
\* more than the maximum age without a usable measurement; invalid ones do not end it.
SilenceToldOnce ==
    \A p \in DOMAIN displayed : displayed[p].why = "stale" =>
        /\ displayed[p].quality = "Suspect"
        /\ displayed[p].value = displayed[LastUsable(p)].value
        /\ displayed[p].time - displayed[LastUsable(p)].time > MaximumAge
        /\ \A q \in LastUsable(p)..(p - 1) : displayed[q].why # "stale"

\* (AnomalyDetection.h:189-240)
AnomaliesAreTold == QualityIsEarned /\ SilenceToldOnce
================================================================================
