-------------------------- MODULE AnomalyDetection --------------------------
(****************************************************************************)
(* The checkers of Chapter 19, used by its node and by the device of        *)
(* Chapter 20, as functions of their state.                                 *)
(*                                                                          *)
(* std::optional is a sequence of at most one element.  Points in time are  *)
(* kept as ages, in ticks of the clock: RateOfChangeChecker is <<>> or      *)
(* <<[value, age]>>, StuckSensorChecker <<>> or <<[value, count]>>,         *)
(* StaleSensorChecker <<>> or <<age>>.  An age stops growing at a cap from  *)
(* which on it makes no difference.                                         *)
(****************************************************************************)
EXTENDS Integers, Sequences

Distance(a, b) == IF a > b THEN a - b ELSE b - a

Older(age, cap) == IF age < cap THEN age + 1 ELSE cap

\* RangeFilter
inRange(lower, upper, value) == lower <= value /\ value <= upper

\* RateOfChangeChecker: what changeNormal answers, and the state it leaves.  A
\* value that comes at the time of the one before is refused and forgotten; any
\* other is the next reference, refused or not.
changeNormal(rate, maximumRate, value) ==
    \/ rate = <<>>
    \/ /\ rate[1].age > 0
       /\ Distance(value, rate[1].value) <= maximumRate * rate[1].age

\* Mutant: a value refused for its rate does not become the reference.
changeSeen_OnlyNormal(rate, value) ==
    IF rate = <<>> \/ Distance(value, rate[1].value) <= rate[1].age
    THEN <<[value |-> value, age |-> 0]>> ELSE rate

changeSeen(rate, value) ==
    IF rate # <<>> /\ rate[1].age = 0 THEN rate
    ELSE <<[value |-> value, age |-> 0]>>

\* StuckSensorChecker: the count valueNormal arrives at, its answer, its state.
identicalCount(stuck, value) ==
    IF stuck # <<>> /\ stuck[1].value = value THEN stuck[1].count + 1 ELSE 1

valueNormal(stuck, threshold, value) ==
    stuck = <<>> \/ identicalCount(stuck, value) < threshold

\* The count is followed up to the threshold, from where on it tells no more.
valueSeen(stuck, threshold, value) ==
    LET count == identicalCount(stuck, value) IN
    <<[value |-> value, count |-> IF count < threshold THEN count ELSE threshold]>>

\* StaleSensorChecker
stale(lastReceived, maximumAge) ==
    lastReceived # <<>> /\ lastReceived[1] > maximumAge
================================================================================
