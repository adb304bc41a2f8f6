----------------------------- MODULE ProcessOven -----------------------------
(****************************************************************************)
(* The process oven of Chapter 10: the commands of all zones are ramped     *)
(* from their starting values to their targets, one increment per cycle;    *)
(* zones that have arrived drop out.                                        *)
(*                                                                          *)
(* Commands are integers and the arithmetic is exact.  Time counts in ticks *)
(* and matters only when the program runs in real time.                     *)
(****************************************************************************)
EXTENDS Integers, Sequences, FiniteSetsExt

CONSTANTS
    Zones,
    Plans,            \* [starting, target: commands by zone, increment, period, realTime]
    MaxLateness       \* bound: ticks by which a cycle may come late

VARIABLES
    plan,
    ovenAt,           \* "create", "loop", "sleep", "done", "failed"
    commands,         \* commands_
    rampers,          \* the zones whose ramper is still there, each at its command
    activeRampers,
    cycle,
    predictedCycles,
    now,
    began,            \* history: when the clock was started
    nextCycle,        \* nextCycle_; -1 while the clock has not been started
    rows              \* the rows written: [cycle, active, commands]

vars == <<plan, ovenAt, commands, rampers, activeRampers, cycle, predictedCycles,
          now, began, nextCycle, rows>>

Init ==
    /\ plan \in Plans
    /\ ovenAt = "create"
    /\ commands = plan.starting
    /\ rampers = {} /\ activeRampers = 0 /\ cycle = 0 /\ predictedCycles = 0
    /\ now = 0 /\ began = 0 /\ nextCycle = -1
    /\ rows = <<>>

Distance(a, b) == IF a > b THEN a - b ELSE b - a

\* Ramper::stepsRemaining: the distance over the increment, rounded up
stepsRemaining(command, target) ==
    (Distance(command, target) + plan.increment - 1) \div plan.increment

\* Ramper::step
Smaller(a, b) == IF a < b THEN a ELSE b
Larger(a, b) == IF a > b THEN a ELSE b

rampStep(command, target) ==
    IF command < target THEN Smaller(command + plan.increment, target)
    ELSE IF command > target THEN Larger(command - plan.increment, target) ELSE command

--------------------------------------------------------------------------------
(* RampDriver::create, and the rest of main up to the loop *)

\* A zone with no way to go gets no ramper.
Create ==
    /\ ovenAt = "create"
    /\ plan.increment > 0 /\ plan.period > 0
    /\ rampers' = {z \in Zones : stepsRemaining(plan.starting[z], plan.target[z]) # 0}
    /\ predictedCycles' = Max({0} \cup {stepsRemaining(plan.starting[z], plan.target[z]) : z \in Zones})
    /\ activeRampers' = Cardinality(rampers')
    /\ ovenAt' = "loop"
    /\ rows' = <<[cycle |-> 0, active |-> activeRampers', commands |-> commands]>>
    /\ UNCHANGED <<plan, commands, cycle, now, began, nextCycle>>

\* The configuration is refused, or the output cannot be opened.
CreateFails ==
    /\ ovenAt = "create"
    /\ ovenAt' = "failed"
    /\ UNCHANGED <<plan, commands, rampers, activeRampers, cycle, predictedCycles,
                   now, began, nextCycle, rows>>

--------------------------------------------------------------------------------
(* The loop *)

\* Mutant: a deadline that was missed moves all later ones.
Wait_FromNow ==
    /\ ovenAt = "loop" /\ activeRampers # 0 /\ plan.realTime
    /\ nextCycle' = now + plan.period
    /\ began' = IF nextCycle = -1 THEN now ELSE began
    /\ ovenAt' = "sleep"
    /\ UNCHANGED <<plan, commands, rampers, activeRampers, cycle, predictedCycles, now, rows>>

\* waitForNextCycle, up to the sleep
Wait ==
    /\ ovenAt = "loop" /\ activeRampers # 0 /\ plan.realTime
    /\ IF nextCycle = -1
       THEN nextCycle' = now + plan.period /\ began' = now
       ELSE nextCycle' = nextCycle + plan.period /\ UNCHANGED began
    /\ ovenAt' = "sleep"
    /\ UNCHANGED <<plan, commands, rampers, activeRampers, cycle, predictedCycles, now, rows>>

\* RampDriver::step, and the row of the cycle
Step ==
    /\ activeRampers # 0
    /\ \/ ovenAt = "loop" /\ ~plan.realTime
       \/ ovenAt = "sleep" /\ now >= nextCycle
    /\ cycle' = cycle + 1
    /\ commands' = [z \in Zones |-> IF z \in rampers THEN rampStep(commands[z], plan.target[z])
                                    ELSE commands[z]]
    /\ LET complete == {z \in rampers : commands'[z] = plan.target[z]} IN
        /\ rampers' = rampers \ complete
        /\ activeRampers' = activeRampers - Cardinality(complete)
    /\ rows' = Append(rows, [cycle |-> cycle', active |-> activeRampers', commands |-> commands'])
    /\ ovenAt' = "loop"
    /\ UNCHANGED <<plan, predictedCycles, now, began, nextCycle>>

LoopEnds ==
    /\ ovenAt = "loop" /\ activeRampers = 0
    /\ ovenAt' = "done"
    /\ UNCHANGED <<plan, commands, rampers, activeRampers, cycle, predictedCycles,
                   now, began, nextCycle, rows>>

TimePasses ==
    /\ plan.realTime /\ ovenAt \in {"loop", "sleep"}
    /\ now < (IF nextCycle = -1 THEN 0 ELSE nextCycle) + MaxLateness
    /\ now' = now + 1
    /\ UNCHANGED <<plan, ovenAt, commands, rampers, activeRampers, cycle, predictedCycles,
                   began, nextCycle, rows>>

Oven == Create \/ CreateFails \/ Wait \/ Step \/ LoopEnds

Ended == ovenAt \in {"done", "failed"}

Next == Oven \/ TimePasses

--------------------------------------------------------------------------------
(* Properties *)

Running == ovenAt \in {"loop", "sleep", "done"}

\* Where a zone is after so many cycles, by definition.
CommandAfter(n, z) ==
    LET from == plan.starting[z]
        to == plan.target[z]
    IN  IF n * plan.increment >= Distance(from, to) THEN to
        ELSE IF from < to THEN from + n * plan.increment ELSE from - n * plan.increment

\* Every row shows every zone as far along its ramp as the row's cycle says, never
\* past its target, and counts the zones still on their way.
RowsFollowTheRamps ==
    \A i \in DOMAIN rows :
        /\ rows[i].cycle = i - 1
        /\ \A z \in Zones : rows[i].commands[z] = CommandAfter(i - 1, z)
        /\ rows[i].active = Cardinality({z \in Zones : rows[i].commands[z] # plan.target[z]})

\* The oven is done exactly after the cycles it has predicted.
DoneAsPredicted ==
    Running => /\ cycle <= predictedCycles
               /\ activeRampers = 0 <=> cycle = predictedCycles

\* In real time the cycles keep to the schedule they began with: none comes early, and
\* a late one does not move those after it.
ScheduleIsKept ==
    nextCycle # -1 =>
        /\ nextCycle = began + plan.period * (IF ovenAt = "sleep" THEN cycle + 1 ELSE cycle)
        /\ ovenAt # "sleep" => now >= nextCycle

\* All zones follow their ramps (RampDriver.cpp:57-97).
RampsAsPlanned == RowsFollowTheRamps /\ DoneAsPredicted /\ ScheduleIsKept
================================================================================
