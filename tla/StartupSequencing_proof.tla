----------------------- MODULE StartupSequencing_proof -----------------------
(****************************************************************************)
(* Proofs about StartupSequencing, for every choice of failing components   *)
(* and every capacity that holds a report of each: type correctness, the    *)
(* order of the dependencies, and the honesty of the verdict in the race    *)
(* with the timeout thread.                                                 *)
(****************************************************************************)
EXTENDS StartupSequencing, SequenceTheorems, TLAPS

--------------------------------------------------------------------------------
(* The inductive invariant *)

Components(s) == {s[i].component : i \in 1..Len(s)}
Distinct(s) == \A i, j \in 1..Len(s) : s[i].component = s[j].component => i = j

Pending == Components(items)

\* Each component reports once: a report that main has not handled is that of a
\* component still counted as starting, and there is no other of it.
ReportsOnce ==
    /\ \A c \in Component : worker[c] = "starting" => status[c] = "starting" /\ c \notin Pending
    /\ \A c \in Pending : status[c] = "starting" /\ worker[c] = "done"
    /\ Distinct(items)
    /\ event # NoEvent => /\ status[event.component] = "starting"
                          /\ worker[event.component] = "done"
                          /\ event.component \notin Pending

\* What main has remembered of the components.
OutcomeKept ==
    /\ applicationFailed =>
         /\ main \notin {"pop", "popped"}
         /\ \E c \in Required : status[c] = "failed"
         /\ \A c \in Component : status[c] # "waiting"
    /\ degraded <=> status["telemetry"] = "failed"

\* Why main is where it is: nobody stops the queue before startup is over but a
\* failure and the timeout, and after the timeout thread has been told that startup
\* is finished it does not set timedOut any more.
WhyHere ==
    /\ main # "popped" => event = NoEvent
    /\ main = "popped" /\ event = NoEvent => stopped
    /\ timer = "stopping" => timedOut
    /\ stopped => timedOut \/ applicationFailed \/ main \in {"return", "exited"}
    /\ main \in {"finish", "judge", "return", "exited"} =>
         timedOut \/ applicationFailed \/ (allRequiredReady /\ telemetryFinished)
    /\ startupFinished <=> main \in {"judge", "return", "exited"}
    /\ startupFinished => ~TimeoutMutexHeld
    /\ verdict # "none" => main \in {"return", "exited"}

Inv == TypeOK /\ ReportsOnce /\ DependenciesFirst /\ OutcomeKept /\ WhyHere /\ VerdictHonest

--------------------------------------------------------------------------------
(* Sequences of reports *)

\* push adds one report.
LEMMA AppendReports ==
  ASSUME NEW s \in Seq(StartupEvent), NEW e \in StartupEvent
  PROVE  /\ Append(s, e) \in Seq(StartupEvent)
         /\ Len(Append(s, e)) = Len(s) + 1
         /\ Components(Append(s, e)) = Components(s) \cup {e.component}
         /\ Distinct(s) /\ e.component \notin Components(s) => Distinct(Append(s, e))
<1> DEFINE t == Append(s, e)
<1>1. /\ t \in Seq(StartupEvent) /\ Len(t) = Len(s) + 1 /\ Len(s) \in Nat
      /\ \A i \in 1..Len(s) : t[i] = s[i]
      /\ t[Len(s) + 1] = e
  BY AppendProperties
<1> HIDE DEF t
<1>2. \A i \in 1..Len(t) : i \in 1..Len(s) \/ i = Len(s) + 1
  BY <1>1
<1>3. 1..Len(s) \subseteq 1..Len(t) /\ Len(s) + 1 \in 1..Len(t)
  BY <1>1
<1>4. Components(t) = Components(s) \cup {e.component}
  BY <1>1, <1>2, <1>3 DEF Components
<1>5. ASSUME Distinct(s), e.component \notin Components(s)  PROVE Distinct(t)
  BY <1>1, <1>2, <1>5 DEF Distinct, Components
<1> QED  BY <1>1, <1>4, <1>5 DEF t

\* pop takes the oldest report, and with it the only one of its component.
LEMMA TailReports ==
  ASSUME NEW s \in Seq(StartupEvent), s # <<>>, Distinct(s)
  PROVE  /\ Head(s) \in StartupEvent /\ Head(s).component \in Components(s)
         /\ Tail(s) \in Seq(StartupEvent)
         /\ Len(Tail(s)) = Len(s) - 1
         /\ Components(Tail(s)) = Components(s) \ {Head(s).component}
         /\ Distinct(Tail(s))
<1> DEFINE t == Tail(s)
<1>1. /\ t \in Seq(StartupEvent) /\ Len(t) = Len(s) - 1 /\ Len(s) \in Nat /\ Len(s) > 0
      /\ \A i \in 1..Len(t) : t[i] = s[i + 1]
      /\ Head(s) = s[1] /\ Head(s) \in StartupEvent
  BY HeadTailProperties, EmptySeq, SMTT(30)
<1> HIDE DEF t
<1>2. \A i \in 1..Len(t) : i + 1 \in 1..Len(s) /\ i + 1 # 1
  BY <1>1
<1>3. \A i \in 1..Len(s) : i = 1 \/ (i - 1 \in 1..Len(t) /\ t[i - 1] = s[i])
  BY <1>1
<1>4. 1 \in 1..Len(s)
  BY <1>1
<1>5. Components(t) \subseteq Components(s) \ {Head(s).component}
  BY <1>1, <1>2, <1>4 DEF Components, Distinct
<1>6. Components(s) \ {Head(s).component} \subseteq Components(t)
  <2> SUFFICES ASSUME NEW i \in 1..Len(s), s[i].component # Head(s).component
               PROVE  s[i].component \in Components(t)
    BY DEF Components
  <2>1. i - 1 \in 1..Len(t) /\ t[i - 1] = s[i]
    BY <1>1, <1>3
  <2> QED  BY <2>1 DEF Components
<1>7. Distinct(t)
  <2> SUFFICES ASSUME NEW i \in 1..Len(t), NEW j \in 1..Len(t), t[i].component = t[j].component
               PROVE  i = j
    BY DEF Distinct
  <2>1. i + 1 = j + 1
    BY <1>1, <1>2 DEF Distinct
  <2> QED  BY <1>1, <2>1
<1> QED  BY <1>1, <1>4, <1>5, <1>6, <1>7 DEF t, Components

--------------------------------------------------------------------------------
(* Every step keeps the invariant.                                          *)

LEMMA InitEstablishesInv == Init => Inv
<1> SUFFICES ASSUME Init  PROVE Inv
  OBVIOUS
<1>0. items = <<>> /\ stopped = FALSE
  BY DEF Init, startupEvents!Init
<1>1. Len(items) = 0 /\ items \in Seq(StartupEvent)
  BY <1>0, EmptySeq
<1>2. Pending = {} /\ Distinct(items)
  BY <1>1 DEF Pending, Components, Distinct
<1>3. TypeOK
  <2>1. Capacity \in Nat
    BY CapacityAssumption
  <2>2. startupEvents!TypeOK
    <3>1. stopped \in BOOLEAN
      BY <1>0
    <3> QED  BY <1>1, <2>1, <3>1 DEF startupEvents!TypeOK
  <2>3. /\ status \in [Component -> {"waiting", "starting", "ready", "failed", "blocked"}]
        /\ worker \in [Component -> {"none", "starting", "done"}]
        /\ \A c \in Component : worker[c] = "none" <=> status[c] \in {"waiting", "blocked"}
    BY DEF Init
  <2> QED  BY <2>2, <2>3 DEF Init, TypeOK
<1> QED
  BY <1>2, <1>3 DEF Init, Inv, ReportsOnce, DependenciesFirst, DependsOn, OutcomeKept, WhyHere,
     VerdictHonest, startupEvents!Init, Component, TimeoutMutexHeld

LEMMA ReportIsEvent ==
  ASSUME NEW c \in Component
  PROVE  Report(c) \in StartupEvent /\ Report(c).component = c
BY DEF Report, StartupEvent

\* Types of what a worker's report leaves alone.
LEMMA TypesKept ==
  ASSUME TypeOK,
         UNCHANGED <<failedComponents, status, main, event, applicationFailed,
                     degraded, timer, startupFinished, timedOut, verdict>>,
         worker' \in [Component -> {"none", "starting", "done"}],
         \A d \in Component : worker'[d] = "none" <=> status'[d] \in {"waiting", "blocked"},
         startupEvents!TypeOK'
  PROVE  TypeOK'
<1>1. failedComponents' \in Failing
  BY DEF TypeOK
<1>2. status' \in [Component -> {"waiting", "starting", "ready", "failed", "blocked"}]
  BY DEF TypeOK
<1>3. main' \in {"loop", "pop", "popped", "finish", "judge", "return", "exited"}
      /\ event' \in StartupEvent \cup {NoEvent}
  BY DEF TypeOK
<1>4. applicationFailed' \in BOOLEAN /\ degraded' \in BOOLEAN
      /\ startupFinished' \in BOOLEAN /\ timedOut' \in BOOLEAN
  BY DEF TypeOK
<1>5. timer' \in {"waiting", "decided", "stopping", "done"}
      /\ verdict' \in {"none", "TIMED OUT", "FAILED", "READY", "READY (DEGRADED)"}
  BY DEF TypeOK
<1> QED  BY <1>1, <1>2, <1>3, <1>4, <1>5 DEF TypeOK

LEMMA WorkerReportsKeepsInv ==
  ASSUME Inv, NEW c \in Component, WorkerReports(c)
  PROVE  Inv'
<1> USE DEF Inv
<1>1. worker[c] = "starting" /\ status[c] = "starting" /\ c \notin Pending
  BY DEF WorkerReports, ReportsOnce
<1>2. worker' = [worker EXCEPT ![c] = "done"] /\ worker \in [Component -> {"none", "starting", "done"}]
  BY DEF WorkerReports, TypeOK
<1>3. UNCHANGED <<failedComponents, status, main, event, applicationFailed,
                  degraded, timer, startupFinished, timedOut, verdict>>
  BY DEF WorkerReports, timeout
<1>4. /\ worker' \in [Component -> {"none", "starting", "done"}]
      /\ \A d \in Component : worker'[d] = "none" <=> status'[d] \in {"waiting", "blocked"}
  BY <1>1, <1>2, <1>3 DEF TypeOK
<1>5. CASE startupEvents!Push(Report(c))
  <2>1. ~stopped /\ Len(items) < Capacity /\ items' = Append(items, Report(c)) /\ stopped' = stopped
    BY <1>5 DEF startupEvents!Push
  <2>2. items \in Seq(StartupEvent) /\ Len(items) <= Capacity
    BY DEF TypeOK, startupEvents!TypeOK
  <2>3. items' \in Seq(StartupEvent) /\ Len(items') = Len(items) + 1
        /\ Pending' = Pending \cup {c} /\ Distinct(items')
    BY <1>1, <2>1, <2>2, ReportIsEvent, AppendReports DEF Pending, ReportsOnce
  <2>4. TypeOK'
    <3>1. Len(items) \in Nat /\ Len(items') <= Capacity
      BY <2>1, <2>2, <2>3, LenProperties, CapacityAssumption
    <3>2. startupEvents!TypeOK'
      BY <2>1, <2>3, <3>1 DEF TypeOK, startupEvents!TypeOK
    <3> QED  BY <1>3, <1>4, <3>2, TypesKept
  <2>5. ReportsOnce'
    BY <1>1, <1>2, <1>3, <2>1, <2>3 DEF ReportsOnce
  <2> QED
    BY <1>3, <2>1, <2>4, <2>5 DEF DependenciesFirst, OutcomeKept, WhyHere, VerdictHonest,
       allRequiredReady, telemetryFinished, TimeoutMutexHeld
<1>6. CASE startupEvents!Rejects /\ UNCHANGED queue
  <2>1. UNCHANGED <<items, stopped>> /\ Pending' = Pending
    BY <1>6 DEF queue, Pending
  <2>2. TypeOK'
    <3>1. startupEvents!TypeOK'
      BY <2>1 DEF TypeOK, startupEvents!TypeOK
    <3> QED  BY <1>3, <1>4, <3>1, TypesKept
  <2>3. ReportsOnce'
    BY <1>1, <1>2, <1>3, <2>1 DEF ReportsOnce
  <2> QED
    BY <1>3, <2>1, <2>2, <2>3 DEF DependenciesFirst, OutcomeKept, WhyHere, VerdictHonest,
       allRequiredReady, telemetryFinished, TimeoutMutexHeld
<1> QED  BY <1>5, <1>6 DEF WorkerReports

LEMMA LoopConditionKeepsInv ==
  ASSUME Inv, LoopCondition
  PROVE  Inv'
<1> USE DEF Inv, LoopCondition, queue, timeout
<1>1. Pending' = Pending
  BY DEF Pending
<1>2. TypeOK'
  BY DEF TypeOK, startupEvents!TypeOK
<1>3. ReportsOnce'
  BY <1>1 DEF ReportsOnce
<1>4. OutcomeKept' /\ WhyHere'
  BY DEF OutcomeKept, WhyHere, allRequiredReady, telemetryFinished, TimeoutMutexHeld
<1> QED  BY <1>2, <1>3, <1>4 DEF DependenciesFirst, VerdictHonest

LEMMA PopEventKeepsInv ==
  ASSUME Inv, PopEvent
  PROVE  Inv'
<1> USE DEF Inv
<1>1. UNCHANGED <<failedComponents, status, worker, applicationFailed, degraded,
                  timer, startupFinished, timedOut, verdict>> /\ main' = "popped" /\ main = "pop"
  BY DEF PopEvent, timeout
<1>2. CASE \E e \in StartupEvent : startupEvents!Pop(e) /\ event' = e
  <2>1. items # <<>> /\ event' = Head(items) /\ items' = Tail(items) /\ stopped' = stopped
    BY <1>2 DEF startupEvents!Pop
  <2>2. items \in Seq(StartupEvent) /\ Distinct(items) /\ Len(items) <= Capacity
    BY DEF TypeOK, startupEvents!TypeOK, ReportsOnce
  <2>3. /\ event' \in StartupEvent /\ event'.component \in Pending
        /\ items' \in Seq(StartupEvent) /\ Len(items') = Len(items) - 1
        /\ Pending' = Pending \ {event'.component} /\ Distinct(items')
    BY <2>1, <2>2, TailReports DEF Pending
  <2>4. event' # NoEvent
    BY <2>3, NoEventAssumption
  <2>5. TypeOK'
    <3>1. Len(items) \in Nat /\ Len(items') <= Capacity
      BY <2>2, <2>3, LenProperties, CapacityAssumption
    <3> QED  BY <1>1, <2>1, <2>3, <3>1 DEF TypeOK, startupEvents!TypeOK
  <2>6. ReportsOnce'
    BY <1>1, <2>3, <2>4 DEF ReportsOnce
  <2>7. OutcomeKept' /\ WhyHere'
    BY <1>1, <2>1, <2>4 DEF OutcomeKept, WhyHere, allRequiredReady, telemetryFinished, TimeoutMutexHeld
  <2> QED  BY <1>1, <2>5, <2>6, <2>7 DEF DependenciesFirst, VerdictHonest
<1>3. CASE startupEvents!Drained /\ event' = NoEvent /\ UNCHANGED queue
  <2>1. UNCHANGED <<items, stopped>> /\ Pending' = Pending /\ stopped /\ event' = NoEvent
    BY <1>3 DEF queue, Pending, startupEvents!Drained
  <2>2. TypeOK'
    BY <1>1, <2>1 DEF TypeOK, startupEvents!TypeOK
  <2>3. ReportsOnce'
    BY <1>1, <2>1 DEF ReportsOnce
  <2>4. OutcomeKept' /\ WhyHere'
    BY <1>1, <2>1 DEF OutcomeKept, WhyHere, allRequiredReady, telemetryFinished, TimeoutMutexHeld
  <2> QED  BY <1>1, <2>2, <2>3, <2>4 DEF DependenciesFirst, VerdictHonest
<1> QED  BY <1>2, <1>3 DEF PopEvent

LEMMA LeaveLoopKeepsInv ==
  ASSUME Inv, LeaveLoop
  PROVE  Inv'
<1> USE DEF Inv, LeaveLoop, queue, timeout
<1>1. Pending' = Pending
  BY DEF Pending
<1>2. TypeOK'
  BY DEF TypeOK, startupEvents!TypeOK
<1>3. ReportsOnce'
  BY <1>1 DEF ReportsOnce
<1>4. OutcomeKept' /\ WhyHere'
  BY DEF OutcomeKept, WhyHere, allRequiredReady, telemetryFinished, TimeoutMutexHeld
<1> QED  BY <1>2, <1>3, <1>4 DEF DependenciesFirst, VerdictHonest

\* What main has in hand when it handles an event.
LEMMA EventInHand ==
  ASSUME Inv, NEW state, HasEvent(state)
  PROVE  /\ event \in StartupEvent /\ event.component \in Component /\ event.state = state
         /\ main = "popped" /\ ~timedOut /\ ~applicationFailed
         /\ status[event.component] = "starting" /\ worker[event.component] = "done"
         /\ event.component \notin Pending
<1> USE DEF Inv
<1>1. main = "popped" /\ ~timedOut /\ event # NoEvent /\ event.state = state
  BY DEF HasEvent
<1>2. event \in StartupEvent
  BY <1>1 DEF TypeOK
<1>3. event.component \in Component
  BY <1>2 DEF StartupEvent
<1> QED  BY <1>1, <1>2, <1>3 DEF ReportsOnce, OutcomeKept

LEMMA PendingComponents ==
  ASSUME TypeOK
  PROVE  Pending \subseteq Component
<1>1. items \in Seq(StartupEvent)
  BY DEF TypeOK, startupEvents!TypeOK
<1>2. \A i \in 1..Len(items) : items[i] \in StartupEvent
  BY <1>1, ElementOfSeq
<1>3. \A e \in StartupEvent : e.component \in Component
  BY DEF StartupEvent
<1> QED  BY <1>2, <1>3 DEF Pending, Components

LEMMA HandleFailedKeepsInv ==
  ASSUME Inv, HandleFailed
  PROVE  Inv'
<1> USE DEF Inv
<1> DEFINE f == event.component
           failed == [status EXCEPT ![f] = "failed"]
<1>1. /\ f \in Component /\ status[f] = "starting" /\ worker[f] = "done" /\ f \notin Pending
      /\ main = "popped" /\ ~timedOut /\ ~applicationFailed
  BY EventInHand DEF HandleFailed
<1>2. UNCHANGED <<failedComponents, worker, timer, startupFinished, timedOut, verdict>>
      /\ main' = "loop" /\ event' = NoEvent /\ UNCHANGED items
  BY DEF HandleFailed, timeout, queue, startupEvents!Stop
<1>3. status \in [Component -> {"waiting", "starting", "ready", "failed", "blocked"}]
      /\ \A c \in Component : worker[c] = "none" <=> status[c] \in {"waiting", "blocked"}
  BY DEF TypeOK
<1>4. Pending' = Pending /\ Pending \subseteq Component
  BY <1>2, PendingComponents DEF Pending
<1>5. CASE f \in Required
  <2>1. applicationFailed' = TRUE /\ stopped' = TRUE /\ degraded' = degraded
        /\ status' = blockWaitingComponents(failed)
    BY <1>5 DEF HandleFailed, startupEvents!Stop
  <2>2. status' = [c \in Component |-> IF c = f THEN "failed"
                                       ELSE IF status[c] = "waiting" THEN "blocked" ELSE status[c]]
    BY <1>1, <1>3, <2>1 DEF blockWaitingComponents
  <2>3. TypeOK'
    BY <1>1, <1>2, <1>3, <2>1, <2>2 DEF TypeOK, startupEvents!TypeOK
  <2>4. ReportsOnce'
    BY <1>1, <1>2, <1>3, <1>4, <2>2 DEF ReportsOnce
  <2>5. DependenciesFirst'
    <3>1. \A c \in DOMAIN DependsOn : c \in Component /\ DependsOn[c] \in Component
      BY DEF DependsOn, Component
    <3> QED  BY <1>1, <1>5, <2>2, <3>1 DEF DependenciesFirst, Required
  <2>6. OutcomeKept'
    BY <1>1, <1>2, <1>5, <2>1, <2>2 DEF OutcomeKept, Required, Component
  <2> QED
    BY <1>1, <1>2, <2>1, <2>3, <2>4, <2>5, <2>6 DEF WhyHere, VerdictHonest, TimeoutMutexHeld
<1>6. CASE f \notin Required
  <2>1. UNCHANGED <<applicationFailed, stopped>> /\ degraded' = TRUE /\ status' = failed
    BY <1>6 DEF HandleFailed, queue
  <2>2. f = "telemetry" /\ status' = [status EXCEPT !["telemetry"] = "failed"]
    BY <1>1, <1>6, <2>1 DEF Required
  <2>3. TypeOK'
    BY <1>1, <1>2, <1>3, <2>1 DEF TypeOK, startupEvents!TypeOK
  <2>4. ReportsOnce'
    BY <1>1, <1>2, <1>3, <1>4, <2>1 DEF ReportsOnce
  <2>5. DependenciesFirst'
    BY <1>1, <1>3, <2>2 DEF DependenciesFirst, DependsOn, Required, Component
  <2>6. OutcomeKept'
    BY <1>1, <1>2, <1>3, <2>1, <2>2 DEF OutcomeKept, Component
  <2> QED
    BY <1>1, <1>2, <2>1, <2>3, <2>4, <2>5, <2>6 DEF WhyHere, VerdictHonest, TimeoutMutexHeld
<1> QED  BY <1>5, <1>6

LEMMA HandleReadyKeepsInv ==
  ASSUME Inv, HandleReady
  PROVE  Inv'
<1> USE DEF Inv
<1> DEFINE r == event.component
           started == StartedBy(r)
<1>1. /\ r \in Component /\ status[r] = "starting" /\ worker[r] = "done" /\ r \notin Pending
      /\ main = "popped" /\ ~timedOut /\ ~applicationFailed
  BY EventInHand DEF HandleReady
<1>2. UNCHANGED <<failedComponents, items, stopped, applicationFailed, degraded,
                  timer, startupFinished, timedOut, verdict>>
      /\ main' = "loop" /\ event' = NoEvent
  BY DEF HandleReady, timeout, queue
<1>3. status \in [Component -> {"waiting", "starting", "ready", "failed", "blocked"}]
      /\ worker \in [Component -> {"none", "starting", "done"}]
      /\ \A c \in Component : worker[c] = "none" <=> status[c] \in {"waiting", "blocked"}
  BY DEF TypeOK
<1>4. Pending' = Pending /\ Pending \subseteq Component
  BY <1>2, PendingComponents DEF Pending
<1>5. \A c \in DOMAIN DependsOn : c \in Component /\ DependsOn[c] \in Component /\ DependsOn[c] # c
                                  /\ (c \in started <=> DependsOn[c] = r)
  BY <1>1 DEF DependsOn, StartedBy, Component
<1>6. started \subseteq DOMAIN DependsOn /\ r \notin started
  BY <1>1 DEF DependsOn, StartedBy, Component
<1>7. \A c \in started : status[c] \in {"waiting", "blocked"} /\ worker[c] = "none"
  BY <1>1, <1>3, <1>5, <1>6 DEF DependenciesFirst
<1>8. /\ status' = [c \in Component |-> CASE c = r -> "ready" [] c \in started -> "starting"
                                           [] OTHER -> status[c]]
      /\ worker' = [c \in Component |-> IF c \in started THEN "starting" ELSE worker[c]]
  BY DEF HandleReady
<1>9. /\ status'[r] = "ready" /\ worker'[r] = worker[r]
      /\ \A c \in started : status'[c] = "starting" /\ worker'[c] = "starting"
      /\ \A c \in Component : c # r /\ c \notin started => status'[c] = status[c] /\ worker'[c] = worker[c]
  BY <1>1, <1>5, <1>6, <1>8
<1>10. /\ status' \in [Component -> {"waiting", "starting", "ready", "failed", "blocked"}]
       /\ worker' \in [Component -> {"none", "starting", "done"}]
  BY <1>3, <1>8
<1>11. TypeOK'
  BY <1>1, <1>2, <1>3, <1>9, <1>10 DEF TypeOK, startupEvents!TypeOK
<1>12. ReportsOnce'
  <2>1. ASSUME NEW c \in Component, worker'[c] = "starting"
        PROVE  status'[c] = "starting" /\ c \notin Pending'
    BY <1>1, <1>4, <1>7, <1>9, <2>1 DEF ReportsOnce
  <2>2. ASSUME NEW c \in Pending
        PROVE  status'[c] = "starting" /\ worker'[c] = "done"
    <3>1. c # r /\ c \notin started
      BY <1>1, <1>7 DEF ReportsOnce
    <3> QED  BY <1>4, <1>9, <3>1 DEF ReportsOnce
  <2> QED  BY <1>2, <1>4, <2>1, <2>2 DEF ReportsOnce
<1>13. DependenciesFirst'
  <2>1. ASSUME NEW c \in DOMAIN DependsOn, status'[c] \in {"starting", "ready", "failed"}
        PROVE  status'[DependsOn[c]] = "ready"
    BY <1>1, <1>5, <1>7, <1>9, <2>1 DEF DependenciesFirst
  <2>2. ASSUME NEW c \in Component, status'[c] = "blocked"
        PROVE  \E d \in Required : status'[d] = "failed"
    <3>1. status[c] = "blocked"
      BY <1>9, <2>2
    <3>2. PICK d \in Required : status[d] = "failed"
      BY <3>1 DEF DependenciesFirst
    <3> QED  BY <1>1, <1>7, <1>9, <3>2 DEF Required
  <2> QED  BY <2>1, <2>2 DEF DependenciesFirst
<1>14. OutcomeKept'
  <2>1. degraded <=> status["telemetry"] = "failed"
    BY DEF OutcomeKept
  <2>2. "telemetry" \in Component
    BY DEF Component
  <2> QED  BY <1>1, <1>2, <1>7, <1>9, <2>1, <2>2 DEF OutcomeKept
<1> QED
  BY <1>1, <1>2, <1>11, <1>12, <1>13, <1>14 DEF WhyHere, VerdictHonest, TimeoutMutexHeld

LEMMA FinishKeepsInv ==
  ASSUME Inv, Finish
  PROVE  Inv'
<1> USE DEF Inv, Finish, queue
<1>1. Pending' = Pending
  BY DEF Pending
<1>2. TypeOK'
  BY DEF TypeOK, startupEvents!TypeOK
<1>3. ReportsOnce'
  BY <1>1 DEF ReportsOnce
<1>4. OutcomeKept' /\ WhyHere'
  BY DEF OutcomeKept, WhyHere, allRequiredReady, telemetryFinished, TimeoutMutexHeld
<1> QED  BY <1>2, <1>3, <1>4 DEF DependenciesFirst, VerdictHonest

\* The only step that gives a verdict.
LEMMA JudgeKeepsInv ==
  ASSUME Inv, Judge
  PROVE  Inv'
<1> USE DEF Inv
<1>1. /\ main = "judge" /\ main' = "return" /\ stopped' = TRUE
      /\ UNCHANGED <<failedComponents, status, worker, items, event, applicationFailed,
                     degraded, timer, startupFinished, timedOut>>
  BY DEF Judge, startupEvents!Stop, timeout
<1>2. Pending' = Pending
  BY <1>1 DEF Pending
<1>3. verdict' = CASE timedOut -> "TIMED OUT"
                   [] ~timedOut /\ applicationFailed -> "FAILED"
                   [] ~timedOut /\ ~applicationFailed /\ degraded -> "READY (DEGRADED)"
                   [] OTHER -> "READY"
  BY DEF Judge
<1>4. \/ timedOut /\ verdict' = "TIMED OUT"
      \/ ~timedOut /\ applicationFailed /\ verdict' = "FAILED"
      \/ ~timedOut /\ ~applicationFailed /\ degraded /\ verdict' = "READY (DEGRADED)"
      \/ ~timedOut /\ ~applicationFailed /\ ~degraded /\ verdict' = "READY"
  BY <1>3
<1>5. TypeOK'
  BY <1>1, <1>4 DEF TypeOK, startupEvents!TypeOK
<1>6. ReportsOnce'
  BY <1>1, <1>2 DEF ReportsOnce
<1>7. OutcomeKept' /\ WhyHere' /\ DependenciesFirst'
  BY <1>1 DEF OutcomeKept, WhyHere, DependenciesFirst, allRequiredReady, telemetryFinished,
     TimeoutMutexHeld
<1>8. VerdictHonest'
  <2>1. timedOut \/ applicationFailed \/ (allRequiredReady /\ telemetryFinished)
    BY <1>1 DEF WhyHere
  <2>2. ASSUME allRequiredReady, telemetryFinished
        PROVE  status["telemetry"] = IF degraded THEN "failed" ELSE "ready"
    <3>1. status["telemetry"] # "blocked"
      BY <2>2 DEF allRequiredReady, DependenciesFirst, Component
    <3> QED  BY <2>2, <3>1 DEF telemetryFinished, OutcomeKept
  <2>3. applicationFailed => /\ \E c \in Required : status[c] = "failed"
                             /\ \A c \in Component : status[c] # "waiting"
    BY DEF OutcomeKept
  <2> QED  BY <1>1, <1>4, <2>1, <2>2, <2>3 DEF VerdictHonest, allRequiredReady
<1> QED  BY <1>5, <1>6, <1>7, <1>8

LEMMA ReturnKeepsInv ==
  ASSUME Inv, Return
  PROVE  Inv'
<1> USE DEF Inv, Return, queue, timeout
<1>1. Pending' = Pending
  BY DEF Pending
<1>2. TypeOK'
  BY DEF TypeOK, startupEvents!TypeOK
<1>3. ReportsOnce'
  BY <1>1 DEF ReportsOnce
<1>4. OutcomeKept' /\ WhyHere'
  BY DEF OutcomeKept, WhyHere, allRequiredReady, telemetryFinished, TimeoutMutexHeld
<1> QED  BY <1>2, <1>3, <1>4 DEF DependenciesFirst, VerdictHonest

\* The timeout thread touches nothing but the flag timedOut and the queue's, and not
\* after startup is finished.
LEMMA TimerKeepsInv ==
  ASSUME Inv, TimerStep \/ TimeoutStrikes
  PROVE  Inv'
<1> USE DEF Inv
<1>1. UNCHANGED <<failedComponents, status, worker, items, main, event, applicationFailed,
                  degraded, startupFinished, verdict>>
  BY DEF TimerStep, TimeoutThreadEnds, TimeoutStrikes, SetTimedOut, TimeoutStops, queue,
         startupEvents!Stop
<1>2. \/ timer = "waiting" /\ startupFinished /\ timer' = "done" /\ UNCHANGED <<stopped, timedOut>>
      \/ timer = "waiting" /\ ~startupFinished /\ timer' = "decided" /\ UNCHANGED <<stopped, timedOut>>
      \/ timer = "decided" /\ timer' = "stopping" /\ timedOut' = TRUE /\ UNCHANGED stopped
      \/ timer = "stopping" /\ timer' = "done" /\ stopped' = TRUE /\ UNCHANGED timedOut
  BY DEF TimerStep, TimeoutThreadEnds, TimeoutStrikes, SetTimedOut, TimeoutStops, queue,
         startupEvents!Stop
<1>3. Pending' = Pending
  BY <1>1 DEF Pending
<1>4. TypeOK'
  <2>1. TypeOK
    OBVIOUS
  <2> HIDE DEF Inv
  <2>2. timer' \in {"waiting", "decided", "stopping", "done"}
        /\ stopped' \in BOOLEAN /\ timedOut' \in BOOLEAN
    BY <1>2, <2>1 DEF TypeOK, startupEvents!TypeOK
  <2> QED  BY <1>1, <2>1, <2>2 DEF TypeOK, startupEvents!TypeOK
<1>5. ReportsOnce'
  BY <1>1, <1>3 DEF ReportsOnce
<1>6. OutcomeKept' /\ DependenciesFirst'
  BY <1>1 DEF OutcomeKept, DependenciesFirst
<1>7. WhyHere'
  BY <1>1, <1>2 DEF WhyHere, allRequiredReady, telemetryFinished, TimeoutMutexHeld
<1>8. VerdictHonest'
  <2>1. verdict # "none" => timedOut' = timedOut
    BY <1>1, <1>2 DEF WhyHere, TimeoutMutexHeld
  <2>2. timedOut \in BOOLEAN /\ timedOut' \in BOOLEAN
    BY <1>4 DEF TypeOK
  <2>3. CASE verdict = "none"
    BY <1>1, <2>3 DEF VerdictHonest
  <2>4. CASE verdict # "none"
    BY <1>1, <2>1, <2>2, <2>4 DEF VerdictHonest
  <2> QED  BY <2>3, <2>4
<1> QED  BY <1>4, <1>5, <1>6, <1>7, <1>8

LEMMA StutterKeepsInv ==
  ASSUME Inv, UNCHANGED vars
  PROVE  Inv'
<1> USE DEF vars, queue, timeout, Inv
<1>1. Pending' = Pending
  BY DEF Pending
<1>2. ReportsOnce' /\ DependenciesFirst' /\ OutcomeKept'
  BY <1>1 DEF ReportsOnce, DependenciesFirst, OutcomeKept
<1>3. WhyHere' /\ VerdictHonest'
  BY DEF WhyHere, VerdictHonest, allRequiredReady, telemetryFinished, TimeoutMutexHeld
<1>4. TypeOK'
  <2>1. /\ worker' \in [Component -> {"none", "starting", "done"}]
        /\ \A d \in Component : worker'[d] = "none" <=> status'[d] \in {"waiting", "blocked"}
    BY DEF TypeOK
  <2>2. startupEvents!TypeOK'
    BY DEF TypeOK, startupEvents!TypeOK
  <2> QED  BY <2>1, <2>2, TypesKept
<1> QED  BY <1>2, <1>3, <1>4

LEMMA NextKeepsInv == Inv /\ [Next]_vars => Inv'
<1> SUFFICES ASSUME Inv, [Next]_vars  PROVE Inv'
  OBVIOUS
<1>1. CASE \E c \in Component : WorkerReports(c)
  BY <1>1, WorkerReportsKeepsInv
<1>2. CASE MainStep
  BY <1>2, LoopConditionKeepsInv, PopEventKeepsInv, LeaveLoopKeepsInv, HandleFailedKeepsInv,
     HandleReadyKeepsInv, FinishKeepsInv, JudgeKeepsInv, ReturnKeepsInv DEF MainStep
<1>3. CASE TimerStep \/ TimeoutStrikes
  BY <1>3, TimerKeepsInv
<1>4. CASE Terminated \/ UNCHANGED vars
  BY <1>4, StutterKeepsInv DEF Terminated
<1> QED  BY <1>1, <1>2, <1>3, <1>4 DEF Next

\* The inductive invariant holds in every behaviour.
THEOREM Invariance == Spec => []Inv
BY InitEstablishesInv, NextKeepsInv, PTL DEF Spec

\* Every variable has its type; in particular there is a thread for each component
\* main has started, and the queue never holds more than its capacity.
THEOREM TypeCorrect == Spec => []TypeOK
<1>1. Inv => TypeOK
  BY DEF Inv
<1> QED  BY <1>1, Invariance, PTL

\* A component is started only when all it depends on is ready, whatever order the
\* reports come in (main.cpp:326-345).
THEOREM DependenciesComeFirst == Spec => []DependenciesFirst
<1>1. Inv => DependenciesFirst
  BY DEF Inv
<1> QED  BY <1>1, Invariance, PTL

\* The verdict main prints is right and stays right, also when the timeout strikes
\* while main is leaving its loop (main.cpp:256-275, 302-390).
THEOREM VerdictIsHonest == Spec => []VerdictHonest
<1>1. Inv => VerdictHonest
  BY DEF Inv
<1> QED  BY <1>1, Invariance, PTL
================================================================================
