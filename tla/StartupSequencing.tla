-------------------------- MODULE StartupSequencing --------------------------
(****************************************************************************)
(* The startup lab of Chapter 13.  main starts the components along their   *)
(* dependencies; each one starts in a worker thread of its own and reports  *)
(* READY or FAILED through a BoundedQueue.  A timeout thread stops the      *)
(* queue when startup takes too long.                                       *)
(*                                                                          *)
(* The queue is QueueSpec, which BoundedQueue implements.  The timeout      *)
(* thread holds timeoutMutex from the moment its wait ends to the end of    *)
(* the thread.  Time is left out: a component takes any time to start, and  *)
(* the timeout may strike at any moment.                                    *)
(****************************************************************************)
EXTENDS Naturals, Sequences, FiniteSets

CONSTANTS Failing,     \* the sets of components --fail_component may name
          Capacity,    \* StartupQueueCapacity
          NoEvent      \* an empty std::optional

Component == {"configuration", "sensor", "calibration", "processing", "telemetry"}
Required == Component \ {"telemetry"}

ASSUME FailingAssumption == Failing \subseteq SUBSET Component
ASSUME CapacityAssumption == Capacity \in Nat /\ Capacity >= Cardinality(Component)

StartupEvent == [component : Component, state : {"ready", "failed"}]
ASSUME NoEventAssumption == NoEvent \notin StartupEvent

VARIABLES
    failedComponents,   \* the components told to fail
    status,             \* status[c]: ComponentStatus as main knows it
    worker,             \* worker[c]: the thread that starts c
    items, stopped,     \* startupEvents
    main,               \* where main is
    event,              \* what main has popped
    applicationFailed, degraded,
    timer,              \* where the timeout thread is
    startupFinished, timedOut,
    verdict             \* what main has printed

queue == <<items, stopped>>
timeout == <<timer, startupFinished, timedOut>>
vars == <<failedComponents, status, worker, queue, main, event,
          applicationFailed, degraded, timeout, verdict>>

startupEvents == INSTANCE QueueSpec WITH Item <- StartupEvent

TypeOK ==
    /\ failedComponents \in Failing
    /\ status \in [Component -> {"waiting", "starting", "ready", "failed", "blocked"}]
    /\ worker \in [Component -> {"none", "starting", "done"}]
    /\ \A c \in Component :      \* a thread for each component main has started
         worker[c] = "none" <=> status[c] \in {"waiting", "blocked"}
    /\ startupEvents!TypeOK
    /\ main \in {"loop", "pop", "popped", "finish", "judge", "return", "exited"}
    /\ event \in StartupEvent \cup {NoEvent}
    /\ applicationFailed \in BOOLEAN /\ degraded \in BOOLEAN
    /\ timer \in {"waiting", "decided", "stopping", "done"}
    /\ startupFinished \in BOOLEAN /\ timedOut \in BOOLEAN
    /\ verdict \in {"none", "TIMED OUT", "FAILED", "READY", "READY (DEGRADED)"}

Init ==
    /\ failedComponents \in Failing
    /\ status = [c \in Component |-> IF c = "configuration" THEN "starting" ELSE "waiting"]
    /\ worker = [c \in Component |-> IF c = "configuration" THEN "starting" ELSE "none"]
    /\ startupEvents!Init
    /\ main = "loop" /\ event = NoEvent
    /\ applicationFailed = FALSE /\ degraded = FALSE
    /\ timer = "waiting" /\ startupFinished = FALSE /\ timedOut = FALSE
    /\ verdict = "none"

--------------------------------------------------------------------------------
(* A worker thread *)

Report(c) == [component |-> c,
              state |-> IF c \in failedComponents THEN "failed" ELSE "ready"]

\* push; its result is ignored
WorkerReports(c) ==
    /\ worker[c] = "starting"
    /\ \/ startupEvents!Push(Report(c))
       \/ startupEvents!Rejects /\ UNCHANGED queue
    /\ worker' = [worker EXCEPT ![c] = "done"]
    /\ UNCHANGED <<failedComponents, status, main, event, applicationFailed,
                   degraded, timeout, verdict>>

--------------------------------------------------------------------------------
(* The main thread *)

allRequiredReady == \A c \in Required : status[c] = "ready"

\* Mutant: telemetry has to be ready for startup to be over.
telemetryFinished_Ready == status["telemetry"] = "ready"

telemetryFinished == status["telemetry"] \in {"ready", "failed", "blocked"}

LoopCondition ==
    /\ main = "loop"
    /\ main' = IF applicationFailed \/ (allRequiredReady /\ telemetryFinished)
                 THEN "finish" ELSE "pop"
    /\ UNCHANGED <<failedComponents, status, worker, queue, event,
                   applicationFailed, degraded, timeout, verdict>>

\* pop: an event, or nullopt
PopEvent ==
    /\ main = "pop"
    /\ \/ \E e \in StartupEvent : startupEvents!Pop(e) /\ event' = e
       \/ startupEvents!Drained /\ event' = NoEvent /\ UNCHANGED queue
    /\ main' = "popped"
    /\ UNCHANGED <<failedComponents, status, worker, applicationFailed,
                   degraded, timeout, verdict>>

\* timedOut is looked at after the pop: an event in hand is dropped
LeaveLoop ==
    /\ main = "popped" /\ (timedOut \/ event = NoEvent)
    /\ main' = "finish"
    /\ event' = NoEvent
    /\ UNCHANGED <<failedComponents, status, worker, queue, applicationFailed,
                   degraded, timeout, verdict>>

HasEvent(state) ==
    main = "popped" /\ ~timedOut /\ event # NoEvent /\ event.state = state

\* Mutant: the components that wait are left as they are.
blockWaitingComponents_Not(s) == s

blockWaitingComponents(s) ==
    [c \in Component |-> IF s[c] = "waiting" THEN "blocked" ELSE s[c]]

HandleFailed ==
    /\ HasEvent("failed")
    /\ LET failed == [status EXCEPT ![event.component] = "failed"] IN
         IF event.component \in Required
           THEN /\ applicationFailed' = TRUE
                /\ status' = blockWaitingComponents(failed)
                /\ startupEvents!Stop
                /\ UNCHANGED degraded
           ELSE /\ status' = failed
                /\ degraded' = TRUE
                /\ UNCHANGED <<applicationFailed, queue>>
    /\ main' = "loop" /\ event' = NoEvent
    /\ UNCHANGED <<failedComponents, worker, timeout, verdict>>

\* Mutant: calibration does not wait for the sensor.
StartedBy_TooEarly(c) == CASE c = "configuration" -> {"sensor", "telemetry", "calibration"}
                           [] c = "calibration" -> {"processing"}
                           [] OTHER -> {}

StartedBy(c) == CASE c = "configuration" -> {"sensor", "telemetry"}
                  [] c = "sensor" -> {"calibration"}
                  [] c = "calibration" -> {"processing"}
                  [] OTHER -> {}

\* the component is ready, and what depends on it is started
HandleReady ==
    /\ HasEvent("ready")
    /\ LET started == StartedBy(event.component) IN
         /\ status' = [c \in Component |-> CASE c = event.component -> "ready"
                                             [] c \in started -> "starting"
                                             [] OTHER -> status[c]]
         /\ worker' = [c \in Component |-> IF c \in started THEN "starting" ELSE worker[c]]
    /\ main' = "loop" /\ event' = NoEvent
    /\ UNCHANGED <<failedComponents, queue, applicationFailed, degraded, timeout, verdict>>

\* Mutant: the timeout thread lets go of the mutex before it sets timedOut.
TimeoutMutexHeld_Early == timer = "stopping"

TimeoutMutexHeld == timer \in {"decided", "stopping"}

Finish ==
    /\ main = "finish" /\ ~TimeoutMutexHeld
    /\ startupFinished' = TRUE
    /\ main' = "judge"
    /\ UNCHANGED <<failedComponents, status, worker, queue, event,
                   applicationFailed, degraded, timer, timedOut, verdict>>

\* stop the queue and print the outcome
Judge ==
    /\ main = "judge"
    /\ startupEvents!Stop
    /\ verdict' = CASE timedOut -> "TIMED OUT"
                    [] ~timedOut /\ applicationFailed -> "FAILED"
                    [] ~timedOut /\ ~applicationFailed /\ degraded -> "READY (DEGRADED)"
                    [] OTHER -> "READY"
    /\ main' = "return"
    /\ UNCHANGED <<failedComponents, status, worker, event, applicationFailed,
                   degraded, timeout>>

\* the destructors of the jthreads join them
Return ==
    /\ main = "return"
    /\ timer = "done" /\ \A c \in Component : worker[c] # "starting"
    /\ main' = "exited"
    /\ UNCHANGED <<failedComponents, status, worker, queue, event,
                   applicationFailed, degraded, timeout, verdict>>

--------------------------------------------------------------------------------
(* The timeout thread *)

\* wait_for returns true
TimeoutThreadEnds ==
    /\ timer = "waiting" /\ startupFinished
    /\ timer' = "done"
    /\ UNCHANGED <<failedComponents, status, worker, queue, main, event,
                   applicationFailed, degraded, startupFinished, timedOut, verdict>>

\* wait_for returns false, with the mutex locked again
TimeoutStrikes ==
    /\ timer = "waiting" /\ ~startupFinished
    /\ timer' = "decided"
    /\ UNCHANGED <<failedComponents, status, worker, queue, main, event,
                   applicationFailed, degraded, startupFinished, timedOut, verdict>>

SetTimedOut ==
    /\ timer = "decided"
    /\ timedOut' = TRUE
    /\ timer' = "stopping"
    /\ UNCHANGED <<failedComponents, status, worker, queue, main, event,
                   applicationFailed, degraded, startupFinished, verdict>>

TimeoutStops ==
    /\ timer = "stopping"
    /\ startupEvents!Stop
    /\ timer' = "done"
    /\ UNCHANGED <<failedComponents, status, worker, main, event,
                   applicationFailed, degraded, startupFinished, timedOut, verdict>>

--------------------------------------------------------------------------------
MainStep == \/ LoopCondition \/ PopEvent \/ LeaveLoop \/ HandleFailed \/ HandleReady
            \/ Finish \/ Judge \/ Return

TimerStep == TimeoutThreadEnds \/ SetTimedOut \/ TimeoutStops

Terminated == main = "exited" /\ UNCHANGED vars

Next ==
    \/ \E c \in Component : WorkerReports(c)
    \/ MainStep \/ TimerStep \/ TimeoutStrikes \/ Terminated

\* Threads run; the timeout need never strike.
Fairness ==
    /\ \A c \in Component : WF_vars(WorkerReports(c))
    /\ WF_vars(MainStep) /\ WF_vars(TimerStep)

Spec == Init /\ [][Next]_vars /\ Fairness

--------------------------------------------------------------------------------
(* Properties. *)

DependsOn == [sensor |-> "configuration", telemetry |-> "configuration",
              calibration |-> "sensor", processing |-> "calibration"]

\* A component has been started only if everything it depends on, directly or
\* not, is ready; and one is blocked only if a required component has failed.
DependenciesFirst ==
    /\ \A c \in DOMAIN DependsOn :
         status[c] \in {"starting", "ready", "failed"} => status[DependsOn[c]] = "ready"
    /\ \A c \in Component : status[c] = "blocked" =>
         \E d \in Required : status[d] = "failed"

\* The verdict is right and stays right, whatever the timeout thread and late
\* workers still do: READY only if every required component is and the timeout
\* has not struck, DEGRADED exactly if telemetry failed, FAILED only if a
\* required component failed and nothing is left waiting.
VerdictHonest ==
    /\ verdict \in {"READY", "READY (DEGRADED)"} =>
         /\ ~timedOut /\ \A c \in Required : status[c] = "ready"
         /\ status["telemetry"] =
              IF verdict = "READY" THEN "ready" ELSE "failed"
    /\ verdict = "FAILED" =>
         /\ ~timedOut /\ \E c \in Required : status[c] = "failed"
         /\ \A c \in Component : status[c] # "waiting"
    /\ verdict = "TIMED OUT" => timedOut

\* Startup comes to an end, with every thread joined, even if the timeout never
\* strikes: each component that was started reports, and main hears it.
StartupEnds == <>(main = "exited")
================================================================================
