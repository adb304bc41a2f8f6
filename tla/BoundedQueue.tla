----------------------------- MODULE BoundedQueue -----------------------------
(****************************************************************************)
(* Common/include/BoundedQueue.h: a ring buffer behind a mutex and two      *)
(* condition variables.                                                     *)
(*                                                                          *)
(* A critical section runs under mMutex from its lock() to its unlock(), or *)
(* to the wait that releases the mutex, and is one action here.  The        *)
(* notifications are sent after the unlock and are steps of their own:      *)
(* other threads run in between.  condition_variable::wait is a set of      *)
(* waiters; a thread leaves it when it is notified or spuriously, and then  *)
(* competes for the mutex like a thread that has just made the call.        *)
(*                                                                          *)
(* What a call returns is told by the action that ends it: Push is true,    *)
(* PushRejected false, Pop the item it extracts, PopDrained std::nullopt.   *)
(****************************************************************************)
EXTENDS Integers, FiniteSets

CONSTANTS Threads, Item, Capacity,
          None             \* an empty std::optional

ASSUME CapacityAssumption == Capacity \in Nat \ {0}
ASSUME ThreadsAssumption == IsFiniteSet(Threads)
ASSUME NoneAssumption == None \notin Item

VARIABLES
    storage, readIndex, writeIndex, size, stopped,   \* the data members
    pc,          \* pc[t]: where thread t is inside the queue
    arg          \* arg[t]: the item t is pushing, None outside push

data == <<storage, readIndex, writeIndex, size, stopped>>
vars == <<storage, readIndex, writeIndex, size, stopped, pc, arg>>

Indexes == 0..(Capacity - 1)

\* "push" and "pop": about to lock the mutex, for the first time or after a
\* wait.  "stopEmpty" and "stopFull": stop() before each of its notify_all.
Places == {"idle", "push", "waitNotFull", "notifyNotEmpty",
           "pop", "waitNotEmpty", "notifyNotFull", "stopEmpty", "stopFull"}

TypeOK ==
    /\ storage \in [Indexes -> Item \cup {None}]
    /\ readIndex \in Indexes /\ writeIndex \in Indexes
    /\ size \in 0..Capacity
    /\ stopped \in BOOLEAN
    /\ pc \in [Threads -> Places]
    /\ arg \in [Threads -> Item \cup {None}]

Init ==
    /\ storage = [k \in Indexes |-> None]
    /\ readIndex = 0 /\ writeIndex = 0 /\ size = 0
    /\ stopped = FALSE
    /\ pc = [t \in Threads |-> "idle"]
    /\ arg = [t \in Threads |-> None]

nextIndex(index) == (index + 1) % Capacity

Goto(t, place) == pc' = [pc EXCEPT ![t] = place]

At(place) == {t \in Threads : pc[t] = place}

--------------------------------------------------------------------------------
(* push and tryPush *)

CallPush(t, i) ==
    /\ pc[t] = "idle"
    /\ Goto(t, "push")
    /\ arg' = [arg EXCEPT ![t] = i]
    /\ UNCHANGED data

\* mStorage[mWriteIndex].emplace(item)
Emplace(i) ==
    /\ storage' = [storage EXCEPT ![writeIndex] = i]
    /\ writeIndex' = nextIndex(writeIndex)
    /\ size' = size + 1
    /\ UNCHANGED <<readIndex, stopped>>

\* Mutant: a thread that wakes up does not test the predicate again.
Push_NoRecheck(t) ==
    /\ pc[t] = "push"
    /\ ~stopped
    /\ Emplace(arg[t])
    /\ Goto(t, "notifyNotEmpty")
    /\ arg' = [arg EXCEPT ![t] = None]

Push(t) ==
    /\ pc[t] = "push"
    /\ ~stopped /\ size < Capacity
    /\ Emplace(arg[t])
    /\ Goto(t, "notifyNotEmpty")
    /\ arg' = [arg EXCEPT ![t] = None]

PushBlocks(t) ==
    /\ pc[t] = "push"
    /\ ~stopped /\ size = Capacity
    /\ Goto(t, "waitNotFull")
    /\ UNCHANGED <<data, arg>>

PushRejected(t) ==
    /\ pc[t] = "push"
    /\ stopped
    /\ Goto(t, "idle")
    /\ arg' = [arg EXCEPT ![t] = None]
    /\ UNCHANGED data

\* Mutant: tryPush does not notify.
TryPush_Silent(t, i) ==
    /\ pc[t] = "idle"
    /\ ~stopped /\ size < Capacity
    /\ Emplace(i)
    /\ UNCHANGED <<pc, arg>>

\* tryPush that returns true; one that returns false changes nothing
TryPush(t, i) ==
    /\ pc[t] = "idle"
    /\ ~stopped /\ size < Capacity
    /\ Emplace(i)
    /\ Goto(t, "notifyNotEmpty")
    /\ UNCHANGED arg

--------------------------------------------------------------------------------
(* pop and tryPop *)

CallPop(t) ==
    /\ pc[t] = "idle"
    /\ Goto(t, "pop")
    /\ UNCHANGED <<data, arg>>

\* Mutant: the slot is not reset.
Extract_NoReset ==
    /\ readIndex' = nextIndex(readIndex)
    /\ size' = size - 1
    /\ UNCHANGED <<storage, writeIndex, stopped>>

\* std::move(*mStorage[mReadIndex]) and reset
Extract ==
    /\ storage' = [storage EXCEPT ![readIndex] = None]
    /\ readIndex' = nextIndex(readIndex)
    /\ size' = size - 1
    /\ UNCHANGED <<writeIndex, stopped>>

Pop(t) ==
    /\ pc[t] = "pop"
    /\ size > 0
    /\ Extract
    /\ Goto(t, "notifyNotFull")
    /\ UNCHANGED arg

PopBlocks(t) ==
    /\ pc[t] = "pop"
    /\ ~stopped /\ size = 0
    /\ Goto(t, "waitNotEmpty")
    /\ UNCHANGED <<data, arg>>

PopDrained(t) ==
    /\ pc[t] = "pop"
    /\ stopped /\ size = 0
    /\ Goto(t, "idle")
    /\ UNCHANGED <<data, arg>>

\* tryPop that returns an item; one that returns nullopt changes nothing
TryPop(t) ==
    /\ pc[t] = "idle"
    /\ size > 0
    /\ Extract
    /\ Goto(t, "notifyNotFull")
    /\ UNCHANGED arg

--------------------------------------------------------------------------------
(* Condition variables, and stop *)

\* t leaves the wait and competes for the mutex again
Waken(waiters) == [t \in Threads |->
    IF t \notin waiters THEN pc[t]
    ELSE IF pc[t] = "waitNotFull" THEN "push" ELSE "pop"]

\* notify_one wakes one of the waiters, if there are any
NotifyOne(t, place, waiting) ==
    /\ pc[t] = place
    /\ IF At(waiting) = {}
         THEN Goto(t, "idle")
         ELSE \E w \in At(waiting) : pc' = [Waken({w}) EXCEPT ![t] = "idle"]
    /\ UNCHANGED <<data, arg>>

NotifyNotEmpty(t) == NotifyOne(t, "notifyNotEmpty", "waitNotEmpty")
NotifyNotFull(t) == NotifyOne(t, "notifyNotFull", "waitNotFull")

SpuriousWakeup(t) ==
    /\ pc[t] \in {"waitNotFull", "waitNotEmpty"}
    /\ pc' = Waken({t})
    /\ UNCHANGED <<data, arg>>

Stop(t) ==
    /\ pc[t] = "idle"
    /\ stopped' = TRUE
    /\ Goto(t, "stopEmpty")
    /\ UNCHANGED <<storage, readIndex, writeIndex, size, arg>>

\* Mutant: stop notifies one consumer only.
StopNotifiesNotEmpty_One(t) ==
    /\ pc[t] = "stopEmpty"
    /\ IF At("waitNotEmpty") = {}
         THEN Goto(t, "stopFull")
         ELSE \E w \in At("waitNotEmpty") : pc' = [Waken({w}) EXCEPT ![t] = "stopFull"]
    /\ UNCHANGED <<data, arg>>

StopNotifiesNotEmpty(t) ==
    /\ pc[t] = "stopEmpty"
    /\ pc' = [Waken(At("waitNotEmpty")) EXCEPT ![t] = "stopFull"]
    /\ UNCHANGED <<data, arg>>

StopNotifiesNotFull(t) ==
    /\ pc[t] = "stopFull"
    /\ pc' = [Waken(At("waitNotFull")) EXCEPT ![t] = "idle"]
    /\ UNCHANGED <<data, arg>>

--------------------------------------------------------------------------------
\* a thread decides to use the queue
Call(t) ==
    \/ \E i \in Item : CallPush(t, i) \/ TryPush(t, i)
    \/ CallPop(t) \/ TryPop(t) \/ Stop(t)

\* a thread goes on with the call it has made
Continue(t) ==
    \/ Push(t) \/ PushBlocks(t) \/ PushRejected(t) \/ NotifyNotEmpty(t)
    \/ Pop(t) \/ PopBlocks(t) \/ PopDrained(t) \/ NotifyNotFull(t)
    \/ StopNotifiesNotEmpty(t) \/ StopNotifiesNotFull(t)

Next == \E t \in Threads : Call(t) \/ Continue(t) \/ SpuriousWakeup(t)

\* A thread that can go on does: the scheduler and the mutex starve nobody.
\* Nobody has to make a call, and no wakeup is spurious by right.
Fairness == \A t \in Threads : WF_vars(Continue(t))

Spec == Init /\ [][Next]_vars /\ Fairness

--------------------------------------------------------------------------------
(* Properties. *)

\* The ring is what the indexes say: the size slots from readIndex on hold the
\* items, the others are empty, and writeIndex is the first slot after them.
Slot(k) == (readIndex + k) % Capacity

RingConsistent ==
    /\ writeIndex = Slot(size)
    /\ \A k \in 0..(Capacity - 1) : storage[Slot(k)] # None <=> k < size

\* No wakeup is lost.  While a consumer waits, every queued item has a thread
\* that will take it or that will still notify for it; while a producer waits,
\* so has every free slot.  (notify_one after the unlock, one for each item.)
NoLostWakeup ==
    ~stopped =>
      /\ At("waitNotEmpty") # {} =>
           size <= Cardinality(At("notifyNotEmpty") \cup At("pop"))
      /\ At("waitNotFull") # {} =>
           Capacity - size <= Cardinality(At("notifyNotFull") \cup At("push"))

\* stop() leaves nobody behind: after it a thread can be waiting only as long
\* as a stop() that has yet to notify its condition is on its way.
StopWakesAll ==
    stopped =>
      /\ At("waitNotEmpty") # {} => At("stopEmpty") # {}
      /\ At("waitNotFull") # {} => At("stopEmpty") \cup At("stopFull") # {}

\* Once stop() has been called, every call returns.
StopReleases == \A t \in Threads : stopped ~> pc[t] = "idle"

\* The queue behaves as QueueSpec says: first in, first out, nothing lost or
\* duplicated, nothing added after the stop and everything drained.
Contents == [k \in 1..size |-> storage[Slot(k - 1)]]
Abstract == INSTANCE QueueSpec WITH items <- Contents
IsAQueue == Abstract!Spec
================================================================================
