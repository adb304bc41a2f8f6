------------------------------ MODULE QueueSpec ------------------------------
(****************************************************************************)
(* What BoundedQueue promises to the threads that share it: a first-in,     *)
(* first-out queue of at most Capacity items that can be stopped once.      *)
(* After the stop nothing is added, and what is left can still be taken.    *)
(*                                                                          *)
(* Each operation is one atomic action.  Push and Pop are enabled only when *)
(* the call would return: a caller that finds them disabled is blocked.     *)
(****************************************************************************)
EXTENDS Naturals, Sequences

CONSTANTS Item,       \* what may be queued
          Capacity    \* the template argument of BoundedQueue

VARIABLES items,      \* the queued items, oldest first
          stopped     \* stop() has been called

vars == <<items, stopped>>

TypeOK == items \in Seq(Item) /\ Len(items) <= Capacity /\ stopped \in BOOLEAN

Init == items = <<>> /\ stopped = FALSE

\* push and tryPush that return true
Push(i) ==
    /\ ~stopped /\ Len(items) < Capacity
    /\ items' = Append(items, i)
    /\ UNCHANGED stopped

\* pop and tryPop that return an item
Pop(i) ==
    /\ items # <<>> /\ i = Head(items)
    /\ items' = Tail(items)
    /\ UNCHANGED stopped

\* push returns false, and pop returns nullopt, exactly when these hold
Rejects == stopped
Drained == stopped /\ items = <<>>

Stop ==
    /\ stopped' = TRUE
    /\ UNCHANGED items

Next == (\E i \in Item : Push(i) \/ Pop(i)) \/ Stop

Spec == Init /\ [][Next]_vars
================================================================================
