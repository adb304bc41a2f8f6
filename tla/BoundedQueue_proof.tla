-------------------------- MODULE BoundedQueue_proof --------------------------
(****************************************************************************)
(* Proofs about BoundedQueue, for any number of threads, any capacity and   *)
(* any items.                                                               *)
(*                                                                          *)
(* The first part treats the condition variables: an action moves one or    *)
(* two threads from one place to another, and the invariants count the      *)
(* threads at some places.  The second part treats the ring, and the third  *)
(* shows that every step is a step of QueueSpec or changes nothing of it.   *)
(*                                                                          *)
(* The last two parts are about programs over QueueSpec, which is what that *)
(* entitles them to use: the queue demonstration of Chapter 4 and the       *)
(* fusion of Chapter 14, with the constants and variables they need.        *)
(****************************************************************************)
EXTENDS BoundedQueue, SequenceTheorems, FiniteSetTheorems, TLAPS

--------------------------------------------------------------------------------
(* Type correctness, with what the operations assume of the places. *)

\* A thread that is pushing has an item to push, and stop notifies only after
\* it has set the flag.
PlacesInv ==
    \A t \in Threads :
      /\ pc[t] \in {"push", "waitNotFull"} => arg[t] \in Item
      /\ pc[t] \in {"stopEmpty", "stopFull"} => stopped

Inv == TypeOK /\ PlacesInv

LEMMA IndexArithmetic ==
  ASSUME NEW C \in Nat \ {0}
  PROVE  \A x \in 0..(2 * C - 1) : x % C = IF x < C THEN x ELSE x - C
  BY SMTT(30)

LEMMA nextIndexType == ASSUME NEW k \in Indexes  PROVE nextIndex(k) \in Indexes
  BY CapacityAssumption DEF nextIndex, Indexes

LEMMA InitInv == Init => Inv
<1> SUFFICES ASSUME Init PROVE Inv
  OBVIOUS
<1>1. 0 \in Indexes /\ 0 \in 0..Capacity
  BY CapacityAssumption DEF Indexes
<1>2. /\ storage \in [Indexes -> Item \cup {None}]
      /\ pc \in [Threads -> Places]
      /\ arg \in [Threads -> Item \cup {None}]
  BY DEF Init, Places
<1>3. \A t \in Threads : pc[t] = "idle"
  BY DEF Init
<1> QED  BY <1>1, <1>2, <1>3 DEF Init, Inv, TypeOK, PlacesInv

LEMMA EmplaceType ==
  ASSUME TypeOK, NEW i \in Item, size < Capacity, Emplace(i)
  PROVE  /\ storage' \in [Indexes -> Item \cup {None}]
         /\ readIndex' \in Indexes /\ writeIndex' \in Indexes
         /\ size' \in 0..Capacity /\ size' = size + 1
         /\ stopped' = stopped
  BY CapacityAssumption, nextIndexType DEF Emplace, TypeOK

LEMMA ExtractType ==
  ASSUME TypeOK, size > 0, Extract
  PROVE  /\ storage' \in [Indexes -> Item \cup {None}]
         /\ readIndex' \in Indexes /\ writeIndex' \in Indexes
         /\ size' \in 0..Capacity /\ size' = size - 1
         /\ stopped' = stopped
  BY CapacityAssumption, nextIndexType DEF Extract, TypeOK

LEMMA NotifyOneInv ==
  ASSUME Inv, NEW t \in Threads, NEW place \in Places, NEW waiting \in Places,
         waiting \in {"waitNotFull", "waitNotEmpty"}, NotifyOne(t, place, waiting)
  PROVE  Inv'
<1>1. CASE At(waiting) = {}
  BY <1>1 DEF NotifyOne, Goto, Inv, TypeOK, PlacesInv, Places, data
<1>2. CASE At(waiting) # {}
  <2>1. PICK w \in At(waiting) : pc' = [Waken({w}) EXCEPT ![t] = "idle"]
    BY <1>2 DEF NotifyOne
  <2>2. /\ pc' \in [Threads -> Places]
        /\ \A u \in Threads : \/ pc'[u] = pc[u]
                              \/ pc'[u] = "idle"
                              \/ pc'[u] = "pop"
                              \/ pc'[u] = "push" /\ pc[u] = "waitNotFull"
    BY <2>1 DEF At, Waken, Inv, TypeOK, Places
  <2> QED  BY <2>2 DEF NotifyOne, Inv, TypeOK, PlacesInv, data
<1> QED  BY <1>1, <1>2

LEMMA NextInv == ASSUME Inv, [Next]_vars  PROVE Inv'
<1> USE DEF Inv, Goto
<1>1. ASSUME NEW t \in Threads, NEW i \in Item, CallPush(t, i)  PROVE Inv'
  BY <1>1 DEF CallPush, TypeOK, PlacesInv, Places, data
<1>2. ASSUME NEW t \in Threads, NEW i \in Item, TryPush(t, i)  PROVE Inv'
  BY <1>2, EmplaceType DEF TryPush, TypeOK, PlacesInv, Places
<1>3. ASSUME NEW t \in Threads, CallPop(t)  PROVE Inv'
  BY <1>3 DEF CallPop, TypeOK, PlacesInv, Places, data
<1>4. ASSUME NEW t \in Threads, TryPop(t)  PROVE Inv'
  BY <1>4, ExtractType DEF TryPop, TypeOK, PlacesInv, Places
<1>5. ASSUME NEW t \in Threads, Stop(t)  PROVE Inv'
  BY <1>5 DEF Stop, TypeOK, PlacesInv, Places
<1>6. ASSUME NEW t \in Threads, Push(t)  PROVE Inv'
  BY <1>6, EmplaceType DEF Push, TypeOK, PlacesInv, Places
<1>7. ASSUME NEW t \in Threads, PushBlocks(t) \/ PopBlocks(t) \/ PopDrained(t)  PROVE Inv'
  BY <1>7 DEF PushBlocks, PopBlocks, PopDrained, TypeOK, PlacesInv, Places, data
<1>8. ASSUME NEW t \in Threads, PushRejected(t)  PROVE Inv'
  BY <1>8 DEF PushRejected, TypeOK, PlacesInv, Places, data
<1>9. ASSUME NEW t \in Threads, Pop(t)  PROVE Inv'
  BY <1>9, ExtractType DEF Pop, TypeOK, PlacesInv, Places
<1>10. ASSUME NEW t \in Threads, NotifyNotEmpty(t) \/ NotifyNotFull(t)  PROVE Inv'
  BY <1>10, NotifyOneInv DEF NotifyNotEmpty, NotifyNotFull, Places
<1>11. ASSUME NEW t \in Threads, SpuriousWakeup(t)  PROVE Inv'
  BY <1>11 DEF SpuriousWakeup, Waken, TypeOK, PlacesInv, Places, data
<1>12. ASSUME NEW t \in Threads, StopNotifiesNotEmpty(t)  PROVE Inv'
  BY <1>12 DEF StopNotifiesNotEmpty, Waken, At, TypeOK, PlacesInv, Places, data
<1>13. ASSUME NEW t \in Threads, StopNotifiesNotFull(t)  PROVE Inv'
  BY <1>13 DEF StopNotifiesNotFull, Waken, At, TypeOK, PlacesInv, Places, data
<1>14. CASE UNCHANGED vars
  BY <1>14 DEF vars, TypeOK, PlacesInv
<1> QED  BY <1>1, <1>2, <1>3, <1>4, <1>5, <1>6, <1>7, <1>8, <1>9, <1>10, <1>11, <1>12,
            <1>13, <1>14 DEF Next, Call, Continue

\* Every reachable state is well typed: the indexes stay inside the array and
\* the size within the capacity, whatever the threads do.
THEOREM TypeCorrect == Spec => []TypeOK
<1>1. Init => Inv
  BY InitInv
<1>2. Inv /\ [Next]_vars => Inv'
  BY NextInv
<1>3. Inv => TypeOK
  BY DEF Inv
<1> QED  BY <1>1, <1>2, <1>3, PTL DEF Spec

--------------------------------------------------------------------------------
(* The condition variables. *)

\* the threads that f puts at one of places
Those(f, places) == {t \in Threads : f[t] \in places}

Number(f, places) == Cardinality(Those(f, places))

Has(places, p) == IF p \in places THEN 1 ELSE 0

\* Moving one thread changes a number by what it leaves and what it joins.
LEMMA MoveOne ==
  ASSUME NEW f \in [Threads -> Places], NEW t \in Threads, NEW p \in Places, NEW S
  PROVE  /\ Number(f, S) \in Nat
         /\ Number([f EXCEPT ![t] = p], S) \in Nat
         /\ Number([f EXCEPT ![t] = p], S) = Number(f, S) + Has(S, p) - Has(S, f[t])
<1> DEFINE g == [f EXCEPT ![t] = p]
           A == Those(f, S)
<1>1. IsFiniteSet(A)
  BY ThreadsAssumption, FS_Subset DEF Those
<1>2. Cardinality(A) \in Nat
  BY <1>1, FS_CardinalityType
<1>3. IsFiniteSet(A \ {t}) /\ Cardinality(A \ {t}) \in Nat
  BY <1>1, FS_RemoveElement, FS_CardinalityType
<1>4. Cardinality(A \ {t}) = Cardinality(A) - Has(S, f[t])
  <2>1. t \in A <=> f[t] \in S
    BY DEF Those
  <2> HIDE DEF A
  <2>2. Cardinality(A \ {t}) = IF t \in A THEN Cardinality(A) - 1 ELSE Cardinality(A)
    BY <1>1, FS_RemoveElement
  <2> QED  BY <1>2, <2>1, <2>2 DEF Has
<1>5. Those(g, S) = IF p \in S THEN (A \ {t}) \cup {t} ELSE A \ {t}
  BY DEF Those
<1>6. Cardinality((A \ {t}) \cup {t}) = Cardinality(A \ {t}) + 1
  <2> DEFINE B == A \ {t}
  <2>1. t \notin B
    OBVIOUS
  <2> HIDE DEF B
  <2>2. Cardinality(B \cup {t}) = Cardinality(B) + 1
    BY <1>3, <2>1, FS_AddElement DEF B
  <2> QED  BY <2>2 DEF B
<1> HIDE DEF A, g
<1>7. Cardinality(Those(g, S)) = Cardinality(A \ {t}) + Has(S, p)
  <2>1. CASE p \in S
    <3>1. Those(g, S) = (A \ {t}) \cup {t}
      BY <1>5, <2>1
    <3> QED  BY <1>6, <2>1, <3>1 DEF Has
  <2>2. CASE p \notin S
    <3>1. Those(g, S) = A \ {t}
      BY <1>5, <2>2
    <3> QED  BY <1>3, <2>2, <3>1 DEF Has
  <2> QED  BY <2>1, <2>2
<1>8. Has(S, p) \in {0, 1} /\ Has(S, f[t]) \in {0, 1}
  BY DEF Has
<1>9. Number(f, S) \in Nat /\ Number(g, S) = Number(f, S) + Has(S, p) - Has(S, f[t])
  BY <1>2, <1>3, <1>4, <1>7, <1>8 DEF Number, A
<1>10. Number(g, S) \in Nat
  BY <1>3, <1>7, <1>8 DEF Number
<1> QED  BY <1>9, <1>10 DEF g

LEMMA MoveTwo ==
  ASSUME NEW f \in [Threads -> Places], NEW w \in Threads, NEW q \in Places,
         NEW t \in Threads, NEW p \in Places, w # t, NEW S
  PROVE  /\ Number(f, S) \in Nat
         /\ Number([[f EXCEPT ![w] = q] EXCEPT ![t] = p], S) =
              Number(f, S) + Has(S, q) - Has(S, f[w]) + Has(S, p) - Has(S, f[t])
<1> DEFINE g == [f EXCEPT ![w] = q]
<1>1. g \in [Threads -> Places] /\ g[t] = f[t]
  OBVIOUS
<1>2. Number(f, S) \in Nat /\ Number(g, S) = Number(f, S) + Has(S, q) - Has(S, f[w])
  BY MoveOne
<1> HIDE DEF g
<1>3. Number([g EXCEPT ![t] = p], S) = Number(g, S) + Has(S, p) - Has(S, g[t])
  BY <1>1, MoveOne
<1> QED  BY <1>1, <1>2, <1>3 DEF g

--------------------------------------------------------------------------------
(* NoLostWakeup: the four numbers it is about. *)

AwaitItem == {"waitNotEmpty"}
AwaitSlot == {"waitNotFull"}
CareForItem == {"notifyNotEmpty", "pop"}
CareForSlot == {"notifyNotFull", "push"}

WakeInv ==
    ~stopped =>
      /\ Number(pc, AwaitItem) > 0 => size <= Number(pc, CareForItem)
      /\ Number(pc, AwaitSlot) > 0 => Capacity - size <= Number(pc, CareForSlot)

LEMMA HasTable ==
  /\ \A p \in Places : /\ Has(AwaitItem, p) = IF p = "waitNotEmpty" THEN 1 ELSE 0
                       /\ Has(AwaitSlot, p) = IF p = "waitNotFull" THEN 1 ELSE 0
                       /\ Has(CareForItem, p) = IF p \in {"notifyNotEmpty", "pop"} THEN 1 ELSE 0
                       /\ Has(CareForSlot, p) = IF p \in {"notifyNotFull", "push"} THEN 1 ELSE 0
  BY DEF Has, AwaitItem, AwaitSlot, CareForItem, CareForSlot

LEMMA GotoNumber ==
  ASSUME TypeOK, NEW t \in Threads, NEW p \in Places, Goto(t, p), NEW S
  PROVE  /\ Number(pc, S) \in Nat /\ Number(pc', S) \in Nat
         /\ Number(pc', S) = Number(pc, S) + Has(S, p) - Has(S, pc[t])
  BY MoveOne DEF TypeOK, Goto

\* A waiter w is moved to where it takes the mutex again, and t is done.
LEMMA WakenNumber ==
  ASSUME TypeOK, NEW t \in Threads, NEW w \in Threads, w # t,
         NEW q \in {"pop", "push"},
         pc[w] = IF q = "pop" THEN "waitNotEmpty" ELSE "waitNotFull",
         pc' = [Waken({w}) EXCEPT ![t] = "idle"], NEW S
  PROVE  /\ Number(pc, S) \in Nat
         /\ Number(pc', S) = Number(pc, S) + Has(S, q) - Has(S, pc[w])
                                          + Has(S, "idle") - Has(S, pc[t])
<1>1. pc \in [Threads -> Places] /\ q \in Places /\ "idle" \in Places
  BY DEF TypeOK, Places
<1>2. Waken({w}) = [pc EXCEPT ![w] = q]
  BY <1>1 DEF Waken
<1>3. pc' = [[pc EXCEPT ![w] = q] EXCEPT ![t] = "idle"]
  BY <1>2
<1>4. pc[w] = IF q = "pop" THEN "waitNotEmpty" ELSE "waitNotFull"
  OBVIOUS
<1>5. /\ Number(pc, S) \in Nat
      /\ Number([[pc EXCEPT ![w] = q] EXCEPT ![t] = "idle"], S) =
           Number(pc, S) + Has(S, q) - Has(S, pc[w]) + Has(S, "idle") - Has(S, pc[t])
  <2> DEFINE g == [pc EXCEPT ![w] = q]
  <2>1. g \in [Threads -> Places] /\ g[t] = pc[t]
    BY <1>1
  <2>2. Number(pc, S) \in Nat /\ Number(g, S) = Number(pc, S) + Has(S, q) - Has(S, pc[w])
    BY <1>1, MoveOne
  <2> HIDE DEF g
  <2>3. Number([g EXCEPT ![t] = "idle"], S) = Number(g, S) + Has(S, "idle") - Has(S, g[t])
    BY <1>1, <2>1, MoveOne
  <2> QED  BY <2>1, <2>2, <2>3 DEF g
<1> QED  BY <1>3, <1>5

LEMMA InitWake == Init => WakeInv
<1> SUFFICES ASSUME Init PROVE WakeInv
  OBVIOUS
<1>1. Those(pc, AwaitItem) = {} /\ Those(pc, AwaitSlot) = {}
  BY DEF Init, Those, AwaitItem, AwaitSlot
<1>2. Number(pc, AwaitItem) = 0 /\ Number(pc, AwaitSlot) = 0
  BY <1>1, FS_EmptySet DEF Number
<1> QED  BY <1>2 DEF WakeInv

\* The four numbers after one thread has gone to another place.
LEMMA FourNumbers ==
  ASSUME TypeOK, NEW t \in Threads, NEW p \in Places, Goto(t, p)
  PROVE  /\ Number(pc, AwaitItem) \in Nat /\ Number(pc, AwaitSlot) \in Nat
         /\ Number(pc, CareForItem) \in Nat /\ Number(pc, CareForSlot) \in Nat
         /\ Number(pc', AwaitItem) = Number(pc, AwaitItem)
              + (IF p = "waitNotEmpty" THEN 1 ELSE 0) - (IF pc[t] = "waitNotEmpty" THEN 1 ELSE 0)
         /\ Number(pc', AwaitSlot) = Number(pc, AwaitSlot)
              + (IF p = "waitNotFull" THEN 1 ELSE 0) - (IF pc[t] = "waitNotFull" THEN 1 ELSE 0)
         /\ Number(pc', CareForItem) = Number(pc, CareForItem)
              + (IF p \in {"notifyNotEmpty", "pop"} THEN 1 ELSE 0)
              - (IF pc[t] \in {"notifyNotEmpty", "pop"} THEN 1 ELSE 0)
         /\ Number(pc', CareForSlot) = Number(pc, CareForSlot)
              + (IF p \in {"notifyNotFull", "push"} THEN 1 ELSE 0)
              - (IF pc[t] \in {"notifyNotFull", "push"} THEN 1 ELSE 0)
<1>1. pc[t] \in Places
  BY DEF TypeOK
<1>2. /\ Number(pc, AwaitItem) \in Nat
      /\ Number(pc', AwaitItem) = Number(pc, AwaitItem) + Has(AwaitItem, p) - Has(AwaitItem, pc[t])
  BY GotoNumber
<1>3. /\ Number(pc, AwaitSlot) \in Nat
      /\ Number(pc', AwaitSlot) = Number(pc, AwaitSlot) + Has(AwaitSlot, p) - Has(AwaitSlot, pc[t])
  BY GotoNumber
<1>4. /\ Number(pc, CareForItem) \in Nat
      /\ Number(pc', CareForItem) = Number(pc, CareForItem) + Has(CareForItem, p) - Has(CareForItem, pc[t])
  BY GotoNumber
<1>5. /\ Number(pc, CareForSlot) \in Nat
      /\ Number(pc', CareForSlot) = Number(pc, CareForSlot) + Has(CareForSlot, p) - Has(CareForSlot, pc[t])
  BY GotoNumber
<1> QED  BY <1>1, <1>2, <1>3, <1>4, <1>5, HasTable

LEMMA AtNumber ==
  ASSUME NEW p
  PROVE  At(p) = {} <=> Number(pc, {p}) = 0
<1>1. At(p) = Those(pc, {p})
  BY DEF At, Those
<1>2. IsFiniteSet(At(p))
  BY ThreadsAssumption, FS_Subset DEF At
<1> QED  BY <1>1, <1>2, FS_EmptySet DEF Number

LEMMA NotifyNotEmptyWake ==
  ASSUME Inv, WakeInv, NEW t \in Threads, NotifyNotEmpty(t)
  PROVE  WakeInv'
<1>1. pc[t] = "notifyNotEmpty" /\ stopped' = stopped /\ size' = size /\ TypeOK
  BY DEF NotifyNotEmpty, NotifyOne, data, Inv
<1>2. CASE At("waitNotEmpty") = {}
  <2>1. Number(pc, AwaitItem) = 0
    BY <1>2, AtNumber DEF AwaitItem
  <2>2. Goto(t, "idle") /\ "idle" \in Places
    BY <1>2 DEF NotifyNotEmpty, NotifyOne, Places
  <2> QED  BY <1>1, <2>1, <2>2, FourNumbers DEF WakeInv
<1>3. CASE At("waitNotEmpty") # {}
  <2>1. PICK w \in At("waitNotEmpty") : pc' = [Waken({w}) EXCEPT ![t] = "idle"]
    BY <1>3 DEF NotifyNotEmpty, NotifyOne
  <2>2. w \in Threads /\ pc[w] = "waitNotEmpty" /\ w # t
    BY <1>1, <2>1 DEF At
  <2>3. \A S : /\ Number(pc, S) \in Nat
               /\ Number(pc', S) = Number(pc, S) + Has(S, "pop") - Has(S, pc[w])
                                                 + Has(S, "idle") - Has(S, pc[t])
    BY <1>1, <2>1, <2>2, WakenNumber
  <2>4. {"pop", "idle", "waitNotEmpty", "notifyNotEmpty"} \subseteq Places
    BY DEF Places
  <2> QED  BY <1>1, <2>2, <2>3, <2>4, HasTable DEF WakeInv
<1> QED  BY <1>2, <1>3

LEMMA NotifyNotFullWake ==
  ASSUME Inv, WakeInv, NEW t \in Threads, NotifyNotFull(t)
  PROVE  WakeInv'
<1>1. pc[t] = "notifyNotFull" /\ stopped' = stopped /\ size' = size /\ TypeOK
  BY DEF NotifyNotFull, NotifyOne, data, Inv
<1>2. CASE At("waitNotFull") = {}
  <2>1. Number(pc, AwaitSlot) = 0
    BY <1>2, AtNumber DEF AwaitSlot
  <2>2. Goto(t, "idle") /\ "idle" \in Places
    BY <1>2 DEF NotifyNotFull, NotifyOne, Places
  <2> QED  BY <1>1, <2>1, <2>2, FourNumbers DEF WakeInv
<1>3. CASE At("waitNotFull") # {}
  <2>1. PICK w \in At("waitNotFull") : pc' = [Waken({w}) EXCEPT ![t] = "idle"]
    BY <1>3 DEF NotifyNotFull, NotifyOne
  <2>2. w \in Threads /\ pc[w] = "waitNotFull" /\ w # t
    BY <1>1, <2>1 DEF At
  <2>3. \A S : /\ Number(pc, S) \in Nat
               /\ Number(pc', S) = Number(pc, S) + Has(S, "push") - Has(S, pc[w])
                                                 + Has(S, "idle") - Has(S, pc[t])
    BY <1>1, <2>1, <2>2, WakenNumber
  <2>4. {"push", "idle", "waitNotFull", "notifyNotFull"} \subseteq Places
    BY DEF Places
  <2>5. Capacity \in Nat /\ size \in Nat
    BY <1>1, CapacityAssumption DEF TypeOK
  <2> QED  BY <1>1, <2>2, <2>3, <2>4, <2>5, HasTable DEF WakeInv
<1> QED  BY <1>2, <1>3

LEMMA NextWake == ASSUME Inv, WakeInv, [Next]_vars  PROVE WakeInv'
<1>0. /\ TypeOK /\ size \in 0..Capacity /\ size \in Nat /\ Capacity \in Nat
      /\ \A p \in Places : p \in Places
      /\ {"idle", "push", "waitNotFull", "notifyNotEmpty", "pop", "waitNotEmpty",
          "notifyNotFull", "stopEmpty", "stopFull"} \subseteq Places
  BY CapacityAssumption DEF Inv, TypeOK, Places
<1>1. ASSUME NEW t \in Threads, NEW i \in Item, CallPush(t, i)  PROVE WakeInv'
  BY <1>0, <1>1, FourNumbers DEF CallPush, data, WakeInv
<1>2. ASSUME NEW t \in Threads, NEW i \in Item, TryPush(t, i)  PROVE WakeInv'
  BY <1>0, <1>2, FourNumbers DEF TryPush, Emplace, WakeInv
<1>3. ASSUME NEW t \in Threads, CallPop(t)  PROVE WakeInv'
  BY <1>0, <1>3, FourNumbers DEF CallPop, data, WakeInv
<1>4. ASSUME NEW t \in Threads, TryPop(t)  PROVE WakeInv'
  BY <1>0, <1>4, FourNumbers DEF TryPop, Extract, WakeInv
<1>5. ASSUME NEW t \in Threads, Stop(t)  PROVE WakeInv'
  BY <1>5 DEF Stop, WakeInv
<1>6. ASSUME NEW t \in Threads, Push(t)  PROVE WakeInv'
  BY <1>0, <1>6, FourNumbers DEF Push, Emplace, WakeInv
<1>7. ASSUME NEW t \in Threads, PushBlocks(t)  PROVE WakeInv'
  <2>1. pc[t] = "push" /\ size = Capacity /\ size' = size /\ Goto(t, "waitNotFull")
    BY <1>7 DEF PushBlocks, data
  <2>2. /\ Number(pc, AwaitItem) \in Nat
        /\ Number(pc', AwaitItem) = Number(pc, AwaitItem)
        /\ Number(pc', CareForItem) = Number(pc, CareForItem)
    BY <1>0, <2>1, FourNumbers
  <2>4. Number(pc', CareForSlot) \in Nat
    BY <1>0, <2>1, GotoNumber
  <2>3. stopped' = stopped
    BY <1>7 DEF PushBlocks, data
  <2> QED  BY <1>0, <2>1, <2>2, <2>3, <2>4 DEF WakeInv
<1>8. ASSUME NEW t \in Threads, PushRejected(t) \/ PopDrained(t)  PROVE WakeInv'
  BY <1>8 DEF PushRejected, PopDrained, data, WakeInv
<1>9. ASSUME NEW t \in Threads, Pop(t)  PROVE WakeInv'
  BY <1>0, <1>9, FourNumbers DEF Pop, Extract, WakeInv
<1>10. ASSUME NEW t \in Threads, PopBlocks(t)  PROVE WakeInv'
  <2>1. pc[t] = "pop" /\ size = 0 /\ size' = size /\ Goto(t, "waitNotEmpty")
    BY <1>10 DEF PopBlocks, data
  <2>2. /\ Number(pc, AwaitSlot) \in Nat
        /\ Number(pc', AwaitSlot) = Number(pc, AwaitSlot)
        /\ Number(pc', CareForSlot) = Number(pc, CareForSlot)
    BY <1>0, <2>1, FourNumbers
  <2>4. Number(pc', CareForItem) \in Nat
    BY <1>0, <2>1, GotoNumber
  <2>3. stopped' = stopped
    BY <1>10 DEF PopBlocks, data
  <2> QED  BY <1>0, <2>1, <2>2, <2>3, <2>4 DEF WakeInv
<1>11. ASSUME NEW t \in Threads, SpuriousWakeup(t)  PROVE WakeInv'
  <2>1. Goto(t, IF pc[t] = "waitNotFull" THEN "push" ELSE "pop")
    BY <1>0, <1>11 DEF SpuriousWakeup, Waken, Goto, TypeOK
  <2>2. pc[t] \in {"waitNotFull", "waitNotEmpty"} /\ size' = size /\ stopped' = stopped
    BY <1>11 DEF SpuriousWakeup, data
  <2>3. CASE pc[t] = "waitNotFull"
    <3>1. Goto(t, "push")
      BY <2>1, <2>3
    <3> QED  BY <1>0, <2>2, <2>3, <3>1, FourNumbers DEF WakeInv
  <2>4. CASE pc[t] = "waitNotEmpty"
    <3>1. Goto(t, "pop")
      BY <2>1, <2>4
    <3> QED  BY <1>0, <2>2, <2>4, <3>1, FourNumbers DEF WakeInv
  <2> QED  BY <2>2, <2>3, <2>4
<1>12. ASSUME NEW t \in Threads, StopNotifiesNotEmpty(t) \/ StopNotifiesNotFull(t)
       PROVE  WakeInv'
  BY <1>12 DEF StopNotifiesNotEmpty, StopNotifiesNotFull, data, Inv, PlacesInv, WakeInv
<1>13. CASE UNCHANGED vars
  BY <1>13 DEF vars, WakeInv
<1> QED  BY <1>1, <1>2, <1>3, <1>4, <1>5, <1>6, <1>7, <1>8, <1>9, <1>10, <1>11, <1>12, <1>13,
            NotifyNotEmptyWake, NotifyNotFullWake DEF Next, Call, Continue

\* One notify_one for each item and each free slot, sent after the unlock, is
\* enough: no wakeup is lost, for any number of threads.
THEOREM NothingLost == Spec => []NoLostWakeup
<1>1. Init => Inv /\ WakeInv
  BY InitInv, InitWake
<1>2. Inv /\ WakeInv /\ [Next]_vars => (Inv /\ WakeInv)'
  BY NextInv, NextWake
<1>3. Inv /\ WakeInv => NoLostWakeup
  <2>1. /\ At("waitNotEmpty") # {} => Number(pc, AwaitItem) # 0
        /\ At("waitNotFull") # {} => Number(pc, AwaitSlot) # 0
    BY AtNumber DEF AwaitItem, AwaitSlot
  <2>2. Number(pc, AwaitItem) \in Nat /\ Number(pc, AwaitSlot) \in Nat
    <3>1. IsFiniteSet(Those(pc, AwaitItem)) /\ IsFiniteSet(Those(pc, AwaitSlot))
      BY ThreadsAssumption, FS_Subset DEF Those
    <3> QED  BY <3>1, FS_CardinalityType DEF Number
  <2>3. /\ At("notifyNotEmpty") \cup At("pop") = Those(pc, CareForItem)
        /\ At("notifyNotFull") \cup At("push") = Those(pc, CareForSlot)
    BY DEF At, Those, CareForItem, CareForSlot
  <2>4. /\ Number(pc, CareForItem) = Cardinality(At("notifyNotEmpty") \cup At("pop"))
        /\ Number(pc, CareForSlot) = Cardinality(At("notifyNotFull") \cup At("push"))
    BY <2>3, Zenon DEF Number
  <2> HIDE DEF Number, At
  <2>5. SUFFICES ASSUME WakeInv, ~stopped  PROVE NoLostWakeup
    BY DEF NoLostWakeup
  <2>6. At("waitNotEmpty") # {} => size <= Number(pc, CareForItem)
    BY <2>1, <2>2, <2>5 DEF WakeInv
  <2>7. At("waitNotFull") # {} => Capacity - size <= Number(pc, CareForSlot)
    BY <2>1, <2>2, <2>5 DEF WakeInv
  <2> QED  BY <2>4, <2>6, <2>7, Zenon DEF NoLostWakeup
<1> QED  BY <1>1, <1>2, <1>3, PTL DEF Spec

--------------------------------------------------------------------------------
(* stop *)

\* After a stop every waiter has a notify_all ahead of it.
THEOREM NobodyLeftBehind == Spec => []StopWakesAll
<1>1. Init => Inv /\ StopWakesAll
  BY InitInv DEF Init, StopWakesAll
<1>2. ASSUME Inv, StopWakesAll, [Next]_vars  PROVE StopWakesAll'
  <2> USE DEF StopWakesAll, At, Inv, PlacesInv, TypeOK, Places, Goto, data
  <2>1. ASSUME NEW t \in Threads, NEW i \in Item, CallPush(t, i) \/ TryPush(t, i)
        PROVE  StopWakesAll'
    BY <1>2, <2>1, ZenonT(60) DEF CallPush, TryPush, Emplace
  <2>2. ASSUME NEW t \in Threads, CallPop(t) \/ TryPop(t)  PROVE StopWakesAll'
    BY <1>2, <2>2, ZenonT(60) DEF CallPop, TryPop, Extract
  <2>3. ASSUME NEW t \in Threads, Stop(t)  PROVE StopWakesAll'
    BY <1>2, <2>3 DEF Stop
  <2>4. ASSUME NEW t \in Threads, Push(t) \/ PushBlocks(t) \/ PushRejected(t)
        PROVE  StopWakesAll'
    BY <1>2, <2>4, ZenonT(60) DEF Push, PushBlocks, PushRejected, Emplace
  <2>5. ASSUME NEW t \in Threads, Pop(t) \/ PopBlocks(t) \/ PopDrained(t)
        PROVE  StopWakesAll'
    BY <1>2, <2>5, ZenonT(60) DEF Pop, PopBlocks, PopDrained, Extract
  <2>6. ASSUME NEW t \in Threads, NotifyNotEmpty(t) \/ NotifyNotFull(t)
        PROVE  StopWakesAll'
    <3>1. \A u \in Threads : /\ pc'[u] \in {"waitNotEmpty", "waitNotFull"} => pc'[u] = pc[u]
                             /\ pc[u] \in {"stopEmpty", "stopFull"} => pc'[u] = pc[u]
      BY <1>2, <2>6 DEF NotifyNotEmpty, NotifyNotFull, NotifyOne, Waken
    <3>2. stopped' = stopped
      BY <2>6 DEF NotifyNotEmpty, NotifyNotFull, NotifyOne
    <3> QED  BY <1>2, <3>1, <3>2
  <2>7. ASSUME NEW t \in Threads, SpuriousWakeup(t)  PROVE StopWakesAll'
    BY <1>2, <2>7 DEF SpuriousWakeup, Waken
  <2>8. ASSUME NEW t \in Threads, StopNotifiesNotEmpty(t)  PROVE StopWakesAll'
    <3>1. /\ pc'[t] = "stopFull"
          /\ \A u \in Threads : pc'[u] # "waitNotEmpty"
      BY <1>2, <2>8 DEF StopNotifiesNotEmpty, Waken
    <3> QED  BY <3>1
  <2>9. ASSUME NEW t \in Threads, StopNotifiesNotFull(t)  PROVE StopWakesAll'
    <3>1. \A u \in Threads : /\ pc'[u] # "waitNotFull"
                             /\ pc'[u] = "waitNotEmpty" => pc[u] = "waitNotEmpty"
                             /\ pc[u] = "stopEmpty" => pc'[u] = "stopEmpty"
      BY <1>2, <2>9 DEF StopNotifiesNotFull, Waken
    <3>2. stopped' = stopped
      BY <2>9 DEF StopNotifiesNotFull
    <3> QED  BY <1>2, <3>1, <3>2
  <2>10. CASE UNCHANGED vars
    BY <1>2, <2>10 DEF vars
  <2> QED  BY <1>2, <2>1, <2>2, <2>3, <2>4, <2>5, <2>6, <2>7, <2>8, <2>9, <2>10
              DEF Next, Call, Continue
<1>3. Inv /\ StopWakesAll /\ [Next]_vars => (Inv /\ StopWakesAll)'
  BY <1>2, NextInv
<1> QED  BY <1>1, <1>3, PTL DEF Spec

--------------------------------------------------------------------------------
(* The ring.  Slot(k), the k-th slot from readIndex on, is written without   *)
(* the remainder; then adding and removing an item are linear arithmetic.    *)

Rot(r, k) == IF r + k < Capacity THEN r + k ELSE r + k - Capacity

LEMMA RotIs ==
  ASSUME NEW r \in Indexes, NEW k \in 0..Capacity
  PROVE  /\ (r + k) % Capacity = Rot(r, k)
         /\ Rot(r, k) \in Indexes
<1>1. r \in Nat /\ k \in Nat /\ r + k \in 0..(2 * Capacity - 1) /\ r < Capacity
  BY CapacityAssumption DEF Indexes
<1>2. (r + k) % Capacity = IF r + k < Capacity THEN r + k ELSE r + k - Capacity
  <2>1. \A x \in 0..(2 * Capacity - 1) : x % Capacity = IF x < Capacity THEN x ELSE x - Capacity
    BY CapacityAssumption, IndexArithmetic
  <2> DEFINE x == r + k
  <2>2. x \in 0..(2 * Capacity - 1)
    BY <1>1
  <2> HIDE DEF x
  <2>3. x % Capacity = IF x < Capacity THEN x ELSE x - Capacity
    BY <2>1, <2>2, Zenon
  <2> QED  BY <1>1, <2>3, CapacityAssumption DEF x
<1> QED  BY <1>1, <1>2, CapacityAssumption DEF Rot, Indexes

LEMMA RotFacts ==
  ASSUME NEW r \in Indexes, NEW k \in Indexes
  PROVE  /\ \A j \in Indexes : Rot(r, k) = Rot(r, j) => k = j
         /\ nextIndex(Rot(r, k)) = Rot(r, k + 1)
         /\ Rot(nextIndex(r), k) = Rot(r, k + 1)
         /\ Rot(r, 0) = r /\ Rot(r, Capacity) = r
<1>1. Rot(r, k) \in Indexes /\ k \in 0..Capacity /\ Capacity \in Nat \ {0} /\ 1 \in 0..Capacity
  BY RotIs, CapacityAssumption DEF Indexes
<1>2. \A i \in Indexes : nextIndex(i) = IF i + 1 < Capacity THEN i + 1 ELSE i + 1 - Capacity
  BY <1>1, RotIs DEF nextIndex, Rot
<1> QED  BY <1>1, <1>2 DEF Rot, Indexes

RingInv ==
    /\ writeIndex = Rot(readIndex, size)
    /\ \A k \in Indexes : storage[Rot(readIndex, k)] # None <=> k < size

LEMMA RingIs == ASSUME TypeOK PROVE RingConsistent <=> RingInv
<1>1. /\ readIndex \in Indexes /\ size \in 0..Capacity
      /\ \A k \in Indexes : k \in 0..Capacity
  BY CapacityAssumption DEF TypeOK, Indexes
<1>2. Slot(size) = Rot(readIndex, size)
  BY <1>1, RotIs DEF Slot
<1>3. \A k \in Indexes : Slot(k) = Rot(readIndex, k)
  BY <1>1, RotIs DEF Slot
<1> QED  BY <1>2, <1>3 DEF RingConsistent, RingInv, Indexes

LEMMA InitRing == Init => RingInv
<1> SUFFICES ASSUME Init PROVE RingInv
  OBVIOUS
<1>1. 0 \in Indexes
  BY CapacityAssumption DEF Indexes
<1>2. \A k \in Indexes : Rot(0, k) \in Indexes /\ ~(k < 0)
  BY <1>1, RotIs, CapacityAssumption DEF Indexes
<1> QED  BY <1>1, <1>2, RotFacts DEF Init, RingInv

LEMMA EmplaceRing ==
  ASSUME TypeOK, RingInv, NEW i \in Item, size < Capacity, Emplace(i)
  PROVE  /\ RingInv'
         /\ \A k \in Indexes : storage'[Rot(readIndex', k)] =
              IF k = size THEN i ELSE storage[Rot(readIndex, k)]
<1>1. /\ size \in Indexes /\ size' = size + 1 /\ readIndex' = readIndex /\ readIndex \in Indexes
      /\ writeIndex \in Indexes /\ storage \in [Indexes -> Item \cup {None}]
      /\ writeIndex = Rot(readIndex, size)
      /\ storage' = [storage EXCEPT ![writeIndex] = i]
  BY CapacityAssumption DEF TypeOK, Indexes, Emplace, RingInv
<1>2. writeIndex' = Rot(readIndex', size')
  BY <1>1, RotFacts DEF Emplace
<1>3. \A k \in Indexes : Rot(readIndex, k) \in Indexes
  <2>1. \A k \in Indexes : k \in 0..Capacity
    BY CapacityAssumption DEF Indexes
  <2> QED  BY <1>1, <2>1, RotIs
<1>4. \A k \in Indexes : Rot(readIndex, k) = writeIndex <=> k = size
  BY <1>1, RotFacts
<1>5. \A k \in Indexes : storage'[Rot(readIndex', k)] =
        IF k = size THEN i ELSE storage[Rot(readIndex, k)]
  BY <1>1, <1>3, <1>4
<1>6. \A k \in Indexes : k < size + 1 <=> k < size \/ k = size
  BY <1>1, CapacityAssumption DEF Indexes
<1>7. \A k \in Indexes : storage'[Rot(readIndex', k)] # None <=> k < size'
  BY <1>1, <1>5, <1>6, NoneAssumption DEF RingInv
<1> QED  BY <1>2, <1>5, <1>7 DEF RingInv

LEMMA ExtractRing ==
  ASSUME TypeOK, RingInv, size > 0, Extract
  PROVE  /\ RingInv'
         /\ \A k \in Indexes : k + 1 < Capacity =>
              storage'[Rot(readIndex', k)] = storage[Rot(readIndex, k + 1)]
<1>1. /\ size \in 1..Capacity /\ size' = size - 1 /\ readIndex \in Indexes
      /\ readIndex' = nextIndex(readIndex) /\ writeIndex' = writeIndex
      /\ storage \in [Indexes -> Item \cup {None}]
      /\ storage' = [storage EXCEPT ![readIndex] = None]
      /\ Capacity \in Nat \ {0}
  BY CapacityAssumption DEF TypeOK, Extract
<1>2. \A k \in Indexes : Rot(readIndex', k) = Rot(readIndex, k + 1)
  BY <1>1, RotFacts
<1>3. size - 1 \in Indexes /\ (size - 1) + 1 = size
  BY <1>1 DEF Indexes
<1>4. writeIndex' = Rot(readIndex', size')
  BY <1>1, <1>2, <1>3 DEF RingInv
<1>5. 0 \in Indexes /\ \A k \in Indexes : Rot(readIndex, k) = readIndex <=> k = 0
  BY <1>1, RotFacts DEF Indexes
<1>6. \A k \in Indexes : k + 1 < Capacity => k + 1 \in Indexes /\ k + 1 # 0
  BY <1>1 DEF Indexes
<1>7. \A k \in Indexes : Rot(readIndex, k) \in Indexes
  BY <1>1, RotIs DEF Indexes
<1>8. ASSUME NEW k \in Indexes, k + 1 < Capacity
      PROVE  storage'[Rot(readIndex', k)] = storage[Rot(readIndex, k + 1)]
  BY <1>1, <1>2, <1>5, <1>6, <1>7, <1>8
<1>9. ASSUME NEW k \in Indexes  PROVE storage'[Rot(readIndex', k)] # None <=> k < size'
  <2>1. CASE k + 1 < Capacity
    <3>1. storage[Rot(readIndex, k + 1)] # None <=> k + 1 < size
      BY <1>6, <2>1 DEF RingInv
    <3>2. k + 1 < size <=> k < size'
      BY <1>1 DEF Indexes
    <3> QED  BY <1>8, <2>1, <3>1, <3>2
  <2>2. CASE ~(k + 1 < Capacity)
    <3>1. k + 1 = Capacity /\ ~(k < size')
      BY <1>1, <2>2 DEF Indexes
    <3>2. Rot(readIndex', k) = readIndex
      BY <1>1, <1>2, <3>1, RotFacts
    <3>3. storage'[readIndex] = None
      BY <1>1
    <3> QED  BY <3>1, <3>2, <3>3
  <2> QED  BY <2>1, <2>2
<1> QED  BY <1>4, <1>8, <1>9 DEF RingInv

\* The steps of the queue, as far as the data are concerned.
LEMMA DataSteps ==
  ASSUME Inv, [Next]_vars
  PROVE  \/ \E i \in Item : ~stopped /\ size < Capacity /\ Emplace(i)
         \/ size > 0 /\ Extract
         \/ stopped' = TRUE /\ UNCHANGED <<storage, readIndex, writeIndex, size>>
         \/ UNCHANGED data
<1>1. ASSUME NEW t \in Threads, Push(t)
      PROVE  \E i \in Item : ~stopped /\ size < Capacity /\ Emplace(i)
  BY <1>1 DEF Push, Inv, PlacesInv
<1> QED  BY <1>1 DEF Next, Call, Continue, vars, data, CallPush, TryPush, CallPop, TryPop, Stop,
              PushBlocks, PushRejected, Pop, PopBlocks, PopDrained, NotifyNotEmpty,
              NotifyNotFull, NotifyOne, StopNotifiesNotEmpty, StopNotifiesNotFull, SpuriousWakeup

LEMMA NextRing == ASSUME Inv, RingInv, [Next]_vars  PROVE RingInv'
<1>1. ASSUME NEW i \in Item, size < Capacity, Emplace(i)  PROVE RingInv'
  BY <1>1, EmplaceRing DEF Inv
<1>2. ASSUME size > 0, Extract  PROVE RingInv'
  BY <1>2, ExtractRing DEF Inv
<1>3. ASSUME UNCHANGED <<storage, readIndex, writeIndex, size>>  PROVE RingInv'
  BY <1>3 DEF RingInv
<1> QED  BY <1>1, <1>2, <1>3, DataSteps DEF data

\* The ring is what its indexes say, whatever the capacity: no slot is
\* overwritten while it holds an item or read when it holds none.
THEOREM RingIsConsistent == Spec => []RingConsistent
<1>1. Init => Inv /\ RingInv
  BY InitInv, InitRing
<1>2. Inv /\ RingInv /\ [Next]_vars => (Inv /\ RingInv)'
  BY NextInv, NextRing
<1>3. Inv /\ RingInv => RingConsistent
  BY RingIs DEF Inv
<1> QED  BY <1>1, <1>2, <1>3, PTL DEF Spec

--------------------------------------------------------------------------------
(* The queue implements QueueSpec. *)

ContentsOK ==
    /\ Contents \in Seq(Item) /\ Len(Contents) = size
    /\ \A k \in 1..size : Contents[k] = storage[Rot(readIndex, k - 1)]

LEMMA ContentsIs == TypeOK /\ RingInv => ContentsOK
<1> SUFFICES ASSUME TypeOK, RingInv  PROVE ContentsOK
  OBVIOUS
<1>1. /\ size \in Nat /\ readIndex \in Indexes /\ storage \in [Indexes -> Item \cup {None}]
      /\ \A k \in 1..size : k - 1 \in Indexes /\ k - 1 \in 0..Capacity /\ k - 1 < size
  BY CapacityAssumption DEF TypeOK, Indexes
<1>2. \A k \in 1..size : Slot(k - 1) = Rot(readIndex, k - 1) /\ Rot(readIndex, k - 1) \in Indexes
  BY <1>1, RotIs DEF Slot
<1>3. \A k \in 1..size : storage[Slot(k - 1)] \in Item
  BY <1>1, <1>2 DEF RingInv
<1>4. Contents \in [1..size -> Item]
  BY <1>3 DEF Contents
<1>5. Contents \in Seq(Item)
  BY <1>1, <1>4, SeqDef
<1>6. Len(Contents) = size
  BY <1>1, <1>4, <1>5
<1> QED  BY <1>2, <1>5, <1>6 DEF Contents, ContentsOK

LEMMA ContentsAfter == (TypeOK /\ RingInv)' => ContentsOK'
  BY ContentsIs, PTL

LEMMA EmplaceAppends ==
  ASSUME TypeOK, RingInv, TypeOK', NEW i \in Item, size < Capacity, Emplace(i)
  PROVE  Contents' = Append(Contents, i)
<1>1. /\ RingInv'
      /\ \A k \in Indexes : storage'[Rot(readIndex', k)] =
              IF k = size THEN i ELSE storage[Rot(readIndex, k)]
  BY EmplaceRing
<1>2. /\ Contents \in Seq(Item) /\ Len(Contents) = size
      /\ \A k \in 1..size : Contents[k] = storage[Rot(readIndex, k - 1)]
  BY ContentsIs DEF ContentsOK
<1>3. /\ Contents' \in Seq(Item) /\ Len(Contents') = size'
      /\ \A k \in 1..size' : Contents'[k] = storage'[Rot(readIndex', k - 1)]
  BY <1>1, ContentsAfter DEF ContentsOK
<1>4. size' = size + 1 /\ size \in Nat /\ \A k \in 1..(size + 1) : k - 1 \in Indexes
  BY CapacityAssumption DEF Emplace, TypeOK, Indexes
<1> DEFINE s == Contents
           u == Contents'
<1>5. ASSUME NEW k \in 1..(size + 1)  PROVE u[k] = IF k = size + 1 THEN i ELSE s[k]
  <2>1. k - 1 \in Indexes /\ (k - 1 = size <=> k = size + 1) /\ (k # size + 1 => k \in 1..size)
    BY <1>4
  <2>2. u[k] = storage'[Rot(readIndex', k - 1)]
    BY <1>3, <1>4
  <2>3. u[k] = IF k - 1 = size THEN i ELSE storage[Rot(readIndex, k - 1)]
    BY <1>1, <2>1, <2>2
  <2>4. k # size + 1 => s[k] = storage[Rot(readIndex, k - 1)]
    BY <1>2, <2>1
  <2> HIDE DEF s, u
  <2> QED  BY <2>1, <2>3, <2>4
<1>6. /\ Append(s, i) \in Seq(Item) /\ Len(Append(s, i)) = size + 1
      /\ \A k \in 1..(size + 1) : Append(s, i)[k] = IF k = size + 1 THEN i ELSE s[k]
  <2> HIDE DEF s
  <2> QED  BY <1>2, <1>4, AppendProperties DEF s
<1> HIDE DEF s, u
<1>7. u \in Seq(Item) /\ Len(u) = size + 1
  BY <1>3, <1>4 DEF u
<1>8. u = Append(s, i)
  BY <1>5, <1>6, <1>7, SeqEqual
<1> QED  BY <1>8 DEF s, u

LEMMA ExtractTakesHead ==
  ASSUME TypeOK, RingInv, TypeOK', size > 0, Extract
  PROVE  /\ Contents # <<>> /\ Head(Contents) \in Item
         /\ Contents' = Tail(Contents)
<1>1. /\ RingInv'
      /\ \A k \in Indexes : k + 1 < Capacity =>
              storage'[Rot(readIndex', k)] = storage[Rot(readIndex, k + 1)]
  BY ExtractRing
<1>2. /\ Contents \in Seq(Item) /\ Len(Contents) = size
      /\ \A k \in 1..size : Contents[k] = storage[Rot(readIndex, k - 1)]
  BY ContentsIs DEF ContentsOK
<1>3. /\ Contents' \in Seq(Item) /\ Len(Contents') = size'
      /\ \A k \in 1..size' : Contents'[k] = storage'[Rot(readIndex', k - 1)]
  BY <1>1, ContentsAfter DEF ContentsOK
<1>4. /\ size' = size - 1 /\ size \in Nat \ {0}
      /\ \A k \in 1..(size - 1) : /\ k - 1 \in Indexes /\ (k - 1) + 1 < Capacity
                                 /\ (k + 1) - 1 = (k - 1) + 1 /\ k + 1 \in 1..size
  BY CapacityAssumption DEF Extract, TypeOK, Indexes
<1> DEFINE s == Contents
           u == Contents'
<1>5. ASSUME NEW k \in 1..(size - 1)  PROVE u[k] = s[k + 1]
  <2>1. /\ k - 1 \in Indexes /\ (k - 1) + 1 < Capacity
        /\ (k + 1) - 1 = (k - 1) + 1 /\ k + 1 \in 1..size /\ k \in 1..size'
    BY <1>4
  <2>2. u[k] = storage'[Rot(readIndex', k - 1)]
    BY <1>3, <2>1
  <2>3. storage'[Rot(readIndex', k - 1)] = storage[Rot(readIndex, (k - 1) + 1)]
    BY <1>1, <2>1
  <2>4. s[k + 1] = storage[Rot(readIndex, (k + 1) - 1)]
    BY <1>2, <2>1
  <2>5. Rot(readIndex, (k + 1) - 1) = Rot(readIndex, (k - 1) + 1)
    BY <2>1
  <2> HIDE DEF s, u
  <2> QED  BY <2>2, <2>3, <2>4, <2>5
<1>6. s \in Seq(Item) /\ Len(s) = size /\ u \in Seq(Item) /\ Len(u) = size - 1
  BY <1>2, <1>3, <1>4
<1> HIDE DEF s, u
<1>7. s # <<>>
  BY <1>4, <1>6, EmptySeq
<1>8. /\ Head(s) \in Item /\ Tail(s) \in Seq(Item) /\ Len(Tail(s)) = size - 1
      /\ \A k \in 1..(size - 1) : Tail(s)[k] = s[k + 1]
  BY <1>6, <1>7, HeadTailProperties
<1>9. u = Tail(s)
  BY <1>5, <1>6, <1>8, SeqEqual
<1> QED  BY <1>7, <1>8, <1>9 DEF s, u

\* BoundedQueue is a first-in, first-out queue that loses and duplicates
\* nothing: every step of it is a step of QueueSpec or changes nothing of it.
THEOREM Implements == Spec => IsAQueue
<1>1. ASSUME Init  PROVE Abstract!Init
  <2>1. Contents = <<>>
    BY <1>1 DEF Init, Contents
  <2> QED  BY <1>1, <2>1 DEF Init, Abstract!Init
<1>2. ASSUME Inv, RingInv, Inv', [Next]_vars  PROVE [Abstract!Next]_(Abstract!vars)
  <2>0. TypeOK /\ TypeOK' /\ Len(Contents) = size
    BY <1>2, ContentsIs DEF Inv, ContentsOK
  <2>1. ASSUME NEW i \in Item, ~stopped, size < Capacity, Emplace(i)
        PROVE  Abstract!Push(i)
    <3>1. Contents' = Append(Contents, i)
      BY <1>2, <2>0, <2>1, EmplaceAppends
    <3> QED  BY <2>0, <2>1, <3>1 DEF Emplace, Abstract!Push
  <2>2. ASSUME size > 0, Extract  PROVE \E i \in Item : Abstract!Pop(i)
    <3>1. Contents # <<>> /\ Head(Contents) \in Item /\ Contents' = Tail(Contents)
      BY <1>2, <2>0, <2>2, ExtractTakesHead
    <3> QED  BY <2>2, <3>1 DEF Extract, Abstract!Pop
  <2>3. ASSUME UNCHANGED <<storage, readIndex, writeIndex, size>>  PROVE Contents' = Contents
    BY <2>3 DEF Contents, Slot
  <2> QED  BY <1>2, <2>1, <2>2, <2>3, DataSteps DEF data, Abstract!Next, Abstract!Stop, Abstract!vars
<1>3. Init => Inv /\ RingInv
  BY InitInv, InitRing
<1>4. Inv /\ RingInv /\ [Next]_vars => (Inv /\ RingInv)'
  BY NextInv, NextRing
<1>5. Init => Abstract!Init
  BY <1>1
<1>6. Inv /\ RingInv /\ Inv' /\ [Next]_vars => [Abstract!Next]_(Abstract!vars)
  BY <1>2
<1> QED  BY <1>3, <1>4, <1>5, <1>6, PTL DEF Spec, IsAQueue, Abstract!Spec

--------------------------------------------------------------------------------
(* The demonstration of Chapter 4, over the specification of the queue.  Its  *)
(* invariant says which numbers the queue holds.                              *)

CONSTANT MaxItems
VARIABLES items, testOver, producer, sequence, depth, consumer,
          produced, consumed, highWaterMark

demo == INSTANCE QueueMeasurementDemo WITH stopped <- testOver

demoCounted == consumed + (IF consumer = "count" THEN 1 ELSE 0)

\* What is in the queue are the numbers from demoCounted up to sequence.
DemoInv ==
    /\ sequence \in Nat /\ produced \in Nat /\ consumed \in Nat
    /\ consumer \in {"pop", "count", "done"}
    /\ sequence = produced + (IF producer = "count" THEN 1 ELSE 0)
    /\ demoCounted <= sequence /\ sequence - demoCounted <= Capacity
    /\ items = [k \in 1..(sequence - demoCounted) |-> demoCounted + k - 1]
    /\ testOver => producer = "done"
    /\ consumer = "done" => testOver /\ demoCounted = sequence

LEMMA Numbers ==
  ASSUME NEW low \in Nat, NEW high \in Nat, low <= high,
         NEW s, s = [k \in 1..(high - low) |-> low + k - 1]
  PROVE  /\ s \in Seq(Nat) /\ Len(s) = high - low
         /\ Append(s, high) = [k \in 1..((high + 1) - low) |-> low + k - 1]
         /\ s # <<>> => /\ low + 1 <= high
                        /\ Tail(s) = [k \in 1..(high - (low + 1)) |-> (low + 1) + k - 1]
         /\ s = <<>> => low = high
<1> DEFINE n == high - low
<1>1. n \in Nat
  OBVIOUS
<1>2. s \in [1..n -> Nat]
  OBVIOUS
<1>3. s \in Seq(Nat) /\ Len(s) = n /\ DOMAIN s = 1..n
  BY <1>1, <1>2
<1>4. \A k \in 1..n : s[k] = low + k - 1
  OBVIOUS
<1> HIDE DEF n
<1>5. Append(s, high) = [k \in 1..((high + 1) - low) |-> low + k - 1]
  <2> DEFINE a == Append(s, high)
  <2>1. a \in Seq(Nat) /\ Len(a) = n + 1 /\ \A k \in 1..(n + 1) : a[k] = IF k = n + 1 THEN high ELSE s[k]
    BY <1>1, <1>3
  <2>2. \A k \in 1..(n + 1) : a[k] = low + k - 1
    BY <1>1, <1>4, <2>1 DEF n
  <2>3. a = [k \in 1..(n + 1) |-> a[k]]
    BY <2>1
  <2> HIDE DEF a
  <2>4. a = [k \in 1..(n + 1) |-> low + k - 1]
    BY <2>2, <2>3
  <2>5. n + 1 = (high + 1) - low
    BY DEF n
  <2> QED  BY <2>4, <2>5 DEF a
<1>6. ASSUME s # <<>>
      PROVE  /\ low + 1 <= high
             /\ Tail(s) = [k \in 1..(high - (low + 1)) |-> (low + 1) + k - 1]
  <2> DEFINE t == Tail(s)
  <2>1. n # 0
    BY <1>3, <1>6
  <2>2. t \in Seq(Nat) /\ Len(t) = n - 1 /\ \A k \in 1..(n - 1) : t[k] = s[k + 1]
    BY <1>1, <1>3, <1>6, <2>1
  <2>3. \A k \in 1..(n - 1) : t[k] = (low + 1) + k - 1
    BY <1>1, <1>4, <2>2
  <2>4. t = [k \in 1..(n - 1) |-> t[k]]
    <3>1. DOMAIN t = 1..Len(t)
      BY <2>2
    <3> QED  BY <2>2, <3>1
  <2> HIDE DEF t
  <2>5. t = [k \in 1..(n - 1) |-> (low + 1) + k - 1]
    BY <2>3, <2>4
  <2>6. n - 1 = high - (low + 1) /\ low + 1 <= high
    BY <1>1, <2>1 DEF n
  <2> QED  BY <2>5, <2>6 DEF t
<1>7. s = <<>> => low = high
  BY <1>3 DEF n
<1> QED  BY <1>3, <1>5, <1>6, <1>7 DEF n

LEMMA DemoNumbers ==
  ASSUME DemoInv
  PROVE  /\ demoCounted \in Nat /\ Len(items) = sequence - demoCounted
         /\ Append(items, sequence) = [k \in 1..((sequence + 1) - demoCounted) |-> demoCounted + k - 1]
         /\ items # <<>> =>
              /\ demoCounted + 1 <= sequence
              /\ Tail(items) = [k \in 1..(sequence - (demoCounted + 1)) |-> (demoCounted + 1) + k - 1]
         /\ items = <<>> => demoCounted = sequence
<1>1. demoCounted \in Nat
  BY DEF DemoInv, demoCounted
<1> HIDE DEF demoCounted
<1>2. /\ sequence \in Nat /\ demoCounted <= sequence
      /\ items = [k \in 1..(sequence - demoCounted) |-> demoCounted + k - 1]
  BY DEF DemoInv
<1> QED  BY <1>1, <1>2, Numbers

LEMMA DemoStarts == demo!Init => DemoInv
<1> SUFFICES ASSUME demo!Init PROVE DemoInv
  OBVIOUS
<1>1. items = <<>> /\ testOver = FALSE /\ producer = "loop" /\ sequence = 0 /\ consumer = "pop"
      /\ produced = 0 /\ consumed = 0
  BY DEF demo!Init, demo!queue!Init
<1>2. <<>> = [k \in 1..0 |-> 0 + k - 1]
  OBVIOUS
<1>3. demoCounted = 0
  BY <1>1 DEF demoCounted
<1>4. items = [k \in 1..(sequence - demoCounted) |-> demoCounted + k - 1]
  BY <1>1, <1>2, <1>3
<1> QED  BY <1>1, <1>3, <1>4, CapacityAssumption DEF DemoInv

LEMMA DemoPushes == ASSUME DemoInv, demo!PushItem  PROVE DemoInv'
<1>1. /\ producer = "push" /\ ~testOver /\ Len(items) < Capacity /\ items' = Append(items, sequence)
      /\ testOver' = testOver
      /\ sequence' = sequence + 1 /\ producer' = "count" /\ consumer' = consumer
      /\ produced' = produced /\ consumed' = consumed
  BY DEF demo!PushItem, demo!queue!Push, demo!statistics
<1>2. demoCounted' = demoCounted
  BY <1>1 DEF demoCounted
<1>3. items' = [k \in 1..(sequence' - demoCounted') |-> demoCounted' + k - 1]
  BY <1>1, <1>2, DemoNumbers
<1>4. demoCounted' <= sequence' /\ sequence' - demoCounted' <= Capacity
  <2>1. /\ sequence \in Nat /\ demoCounted \in Nat /\ demoCounted <= sequence
        /\ Len(items) = sequence - demoCounted
    BY DemoNumbers DEF DemoInv
  <2> QED  BY <1>1, <1>2, <2>1, CapacityAssumption
<1>5. /\ sequence' \in Nat /\ produced' \in Nat /\ consumed' \in Nat
      /\ consumer' \in {"pop", "count", "done"}
      /\ sequence' = produced' + (IF producer' = "count" THEN 1 ELSE 0)
      /\ testOver' => producer' = "done"
      /\ consumer' # "done"
  BY <1>1 DEF DemoInv
<1> QED  BY <1>3, <1>4, <1>5 DEF DemoInv

LEMMA DemoPops == ASSUME DemoInv, demo!PopItem  PROVE DemoInv'
<1>1. /\ consumer = "pop" /\ items # <<>> /\ items' = Tail(items) /\ testOver' = testOver
      /\ sequence' = sequence /\ producer' = producer /\ consumer' = "count"
      /\ produced' = produced /\ consumed' = consumed
  BY DEF demo!PopItem, demo!queue!Pop, demo!statistics
<1>2. demoCounted' = demoCounted + 1
  BY <1>1 DEF demoCounted, DemoInv
<1>3. items' = [k \in 1..(sequence' - demoCounted') |-> demoCounted' + k - 1]
  BY <1>1, <1>2, DemoNumbers
<1>4. demoCounted' <= sequence' /\ sequence' - demoCounted' <= Capacity
  BY <1>1, <1>2, DemoNumbers, CapacityAssumption DEF DemoInv
<1> QED  BY <1>1, <1>3, <1>4 DEF DemoInv

\* Every other step moves a thread on, and counts at most.
LEMMA DemoGoesOn ==
  ASSUME DemoInv,
         \/ demo!StartItem \/ demo!CountProduced \/ demo!MeasureDepth \/ demo!updateHighWaterMark
         \/ demo!TestEnds \/ demo!CountConsumed \/ demo!ConsumerEnds \/ UNCHANGED demo!vars
  PROVE  DemoInv'
<1>1. items' = items /\ sequence' = sequence
  BY DEF demo!StartItem, demo!CountProduced, demo!MeasureDepth, demo!updateHighWaterMark,
         demo!TestEnds, demo!CountConsumed, demo!ConsumerEnds, demo!vars, demo!queue!Stop
<1>2. /\ produced' \in Nat
      /\ sequence = produced' + (IF producer' = "count" THEN 1 ELSE 0)
      /\ testOver' => producer' = "done"
  BY DEF DemoInv, demo!StartItem, demo!CountProduced, demo!MeasureDepth, demo!updateHighWaterMark,
         demo!TestEnds, demo!CountConsumed, demo!ConsumerEnds, demo!vars, demo!statistics,
         demo!queue!Stop
<1>3. consumed' \in Nat /\ consumer' \in {"pop", "count", "done"} /\ demoCounted' = demoCounted
  BY DEF DemoInv, demoCounted, demo!StartItem, demo!CountProduced, demo!MeasureDepth,
         demo!updateHighWaterMark, demo!TestEnds, demo!CountConsumed, demo!ConsumerEnds,
         demo!vars, demo!statistics
<1>4. consumer' = "done" => testOver' /\ demoCounted = sequence
  <2>1. items = <<>> => demoCounted = sequence
    BY DemoNumbers
  <2> QED
    BY <2>1 DEF DemoInv, demo!StartItem, demo!CountProduced, demo!MeasureDepth,
         demo!updateHighWaterMark, demo!TestEnds, demo!CountConsumed, demo!ConsumerEnds,
         demo!vars, demo!statistics, demo!queue!Drained, demo!queue!Stop
<1> HIDE DEF demoCounted
<1> QED  BY <1>1, <1>2, <1>3, <1>4 DEF DemoInv

\* Every number that was produced is in the queue, in its place, or was consumed:
\* at every moment, for queues of any capacity and a test of any length; and so,
\* when both threads have ended, all that was produced was consumed.
THEOREM NothingIsLostBetween == demo!Init /\ [][demo!Next]_demo!vars => []demo!Conservation
<1>1. DemoInv /\ [demo!Next]_demo!vars => DemoInv'
  BY DemoPushes, DemoPops, DemoGoesOn DEF demo!Next, demo!Producer, demo!Consumer
<1>2. DemoInv => demo!Conservation
  <2> SUFFICES ASSUME DemoInv  PROVE demo!Conservation
    OBVIOUS
  <2>1. consumed + demo!InFlight(consumer = "count") = demoCounted
        /\ produced + demo!InFlight(producer = "count") = sequence
    BY DEF demo!InFlight, demoCounted, DemoInv
  <2>2. Len(items) <= Capacity
    BY DemoNumbers DEF DemoInv
  <2>3. demo!Ended => consumed = produced /\ items = <<>>
    <3> SUFFICES ASSUME demo!Ended  PROVE consumed = produced /\ items = <<>>
      OBVIOUS
    <3>1. producer = "done" /\ consumer = "done"
      BY DEF demo!Ended
    <3>2. consumed = demoCounted /\ produced = sequence /\ demoCounted = sequence
      BY <3>1 DEF DemoInv, demoCounted
    <3>3. items = [k \in 1..0 |-> demoCounted + k - 1]
      BY <3>2 DEF DemoInv
    <3> QED  BY <3>2, <3>3
  <2> HIDE DEF demoCounted
  <2>4. items = [k \in 1..(sequence - demoCounted) |-> demoCounted + k - 1]
    BY DEF DemoInv
  <2> QED  BY <2>1, <2>2, <2>3, <2>4 DEF demo!Conservation
<1> QED  BY <1>1, <1>2, DemoStarts, PTL

--------------------------------------------------------------------------------
(* The synchronized fusion of Chapter 14, over two such queues.  The          *)
(* invariant follows the pressures and the temperatures along their way: the  *)
(* hands and queues they are in, and the order of their numbers.              *)

CONSTANTS MatchWindow, FifoLink, MaxTime, MaxTemperatures, MaxStrays
VARIABLES time, transmitter, link, strays, stopping, remoteItems, localItems, queuesStopped,
          receiver, acquisition, fusion, mainAt, taken, drained, fused, dropped, skipped

fusionDevice == INSTANCE SampleFusion

Measurement == [sequence : Nat, eventTime : Nat]
Optional == {o \in Seq(Measurement) : Len(o) <= 1}
Row == [temperature : Measurement, pressure : Measurement, match : BOOLEAN]

FusionTypes ==
    /\ time \in Nat /\ transmitter \in Nat
    /\ link \in Seq(Measurement)
    /\ remoteItems \in Seq(Measurement) /\ localItems \in Seq(Measurement)
    /\ receiver \in [at : {"loop", "push", "done"}, holds : Optional]
    /\ acquisition \in [at : {"loop", "push", "done"}, sequence : Nat, holds : Optional]
    /\ fusion \in [at : {"loop", "drain", "local", "fuse", "done"},
                   latestTemperature : Optional, latestPressure : Optional]
    /\ taken \in Seq(Measurement) /\ drained \in Nat
    /\ fused \in Seq(Row) /\ dropped \in Nat /\ skipped \in Nat

\* A thread about to hand something on has it.
Hands ==
    /\ receiver.at = "push" => receiver.holds # <<>> /\ receiver.holds[1].sequence # 0
    /\ IF acquisition.at = "push"
         THEN acquisition.holds # <<>> /\ acquisition.holds[1].sequence = acquisition.sequence
         ELSE acquisition.holds = <<>>
    /\ fusion.at = "fuse" => fusion.latestPressure # <<>>

\* The last pressure that is not in the acquisition thread's hands.
Newest == IF acquisition.at = "push" THEN acquisition.sequence - 1 ELSE acquisition.sequence

\* How many pressures the fusion thread has in its hands.
InHand == IF fusion.at = "fuse" THEN 1 ELSE 0

PressuresCount ==
    acquisition.sequence = Len(fused) + skipped + dropped + Len(localItems)
                           + Len(acquisition.holds) + InHand

\* The numbers f, then h, then g increase, up to newest; h counts if inHand is 1.
Increasing(f, n, inHand, h, g, m, newest) ==
    /\ \A i \in 1..n : /\ f[i] <= newest
                       /\ \A j \in 1..n : i < j => f[i] < f[j]
                       /\ \A k \in 1..m : f[i] < g[k]
                       /\ inHand = 1 => f[i] < h
    /\ \A k \in 1..m : /\ g[k] <= newest
                       /\ \A l \in 1..m : k < l => g[k] < g[l]
                       /\ inHand = 1 => h < g[k]
    /\ inHand = 1 => h <= newest

FusedNumbers == [i \in 1..Len(fused) |-> fused[i].pressure.sequence]
WaitingNumbers == [k \in 1..Len(localItems) |-> localItems[k].sequence]
NumberInHand == fusion.latestPressure[1].sequence

\* Pressures move on in the order in which they were taken.
PressuresOrder ==
    Increasing(FusedNumbers, Len(fused), InHand, NumberInHand,
               WaitingNumbers, Len(localItems), Newest)

Pressures == PressuresCount /\ PressuresOrder

\* How many temperatures the fusion thread has taken out of its queue.
Out == Len(taken) - Len(remoteItems)

Temperatures ==
    /\ Out \in Nat
    /\ \A k \in 1..Len(remoteItems) : remoteItems[k] = taken[Out + k]
    /\ fusion.latestTemperature = IF Out = 0 THEN <<>> ELSE <<taken[Out]>>
    /\ fusion.at \in {"local", "fuse"} => drained = Out

\* They come in order if the link keeps it: those on their way, the one that was
\* received, those that were taken, and those that were fused.
LinkOrder ==
    \A i \in 1..Len(link) :
      /\ link[i].sequence <= transmitter
      /\ \A j \in 1..Len(link) :
           i < j /\ link[j].sequence # 0 => link[i].sequence <= link[j].sequence
      /\ link[i].sequence # 0 =>
           /\ receiver.at = "push" => receiver.holds[1].sequence <= link[i].sequence
           /\ \A k \in 1..Len(taken) : taken[k].sequence <= link[i].sequence

TakenOrder ==
    /\ receiver.at = "push" =>
         /\ receiver.holds[1].sequence <= transmitter
         /\ \A k \in 1..Len(taken) : taken[k].sequence <= receiver.holds[1].sequence
    /\ \A k \in 1..Len(taken) :
         /\ taken[k].sequence <= transmitter
         /\ \A l \in 1..Len(taken) : k < l => taken[k].sequence <= taken[l].sequence

RowOrder ==
    \A i \in 1..Len(fused) :
      /\ Out # 0 /\ fused[i].temperature.sequence <= taken[Out].sequence
      /\ \A j \in 1..Len(fused) :
           i < j => fused[i].temperature.sequence <= fused[j].temperature.sequence

TemperatureOrder == LinkOrder /\ TakenOrder /\ RowOrder

Close(row) ==
    row.match <=> /\ row.pressure.eventTime <= row.temperature.eventTime + MatchWindow
                  /\ row.temperature.eventTime <= row.pressure.eventTime + MatchWindow

RowsAreClose == \A i \in 1..Len(fused) : Close(fused[i])

FusionInv == FusionTypes /\ Hands /\ Pressures /\ Temperatures
             /\ (FifoLink => TemperatureOrder) /\ RowsAreClose

--------------------------------------------------------------------------------
LEMMA SequenceSteps ==
  ASSUME NEW S, NEW s \in Seq(S)
  PROVE  /\ Len(s) \in Nat /\ DOMAIN s = 1..Len(s)
         /\ \A k \in 1..Len(s) : s[k] \in S
         /\ \A x \in S : /\ Append(s, x) \in Seq(S) /\ Len(Append(s, x)) = Len(s) + 1
                         /\ \A k \in 1..Len(s) : Append(s, x)[k] = s[k]
                         /\ Append(s, x)[Len(s) + 1] = x
         /\ s # <<>> => /\ Len(s) > 0 /\ Head(s) = s[1] /\ Tail(s) \in Seq(S)
                        /\ Len(Tail(s)) = Len(s) - 1
                        /\ \A k \in 1..(Len(s) - 1) : Tail(s)[k] = s[k + 1]
         /\ s = <<>> <=> Len(s) = 0
<1>1. Len(s) \in Nat /\ DOMAIN s = 1..Len(s) /\ \A k \in 1..Len(s) : s[k] \in S
  OBVIOUS
<1>2. \A x \in S : /\ Append(s, x) \in Seq(S) /\ Len(Append(s, x)) = Len(s) + 1
                   /\ \A k \in 1..Len(s) : Append(s, x)[k] = s[k]
                   /\ Append(s, x)[Len(s) + 1] = x
  OBVIOUS
<1>3. s # <<>> => /\ Len(s) > 0 /\ Head(s) = s[1] /\ Tail(s) \in Seq(S)
                  /\ Len(Tail(s)) = Len(s) - 1
                  /\ \A k \in 1..(Len(s) - 1) : Tail(s)[k] = s[k + 1]
  OBVIOUS
<1>4. s = <<>> <=> Len(s) = 0
  OBVIOUS
<1> QED  BY <1>1, <1>2, <1>3, <1>4

LEMMA Appended ==
  \A S, t : \A s \in Seq(S), x \in S : t = s \/ t = Append(s, x) => t \in Seq(S)
  OBVIOUS

LEMMA OptionalFacts ==
  /\ <<>> \in Optional /\ Len(<<>>) = 0
  /\ \A m \in Measurement : <<m>> \in Optional /\ <<m>>[1] = m /\ <<m>> # <<>> /\ Len(<<m>>) = 1
  /\ \A o \in Optional : o # <<>> => o[1] \in Measurement /\ o = <<o[1]>> /\ Len(o) = 1
  /\ \A m \in Measurement : m.sequence \in Nat /\ m.eventTime \in Nat
<1>1. \A m \in Measurement : m.sequence \in Nat /\ m.eventTime \in Nat
  BY DEF Measurement
<1> HIDE DEF Measurement
<1>2. <<>> \in Optional /\ Len(<<>>) = 0
  BY DEF Optional
<1>3. \A m \in Measurement : <<m>> \in Optional /\ <<m>>[1] = m /\ <<m>> # <<>> /\ Len(<<m>>) = 1
  BY DEF Optional
<1>4. \A o \in Optional : o # <<>> => o[1] \in Measurement /\ o = <<o[1]>> /\ Len(o) = 1
  BY DEF Optional
<1> QED  BY <1>1, <1>2, <1>3, <1>4

LEMMA Joined ==
  ASSUME NEW n \in Nat, NEW i \in 1..n, NEW s, NEW a, NEW b, NEW c, NEW lengthA, NEW lengthC,
         lengthA = i - 1, \A k \in 1..(i - 1) : a[k] = s[k],
         \A k \in 1..(n - i) : b[k] = s[i + k],
         lengthC = lengthA + (n - i),
         \A k \in 1..lengthC : c[k] = IF k <= lengthA THEN a[k] ELSE b[k - lengthA]
  PROVE  /\ lengthC = n - 1
         /\ \A k \in 1..(n - 1) : c[k] = IF k < i THEN s[k] ELSE s[k + 1]
<1>1. lengthC = n - 1
  OBVIOUS
<1>2. ASSUME NEW k \in 1..(n - 1)  PROVE c[k] = IF k < i THEN s[k] ELSE s[k + 1]
  <2>1. CASE k < i
    BY <1>1, <2>1
  <2>2. CASE k >= i
    <3>1. k - lengthA \in 1..(n - i) /\ i + (k - lengthA) = k + 1
      BY <2>2
    <3> QED  BY <1>1, <2>2, <3>1
  <2> QED  BY <2>1, <2>2
<1> QED  BY <1>1, <1>2

LEMMA Removal ==
  ASSUME NEW S, NEW s \in Seq(S), NEW i \in 1..Len(s)
  PROVE  /\ fusionDevice!RemoveAt(s, i) \in Seq(S)
         /\ Len(fusionDevice!RemoveAt(s, i)) = Len(s) - 1
         /\ \A k \in 1..(Len(s) - 1) :
              fusionDevice!RemoveAt(s, i)[k] = IF k < i THEN s[k] ELSE s[k + 1]
<1> DEFINE a == SubSeq(s, 1, i - 1)
           b == SubSeq(s, i + 1, Len(s))
<1>1. a \in Seq(S) /\ Len(a) = i - 1 /\ \A k \in 1..(i - 1) : a[k] = s[k]
  OBVIOUS
<1>2. b \in Seq(S) /\ Len(b) = Len(s) - i /\ \A k \in 1..(Len(s) - i) : b[k] = s[i + k]
  OBVIOUS
<1>3. fusionDevice!RemoveAt(s, i) = a \o b
  BY DEF fusionDevice!RemoveAt
<1> HIDE DEF a, b
<1>4. /\ a \o b \in Seq(S) /\ Len(a \o b) = Len(a) + Len(b)
      /\ \A k \in 1..(Len(a) + Len(b)) :
           (a \o b)[k] = IF k <= Len(a) THEN a[k] ELSE b[k - Len(a)]
  BY <1>1, <1>2, ConcatProperties, Zenon
<1>5. Len(s) \in Nat
  OBVIOUS
<1> DEFINE c == a \o b
<1>6. /\ Len(c) = Len(a) + (Len(s) - i)
      /\ \A k \in 1..Len(c) : c[k] = IF k <= Len(a) THEN a[k] ELSE b[k - Len(a)]
  BY <1>2, <1>4, Zenon
<1> HIDE DEF c
<1>7. /\ Len(c) = Len(s) - 1
      /\ \A k \in 1..(Len(s) - 1) : c[k] = IF k < i THEN s[k] ELSE s[k + 1]
  <2>1. PICK n \in Nat : n = Len(s)
    BY <1>5
  <2>2. PICK lengthA : lengthA = Len(a)
    OBVIOUS
  <2>3. PICK lengthC : lengthC = Len(c)
    OBVIOUS
  <2>4. /\ i \in 1..n /\ lengthA = i - 1 /\ \A k \in 1..(i - 1) : a[k] = s[k]
        /\ \A k \in 1..(n - i) : b[k] = s[i + k]
        /\ lengthC = lengthA + (n - i)
        /\ \A k \in 1..lengthC : c[k] = IF k <= lengthA THEN a[k] ELSE b[k - lengthA]
    BY <1>1, <1>2, <1>6, <2>1, <2>2, <2>3, Zenon
  <2>5. /\ lengthC = n - 1
        /\ \A k \in 1..(n - 1) : c[k] = IF k < i THEN s[k] ELSE s[k + 1]
    BY <2>4, Joined
  <2> QED  BY <2>1, <2>3, <2>5, Zenon
<1> QED  BY <1>3, <1>4, <1>7, Zenon DEF c

LEMMA FusionStarts == ASSUME fusionDevice!Init PROVE FusionInv
<1>1. /\ time = 0 /\ transmitter = 0 /\ link = <<>> /\ remoteItems = <<>> /\ localItems = <<>>
      /\ receiver = [at |-> "loop", holds |-> <<>>]
      /\ acquisition = [at |-> "loop", sequence |-> 0, holds |-> <<>>]
      /\ fusion = [at |-> "loop", latestTemperature |-> <<>>, latestPressure |-> <<>>]
      /\ taken = <<>> /\ drained = 0 /\ fused = <<>> /\ dropped = 0 /\ skipped = 0
  BY DEF fusionDevice!Init, fusionDevice!None
<1>2. FusionTypes
  <2>1. <<>> \in Seq(Measurement) /\ <<>> \in Seq(Row)
    OBVIOUS
  <2> HIDE DEF Optional
  <2> QED  BY <1>1, <2>1, OptionalFacts DEF FusionTypes
<1>3. Hands
  BY <1>1 DEF Hands
<1>4. Pressures
  <2>1. Len(fused) = 0 /\ Len(localItems) = 0 /\ InHand = 0 /\ Len(acquisition.holds) = 0
    BY <1>1 DEF InHand
  <2>2. PressuresCount
    BY <1>1, <2>1 DEF PressuresCount
  <2>3. PressuresOrder
    BY <2>1 DEF PressuresOrder, Increasing
  <2> QED  BY <2>2, <2>3 DEF Pressures
<1>5. Temperatures /\ TemperatureOrder /\ RowsAreClose
  BY <1>1 DEF Temperatures, TemperatureOrder, LinkOrder, TakenOrder, RowOrder, RowsAreClose, Out
<1> QED  BY <1>2, <1>3, <1>4, <1>5 DEF FusionInv

\* What a step does to the records of the threads.
LEMMA Acts ==
  ASSUME FusionTypes
  PROVE  /\ fusionDevice!ReceiverStops =>
              receiver'.at = "done" /\ receiver'.holds = receiver.holds
         /\ fusionDevice!PushPressure =>
              /\ acquisition.at = "push"
              /\ acquisition'.at = "loop" /\ acquisition'.sequence = acquisition.sequence
              /\ acquisition'.holds = <<>>
         /\ fusionDevice!AcquisitionStops =>
              /\ acquisition.at = "loop"
              /\ acquisition'.at = "done" /\ acquisition'.sequence = acquisition.sequence
              /\ acquisition'.holds = acquisition.holds
         /\ fusionDevice!FusionTurns \/ fusionDevice!RemoteEmpty \/ fusionDevice!LocalEmpty
            \/ fusionDevice!Fuse =>
              /\ fusion'.latestTemperature = fusion.latestTemperature
              /\ fusion'.latestPressure = fusion.latestPressure
         /\ fusionDevice!FusionTurns => fusion.at = "loop" /\ fusion'.at \in {"done", "drain"}
         /\ fusionDevice!RemoteEmpty => fusion.at = "drain" /\ fusion'.at = "local"
         /\ fusionDevice!LocalEmpty => fusion.at = "local" /\ fusion'.at = "loop"
         /\ fusionDevice!Fuse => fusion.at = "fuse" /\ fusion'.at = "loop"
<1> HIDE DEF Optional, Measurement, Row
<1>1. /\ receiver \in [at : {"loop", "push", "done"}, holds : Optional]
      /\ acquisition \in [at : {"loop", "push", "done"}, sequence : Nat, holds : Optional]
      /\ fusion \in [at : {"loop", "drain", "local", "fuse", "done"},
                     latestTemperature : Optional, latestPressure : Optional]
  BY DEF FusionTypes
<1>2. fusionDevice!ReceiverStops => receiver'.at = "done" /\ receiver'.holds = receiver.holds
  BY <1>1 DEF fusionDevice!ReceiverStops
<1>3. fusionDevice!PushPressure =>
              /\ acquisition.at = "push"
              /\ acquisition'.at = "loop" /\ acquisition'.sequence = acquisition.sequence
              /\ acquisition'.holds = <<>>
  BY <1>1 DEF fusionDevice!PushPressure, fusionDevice!None
<1>4. fusionDevice!AcquisitionStops =>
              /\ acquisition.at = "loop"
              /\ acquisition'.at = "done" /\ acquisition'.sequence = acquisition.sequence
              /\ acquisition'.holds = acquisition.holds
  BY <1>1 DEF fusionDevice!AcquisitionStops
<1>5. \A at : /\ [fusion EXCEPT !.at = at].at = at
              /\ [fusion EXCEPT !.at = at].latestTemperature = fusion.latestTemperature
              /\ [fusion EXCEPT !.at = at].latestPressure = fusion.latestPressure
  BY <1>1
<1>6. fusionDevice!FusionTurns =>
         fusion.at = "loop" /\ \E at \in {"done", "drain"} : fusion' = [fusion EXCEPT !.at = at]
  BY DEF fusionDevice!FusionTurns
<1>7. fusionDevice!RemoteEmpty => fusion.at = "drain" /\ fusion' = [fusion EXCEPT !.at = "local"]
  BY DEF fusionDevice!RemoteEmpty
<1>8. fusionDevice!LocalEmpty => fusion.at = "local" /\ fusion' = [fusion EXCEPT !.at = "loop"]
  BY DEF fusionDevice!LocalEmpty
<1>9. fusionDevice!Fuse => fusion.at = "fuse" /\ fusion' = [fusion EXCEPT !.at = "loop"]
  BY DEF fusionDevice!Fuse
<1>10. fusionDevice!FusionTurns =>
          /\ fusion'.at \in {"done", "drain"}
          /\ fusion'.latestTemperature = fusion.latestTemperature
          /\ fusion'.latestPressure = fusion.latestPressure
  BY <1>5, <1>6
<1>11. fusionDevice!RemoteEmpty =>
          /\ fusion'.at = "local"
          /\ fusion'.latestTemperature = fusion.latestTemperature
          /\ fusion'.latestPressure = fusion.latestPressure
  BY <1>5, <1>7
<1>12. ASSUME fusion' = [fusion EXCEPT !.at = "loop"]
       PROVE  /\ fusion'.at = "loop"
              /\ fusion'.latestTemperature = fusion.latestTemperature
              /\ fusion'.latestPressure = fusion.latestPressure
  BY <1>5, <1>12
<1> QED
  BY <1>2, <1>3, <1>4, <1>6, <1>7, <1>8, <1>9, <1>10, <1>11, <1>12, Zenon

LEMMA Takes ==
  ASSUME FusionTypes
  PROVE  /\ fusionDevice!PopTemperature =>
              /\ fusion.at = "drain" /\ remoteItems # <<>> /\ remoteItems' = Tail(remoteItems)
              /\ fusion'.at = fusion.at /\ fusion'.latestTemperature = <<remoteItems[1]>>
              /\ fusion'.latestPressure = fusion.latestPressure
         /\ fusionDevice!PopPressure =>
              /\ fusion.at = "local" /\ localItems # <<>> /\ localItems' = Tail(localItems)
              /\ fusion'.at = "fuse" /\ fusion'.latestPressure = <<localItems[1]>>
              /\ fusion'.latestTemperature = fusion.latestTemperature
<1> HIDE DEF Optional, Measurement, Row
<1>1. /\ fusion \in [at : {"loop", "drain", "local", "fuse", "done"},
                     latestTemperature : Optional, latestPressure : Optional]
      /\ remoteItems \in Seq(Measurement) /\ localItems \in Seq(Measurement)
  BY DEF FusionTypes
<1>2. ASSUME fusionDevice!PopTemperature
      PROVE  /\ fusion.at = "drain" /\ remoteItems # <<>> /\ remoteItems' = Tail(remoteItems)
             /\ fusion'.at = fusion.at /\ fusion'.latestTemperature = <<remoteItems[1]>>
             /\ fusion'.latestPressure = fusion.latestPressure
  <2>1. PICK item : fusionDevice!remoteQueue!Pop(item)
                    /\ fusion' = [fusion EXCEPT !.latestTemperature = <<item>>]
    BY <1>2 DEF fusionDevice!PopTemperature
  <2>2. remoteItems # <<>> /\ item = Head(remoteItems) /\ remoteItems' = Tail(remoteItems)
    BY <2>1 DEF fusionDevice!remoteQueue!Pop
  <2>3. Head(remoteItems) = remoteItems[1]
    BY <1>1, <2>2, SequenceSteps
  <2>4. fusion.at = "drain"
    BY <1>2 DEF fusionDevice!PopTemperature
  <2> QED  BY <1>1, <2>1, <2>2, <2>3, <2>4
<1>3. ASSUME fusionDevice!PopPressure
      PROVE  /\ fusion.at = "local" /\ localItems # <<>> /\ localItems' = Tail(localItems)
             /\ fusion'.at = "fuse" /\ fusion'.latestPressure = <<localItems[1]>>
             /\ fusion'.latestTemperature = fusion.latestTemperature
  <2>1. PICK item : fusionDevice!localQueue!Pop(item)
                    /\ fusion' = [fusion EXCEPT !.at = "fuse", !.latestPressure = <<item>>]
    BY <1>3 DEF fusionDevice!PopPressure
  <2>2. localItems # <<>> /\ item = Head(localItems) /\ localItems' = Tail(localItems)
    BY <2>1 DEF fusionDevice!localQueue!Pop
  <2>3. Head(localItems) = localItems[1]
    BY <1>1, <2>2, SequenceSteps
  <2>4. fusion.at = "local"
    BY <1>3 DEF fusionDevice!PopPressure
  <2> QED  BY <1>1, <2>1, <2>2, <2>3, <2>4
<1> QED  BY <1>2, <1>3

\* A row is made of what the thread has in its hands, and says whether it is a match.
LEMMA FuseStep ==
  ASSUME FusionTypes, Hands, MatchWindow \in Int, fusionDevice!Fuse
  PROVE  \/ fusion.latestTemperature = <<>> /\ skipped' = skipped + 1 /\ fused' = fused
         \/ /\ fusion.latestTemperature # <<>> /\ skipped' = skipped
            /\ \E row \in Row :
                 /\ fused' = Append(fused, row)
                 /\ row.temperature = fusion.latestTemperature[1]
                 /\ row.pressure = fusion.latestPressure[1]
                 /\ Close(row)
<1> HIDE DEF Optional, Measurement, Row
<1>1. PICK p : p = fusion.latestPressure[1]
  OBVIOUS
<1>2. p \in Measurement
  BY <1>1, OptionalFacts DEF Hands, FusionTypes, fusionDevice!Fuse
<1>3. CASE fusion.latestTemperature = <<>>
  BY <1>3 DEF fusionDevice!Fuse, fusionDevice!None
<1>4. CASE fusion.latestTemperature # <<>>
  <2>1. PICK t \in Measurement : t = fusion.latestTemperature[1]
    BY <1>4, OptionalFacts DEF FusionTypes
  <2>2. PICK close \in BOOLEAN :
          close = (fusionDevice!absoluteDifference(t.eventTime, p.eventTime) <= MatchWindow)
    <3>1. (fusionDevice!absoluteDifference(t.eventTime, p.eventTime) <= MatchWindow) \in BOOLEAN
      OBVIOUS
    <3> QED  BY <3>1, Zenon
  <2>3. PICK row : row = [temperature |-> t, pressure |-> p, match |-> close]
    OBVIOUS
  <2>4. row \in Row
    BY <1>2, <2>3 DEF Row
  <2>5. fused' = Append(fused, row) /\ skipped' = skipped
    BY <1>1, <1>4, <2>1, <2>2, <2>3 DEF fusionDevice!Fuse, fusionDevice!None
  <2>6. Close(row)
    <3>1. p.eventTime \in Nat /\ t.eventTime \in Nat
      BY <1>2, OptionalFacts
    <3>2. row.temperature = t /\ row.pressure = p /\ row.match = close
      BY <2>3
    <3>3. close <=> /\ p.eventTime <= t.eventTime + MatchWindow
                    /\ t.eventTime <= p.eventTime + MatchWindow
      <4>1. fusionDevice!absoluteDifference(t.eventTime, p.eventTime) <= MatchWindow
              <=> /\ p.eventTime <= t.eventTime + MatchWindow
                  /\ t.eventTime <= p.eventTime + MatchWindow
        BY <3>1 DEF fusionDevice!absoluteDifference
      <4>2. close <=> fusionDevice!absoluteDifference(t.eventTime, p.eventTime) <= MatchWindow
        BY <2>2, Zenon
      <4> QED  BY <4>1, <4>2, Zenon
    <3> QED  BY <3>2, <3>3 DEF Close
  <2>7. row.temperature = fusion.latestTemperature[1] /\ row.pressure = fusion.latestPressure[1]
    BY <1>1, <2>1, <2>3
  <2> QED  BY <1>4, <2>4, <2>5, <2>6, <2>7
<1> QED  BY <1>3, <1>4

LEMMA FusionTypesStep ==
  ASSUME FusionTypes, Hands, MatchWindow \in Int, fusionDevice!Next
  PROVE  FusionTypes'
<1> USE DEF FusionTypes
<1> HIDE DEF Optional, Measurement, Row
<1> DEFINE ReceiverRecord == [at : {"loop", "push", "done"}, holds : Optional]
           AcquisitionRecord == [at : {"loop", "push", "done"}, sequence : Nat, holds : Optional]
           FusionRecord == [at : {"loop", "drain", "local", "fuse", "done"},
                            latestTemperature : Optional, latestPressure : Optional]
<1>0. /\ link \in Seq(Measurement) /\ taken \in Seq(Measurement)
      /\ remoteItems \in Seq(Measurement) /\ localItems \in Seq(Measurement)
  OBVIOUS
<1>1. CASE fusionDevice!Outside
  <2>1. /\ remoteItems' = remoteItems /\ localItems' = localItems /\ receiver' = receiver
        /\ acquisition' = acquisition /\ fusion' = fusion /\ taken' = taken /\ drained' = drained
        /\ fused' = fused /\ dropped' = dropped /\ skipped' = skipped
    BY <1>1 DEF fusionDevice!Outside, fusionDevice!queues, fusionDevice!history
  <2>2. time' \in Nat /\ transmitter' \in Nat
    BY <1>1 DEF fusionDevice!Outside, fusionDevice!Transmit, fusionDevice!Stray, fusionDevice!TimePasses
  <2>3. link' \in Seq(Measurement)
    <3>1. [sequence |-> transmitter + 1, eventTime |-> time] \in Measurement
          /\ [sequence |-> 0, eventTime |-> 0] \in Measurement
      BY DEF Measurement
    <3>2. link' = link \/ (\E m \in Measurement : link' = Append(link, m))
      BY <1>1, <3>1 DEF fusionDevice!Outside, fusionDevice!Transmit, fusionDevice!Stray,
                        fusionDevice!TimePasses
    <3> QED  BY <1>0, <3>2, Appended
  <2> QED  BY <2>1, <2>2, <2>3
<1>2. CASE fusionDevice!Signal \/ fusionDevice!Join
  BY <1>2 DEF fusionDevice!Signal, fusionDevice!Join, fusionDevice!outside, fusionDevice!queues,
              fusionDevice!history
<1>3. CASE fusionDevice!Receive
  <2>1. PICK i \in DOMAIN link :
          /\ link' = fusionDevice!RemoveAt(link, i)
          /\ receiver' = IF link[i].sequence = 0 THEN receiver
                         ELSE [at |-> "push", holds |-> <<link[i]>>]
    BY <1>3 DEF fusionDevice!Receive
  <2>2. i \in 1..Len(link) /\ link[i] \in Measurement
    OBVIOUS
  <2>3. link' \in Seq(Measurement)
    BY <2>1, <2>2, Removal
  <2>4. receiver' \in ReceiverRecord
    BY <2>1, <2>2, OptionalFacts
  <2> QED  BY <1>3, <2>3, <2>4 DEF fusionDevice!Receive, fusionDevice!queues, fusionDevice!history
<1>4. CASE fusionDevice!PushTemperature
  <2>1. receiver.holds[1] \in Measurement
    BY <1>4, OptionalFacts DEF fusionDevice!PushTemperature, Hands
  <2>2. remoteItems' \in Seq(Measurement) /\ taken' \in Seq(Measurement)
    <3>1. \/ /\ remoteItems' = Append(remoteItems, receiver.holds[1])
             /\ taken' = Append(taken, receiver.holds[1])
          \/ remoteItems' = remoteItems /\ taken' = taken
      BY <1>4 DEF fusionDevice!PushTemperature, fusionDevice!remoteQueue!Push
    <3> QED  BY <1>0, <2>1, <3>1, Appended
  <2>3. receiver' \in ReceiverRecord
    BY <1>4, OptionalFacts DEF fusionDevice!PushTemperature, fusionDevice!None
  <2> QED  BY <1>4, <2>2, <2>3 DEF fusionDevice!PushTemperature, fusionDevice!outside
<1>5. CASE fusionDevice!ReceiverStops
  <2>1. receiver' \in ReceiverRecord
    BY <1>5 DEF fusionDevice!ReceiverStops
  <2> QED  BY <1>5, <2>1 DEF fusionDevice!ReceiverStops, fusionDevice!outside, fusionDevice!queues,
                          fusionDevice!history
<1>6. CASE fusionDevice!Acquire
  <2>1. PICK m : m = [sequence |-> acquisition.sequence + 1, eventTime |-> time]
    OBVIOUS
  <2>2. m \in Measurement
    BY <2>1 DEF Measurement
  <2>3. acquisition' = [at |-> "push", sequence |-> acquisition.sequence + 1, holds |-> <<m>>]
    BY <1>6, <2>1 DEF fusionDevice!Acquire
  <2>4. acquisition' \in AcquisitionRecord
    BY <2>2, <2>3, OptionalFacts
  <2> QED  BY <1>6, <2>4 DEF fusionDevice!Acquire, fusionDevice!outside, fusionDevice!queues,
                          fusionDevice!history
<1>7. CASE fusionDevice!PushPressure
  <2>1. acquisition.holds[1] \in Measurement
    BY <1>7, OptionalFacts DEF fusionDevice!PushPressure, Hands
  <2>2. localItems' \in Seq(Measurement) /\ dropped' \in Nat
    <3>1. /\ dropped' \in Nat
          /\ localItems' = Append(localItems, acquisition.holds[1]) \/ localItems' = localItems
      BY <1>7 DEF fusionDevice!PushPressure, fusionDevice!localQueue!Push
    <3> QED  BY <1>0, <2>1, <3>1, Appended
  <2>3. acquisition' \in AcquisitionRecord
    BY <1>7, OptionalFacts DEF fusionDevice!PushPressure, fusionDevice!None
  <2> QED  BY <1>7, <2>2, <2>3 DEF fusionDevice!PushPressure, fusionDevice!outside
<1>8. CASE fusionDevice!AcquisitionStops
  <2>1. acquisition' \in AcquisitionRecord
    BY <1>8 DEF fusionDevice!AcquisitionStops
  <2> QED  BY <1>8, <2>1 DEF fusionDevice!AcquisitionStops, fusionDevice!outside, fusionDevice!queues,
                          fusionDevice!history
<1>9. CASE fusionDevice!FusionTurns \/ fusionDevice!LocalEmpty
  <2>1. PICK at \in {"done", "drain", "loop"} : fusion' = [fusion EXCEPT !.at = at]
    BY <1>9 DEF fusionDevice!FusionTurns, fusionDevice!LocalEmpty
  <2>2. fusion' \in FusionRecord
    BY <2>1
  <2> QED  BY <1>9, <2>2 DEF fusionDevice!FusionTurns, fusionDevice!LocalEmpty, fusionDevice!outside,
                          fusionDevice!queues, fusionDevice!history
<1>10. CASE fusionDevice!PopTemperature
  <2>1. PICK item : fusion' = [fusion EXCEPT !.latestTemperature = <<item>>] /\ item \in Measurement
    <3>1. \A k \in DOMAIN remoteItems : remoteItems[k] \in Measurement
      BY SequenceSteps
    <3>2. \A item \in fusionDevice!Range(remoteItems) : item \in Measurement
      BY <3>1 DEF fusionDevice!Range
    <3> QED  BY <1>10, <3>2 DEF fusionDevice!PopTemperature
  <2>2. fusion' \in FusionRecord
    BY <2>1, OptionalFacts
  <2>3. remoteItems' \in Seq(Measurement)
    <3>1. remoteItems # <<>> /\ remoteItems' = Tail(remoteItems)
      BY <1>10, Takes, Zenon
    <3> QED  BY <1>0, <3>1, HeadTailProperties, Zenon
  <2> QED  BY <1>10, <2>2, <2>3 DEF fusionDevice!PopTemperature, fusionDevice!outside,
                          fusionDevice!history
<1>11. CASE fusionDevice!RemoteEmpty
  <2>1. fusion' \in FusionRecord
    BY <1>11 DEF fusionDevice!RemoteEmpty
  <2> QED  BY <1>11, <2>1 DEF fusionDevice!RemoteEmpty, fusionDevice!outside, fusionDevice!queues
<1>12. CASE fusionDevice!PopPressure
  <2>1. PICK item : /\ fusion' = [fusion EXCEPT !.at = "fuse", !.latestPressure = <<item>>]
                    /\ item \in Measurement
    <3>1. \A k \in DOMAIN localItems : localItems[k] \in Measurement
      BY SequenceSteps
    <3>2. \A item \in fusionDevice!Range(localItems) : item \in Measurement
      BY <3>1 DEF fusionDevice!Range
    <3> QED  BY <1>12, <3>2 DEF fusionDevice!PopPressure
  <2>2. fusion' \in FusionRecord
    BY <2>1, OptionalFacts
  <2>3. localItems' \in Seq(Measurement)
    <3>1. localItems # <<>> /\ localItems' = Tail(localItems)
      BY <1>12, Takes, Zenon
    <3> QED  BY <1>0, <3>1, HeadTailProperties, Zenon
  <2> QED  BY <1>12, <2>2, <2>3 DEF fusionDevice!PopPressure, fusionDevice!outside,
                          fusionDevice!history
<1>13. CASE fusionDevice!Fuse
  <2>1. fusion' \in FusionRecord
    BY <1>13 DEF fusionDevice!Fuse
  <2>2. skipped' \in Nat /\ fused' \in Seq(Row)
    BY <1>13, FuseStep, Appended
  <2> QED  BY <1>13, <2>1, <2>2 DEF fusionDevice!Fuse, fusionDevice!outside, fusionDevice!queues
<1> QED
  BY <1>1, <1>2, <1>3, <1>4, <1>5, <1>6, <1>7, <1>8, <1>9, <1>10, <1>11, <1>12, <1>13
  DEF fusionDevice!Next, fusionDevice!Receiver, fusionDevice!Acquisition, fusionDevice!Fusion

\* What the steps of each thread leave alone.
LEMMA Leaves ==
  /\ fusionDevice!Outside \/ fusionDevice!Signal \/ fusionDevice!Join =>
       UNCHANGED <<remoteItems, localItems, receiver, acquisition, fusion,
                   taken, drained, fused, dropped, skipped>>
  /\ fusionDevice!Receiver =>
       UNCHANGED <<transmitter, localItems, acquisition, fusion, drained, fused, dropped, skipped>>
  /\ fusionDevice!Acquisition =>
       UNCHANGED <<transmitter, link, remoteItems, receiver, fusion, taken, drained, fused, skipped>>
  /\ fusionDevice!Fusion =>
       UNCHANGED <<transmitter, link, receiver, acquisition, taken, dropped>>
<1> USE DEF fusionDevice!outside, fusionDevice!queues, fusionDevice!history
<1>1. fusionDevice!Outside \/ fusionDevice!Signal \/ fusionDevice!Join =>
        UNCHANGED <<remoteItems, localItems, receiver, acquisition, fusion,
                    taken, drained, fused, dropped, skipped>>
  BY DEF fusionDevice!Outside, fusionDevice!Signal, fusionDevice!Join
<1>2. fusionDevice!Receiver =>
        UNCHANGED <<transmitter, localItems, acquisition, fusion, drained, fused, dropped, skipped>>
  BY DEF fusionDevice!Receiver, fusionDevice!Receive, fusionDevice!PushTemperature,
         fusionDevice!ReceiverStops
<1>3. fusionDevice!Acquisition =>
        UNCHANGED <<transmitter, link, remoteItems, receiver, fusion, taken, drained, fused, skipped>>
  BY DEF fusionDevice!Acquisition, fusionDevice!Acquire, fusionDevice!PushPressure,
         fusionDevice!AcquisitionStops
<1>4. fusionDevice!Fusion => UNCHANGED <<transmitter, link, receiver, acquisition, taken, dropped>>
  BY DEF fusionDevice!Fusion, fusionDevice!FusionTurns, fusionDevice!PopTemperature,
         fusionDevice!RemoteEmpty, fusionDevice!PopPressure, fusionDevice!LocalEmpty,
         fusionDevice!Fuse
<1> QED  BY <1>1, <1>2, <1>3, <1>4

LEMMA HandsStep ==
  ASSUME FusionTypes, Hands, fusionDevice!Next
  PROVE  Hands'
<1> HIDE DEF Optional, Measurement, Row
<1>0. acquisition.sequence \in Nat
  BY DEF FusionTypes
<1>1. receiver'.at = "push" => receiver'.holds # <<>> /\ receiver'.holds[1].sequence # 0
  <2>1. CASE fusionDevice!Receive
    BY <2>1 DEF fusionDevice!Receive, Hands
  <2>2. CASE fusionDevice!PushTemperature
    BY <2>2 DEF fusionDevice!PushTemperature
  <2>3. CASE fusionDevice!ReceiverStops
    BY <2>3, Acts
  <2>4. CASE receiver' = receiver
    BY <2>4 DEF Hands
  <2> QED  BY <2>1, <2>2, <2>3, <2>4, Leaves DEF fusionDevice!Next, fusionDevice!Receiver
<1>2. IF acquisition'.at = "push"
        THEN acquisition'.holds # <<>> /\ acquisition'.holds[1].sequence = acquisition'.sequence
        ELSE acquisition'.holds = <<>>
  <2>1. CASE fusionDevice!Acquire
    BY <2>1 DEF fusionDevice!Acquire
  <2>2. CASE fusionDevice!PushPressure
    BY <2>2, Acts
  <2>3. CASE fusionDevice!AcquisitionStops
    BY <2>3, Acts DEF Hands
  <2>4. CASE acquisition' = acquisition
    BY <2>4 DEF Hands
  <2> QED  BY <2>1, <2>2, <2>3, <2>4, Leaves DEF fusionDevice!Next, fusionDevice!Acquisition
<1>3. fusion'.at = "fuse" => fusion'.latestPressure # <<>>
  <2>1. CASE fusionDevice!FusionTurns \/ fusionDevice!RemoteEmpty \/ fusionDevice!LocalEmpty
             \/ fusionDevice!Fuse
    BY <2>1, Acts
  <2>2. CASE fusionDevice!PopTemperature \/ fusionDevice!PopPressure
    BY <2>2, Takes
  <2>3. CASE fusion' = fusion
    BY <2>3 DEF Hands
  <2> QED  BY <2>1, <2>2, <2>3, Leaves DEF fusionDevice!Next, fusionDevice!Fusion
<1> QED  BY <1>1, <1>2, <1>3 DEF Hands

--------------------------------------------------------------------------------
(* Numbers that increase, at each end of the line. *)

\* A new number waits; or the newest is dropped.
LEMMA NumberWaits ==
  ASSUME NEW n \in Nat, NEW m \in Nat, NEW f \in [1..n -> Nat], NEW g \in [1..m -> Nat],
         NEW h, NEW newest \in Int, NEW inHand \in {0, 1}, inHand = 1 => h \in Int,
         Increasing(f, n, inHand, h, g, m, newest),
         NEW x \in Int, NEW G, x > newest, G[m + 1] = x, \A k \in 1..m : G[k] = g[k]
  PROVE  Increasing(f, n, inHand, h, G, m + 1, x)
<1> USE DEF Increasing
<1>1. \A k \in 1..(m + 1) : k \in 1..m \/ k = m + 1
  OBVIOUS
<1>2. \A i \in 1..n : /\ f[i] <= x
                      /\ \A j \in 1..n : i < j => f[i] < f[j]
                      /\ \A k \in 1..(m + 1) : f[i] < G[k]
                      /\ inHand = 1 => f[i] < h
  BY <1>1
<1>3. ASSUME NEW k \in 1..(m + 1)
      PROVE  /\ G[k] <= x
             /\ \A l \in 1..(m + 1) : k < l => G[k] < G[l]
             /\ inHand = 1 => h < G[k]
  <2>1. CASE k = m + 1
    BY <2>1
  <2>2. CASE k \in 1..m
    <3>1. G[k] = g[k] /\ g[k] \in Nat /\ g[k] <= newest
      BY <2>2
    <3>2. ASSUME NEW l \in 1..(m + 1), k < l  PROVE G[k] < G[l]
      <4>1. CASE l = m + 1
        BY <3>1, <4>1
      <4>2. CASE l \in 1..m
        <5>1. g[k] < g[l] /\ G[l] = g[l]
          BY <2>2, <3>2, <4>2
        <5> QED  BY <3>1, <5>1
      <4> QED  BY <1>1, <3>2, <4>1, <4>2
    <3> QED  BY <2>2, <3>1, <3>2
  <2> QED  BY <1>1, <2>1, <2>2
<1>4. inHand = 1 => h <= x
  OBVIOUS
<1> QED  BY <1>2, <1>3, <1>4

LEMMA NumberPasses ==
  ASSUME NEW n \in Nat, NEW m \in Nat, NEW f \in [1..n -> Nat], NEW g \in [1..m -> Nat],
         NEW h, NEW newest \in Int, NEW inHand \in {0, 1}, inHand = 1 => h \in Int,
         Increasing(f, n, inHand, h, g, m, newest),
         NEW x \in Int, x >= newest
  PROVE  Increasing(f, n, inHand, h, g, m, x)
BY DEF Increasing

\* The first that waits is taken in hand.
LEMMA NumberTaken ==
  ASSUME NEW n \in Nat, NEW m \in Nat, NEW f \in [1..n -> Nat], NEW g \in [1..m -> Nat],
         NEW h, NEW newest \in Int, Increasing(f, n, 0, h, g, m, newest),
         m > 0, NEW rest, rest = m - 1, NEW first, first = g[1],
         NEW G, \A k \in 1..rest : G[k] = g[k + 1]
  PROVE  Increasing(f, n, 1, first, G, rest, newest)
<1>1. 1 \in 1..m /\ \A k \in 1..(m - 1) : k + 1 \in 1..m /\ 1 < k + 1
  OBVIOUS
<1>2. \A i \in 1..n : /\ f[i] <= newest
                      /\ \A j \in 1..n : i < j => f[i] < f[j]
                      /\ \A k \in 1..rest : f[i] < G[k]
                      /\ f[i] < first
  BY <1>1 DEF Increasing
<1>3. \A k \in 1..rest : G[k] <= newest /\ first < G[k]
  BY <1>1 DEF Increasing
<1>4. \A k, l \in 1..rest : k < l => G[k] < G[l]
  <2> TAKE k, l \in 1..rest
  <2>1. k + 1 \in 1..m /\ l + 1 \in 1..m /\ (k < l => k + 1 < l + 1)
    OBVIOUS
  <2>2. k < l => g[k + 1] < g[l + 1]
    BY <2>1 DEF Increasing
  <2> QED  BY <2>2
<1>5. first <= newest
  BY <1>1 DEF Increasing
<1> QED  BY <1>2, <1>3, <1>4, <1>5 DEF Increasing

\* What was in hand is fused; or it is put away.
LEMMA NumberFused ==
  ASSUME NEW n \in Nat, NEW m \in Nat, NEW f \in [1..n -> Nat], NEW g \in [1..m -> Nat],
         NEW h, NEW newest \in Int, NEW inHand \in {0, 1}, inHand = 1 => h \in Int,
         Increasing(f, n, inHand, h, g, m, newest),
         inHand = 1, NEW F, F[n + 1] = h, \A i \in 1..n : F[i] = f[i], NEW x
  PROVE  Increasing(F, n + 1, 0, x, g, m, newest)
<1> USE DEF Increasing
<1>1. \A k \in 1..(n + 1) : k \in 1..n \/ k = n + 1
  OBVIOUS
<1>2. ASSUME NEW i \in 1..(n + 1)
      PROVE  /\ F[i] <= newest
             /\ \A j \in 1..(n + 1) : i < j => F[i] < F[j]
             /\ \A k \in 1..m : F[i] < g[k]
  <2>1. CASE i = n + 1
    BY <2>1
  <2>2. CASE i \in 1..n
    <3>1. F[i] = f[i] /\ f[i] \in Nat /\ f[i] <= newest /\ f[i] < h
      BY <2>2
    <3>2. ASSUME NEW j \in 1..(n + 1), i < j  PROVE F[i] < F[j]
      BY <1>1, <2>2, <3>1, <3>2
    <3> QED  BY <2>2, <3>1, <3>2
  <2> QED  BY <1>1, <2>1, <2>2
<1>3. \A k \in 1..m : /\ g[k] <= newest
                      /\ \A l \in 1..m : k < l => g[k] < g[l]
  OBVIOUS
<1> QED  BY <1>2, <1>3

LEMMA NumberPutAway ==
  ASSUME NEW n \in Nat, NEW m \in Nat, NEW f \in [1..n -> Nat], NEW g \in [1..m -> Nat],
         NEW h, NEW newest \in Int, NEW inHand \in {0, 1}, inHand = 1 => h \in Int,
         Increasing(f, n, inHand, h, g, m, newest),
         NEW x
  PROVE  Increasing(f, n, 0, x, g, m, newest)
BY DEF Increasing

LEMMA PressureFacts ==
  ASSUME FusionTypes, Hands
  PROVE  /\ Len(fused) \in Nat /\ Len(localItems) \in Nat /\ skipped \in Nat /\ dropped \in Nat
         /\ FusedNumbers \in [1..Len(fused) -> Nat]
         /\ WaitingNumbers \in [1..Len(localItems) -> Nat]
         /\ InHand \in {0, 1} /\ (InHand = 1 => NumberInHand \in Nat)
         /\ acquisition.sequence \in Nat /\ Newest \in Int
<1> HIDE DEF Optional, Measurement
<1>1. Len(fused) \in Nat /\ Len(localItems) \in Nat /\ skipped \in Nat /\ dropped \in Nat
      /\ acquisition.sequence \in Nat
  BY DEF FusionTypes
<1>2. \A i \in 1..Len(fused) : fused[i].pressure.sequence \in Nat
  <2>1. \A row \in Row : row.pressure \in Measurement
    BY DEF Row
  <2> HIDE DEF Row
  <2>2. \A i \in 1..Len(fused) : fused[i] \in Row
    BY SequenceSteps DEF FusionTypes
  <2> QED  BY <2>1, <2>2, OptionalFacts
<1>3. \A k \in 1..Len(localItems) : localItems[k].sequence \in Nat
  BY SequenceSteps, OptionalFacts DEF FusionTypes
<1>4. InHand \in {0, 1} /\ (InHand = 1 => fusion.at = "fuse")
  BY DEF InHand
<1>5. fusion.at = "fuse" => NumberInHand \in Nat
  BY OptionalFacts DEF FusionTypes, Hands, NumberInHand
<1>6. Newest \in Int
  BY <1>1 DEF Newest
<1> QED  BY <1>1, <1>2, <1>3, <1>4, <1>5, <1>6 DEF FusedNumbers, WaitingNumbers

LEMMA PressuresStay ==
  ASSUME PressuresOrder, UNCHANGED <<fused, localItems, InHand, NumberInHand, Newest>>
  PROVE  PressuresOrder'
BY DEF PressuresOrder, FusedNumbers, WaitingNumbers

LEMMA AcquirePressures ==
  ASSUME FusionTypes, Hands, Pressures, fusionDevice!Acquire
  PROVE  Pressures'
<1>0. /\ Len(fused) \in Nat /\ Len(localItems) \in Nat /\ skipped \in Nat /\ dropped \in Nat
      /\ FusedNumbers \in [1..Len(fused) -> Nat]
      /\ WaitingNumbers \in [1..Len(localItems) -> Nat]
      /\ InHand \in {0, 1} /\ (InHand = 1 => NumberInHand \in Nat)
      /\ acquisition.sequence \in Nat /\ Newest \in Int
  BY PressureFacts
<1>1. acquisition.at = "loop" /\ acquisition.sequence \in Nat /\ acquisition.holds = <<>>
  BY DEF FusionTypes, fusionDevice!Acquire, Hands
<1>2. /\ acquisition'.at = "push" /\ acquisition'.sequence = acquisition.sequence + 1
      /\ Len(acquisition'.holds) = 1
  BY DEF fusionDevice!Acquire
<1>3. UNCHANGED <<fused, skipped, dropped, localItems, fusion>>
  BY DEF fusionDevice!Acquire, fusionDevice!queues, fusionDevice!history
<1>4. Newest' = Newest
  BY <1>1, <1>2 DEF Newest
<1>5. InHand' = InHand /\ NumberInHand' = NumberInHand
  BY <1>3 DEF InHand, NumberInHand
<1> HIDE DEF Newest, InHand
<1>6. PressuresCount'
  <2>1. Len(acquisition.holds) = 0
    BY <1>1
  <2>2. acquisition.sequence = Len(fused) + skipped + dropped + Len(localItems) + InHand
    BY <1>0, <2>1 DEF Pressures, PressuresCount
  <2>3. acquisition'.sequence = Len(fused') + skipped' + dropped' + Len(localItems') + 1 + InHand'
    BY <1>0, <1>2, <1>3, <1>5, <2>2
  <2> QED  BY <1>2, <2>3 DEF PressuresCount
<1> QED  BY <1>3, <1>4, <1>5, <1>6, PressuresStay DEF Pressures

LEMMA PushPressurePressures ==
  ASSUME FusionTypes, Hands, Pressures, fusionDevice!PushPressure
  PROVE  Pressures'
<1> HIDE DEF Optional, Measurement, Row
<1>0. /\ Len(fused) \in Nat /\ Len(localItems) \in Nat /\ skipped \in Nat /\ dropped \in Nat
      /\ FusedNumbers \in [1..Len(fused) -> Nat]
      /\ WaitingNumbers \in [1..Len(localItems) -> Nat]
      /\ InHand \in {0, 1} /\ (InHand = 1 => NumberInHand \in Nat)
      /\ acquisition.sequence \in Nat /\ Newest \in Int
  BY PressureFacts
<1>1. PICK held \in Measurement : held = acquisition.holds[1]
  BY OptionalFacts DEF fusionDevice!PushPressure, Hands, FusionTypes
<1>2. /\ acquisition.at = "push" /\ held.sequence = acquisition.sequence
      /\ acquisition.sequence \in Nat /\ Len(acquisition.holds) = 1
  BY <1>1, OptionalFacts DEF fusionDevice!PushPressure, Hands, FusionTypes
<1>3. /\ acquisition'.at = "loop" /\ acquisition'.sequence = acquisition.sequence
      /\ Len(acquisition'.holds) = 0
  BY Acts, OptionalFacts
<1>4. UNCHANGED <<fused, skipped, fusion>>
  BY DEF fusionDevice!PushPressure
<1>5. Newest = acquisition.sequence - 1 /\ Newest' = acquisition.sequence
  BY <1>2, <1>3 DEF Newest
<1>6. InHand' = InHand /\ NumberInHand' = NumberInHand /\ FusedNumbers' = FusedNumbers
  BY <1>4 DEF InHand, NumberInHand, FusedNumbers
<1> DEFINE n == Len(fused)
           m == Len(localItems)
<1> HIDE DEF Newest, InHand
<1>7. \/ localItems' = Append(localItems, held) /\ dropped' = dropped
      \/ localItems' = localItems /\ dropped' = dropped + 1
  BY <1>1 DEF fusionDevice!PushPressure, fusionDevice!localQueue!Push
<1>8. CASE localItems' = Append(localItems, held) /\ dropped' = dropped
  <2>1. /\ Len(localItems') = m + 1
        /\ \A k \in 1..m : localItems'[k] = localItems[k]
        /\ localItems'[m + 1] = held
    BY <1>8, SequenceSteps DEF FusionTypes
  <2>2. PressuresCount'
    <3>1. Len(localItems') = m + 1 /\ dropped' = dropped
      BY <1>8, <2>1
    <3>2. acquisition.sequence = Len(fused) + skipped + dropped + Len(localItems) + 1 + InHand
      BY <1>2 DEF Pressures, PressuresCount
    <3>3. acquisition'.sequence = Len(fused') + skipped' + dropped' + Len(localItems') + 0 + InHand'
      BY <1>0, <1>3, <1>4, <1>6, <3>1, <3>2
    <3> QED  BY <1>3, <3>3 DEF PressuresCount
  <2>3. PICK G : /\ G = WaitingNumbers' /\ G[m + 1] = acquisition.sequence
                 /\ \A k \in 1..m : G[k] = WaitingNumbers[k]
    <3>1. m + 1 \in 1..(m + 1) /\ \A k \in 1..m : k \in 1..(m + 1)
      BY <1>0
    <3>2. \A k \in 1..m : WaitingNumbers[k] = localItems[k].sequence
      BY DEF WaitingNumbers
    <3>3. \A k \in 1..(m + 1) : WaitingNumbers'[k] = localItems'[k].sequence
      BY <2>1 DEF WaitingNumbers
    <3> HIDE DEF m
    <3> QED  BY <1>2, <2>1, <3>1, <3>2, <3>3
  <2>4. Increasing(FusedNumbers, n, InHand, NumberInHand, G, m + 1, acquisition.sequence)
    <3>1. Increasing(FusedNumbers, n, InHand, NumberInHand, WaitingNumbers, m, Newest)
      BY DEF Pressures, PressuresOrder
    <3>2. /\ n \in Nat /\ m \in Nat /\ FusedNumbers \in [1..n -> Nat]
          /\ WaitingNumbers \in [1..m -> Nat]
          /\ acquisition.sequence \in Int /\ acquisition.sequence > Newest
      BY <1>0, <1>5
    <3>3. (InHand = 1 => NumberInHand \in Int) /\ InHand \in {0, 1} /\ Newest \in Int
      BY <1>0
    <3>4. /\ G[m + 1] = acquisition.sequence
          /\ \A k \in 1..m : G[k] = WaitingNumbers[k]
      BY <2>3
    <3>5. PICK x \in Int : x = acquisition.sequence
      BY <3>2
    <3>6. PICK f, g, h, newest : /\ f = FusedNumbers /\ g = WaitingNumbers
                                /\ h = NumberInHand /\ newest = Newest
      OBVIOUS
    <3>7. PICK hand : hand = InHand
      OBVIOUS
    <3> HIDE DEF n, m
    <3>8. Increasing(f, n, hand, h, G, m + 1, x)
      <4>1. /\ f \in [1..n -> Nat] /\ g \in [1..m -> Nat] /\ n \in Nat /\ m \in Nat
            /\ newest \in Int /\ hand \in {0, 1} /\ (hand = 1 => h \in Int)
        BY <3>2, <3>3, <3>6, <3>7
      <4>2. Increasing(f, n, hand, h, g, m, newest)
        BY <3>1, <3>6, <3>7
      <4>3. x > newest /\ G[m + 1] = x /\ \A k \in 1..m : G[k] = g[k]
        BY <3>2, <3>4, <3>5, <3>6
      <4> QED  BY <4>1, <4>2, <4>3, NumberWaits
    <3> QED  BY <3>5, <3>6, <3>7, <3>8
  <2>5. PressuresOrder'
    BY <1>4, <1>5, <1>6, <2>1, <2>3, <2>4 DEF PressuresOrder
  <2> QED  BY <2>2, <2>5 DEF Pressures
<1>9. CASE localItems' = localItems /\ dropped' = dropped + 1
  <2>1. PressuresCount'
    <3>1. Len(localItems') = m /\ dropped' = dropped + 1
      BY <1>9
    <3>2. acquisition.sequence = Len(fused) + skipped + dropped + Len(localItems) + 1 + InHand
      BY <1>2 DEF Pressures, PressuresCount
    <3>3. acquisition'.sequence = Len(fused') + skipped' + dropped' + Len(localItems') + 0 + InHand'
      BY <1>0, <1>3, <1>4, <1>6, <3>1, <3>2
    <3> QED  BY <1>3, <3>3 DEF PressuresCount
  <2>2. Increasing(FusedNumbers, n, InHand, NumberInHand, WaitingNumbers, m, acquisition.sequence)
    <3>1. Increasing(FusedNumbers, n, InHand, NumberInHand, WaitingNumbers, m, Newest)
      BY DEF Pressures, PressuresOrder
    <3>2. /\ n \in Nat /\ m \in Nat /\ FusedNumbers \in [1..n -> Nat]
          /\ WaitingNumbers \in [1..m -> Nat]
          /\ acquisition.sequence \in Int /\ acquisition.sequence >= Newest
      BY <1>0, <1>5
    <3>3. InHand \in {0, 1} /\ Newest \in Int /\ (InHand = 1 => NumberInHand \in Int)
      BY <1>0
    <3>4. PICK f, g, h, newest : /\ f = FusedNumbers /\ g = WaitingNumbers
                                /\ h = NumberInHand /\ newest = Newest
      OBVIOUS
    <3>5. PICK hand, x : hand = InHand /\ x = acquisition.sequence
      OBVIOUS
    <3> HIDE DEF n, m
    <3>6. Increasing(f, n, hand, h, g, m, x)
      <4>1. /\ f \in [1..n -> Nat] /\ g \in [1..m -> Nat] /\ n \in Nat /\ m \in Nat
            /\ newest \in Int /\ hand \in {0, 1} /\ x \in Int /\ x >= newest
            /\ (hand = 1 => h \in Int)
        BY <3>2, <3>3, <3>4, <3>5
      <4>2. Increasing(f, n, hand, h, g, m, newest)
        BY <3>1, <3>4, <3>5
      <4> QED  BY <4>1, <4>2, NumberPasses
    <3> QED  BY <3>4, <3>5, <3>6
  <2>3. WaitingNumbers' = WaitingNumbers
    BY <1>9 DEF WaitingNumbers
  <2>4. PressuresOrder'
    BY <1>4, <1>5, <1>6, <1>9, <2>2, <2>3 DEF PressuresOrder
  <2> QED  BY <2>1, <2>4 DEF Pressures
<1> QED  BY <1>7, <1>8, <1>9

LEMMA PopPressurePressures ==
  ASSUME FusionTypes, Hands, Pressures, fusionDevice!PopPressure
  PROVE  Pressures'
<1> HIDE DEF Optional, Measurement, Row
<1> DEFINE n == Len(fused)
           m == Len(localItems)
<1>0. /\ Len(fused) \in Nat /\ Len(localItems) \in Nat /\ skipped \in Nat /\ dropped \in Nat
      /\ FusedNumbers \in [1..Len(fused) -> Nat]
      /\ WaitingNumbers \in [1..Len(localItems) -> Nat]
      /\ InHand \in {0, 1} /\ (InHand = 1 => NumberInHand \in Nat)
      /\ acquisition.sequence \in Nat /\ Newest \in Int
  BY PressureFacts
<1>1. /\ fusion.at = "local" /\ localItems # <<>> /\ localItems' = Tail(localItems)
      /\ fusion'.at = "fuse" /\ fusion'.latestPressure = <<localItems[1]>>
  BY Takes
<1>2. /\ m > 0 /\ Len(localItems') = m - 1
      /\ \A k \in 1..(m - 1) : localItems'[k] = localItems[k + 1]
  BY <1>1, SequenceSteps DEF FusionTypes
<1>3. UNCHANGED <<fused, skipped, dropped, acquisition>>
  BY DEF fusionDevice!PopPressure, fusionDevice!history
<1>4. InHand = 0 /\ InHand' = 1 /\ Newest' = Newest /\ FusedNumbers' = FusedNumbers
  BY <1>1, <1>3 DEF InHand, Newest, FusedNumbers
<1>5. NumberInHand' = WaitingNumbers[1]
  BY <1>1, <1>2, <1>0 DEF NumberInHand, WaitingNumbers
<1> HIDE DEF Newest, InHand, NumberInHand
<1>6. PressuresCount'
  <2>1. Len(acquisition.holds) \in Nat
    BY OptionalFacts DEF FusionTypes, Optional
  <2>2. Len(localItems') = m - 1
    BY <1>2
  <2>3. PICK held \in Nat : held = Len(acquisition.holds)
    BY <2>1
  <2>4. acquisition.sequence = Len(fused) + skipped + dropped + Len(localItems) + held + InHand
    BY <2>3 DEF Pressures, PressuresCount
  <2>5. acquisition'.sequence = Len(fused') + skipped' + dropped' + Len(localItems') + held + InHand'
    BY <1>0, <1>3, <1>4, <2>2, <2>4
  <2>6. Len(acquisition'.holds) = held
    BY <1>3, <2>3
  <2> QED  BY <2>5, <2>6 DEF PressuresCount
<1>7. PICK G : G = WaitingNumbers' /\ \A k \in 1..(m - 1) : G[k] = WaitingNumbers[k + 1]
  <2>1. \A k \in 1..(m - 1) : k + 1 \in 1..m
    BY <1>0
  <2>2. \A k \in 1..m : WaitingNumbers[k] = localItems[k].sequence
    BY DEF WaitingNumbers
  <2>3. \A k \in 1..(m - 1) : WaitingNumbers'[k] = localItems'[k].sequence
    BY <1>2 DEF WaitingNumbers
  <2> HIDE DEF m
  <2> QED  BY <1>2, <2>1, <2>2, <2>3
<1>8. Increasing(FusedNumbers, n, 1, WaitingNumbers[1], G, m - 1, Newest)
  <2>1. Increasing(FusedNumbers, n, InHand, NumberInHand, WaitingNumbers, m, Newest)
    BY DEF Pressures, PressuresOrder
  <2>2. /\ n \in Nat /\ m \in Nat /\ FusedNumbers \in [1..n -> Nat]
        /\ WaitingNumbers \in [1..m -> Nat]
    BY <1>0
  <2>3. Increasing(FusedNumbers, n, 0, NumberInHand, WaitingNumbers, m, Newest)
    BY <1>4, <2>1
  <2>4. PICK rest : rest = m - 1
    OBVIOUS
  <2>5. PICK first : first = WaitingNumbers[1]
    OBVIOUS
  <2>6. m > 0 /\ Newest \in Int /\ \A k \in 1..rest : G[k] = WaitingNumbers[k + 1]
    BY <1>0, <1>2, <1>7, <2>4
  <2> HIDE DEF n, m
  <2>7. Increasing(FusedNumbers, n, 1, first, G, rest, Newest)
    BY <2>2, <2>3, <2>4, <2>5, <2>6, NumberTaken
  <2> QED  BY <2>4, <2>5, <2>7
<1>9. PressuresOrder'
  BY <1>2, <1>3, <1>4, <1>5, <1>7, <1>8 DEF PressuresOrder
<1> QED  BY <1>6, <1>9 DEF Pressures

LEMMA FusePressures ==
  ASSUME FusionTypes, Hands, MatchWindow \in Int, Pressures, fusionDevice!Fuse
  PROVE  Pressures'
<1> HIDE DEF Optional, Measurement, Row
<1> DEFINE n == Len(fused)
           m == Len(localItems)
<1>0. /\ Len(fused) \in Nat /\ Len(localItems) \in Nat /\ skipped \in Nat /\ dropped \in Nat
      /\ FusedNumbers \in [1..Len(fused) -> Nat]
      /\ WaitingNumbers \in [1..Len(localItems) -> Nat]
      /\ InHand \in {0, 1} /\ (InHand = 1 => NumberInHand \in Nat)
      /\ acquisition.sequence \in Nat /\ Newest \in Int
  BY PressureFacts
<1>1. fusion.at = "fuse" /\ fusion'.at = "loop" /\ fusion'.latestPressure = fusion.latestPressure
  BY Acts
<1>2. UNCHANGED <<dropped, acquisition, localItems>>
  BY DEF fusionDevice!Fuse, fusionDevice!queues
<1>3. /\ InHand = 1 /\ InHand' = 0 /\ Newest' = Newest /\ WaitingNumbers' = WaitingNumbers
      /\ NumberInHand' = NumberInHand
  BY <1>1, <1>2 DEF InHand, Newest, WaitingNumbers, NumberInHand
<1>4. PICK held \in Nat : held = Len(acquisition.holds) /\ held = Len(acquisition'.holds)
  <2>1. Len(acquisition.holds) \in Nat
    BY OptionalFacts DEF FusionTypes, Optional
  <2> QED  BY <1>2, <2>1
<1>5. acquisition.sequence = Len(fused) + skipped + dropped + Len(localItems) + held + 1
  BY <1>3, <1>4 DEF Pressures, PressuresCount
<1>6. Increasing(FusedNumbers, n, 1, NumberInHand, WaitingNumbers, m, Newest)
  BY <1>3 DEF Pressures, PressuresOrder
<1>7. /\ n \in Nat /\ m \in Nat /\ FusedNumbers \in [1..n -> Nat]
      /\ WaitingNumbers \in [1..m -> Nat] /\ NumberInHand \in Int /\ Newest \in Int
  BY <1>0, <1>3
<1>8. CASE skipped' = skipped + 1 /\ fused' = fused
  <2>1. acquisition'.sequence = Len(fused') + skipped' + dropped' + Len(localItems') + held + 0
    BY <1>0, <1>2, <1>5, <1>8
  <2>2. PressuresCount'
    BY <1>3, <1>4, <2>1 DEF PressuresCount
  <2>3. FusedNumbers' = FusedNumbers
    BY <1>8 DEF FusedNumbers
  <2>4. Increasing(FusedNumbers, n, 0, NumberInHand, WaitingNumbers, m, Newest)
    <3> HIDE DEF n, m
    <3> QED  BY <1>6, <1>7, NumberPutAway
  <2>5. PressuresOrder'
    BY <1>2, <1>3, <1>8, <2>3, <2>4 DEF PressuresOrder
  <2> QED  BY <2>2, <2>5 DEF Pressures
<1>9. ASSUME NEW row \in Row, fused' = Append(fused, row), row.pressure = fusion.latestPressure[1],
             skipped' = skipped
      PROVE  Pressures'
  <2>1. /\ Len(fused') = n + 1 /\ \A i \in 1..n : fused'[i] = fused[i]
        /\ fused'[n + 1] = row
    BY <1>9, SequenceSteps DEF FusionTypes
  <2>2. PressuresCount'
    <3>1. Len(fused') = n + 1 /\ skipped' = skipped
      BY <1>9, <2>1
    <3>2. acquisition'.sequence = Len(fused') + skipped' + dropped' + Len(localItems') + held + 0
      BY <1>0, <1>2, <1>5, <3>1
    <3> QED  BY <1>3, <1>4, <3>2 DEF PressuresCount
  <2>3. PICK F : /\ F = FusedNumbers' /\ F[n + 1] = NumberInHand
                 /\ \A i \in 1..n : F[i] = FusedNumbers[i]
    <3>1. n + 1 \in 1..(n + 1) /\ \A i \in 1..n : i \in 1..(n + 1)
      BY <1>0
    <3>2. \A i \in 1..n : FusedNumbers[i] = fused[i].pressure.sequence
      BY DEF FusedNumbers
    <3>3. \A i \in 1..(n + 1) : FusedNumbers'[i] = fused'[i].pressure.sequence
      BY <2>1 DEF FusedNumbers
    <3>4. row.pressure.sequence = NumberInHand
      BY <1>9 DEF NumberInHand
    <3> HIDE DEF n
    <3> QED  BY <2>1, <3>1, <3>2, <3>3, <3>4
  <2>4. Increasing(F, n + 1, 0, NumberInHand, WaitingNumbers, m, Newest)
    <3> HIDE DEF n, m
    <3> QED  BY <1>6, <1>7, <2>3, NumberFused
  <2>5. PressuresOrder'
    BY <1>2, <1>3, <2>1, <2>3, <2>4 DEF PressuresOrder
  <2> QED  BY <2>2, <2>5 DEF Pressures
<1> QED  BY <1>8, <1>9, FuseStep

LEMMA PressuresStep ==
  ASSUME FusionTypes, Hands, MatchWindow \in Int, Pressures, fusionDevice!Next
  PROVE  Pressures'
<1> HIDE DEF Optional, Measurement, Row
<1>1. ASSUME UNCHANGED <<fused, skipped, dropped, localItems, acquisition.holds, acquisition.sequence,
                         InHand, NumberInHand, Newest>>
      PROVE  Pressures'
  <2>1. PressuresCount'
    BY <1>1 DEF Pressures, PressuresCount
  <2> QED  BY <1>1, <2>1, PressuresStay DEF Pressures
<1>2. CASE UNCHANGED <<localItems, acquisition, fusion, fused, dropped, skipped>>
  <2>1. UNCHANGED <<InHand, NumberInHand, Newest>>
    BY <1>2 DEF InHand, NumberInHand, Newest
  <2> QED  BY <1>1, <1>2, <2>1
<1>3. CASE fusionDevice!AcquisitionStops
  <2>1. UNCHANGED <<fused, skipped, dropped, localItems, fusion>>
    BY <1>3 DEF fusionDevice!AcquisitionStops, fusionDevice!queues, fusionDevice!history
  <2>2. UNCHANGED <<acquisition.holds, acquisition.sequence, InHand, NumberInHand, Newest>>
    BY <1>3, <2>1, Acts DEF InHand, NumberInHand, Newest
  <2> QED  BY <1>1, <2>1, <2>2
<1>4. CASE fusionDevice!FusionTurns \/ fusionDevice!RemoteEmpty \/ fusionDevice!LocalEmpty
           \/ fusionDevice!PopTemperature
  <2>1. UNCHANGED <<fused, skipped, dropped, localItems, acquisition>>
    BY <1>4 DEF fusionDevice!FusionTurns, fusionDevice!RemoteEmpty, fusionDevice!LocalEmpty,
                fusionDevice!PopTemperature, fusionDevice!queues, fusionDevice!history
  <2>2. fusion.at # "fuse" /\ fusion'.at # "fuse" /\ fusion'.latestPressure = fusion.latestPressure
    BY <1>4, Acts, Takes
  <2>3. UNCHANGED <<acquisition.holds, acquisition.sequence, InHand, NumberInHand, Newest>>
    BY <2>1, <2>2 DEF InHand, NumberInHand, Newest
  <2> QED  BY <1>1, <2>1, <2>3
<1> QED
  BY <1>2, <1>3, <1>4, Leaves, AcquirePressures, PushPressurePressures, PopPressurePressures,
     FusePressures
  DEF fusionDevice!Next, fusionDevice!Acquisition, fusionDevice!Fusion

LEMMA TemperaturesStep ==
  ASSUME FusionTypes, Hands, Temperatures, fusionDevice!Next
  PROVE  Temperatures'
<1> HIDE DEF Optional, Measurement, Row
<1>0. /\ taken \in Seq(Measurement) /\ remoteItems \in Seq(Measurement)
      /\ Len(taken) \in Nat /\ Len(remoteItems) \in Nat /\ Out \in Nat
      /\ Len(taken) = Out + Len(remoteItems)
  BY DEF FusionTypes, Temperatures, Out
<1>1. CASE /\ UNCHANGED <<taken, remoteItems, drained, fusion.latestTemperature>>
           /\ fusion'.at \in {"local", "fuse"} => fusion.at \in {"local", "fuse"}
  BY <1>1 DEF Temperatures, Out
<1>2. CASE fusionDevice!PushTemperature
  <2>1. PICK held \in Measurement : held = receiver.holds[1]
    BY <1>2, OptionalFacts DEF fusionDevice!PushTemperature, Hands, FusionTypes
  <2>2. UNCHANGED <<fusion, drained>>
    BY <1>2 DEF fusionDevice!PushTemperature
  <2>3. CASE taken' = Append(taken, held) /\ remoteItems' = Append(remoteItems, held)
    <3>1. /\ Len(taken') = Len(taken) + 1 /\ taken'[Len(taken) + 1] = held
          /\ \A k \in 1..Len(taken) : taken'[k] = taken[k]
      BY <1>0, <2>3, SequenceSteps
    <3>2. /\ Len(remoteItems') = Len(remoteItems) + 1 /\ remoteItems'[Len(remoteItems) + 1] = held
          /\ \A k \in 1..Len(remoteItems) : remoteItems'[k] = remoteItems[k]
      BY <1>0, <2>3, SequenceSteps
    <3>3. Out' = Out
      BY <1>0, <3>1, <3>2 DEF Out
    <3>4. \A k \in 1..Len(remoteItems) : remoteItems[k] = taken[Out + k] /\ Out + k \in 1..Len(taken)
      BY <1>0 DEF Temperatures
    <3>5. Out # 0 => Out \in 1..Len(taken)
      BY <1>0
    <3>6. \A k \in 1..Len(remoteItems') : remoteItems'[k] = taken'[Out' + k]
      <4>1. \A k \in 1..Len(remoteItems') : k \in 1..Len(remoteItems) \/ k = Len(remoteItems) + 1
        BY <1>0, <3>2
      <4>2. ASSUME NEW k \in 1..Len(remoteItems)
            PROVE  remoteItems'[k] = taken'[Out' + k]
        <5>1. remoteItems'[k] = remoteItems[k] /\ remoteItems[k] = taken[Out + k]
              /\ Out + k \in 1..Len(taken)
          BY <3>2, <3>4
        <5>2. taken'[Out + k] = taken[Out + k]
          BY <3>1, <5>1
        <5> QED  BY <3>3, <5>1, <5>2
      <4>3. remoteItems'[Len(remoteItems) + 1] = taken'[Out' + (Len(remoteItems) + 1)]
        <5>1. Len(taken) + 1 = Out + (Len(remoteItems) + 1)
          BY <1>0
        <5> QED  BY <3>1, <3>2, <3>3, <5>1
      <4> QED  BY <4>1, <4>2, <4>3
    <3>7. fusion'.latestTemperature = IF Out' = 0 THEN <<>> ELSE << taken'[Out'] >>
      BY <2>2, <3>1, <3>3, <3>5 DEF Temperatures
    <3> QED  BY <1>0, <2>2, <3>3, <3>6, <3>7 DEF Temperatures
  <2>4. CASE UNCHANGED <<taken, remoteItems>>
    BY <1>1, <2>2, <2>4
  <2> QED  BY <1>2, <2>1, <2>3, <2>4 DEF fusionDevice!PushTemperature, fusionDevice!remoteQueue!Push
<1>3. CASE fusionDevice!PopTemperature
  <2>1. /\ fusion.at = "drain" /\ remoteItems # <<>> /\ remoteItems' = Tail(remoteItems)
        /\ fusion'.at = fusion.at /\ fusion'.latestTemperature = << remoteItems[1] >>
    BY <1>3, Takes
  <2>2. taken' = taken
    BY <1>3 DEF fusionDevice!PopTemperature, fusionDevice!history
  <2>3. /\ Len(remoteItems) > 0 /\ Len(remoteItems') = Len(remoteItems) - 1
        /\ \A k \in 1..(Len(remoteItems) - 1) : remoteItems'[k] = remoteItems[k + 1]
    BY <1>0, <2>1, SequenceSteps
  <2>4. Out' = Out + 1
    BY <1>0, <2>2, <2>3 DEF Out
  <2>5. \A k \in 1..Len(remoteItems) : remoteItems[k] = taken[Out + k]
    BY DEF Temperatures
  <2>6. remoteItems[1] = taken[Out + 1]
    BY <1>0, <2>3, <2>5
  <2>7. \A k \in 1..Len(remoteItems') : remoteItems'[k] = taken'[Out' + k]
    <3>1. \A k \in 1..Len(remoteItems') : k + 1 \in 1..Len(remoteItems) /\ Out + (k + 1) = (Out + 1) + k
      BY <1>0, <2>3
    <3> QED  BY <2>2, <2>3, <2>4, <2>5, <3>1
  <2> QED  BY <1>0, <2>1, <2>2, <2>4, <2>6, <2>7 DEF Temperatures
<1>4. CASE fusionDevice!RemoteEmpty
  <2>1. UNCHANGED <<taken, remoteItems, fusion.latestTemperature>> /\ fusion'.at = "local"
    BY <1>4, Acts DEF fusionDevice!RemoteEmpty, fusionDevice!queues
  <2>2. drained' = Len(taken) /\ Len(remoteItems) = 0
    BY <1>4 DEF fusionDevice!RemoteEmpty
  <2>3. Out' = Out /\ drained' = Out
    BY <1>0, <2>1, <2>2 DEF Out
  <2> QED  BY <2>1, <2>3 DEF Temperatures
<1>5. CASE fusionDevice!FusionTurns \/ fusionDevice!LocalEmpty \/ fusionDevice!Fuse
  <2>1. UNCHANGED <<taken, remoteItems, drained>>
    BY <1>5 DEF fusionDevice!FusionTurns, fusionDevice!LocalEmpty, fusionDevice!Fuse,
                fusionDevice!queues, fusionDevice!history
  <2> QED  BY <1>1, <1>5, <2>1, Acts
<1>6. CASE fusionDevice!PopPressure
  <2>1. UNCHANGED <<taken, remoteItems, drained>>
    BY <1>6 DEF fusionDevice!PopPressure, fusionDevice!history
  <2> QED  BY <1>1, <1>6, <2>1, Takes
<1>7. CASE fusionDevice!Receive \/ fusionDevice!ReceiverStops
  BY <1>1, <1>7 DEF fusionDevice!Receive, fusionDevice!ReceiverStops, fusionDevice!queues,
                    fusionDevice!history
<1> QED
  BY <1>1, <1>2, <1>3, <1>4, <1>5, <1>6, <1>7, Leaves
  DEF fusionDevice!Next, fusionDevice!Receiver, fusionDevice!Fusion

LEMMA RowsStep ==
  ASSUME FusionTypes, Hands, MatchWindow \in Int, RowsAreClose, fusionDevice!Next
  PROVE  RowsAreClose'
<1> HIDE DEF Optional, Measurement, Row
<1>1. CASE fused' = fused
  BY <1>1 DEF RowsAreClose, Close
<1>2. ASSUME NEW row \in Row, fused' = Append(fused, row), Close(row)
      PROVE  RowsAreClose'
  <2>1. /\ Len(fused) \in Nat /\ Len(fused') = Len(fused) + 1 /\ fused'[Len(fused) + 1] = row
        /\ \A i \in 1..Len(fused) : fused'[i] = fused[i]
    BY <1>2, SequenceSteps DEF FusionTypes
  <2>2. \A i \in 1..Len(fused') : i \in 1..Len(fused) \/ i = Len(fused) + 1
    BY <2>1
  <2> QED  BY <1>2, <2>1, <2>2 DEF RowsAreClose, Close
<1>3. CASE fusionDevice!Fuse
  BY <1>1, <1>2, <1>3, FuseStep
<1> QED
  BY <1>1, <1>3, Leaves
  DEF fusionDevice!Next, fusionDevice!Fusion, fusionDevice!FusionTurns, fusionDevice!LocalEmpty,
      fusionDevice!RemoteEmpty, fusionDevice!PopTemperature, fusionDevice!PopPressure,
      fusionDevice!history

LEMMA TemperatureFacts ==
  ASSUME FusionTypes, Hands
  PROVE  /\ Len(link) \in Nat /\ Len(taken) \in Nat /\ Len(fused) \in Nat /\ transmitter \in Nat
         /\ \A i \in 1..Len(link) : link[i].sequence \in Nat
         /\ \A k \in 1..Len(taken) : taken[k].sequence \in Nat
         /\ \A i \in 1..Len(fused) : fused[i].temperature.sequence \in Nat
         /\ receiver.at = "push" => receiver.holds[1].sequence \in Nat
<1> HIDE DEF Optional, Measurement
<1>1. /\ link \in Seq(Measurement) /\ taken \in Seq(Measurement) /\ fused \in Seq(Row)
      /\ transmitter \in Nat
  BY DEF FusionTypes
<1>2. \A i \in 1..Len(link) : link[i] \in Measurement
  BY <1>1, SequenceSteps
<1>3. \A k \in 1..Len(taken) : taken[k] \in Measurement
  BY <1>1, SequenceSteps
<1>4. \A i \in 1..Len(fused) : fused[i].temperature \in Measurement
  <2>1. \A row \in Row : row.temperature \in Measurement
    BY DEF Row
  <2> HIDE DEF Row
  <2> QED  BY <1>1, <2>1, SequenceSteps
<1>5. receiver.at = "push" => receiver.holds[1] \in Measurement
  BY OptionalFacts DEF FusionTypes, Hands
<1> QED  BY <1>1, <1>2, <1>3, <1>4, <1>5, OptionalFacts

LEMMA OutsideOrder ==
  ASSUME FusionTypes, Hands, TemperatureOrder, fusionDevice!Outside
  PROVE  TemperatureOrder'
<1> HIDE DEF Optional, Measurement, Row
<1>0. /\ Len(link) \in Nat /\ transmitter \in Nat
      /\ \A i \in 1..Len(link) : link[i].sequence \in Nat
      /\ \A k \in 1..Len(taken) : taken[k].sequence \in Nat
      /\ receiver.at = "push" => receiver.holds[1].sequence \in Nat
  BY TemperatureFacts
<1>1. UNCHANGED <<receiver, taken, fused, remoteItems>>
  BY DEF fusionDevice!Outside, fusionDevice!queues, fusionDevice!history
<1>2. Out' = Out
  BY <1>1 DEF Out
<1>3. transmitter' \in Nat /\ transmitter' >= transmitter
  BY <1>0 DEF fusionDevice!Outside, fusionDevice!Transmit, fusionDevice!Stray, fusionDevice!TimePasses
<1>4. TakenOrder' /\ RowOrder'
  <2>1. TakenOrder'
    BY <1>0, <1>1, <1>3 DEF TemperatureOrder, TakenOrder
  <2> QED  BY <1>1, <1>2, <2>1 DEF TemperatureOrder, RowOrder
<1>5. LinkOrder'
  <2>1. CASE link' = link
    BY <1>0, <1>1, <1>3, <2>1 DEF TemperatureOrder, LinkOrder
  <2>2. ASSUME NEW m \in Measurement, link' = Append(link, m),
               m.sequence = 0 \/ m.sequence = transmitter + 1, m.sequence <= transmitter'
        PROVE  LinkOrder'
    <3>1. /\ Len(link') = Len(link) + 1 /\ link'[Len(link) + 1] = m
          /\ \A i \in 1..Len(link) : link'[i] = link[i]
      BY <2>2, SequenceSteps DEF FusionTypes
    <3>2. \A i \in 1..Len(link') : i \in 1..Len(link) \/ i = Len(link) + 1
      BY <1>0, <3>1
    <3>3. \A i \in 1..Len(link) : link[i].sequence <= transmitter
      BY DEF TemperatureOrder, LinkOrder
    <3>4. ASSUME NEW i \in 1..Len(link')
          PROVE  /\ link'[i].sequence <= transmitter'
                 /\ \A j \in 1..Len(link') :
                      i < j /\ link'[j].sequence # 0 => link'[i].sequence <= link'[j].sequence
                 /\ link'[i].sequence # 0 =>
                      /\ receiver.at = "push" => receiver.holds[1].sequence <= link'[i].sequence
                      /\ \A k \in 1..Len(taken) : taken[k].sequence <= link'[i].sequence
      <4>1. CASE i = Len(link) + 1
        <5>1. \A j \in 1..Len(link') : ~(i < j)
          BY <1>0, <3>1, <4>1
        <5>2. m.sequence # 0 => m.sequence = transmitter + 1
          BY <2>2
        <5>3. /\ receiver.at = "push" => receiver.holds[1].sequence <= transmitter
              /\ \A k \in 1..Len(taken) : taken[k].sequence <= transmitter
          BY DEF TemperatureOrder, TakenOrder
        <5> QED  BY <1>0, <2>2, <3>1, <4>1, <5>1, <5>2, <5>3
      <4>2. CASE i \in 1..Len(link)
        <5>1. link'[i] = link[i]
          BY <3>1, <4>2
        <5>2. \A j \in 1..Len(link') :
                 i < j /\ link'[j].sequence # 0 => link[i].sequence <= link'[j].sequence
          <6>1. ASSUME NEW j \in 1..Len(link'), i < j, link'[j].sequence # 0
                PROVE  link[i].sequence <= link'[j].sequence
            <7>1. CASE j = Len(link) + 1
              BY <1>0, <2>2, <3>1, <3>3, <4>2, <6>1, <7>1
            <7>2. CASE j \in 1..Len(link)
              BY <3>1, <4>2, <6>1, <7>2 DEF TemperatureOrder, LinkOrder
            <7> QED  BY <3>2, <7>1, <7>2
          <6> QED  BY <6>1
        <5>3. link[i].sequence <= transmitter'
          BY <1>0, <1>3, <3>3, <4>2
        <5>4. link[i].sequence # 0 =>
                /\ receiver.at = "push" => receiver.holds[1].sequence <= link[i].sequence
                /\ \A k \in 1..Len(taken) : taken[k].sequence <= link[i].sequence
          BY <4>2 DEF TemperatureOrder, LinkOrder
        <5> QED  BY <5>1, <5>2, <5>3, <5>4
      <4> QED  BY <3>2, <4>1, <4>2
    <3> QED  BY <1>1, <3>4 DEF LinkOrder
  <2>3. CASE fusionDevice!Transmit
    <3>1. PICK m : m = [sequence |-> transmitter + 1, eventTime |-> time]
      OBVIOUS
    <3>2. m \in Measurement /\ m.sequence = transmitter + 1
      BY <3>1 DEF Measurement, FusionTypes
    <3>3. transmitter' = transmitter + 1 /\ (link' = link \/ link' = Append(link, m))
      BY <2>3, <3>1 DEF fusionDevice!Transmit
    <3> QED  BY <1>0, <2>1, <2>2, <3>2, <3>3
  <2>4. CASE fusionDevice!Stray
    <3>1. PICK m : m = [sequence |-> 0, eventTime |-> 0]
      OBVIOUS
    <3>2. m \in Measurement /\ m.sequence = 0
      BY <3>1 DEF Measurement
    <3>3. link' = Append(link, m)
      BY <2>4, <3>1 DEF fusionDevice!Stray
    <3> QED  BY <1>3, <2>2, <3>2, <3>3
  <2>5. CASE fusionDevice!TimePasses
    BY <2>1, <2>5 DEF fusionDevice!TimePasses
  <2> QED  BY <2>3, <2>4, <2>5 DEF fusionDevice!Outside
<1> QED  BY <1>4, <1>5 DEF TemperatureOrder

LEMMA ReceiveOrder ==
  ASSUME FusionTypes, Hands, FifoLink, TemperatureOrder, fusionDevice!Receive
  PROVE  TemperatureOrder'
<1> HIDE DEF Optional, Measurement, Row
<1>0. /\ Len(link) \in Nat /\ transmitter \in Nat
      /\ \A i \in 1..Len(link) : link[i].sequence \in Nat
      /\ \A k \in 1..Len(taken) : taken[k].sequence \in Nat
      /\ link \in Seq(Measurement)
  BY TemperatureFacts DEF FusionTypes
<1>1. /\ 1 \in DOMAIN link /\ link' = fusionDevice!RemoveAt(link, 1) /\ receiver.at = "loop"
      /\ receiver' = IF link[1].sequence = 0 THEN receiver
                     ELSE [at |-> "push", holds |-> << link[1] >>]
  BY DEF fusionDevice!Receive
<1>2. UNCHANGED <<transmitter, taken, fused, remoteItems>>
  BY DEF fusionDevice!Receive, fusionDevice!queues, fusionDevice!history
<1>3. 1 \in 1..Len(link)
  BY <1>0, <1>1
<1>4. Len(link') = Len(link) - 1 /\ \A k \in 1..(Len(link) - 1) : link'[k] = link[k + 1]
  <2>1. \A k \in 1..(Len(link) - 1) : ~(k < 1)
    BY <1>0
  <2> QED  BY <1>0, <1>1, <1>3, <2>1, Removal
<1>5. \A k \in 1..Len(link') : k + 1 \in 1..Len(link) /\ link'[k] = link[k + 1] /\ 1 < k + 1
  BY <1>0, <1>4
<1>6. receiver'.at = "push" => link[1].sequence # 0 /\ receiver'.holds[1] = link[1]
  BY <1>1
<1>7. RowOrder'
  <2>1. Out' = Out
    BY <1>2 DEF Out
  <2> QED  BY <1>2, <2>1 DEF TemperatureOrder, RowOrder
<1>8. TakenOrder'
  <2>1. link[1].sequence # 0 => \A k \in 1..Len(taken) : taken[k].sequence <= link[1].sequence
    BY <1>3 DEF TemperatureOrder, LinkOrder
  <2>2. link[1].sequence <= transmitter
    BY <1>3 DEF TemperatureOrder, LinkOrder
  <2> QED  BY <1>2, <1>6, <2>1, <2>2 DEF TemperatureOrder, TakenOrder
<1>9. LinkOrder'
  <2>1. ASSUME NEW i \in 1..Len(link')
        PROVE  /\ link[i + 1].sequence <= transmitter
               /\ \A j \in 1..Len(link') :
                    i < j /\ link[j + 1].sequence # 0 => link[i + 1].sequence <= link[j + 1].sequence
               /\ link[i + 1].sequence # 0 =>
                    /\ link[1].sequence <= link[i + 1].sequence
                    /\ \A k \in 1..Len(taken) : taken[k].sequence <= link[i + 1].sequence
    <3>1. \A j \in 1..Len(link') : i < j => i + 1 < j + 1
      BY <1>0, <1>4
    <3>2. i + 1 \in 1..Len(link) /\ 1 < i + 1
      BY <1>5
    <3> QED  BY <1>3, <1>5, <3>1, <3>2 DEF TemperatureOrder, LinkOrder
  <2> QED  BY <1>2, <1>5, <1>6, <2>1 DEF LinkOrder
<1> QED  BY <1>7, <1>8, <1>9 DEF TemperatureOrder

LEMMA PushTemperatureOrder ==
  ASSUME FusionTypes, Hands, Temperatures, TemperatureOrder, fusionDevice!PushTemperature
  PROVE  TemperatureOrder'
<1> HIDE DEF Optional, Measurement, Row
<1>0. /\ Len(taken) \in Nat /\ Len(remoteItems) \in Nat /\ transmitter \in Nat
      /\ Out \in Nat /\ Out <= Len(taken)
      /\ \A k \in 1..Len(taken) : taken[k].sequence \in Nat
      /\ taken \in Seq(Measurement) /\ remoteItems \in Seq(Measurement)
  BY TemperatureFacts DEF FusionTypes, Temperatures, Out
<1>1. PICK held \in Measurement : held = receiver.holds[1]
  BY OptionalFacts DEF fusionDevice!PushTemperature, Hands, FusionTypes
<1>2. receiver.at = "push" /\ receiver'.at = "loop" /\ UNCHANGED <<transmitter, link, fused>>
  BY DEF fusionDevice!PushTemperature, fusionDevice!outside
<1>3. \/ taken' = Append(taken, held) /\ remoteItems' = Append(remoteItems, held)
      \/ UNCHANGED <<taken, remoteItems>>
  BY <1>1 DEF fusionDevice!PushTemperature, fusionDevice!remoteQueue!Push
<1>4. CASE UNCHANGED <<taken, remoteItems>>
  <2>1. Out' = Out
    BY <1>4 DEF Out
  <2>2. LinkOrder' /\ TakenOrder'
    BY <1>2, <1>4 DEF TemperatureOrder, LinkOrder, TakenOrder
  <2>3. RowOrder'
    BY <1>2, <1>4, <2>1 DEF TemperatureOrder, RowOrder
  <2> QED  BY <2>2, <2>3 DEF TemperatureOrder
<1>5. CASE taken' = Append(taken, held) /\ remoteItems' = Append(remoteItems, held)
  <2>1. /\ Len(taken') = Len(taken) + 1 /\ taken'[Len(taken) + 1] = held
        /\ \A k \in 1..Len(taken) : taken'[k] = taken[k]
    BY <1>0, <1>5, SequenceSteps
  <2>2. Len(remoteItems') = Len(remoteItems) + 1
    BY <1>0, <1>5, SequenceSteps
  <2>3. Out' = Out
    BY <1>0, <2>1, <2>2 DEF Out
  <2>4. \A k \in 1..Len(taken') :
          \/ k \in 1..Len(taken) /\ taken'[k] = taken[k]
          \/ k = Len(taken) + 1 /\ taken'[k] = held
    <3>1. \A k \in 1..Len(taken') : k \in 1..Len(taken) \/ k = Len(taken) + 1
      BY <1>0, <2>1
    <3> QED  BY <2>1, <3>1
  <2>5. held.sequence \in Nat /\ held.sequence <= transmitter
        /\ \A k \in 1..Len(taken) : taken[k].sequence <= held.sequence
    BY <1>1, <1>2, OptionalFacts DEF TemperatureOrder, TakenOrder
  <2>6. LinkOrder'
    <3>1. \A i \in 1..Len(link) : link[i].sequence # 0 =>
            /\ held.sequence <= link[i].sequence
            /\ \A k \in 1..Len(taken) : taken[k].sequence <= link[i].sequence
      BY <1>1, <1>2 DEF TemperatureOrder, LinkOrder
    <3>2. \A i \in 1..Len(link) : link[i].sequence # 0 =>
            \A k \in 1..Len(taken') : taken'[k].sequence <= link[i].sequence
      BY <2>4, <3>1
    <3> QED  BY <1>2, <3>2 DEF TemperatureOrder, LinkOrder
  <2>7. TakenOrder'
    <3>1. ASSUME NEW k \in 1..Len(taken')
          PROVE  /\ taken'[k].sequence <= transmitter
                 /\ \A l \in 1..Len(taken') : k < l => taken'[k].sequence <= taken'[l].sequence
      <4>1. CASE k = Len(taken) + 1
        <5>1. \A l \in 1..Len(taken') : ~(k < l)
          BY <1>0, <2>1, <4>1
        <5> QED  BY <2>1, <2>5, <4>1, <5>1
      <4>2. CASE k \in 1..Len(taken)
        <5>1. /\ taken[k].sequence <= transmitter
              /\ \A l \in 1..Len(taken) : k < l => taken[k].sequence <= taken[l].sequence
          BY <4>2 DEF TemperatureOrder, TakenOrder
        <5> QED  BY <2>4, <2>5, <4>2, <5>1
      <4> QED  BY <2>4, <4>1, <4>2
    <3> QED  BY <1>2, <3>1 DEF TakenOrder
  <2>8. RowOrder'
    <3>1. Out # 0 => Out \in 1..Len(taken)
      BY <1>0
    <3>2. Out # 0 => taken'[Out] = taken[Out]
      BY <2>1, <3>1
    <3> QED  BY <1>2, <2>3, <3>2 DEF TemperatureOrder, RowOrder
  <2> QED  BY <2>6, <2>7, <2>8 DEF TemperatureOrder
<1> QED  BY <1>3, <1>4, <1>5

LEMMA PopTemperatureOrder ==
  ASSUME FusionTypes, Hands, Temperatures, TemperatureOrder, fusionDevice!PopTemperature
  PROVE  TemperatureOrder'
<1> HIDE DEF Optional, Measurement, Row
<1>0. /\ Len(taken) \in Nat /\ Len(remoteItems) \in Nat /\ Out \in Nat
      /\ Len(taken) = Out + Len(remoteItems)
      /\ \A k \in 1..Len(taken) : taken[k].sequence \in Nat
      /\ \A i \in 1..Len(fused) : fused[i].temperature.sequence \in Nat
      /\ remoteItems \in Seq(Measurement)
  BY TemperatureFacts DEF FusionTypes, Temperatures, Out
<1>1. UNCHANGED <<transmitter, link, receiver, taken, fused>>
  BY DEF fusionDevice!PopTemperature, fusionDevice!outside, fusionDevice!history
<1>2. Len(remoteItems) > 0 /\ Len(remoteItems') = Len(remoteItems) - 1
  BY <1>0, Takes, SequenceSteps
<1>3. Out' = Out + 1 /\ Out + 1 \in 1..Len(taken) /\ (Out # 0 => Out \in 1..Len(taken))
  <2>1. Out' = Out + 1
    BY <1>0, <1>1, <1>2 DEF Out
  <2> QED  BY <1>0, <1>2, <2>1
<1>4. LinkOrder' /\ TakenOrder'
  BY <1>1 DEF TemperatureOrder, LinkOrder, TakenOrder
<1>5. Out # 0 => taken[Out].sequence <= taken[Out + 1].sequence
  BY <1>0, <1>3 DEF TemperatureOrder, TakenOrder
<1>6. \A i \in 1..Len(fused) :
        /\ fused[i].temperature.sequence <= taken[Out + 1].sequence
        /\ \A j \in 1..Len(fused) :
             i < j => fused[i].temperature.sequence <= fused[j].temperature.sequence
  BY <1>0, <1>3, <1>5 DEF TemperatureOrder, RowOrder
<1>7. RowOrder'
  BY <1>0, <1>1, <1>3, <1>6 DEF RowOrder
<1> QED  BY <1>4, <1>7 DEF TemperatureOrder

LEMMA FuseOrder ==
  ASSUME FusionTypes, Hands, MatchWindow \in Int, Temperatures, TemperatureOrder, fusionDevice!Fuse
  PROVE  TemperatureOrder'
<1> HIDE DEF Optional, Measurement, Row
<1>0. /\ Len(taken) \in Nat /\ Out \in Nat /\ Out <= Len(taken)
      /\ \A k \in 1..Len(taken) : taken[k].sequence \in Nat
      /\ \A i \in 1..Len(fused) : fused[i].temperature.sequence \in Nat
      /\ fused \in Seq(Row) /\ Len(fused) \in Nat
  BY TemperatureFacts DEF FusionTypes, Temperatures, Out
<1>1. UNCHANGED <<transmitter, link, receiver, taken, remoteItems>>
  BY DEF fusionDevice!Fuse, fusionDevice!outside, fusionDevice!queues
<1>2. Out' = Out
  BY <1>1 DEF Out
<1>3. LinkOrder' /\ TakenOrder'
  BY <1>1 DEF TemperatureOrder, LinkOrder, TakenOrder
<1>4. CASE fused' = fused
  BY <1>1, <1>2, <1>3, <1>4 DEF TemperatureOrder, RowOrder
<1>5. ASSUME NEW row \in Row, fused' = Append(fused, row), fusion.latestTemperature # <<>>,
             row.temperature = fusion.latestTemperature[1]
      PROVE  TemperatureOrder'
  <2>1. /\ Len(fused') = Len(fused) + 1 /\ fused'[Len(fused) + 1] = row
        /\ \A i \in 1..Len(fused) : fused'[i] = fused[i]
    BY <1>0, <1>5, SequenceSteps
  <2>2. Out # 0 /\ row.temperature = taken[Out]
    BY <1>5 DEF Temperatures
  <2>3. taken[Out].sequence \in Nat
    BY <1>0, <2>2
  <2>4. \A i \in 1..Len(fused') :
          \/ i \in 1..Len(fused) /\ fused'[i] = fused[i]
          \/ i = Len(fused) + 1 /\ fused'[i] = row
    <3>1. \A i \in 1..Len(fused') : i \in 1..Len(fused) \/ i = Len(fused) + 1
      BY <1>0, <2>1
    <3> QED  BY <2>1, <3>1
  <2>5. ASSUME NEW i \in 1..Len(fused')
        PROVE  /\ fused'[i].temperature.sequence <= taken[Out].sequence
               /\ \A j \in 1..Len(fused') :
                    i < j => fused'[i].temperature.sequence <= fused'[j].temperature.sequence
    <3>1. CASE i = Len(fused) + 1
      <4>1. \A j \in 1..Len(fused') : ~(i < j)
        BY <1>0, <2>1, <3>1
      <4> QED  BY <2>1, <2>2, <2>3, <3>1, <4>1
    <3>2. CASE i \in 1..Len(fused)
      <4>1. /\ fused[i].temperature.sequence <= taken[Out].sequence
            /\ \A j \in 1..Len(fused) :
                 i < j => fused[i].temperature.sequence <= fused[j].temperature.sequence
        BY <3>2 DEF TemperatureOrder, RowOrder
      <4> QED  BY <2>1, <2>2, <2>4, <3>2, <4>1
    <3> QED  BY <2>4, <3>1, <3>2
  <2>6. RowOrder'
    BY <1>1, <1>2, <2>2, <2>5 DEF RowOrder
  <2> QED  BY <1>3, <2>6 DEF TemperatureOrder
<1> QED  BY <1>4, <1>5, FuseStep

LEMMA TemperatureOrderStep ==
  ASSUME FusionTypes, Hands, MatchWindow \in Int, FifoLink, Temperatures, TemperatureOrder,
         fusionDevice!Next
  PROVE  TemperatureOrder'
<1> HIDE DEF Optional, Measurement, Row
<1>1. ASSUME UNCHANGED <<transmitter, link, taken, remoteItems, fused>>,
             receiver' = receiver \/ receiver'.at # "push"
      PROVE  TemperatureOrder'
  <2>1. Out' = Out
    BY <1>1 DEF Out
  <2>2. LinkOrder' /\ TakenOrder'
    BY <1>1 DEF TemperatureOrder, LinkOrder, TakenOrder
  <2> QED  BY <1>1, <2>1, <2>2 DEF TemperatureOrder, RowOrder
<1>2. CASE fusionDevice!ReceiverStops
  <2>1. receiver'.at # "push"
    BY <1>2, Acts
  <2> QED  BY <1>1, <1>2, <2>1 DEF fusionDevice!ReceiverStops, fusionDevice!outside, fusionDevice!queues,
                            fusionDevice!history
<1>3. CASE fusionDevice!Acquisition
  BY <1>1, <1>3, Leaves
<1>4. CASE fusionDevice!FusionTurns \/ fusionDevice!RemoteEmpty \/ fusionDevice!PopPressure
           \/ fusionDevice!LocalEmpty
  BY <1>1, <1>4 DEF fusionDevice!FusionTurns, fusionDevice!RemoteEmpty, fusionDevice!PopPressure,
     fusionDevice!LocalEmpty, fusionDevice!outside, fusionDevice!queues, fusionDevice!history
<1>5. CASE fusionDevice!Signal \/ fusionDevice!Join
  BY <1>1, <1>5 DEF fusionDevice!Signal, fusionDevice!Join, fusionDevice!outside,
     fusionDevice!queues, fusionDevice!history
<1> QED
  BY <1>2, <1>3, <1>4, <1>5, OutsideOrder, ReceiveOrder, PushTemperatureOrder, PopTemperatureOrder,
     FuseOrder
  DEF fusionDevice!Next, fusionDevice!Receiver, fusionDevice!Fusion

\* What was measured is fused faithfully: no pressure is lost but to a full queue, none
\* is used twice or out of order, each meets the newest temperature there was, never an
\* older one than before if the link keeps order, and a match is one by the clock of
\* the events.  It holds for queues of any capacity and any number of measurements,
\* however the three threads take turns.
THEOREM FusionIsFaithful ==
  ASSUME MatchWindow \in Int
  PROVE  fusionDevice!Init /\ [][fusionDevice!Next]_fusionDevice!vars
         => []fusionDevice!FusionFaithful
<1>1. fusionDevice!Init => FusionInv
  BY FusionStarts
<1>2. FusionInv /\ [fusionDevice!Next]_fusionDevice!vars => FusionInv'
  <2> SUFFICES ASSUME FusionInv, [fusionDevice!Next]_fusionDevice!vars  PROVE FusionInv'
    OBVIOUS
  <2>1. CASE fusionDevice!Next
    <3>1. FusionTypes' /\ Hands' /\ Pressures' /\ Temperatures' /\ RowsAreClose'
      BY <2>1, FusionTypesStep, HandsStep, PressuresStep, TemperaturesStep, RowsStep DEF FusionInv
    <3>2. FifoLink => TemperatureOrder'
      BY <2>1, TemperatureOrderStep DEF FusionInv
    <3> QED  BY <3>1, <3>2 DEF FusionInv
  <2>2. CASE UNCHANGED fusionDevice!vars
    <3>1. UNCHANGED <<time, transmitter, link, remoteItems, localItems, receiver, acquisition, fusion,
                      taken, drained, fused, dropped, skipped>>
      BY <2>2 DEF fusionDevice!vars, fusionDevice!outside, fusionDevice!queues, fusionDevice!history
    <3>2. Out' = Out /\ Newest' = Newest /\ InHand' = InHand /\ FusedNumbers' = FusedNumbers
          /\ NumberInHand' = NumberInHand /\ WaitingNumbers' = WaitingNumbers
      BY <3>1 DEF Out, Newest, InHand, FusedNumbers, NumberInHand, WaitingNumbers
    <3>3. FusionTypes' /\ Hands'
      BY <3>1 DEF FusionInv, FusionTypes, Hands
    <3>4. Pressures'
      BY <3>1, <3>2 DEF FusionInv, Pressures, PressuresCount, PressuresOrder
    <3>5. Temperatures' /\ RowsAreClose'
      BY <3>1, <3>2 DEF FusionInv, Temperatures, RowsAreClose, Close
    <3>6. FifoLink => TemperatureOrder'
      BY <3>1, <3>2 DEF FusionInv, TemperatureOrder, LinkOrder, TakenOrder, RowOrder
    <3> QED  BY <3>3, <3>4, <3>5, <3>6 DEF FusionInv
  <2> QED  BY <2>1, <2>2
<1>3. FusionInv => fusionDevice!FusionFaithful
  <2> SUFFICES ASSUME FusionInv  PROVE fusionDevice!FusionFaithful
    OBVIOUS
  <2>1. FusionTypes /\ Hands /\ Pressures /\ Temperatures /\ RowsAreClose
        /\ (FifoLink => TemperatureOrder)
    BY DEF FusionInv
  <2>2. DOMAIN fused = 1..Len(fused)
    BY <2>1 DEF FusionTypes
  <2>3. fusionDevice!PressuresAccounted
    <3>1. \A i \in 1..Len(fused) : FusedNumbers[i] = fused[i].pressure.sequence
      BY DEF FusedNumbers
    <3>2. \A i, j \in 1..Len(fused) : i < j => FusedNumbers[i] < FusedNumbers[j]
      BY <2>1 DEF Pressures, PressuresOrder, Increasing
    <3> QED  BY <2>1, <2>2, <3>1, <3>2 DEF Pressures, PressuresCount, InHand,
                                        fusionDevice!PressuresAccounted
  <2>4. fusionDevice!TemperatureIsNewest
    <3>1. FifoLink => \A i, j \in 1..Len(fused) : i < j =>
                        fused[i].temperature.sequence <= fused[j].temperature.sequence
      BY <2>1 DEF TemperatureOrder, RowOrder
    <3>2. fusion.at \in {"local", "fuse"} =>
            fusion.latestTemperature = IF drained = 0 THEN <<>> ELSE << taken[drained] >>
      BY <2>1 DEF Temperatures
    <3> QED  BY <2>2, <3>1, <3>2 DEF fusionDevice!TemperatureIsNewest, fusionDevice!None
  <2>5. fusionDevice!MatchesAreClose
    BY <2>1, <2>2 DEF RowsAreClose, Close, fusionDevice!MatchesAreClose
  <2> QED  BY <2>3, <2>4, <2>5 DEF fusionDevice!FusionFaithful
<1> QED  BY <1>1, <1>2, <1>3, PTL
==============================================================================
