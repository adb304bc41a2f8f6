------------------------ MODULE RemoteMonitoring_proof ------------------------
(****************************************************************************)
(* Proofs about RemoteMonitoring, for any number of monitors, any           *)
(* demonstration, any table and any requests of the stranger: the table     *)
(* keeps its books and implements SubscriptionSpec, reports do not drift,   *)
(* and what a monitor was told about its subscriptions is so.               *)
(****************************************************************************)
EXTENDS RemoteMonitoring, SequenceTheorems, FiniteSetTheorems, WellFoundedInduction, TLAPS

--------------------------------------------------------------------------------
(* Remainders *)

LEMMA SmallMultiple ==
  ASSUME NEW v \in Nat \ {0}, NEW q \in Int, -v < v * q, v * q < v
  PROVE  q = 0
<1>1. q >= 1 => v * q >= v
  BY SMTT(20)
<1>2. q <= -1 => v * q <= -v
  BY SMTT(20)
<1> QED  BY <1>1, <1>2

\* A remainder is known by what is left of a multiple.
LEMMA Remainder ==
  ASSUME NEW v \in Nat \ {0}, NEW x \in Int, NEW q \in Int, NEW r \in 0..(v - 1),
         x = v * q + r
  PROVE  x % v = r
<1> DEFINE p == x \div v
           s == x % v
<1>1. p \in Int /\ s \in 0..(v - 1) /\ x = v * p + s
  BY SMTT(20)
<1> HIDE DEF p, s
<1>2. v * (p - q) = v * p - v * q
  BY <1>1, SMTT(20)
<1>3. v * p \in Int /\ v * q \in Int
  BY <1>1, SMTT(20)
<1>4. v * (p - q) = r - s
  BY <1>1, <1>2, <1>3
<1>5. -v < v * (p - q) /\ v * (p - q) < v
  BY <1>1, <1>4
<1>6. p - q \in Int /\ p - q = 0
  BY <1>1, <1>5, SmallMultiple
<1>7. v * (p - q) = 0
  BY <1>6, SMTT(20)
<1> QED  BY <1>1, <1>4, <1>7 DEF s

LEMMA Quotient ==
  ASSUME NEW v \in Nat \ {0}, NEW x \in Int, NEW r, r = x % v
  PROVE  \E q \in Int : v * q \in Int /\ r \in 0..(v - 1) /\ x = v * q + r
<1> DEFINE p == x \div v
<1>1. p \in Int /\ r \in 0..(v - 1) /\ x = v * p + r
  BY SMTT(20)
<1> HIDE DEF p
<1>2. v * p \in Int
  BY <1>1, SMTT(20)
<1> QED  BY <1>1, <1>2

LEMMA Multiple ==
  ASSUME NEW v \in Nat \ {0}, NEW x \in Int, x % v = 0
  PROVE  \E q \in Int : v * q \in Int /\ x = v * q
<1>1. \E q \in Int : v * q \in Int /\ 0 \in 0..(v - 1) /\ x = v * q + 0
  <2>1. 0 = x % v
    OBVIOUS
  <2> QED  BY <2>1, Quotient, Zenon
<1> QED  BY <1>1

\* A tick takes one off the time left and adds one to the time gone.
LEMMA TickInPhase ==
  ASSUME NEW v \in Nat \ {0}, NEW due \in Int, NEW since \in 0..(v - 1), (due + since) % v = 0,
         NEW g, g = (since + 1) % v
  PROVE  g \in 0..(v - 1) /\ ((due - 1) + g) % v = 0
<1>1. PICK q \in Int : v * q \in Int /\ due + since = v * q
  <2>1. due + since \in Int
    OBVIOUS
  <2> QED  BY <2>1, Multiple
<1>2. CASE since + 1 < v
  <2>1. g = since + 1
    <3>1. v * 0 = 0
      BY SMTT(20)
    <3> QED  BY <1>2, <3>1, Remainder
  <2> QED  BY <1>2, <2>1
<1>3. CASE since + 1 = v
  <2>1. v * 1 = v /\ v * (q - 1) = v * q - v
    BY SMTT(20)
  <2>2. g = 0
    BY <1>3, <2>1, Remainder
  <2>3. (due - 1) + 0 = v * (q - 1) + 0
    BY <1>1, <1>3, <2>1
  <2> QED  BY <2>2, <2>3, Remainder
<1> QED  BY <1>2, <1>3

\* A deadline that lies ahead, whole intervals after the one that is over.
LEMMA DeadlineAhead ==
  ASSUME NEW v \in Nat \ {0}, NEW due \in Int
  PROVE  \E d \in 1..v : (d - due) % v = 0
<1>1. PICK r : r = due % v
  OBVIOUS
<1>2. PICK q \in Int : v * q \in Int /\ r \in 0..(v - 1) /\ due = v * q + r
  BY <1>1, Quotient, Zenon
<1>3. v * (1 - q) = v - v * q /\ v * (0 - q) = -(v * q)
  BY SMTT(20)
<1>4. CASE r = 0
  <2>1. v - due = v * (1 - q) + 0 /\ v - due \in Int /\ 1 - q \in Int /\ v \in 1..v
    BY <1>2, <1>3, <1>4
  <2>2. (v - due) % v = 0
    BY <2>1, Remainder
  <2> QED  BY <2>1, <2>2
<1>5. CASE r # 0
  <2>1. r - due = v * (0 - q) + 0 /\ r - due \in Int /\ 0 - q \in Int /\ r \in 1..v
    BY <1>2, <1>3, <1>5
  <2>2. (r - due) % v = 0
    BY <2>1, Remainder
  <2> QED  BY <2>1, <2>2
<1> QED  BY <1>4, <1>5

LEMMA NextInPhase ==
  ASSUME NEW s, s.interval \in Nat \ {0}, s.dueIn \in Int, NEW since \in Nat,
         (s.dueIn + since) % s.interval = 0
  PROVE  NextDue(s) \in 1..s.interval /\ (NextDue(s) + since) % s.interval = 0
<1>1. PICK v : v = s.interval
  OBVIOUS
<1>2. PICK due : due = s.dueIn
  OBVIOUS
<1>3. v \in Nat \ {0} /\ due \in Int /\ (due + since) % v = 0
  BY <1>1, <1>2
<1>4. PICK d : d = NextDue(s)
  OBVIOUS
<1>5. d \in 1..v /\ (d - due) % v = 0
  <2>1. d = CHOOSE x \in 1..v : (x - due) % v = 0
    BY <1>1, <1>2, <1>4, Zenon DEF NextDue
  <2> QED  BY <1>3, <2>1, DeadlineAhead
<1>6. PICK p \in Int : v * p \in Int /\ d - due = v * p
  <2>1. d - due \in Int
    BY <1>3, <1>5
  <2> QED  BY <1>3, <1>5, <2>1, Multiple
<1>7. PICK u \in Int : v * u \in Int /\ due + since = v * u
  <2>1. due + since \in Int
    BY <1>3
  <2> QED  BY <1>3, <2>1, Multiple
<1>8. v * (p + u) = v * p + v * u
  BY <1>3, SMTT(20)
<1>9. d + since = v * (p + u) + 0 /\ d + since \in Int /\ p + u \in Int /\ 0 \in 0..(v - 1)
  BY <1>3, <1>5, <1>6, <1>7, <1>8
<1>10. (d + since) % v = 0
  BY <1>3, <1>9, Remainder
<1> QED  BY <1>1, <1>4, <1>5, <1>10

--------------------------------------------------------------------------------
(* The inductive invariant of the table *)

Active == {k \in Slots : subscriptions[k].active}

\* Whoever sends or waits has a transaction to do.
Phases ==
    \A m \in Monitors : monitor[m].phase \in {"sending", "waiting"} =>
      monitor[m].step <= Unsubscribing

Unique ==
    \A j, k \in Slots :
      /\ subscriptions[j].active /\ subscriptions[k].active
      /\ subscriptions[j].endpoint = subscriptions[k].endpoint
      /\ subscriptions[j].report = subscriptions[k].report
      => j = k

Books == activeSubscriptions = Cardinality(Active) /\ subscriptionHighWater >= activeSubscriptions

InPhase ==
    \A k \in Slots : subscriptions[k].active =>
      /\ subscriptions[k].since < subscriptions[k].interval
      /\ subscriptions[k].dueIn <= subscriptions[k].interval
      /\ (subscriptions[k].dueIn + subscriptions[k].since) % subscriptions[k].interval = 0

TableInv == TypeOK /\ Phases /\ Unique /\ Books /\ InPhase

--------------------------------------------------------------------------------
(* What a request may do to the table *)

Requested(q) == q \in Request /\ q.report \in ReportType /\ q.interval \in Interval

Renews(q, k) ==
    /\ Requested(q) /\ k \in Matching(q.from, q.report)
    /\ subscriptions' = [subscriptions EXCEPT ![k] = Subscribed(q)]
    /\ UNCHANGED <<activeSubscriptions, subscriptionHighWater>>

Takes(q, k) ==
    /\ Requested(q) /\ Matching(q.from, q.report) = {} /\ k \in FreeSlots
    /\ subscriptions' = [subscriptions EXCEPT ![k] = Subscribed(q)]
    /\ activeSubscriptions' = activeSubscriptions + 1
    /\ subscriptionHighWater' = IF activeSubscriptions + 1 > subscriptionHighWater
                                  THEN activeSubscriptions + 1 ELSE subscriptionHighWater

Frees(q, k) ==
    /\ q \in Request /\ q.report \in ReportType /\ k \in Matching(q.from, q.report)
    /\ subscriptions' = [subscriptions EXCEPT ![k] = Free]
    /\ activeSubscriptions' = IF activeSubscriptions > 0 THEN activeSubscriptions - 1 ELSE 0
    /\ UNCHANGED subscriptionHighWater

LEMMA LeastNatural ==
  ASSUME NEW T, T \subseteq Nat, T # {}
  PROVE  \E x \in T : \A y \in T : x <= y
<1> DEFINE R == OpToRel(<, Nat)
<1>1. IsWellFoundedOn(R, Nat)
  BY NatLessThanWellFounded
<1>2. \A x, y \in Nat : x < y => <<x, y>> \in R
  BY DEF OpToRel
<1> HIDE DEF R
<1>3. PICK x \in T : \A y \in T : ~ (<<y, x>> \in R)
  BY <1>1, WFMin
<1>4. ASSUME NEW y \in T  PROVE x <= y
  <2>1. x \in Nat /\ y \in Nat
    OBVIOUS
  <2>2. ~ (y < x)
    BY <1>2, <1>3, <2>1
  <2> QED  BY <2>1, <2>2
<1> QED  BY <1>4

LEMMA SlotNumbers == Slots \subseteq Nat /\ IsFiniteSet(Slots) /\ Cardinality(Slots) = MaxSubscriptions
<1>1. MaxSubscriptions \in Nat /\ 1 \in Int /\ MaxSubscriptions \in Int
  BY BoundsAssumption
<1>2. IsFiniteSet(1..MaxSubscriptions) /\ Cardinality(1..MaxSubscriptions) = MaxSubscriptions
  BY <1>1, FS_Interval
<1> QED  BY <1>1, <1>2 DEF Slots

LEMMA FirstIsOne ==
  ASSUME NEW S \in SUBSET Slots, S # {}
  PROVE  First(S) \in S
<1>1. \E k \in S : \A j \in S : k <= j
  BY SlotNumbers, LeastNatural
<1> QED  BY <1>1 DEF First

\* A subscription renews one there is or takes a free slot, if it can.
LEMMA SubscribeOnTable ==
  ASSUME NEW q \in Request, processSubscribe(q)
  PROVE  /\ UNCHANGED table \/ \E k \in Slots : Renews(q, k) \/ Takes(q, k)
         /\ Requested(q) /\ Matching(q.from, q.report) \cup FreeSlots # {} =>
              \E k \in Slots : Renews(q, k) \/ Takes(q, k)
<1> DEFINE old == Matching(q.from, q.report)
<1>1. old \subseteq Slots /\ FreeSlots \subseteq Slots
  BY DEF Matching, FreeSlots
<1>2. old # {} => First(old) \in old
  BY <1>1, FirstIsOne
<1>3. FreeSlots # {} => First(FreeSlots) \in FreeSlots
  BY <1>1, FirstIsOne
<1>4. CASE q.report = BadReport \/ q.interval \notin Interval
  <2>1. UNCHANGED table /\ ~Requested(q)
    BY <1>4, NamesAssumption DEF processSubscribe, Requested
  <2> QED  BY <2>1
<1>5. CASE ~(q.report = BadReport \/ q.interval \notin Interval)
  <2>1. Requested(q) /\ upsertSubscription(q)
    BY <1>5 DEF processSubscribe, Requested, Request
  <2>2. CASE old # {}
    <3>1. Renews(q, First(old))
      BY <1>2, <2>1, <2>2 DEF Renews, upsertSubscription
    <3> QED  BY <1>1, <1>2, <2>2, <3>1
  <2>3. CASE old = {} /\ FreeSlots # {}
    <3>1. Takes(q, First(FreeSlots))
      BY <1>3, <2>1, <2>3 DEF Takes, upsertSubscription
    <3> QED  BY <1>1, <1>3, <2>3, <3>1
  <2>4. CASE old = {} /\ FreeSlots = {}
    BY <2>1, <2>4 DEF upsertSubscription
  <2> QED  BY <2>2, <2>3, <2>4
<1> QED  BY <1>4, <1>5

\* The end of a subscription frees its slot, if there is one.
LEMMA UnsubscribeOnTable ==
  ASSUME NEW q \in Request, processUnsubscribe(q)
  PROVE  \/ UNCHANGED table /\ (q.report \in ReportType => Matching(q.from, q.report) = {})
         \/ \E k \in Slots : Frees(q, k)
<1> DEFINE old == Matching(q.from, q.report)
<1>1. old \subseteq Slots
  BY DEF Matching
<1>2. CASE q.report = BadReport
  BY <1>2, NamesAssumption DEF processUnsubscribe
<1>3. CASE q.report # BadReport /\ old = {}
  BY <1>3 DEF processUnsubscribe, removeSubscription
<1>4. CASE q.report # BadReport /\ old # {}
  <2>1. removeSubscription(q) /\ q.report \in ReportType
    BY <1>4 DEF processUnsubscribe, Request
  <2>2. First(old) \in old
    BY <1>1, <1>4, FirstIsOne
  <2>3. Frees(q, First(old))
    BY <1>4, <2>1, <2>2 DEF Frees, removeSubscription
  <2> QED  BY <1>1, <2>2, <2>3
<1> QED  BY <1>2, <1>3, <1>4

LEMMA RequestOnTable ==
  ASSUME NEW q \in Request,
         processSubscribe(q) \/ processUnsubscribe(q)
  PROVE  \/ UNCHANGED table
         \/ \E k \in Slots : Renews(q, k) \/ Takes(q, k) \/ Frees(q, k)
BY SubscribeOnTable, UnsubscribeOnTable

--------------------------------------------------------------------------------
(* Such a request keeps the table's part of the invariant. *)

TableTypes ==
    /\ subscriptions \in [Slots -> Slot]
    /\ activeSubscriptions \in 0..MaxSubscriptions
    /\ subscriptionHighWater \in 0..MaxSubscriptions

BooksInv == TableTypes /\ Unique /\ Books /\ InPhase

ActiveSlot ==
    [active : {TRUE}, endpoint : Endpoint, report : ReportType, interval : Interval,
     dueIn : (-MaxLate)..MaxInterval, since : 0..MaxInterval]

\* What is read of a slot.
LEMMA SlotFields ==
  ASSUME NEW s \in Slot
  PROVE  /\ s.active \in BOOLEAN
         /\ s.active => s \in ActiveSlot
         /\ ~s.active => s = Free
<1>1. CASE s = Free
  BY <1>1 DEF Free
<1>2. CASE s # Free
  BY <1>2 DEF Slot, Free, ActiveSlot
<1> QED  BY <1>1, <1>2

LEMMA ConstantTypes ==
    /\ MinInterval \in Nat \ {0} /\ MaxInterval \in Nat /\ MaxLate \in Nat
    /\ MaxSubscriptions \in Nat /\ MaxAttempts \in Nat \ {0}
    /\ \A v \in Interval : v \in Nat \ {0} /\ v <= MaxInterval
BY BoundsAssumption DEF Interval

LEMMA ActiveCount ==
    /\ IsFiniteSet(Active) /\ Cardinality(Active) \in 0..MaxSubscriptions
    /\ Cardinality(Active) = MaxSubscriptions => Active = Slots
<1>1. Active \in SUBSET Slots
  BY DEF Active
<1>2. IsFiniteSet(Active) /\ Cardinality(Active) <= Cardinality(Slots)
      /\ (Cardinality(Slots) = Cardinality(Active) => Slots = Active)
  BY <1>1, SlotNumbers, FS_Subset
<1>3. Cardinality(Active) \in Nat
  BY <1>2, FS_CardinalityType
<1> QED  BY <1>2, <1>3, SlotNumbers, ConstantTypes

LEMMA SubscribedSlot ==
  ASSUME NEW q, Requested(q)
  PROVE  /\ Subscribed(q) \in Slot /\ Subscribed(q).active
         /\ Subscribed(q).endpoint = q.from /\ Subscribed(q).report = q.report
         /\ Subscribed(q).interval = q.interval /\ Subscribed(q).since < q.interval
         /\ Subscribed(q).dueIn <= q.interval
         /\ (Subscribed(q).dueIn + Subscribed(q).since) % q.interval = 0
<1>1. q.interval \in Nat \ {0} /\ q.interval <= MaxInterval /\ q.interval \in Interval
  BY ConstantTypes DEF Requested
<1>2. (q.interval + 0) % q.interval = 0
  <2>1. PICK v : v = q.interval
    OBVIOUS
  <2>2. v * 1 = v
    BY <1>1, <2>1, SMTT(20)
  <2>3. v + 0 = v * 1 + 0
    BY <1>1, <2>1, <2>2
  <2>4. v \in Nat \ {0} /\ v + 0 \in Int /\ 1 \in Int /\ 0 \in 0..(v - 1)
    BY <1>1, <2>1
  <2>5. (v + 0) % v = 0
    BY <2>3, <2>4, Remainder
  <2> QED  BY <2>1, <2>5
<1>3. Subscribed(q) \in Slot
  BY <1>1, ConstantTypes DEF Subscribed, Slot, Requested, Request
<1>4. Subscribed(q).interval = q.interval /\ Subscribed(q).dueIn = q.interval /\ Subscribed(q).since = 0
      /\ Subscribed(q).active /\ Subscribed(q).endpoint = q.from /\ Subscribed(q).report = q.report
  BY DEF Subscribed
<1>5. Subscribed(q).dueIn <= q.interval /\ Subscribed(q).since < q.interval
  BY <1>1, <1>4
<1> QED  BY <1>2, <1>3, <1>4, <1>5

LEMMA RenewsKeepsBooks ==
  ASSUME BooksInv, NEW q, NEW k \in Slots, Renews(q, k)
  PROVE  BooksInv'
<1>1. Subscribed(q) \in Slot /\ Subscribed(q).active
      /\ Subscribed(q).endpoint = subscriptions[k].endpoint
      /\ Subscribed(q).report = subscriptions[k].report
      /\ Subscribed(q).since < Subscribed(q).interval
      /\ Subscribed(q).dueIn <= Subscribed(q).interval
      /\ (Subscribed(q).dueIn + Subscribed(q).since) % Subscribed(q).interval = 0
      /\ subscriptions[k].active
  BY SubscribedSlot DEF Renews, Matching, Matches
<1>2. subscriptions' \in [Slots -> Slot] /\ subscriptions'[k] = Subscribed(q)
      /\ \A j \in Slots \ {k} : subscriptions'[j] = subscriptions[j]
  BY <1>1 DEF Renews, BooksInv, TableTypes
<1> HIDE DEF Slots
<1>3. Active' = Active
  BY <1>1, <1>2 DEF Active
<1>4. TableTypes' /\ Books'
  BY <1>2, <1>3 DEF BooksInv, TableTypes, Books, Renews
<1>5. Unique'
  BY <1>1, <1>2 DEF BooksInv, Unique
<1>6. InPhase'
  BY <1>1, <1>2 DEF BooksInv, InPhase
<1> QED  BY <1>4, <1>5, <1>6 DEF BooksInv

LEMMA TakesKeepsBooks ==
  ASSUME BooksInv, NEW q, NEW k \in Slots, Takes(q, k)
  PROVE  BooksInv'
<1>1. Subscribed(q) \in Slot /\ Subscribed(q).active
      /\ Subscribed(q).endpoint = q.from /\ Subscribed(q).report = q.report
      /\ Subscribed(q).since < Subscribed(q).interval
      /\ Subscribed(q).dueIn <= Subscribed(q).interval
      /\ (Subscribed(q).dueIn + Subscribed(q).since) % Subscribed(q).interval = 0
      /\ ~subscriptions[k].active
  BY SubscribedSlot DEF Takes, FreeSlots
<1>2. subscriptions' \in [Slots -> Slot] /\ subscriptions'[k] = Subscribed(q)
      /\ \A j \in Slots \ {k} : subscriptions'[j] = subscriptions[j]
  BY <1>1 DEF Takes, BooksInv, TableTypes
<1>3. \A j \in Slots : ~ (/\ subscriptions[j].active /\ subscriptions[j].endpoint = q.from
                          /\ subscriptions[j].report = q.report)
  BY DEF Takes, Matching, Matches
<1> HIDE DEF Slots
<1>4. Active' = Active \cup {k} /\ k \notin Active
  BY <1>1, <1>2 DEF Active
<1>5. Cardinality(Active') = Cardinality(Active) + 1
  BY <1>4, ActiveCount, FS_AddElement
<1>6. Cardinality(Active) \in 0..MaxSubscriptions /\ Cardinality(Active) # MaxSubscriptions
  BY <1>4, ActiveCount
<1>7. TableTypes' /\ Books'
  BY <1>2, <1>5, <1>6, ConstantTypes DEF BooksInv, TableTypes, Books, Takes
<1>8. Unique'
  BY <1>1, <1>2, <1>3 DEF BooksInv, Unique
<1>9. InPhase'
  BY <1>1, <1>2 DEF BooksInv, InPhase
<1> QED  BY <1>7, <1>8, <1>9 DEF BooksInv

LEMMA FreesKeepsBooks ==
  ASSUME BooksInv, NEW q, NEW k \in Slots, Frees(q, k)
  PROVE  BooksInv'
<1>1. Free \in Slot /\ ~Free.active /\ subscriptions[k].active
  BY DEF Free, Slot, Frees, Matching, Matches
<1>2. subscriptions' \in [Slots -> Slot] /\ subscriptions'[k] = Free
      /\ \A j \in Slots \ {k} : subscriptions'[j] = subscriptions[j]
  BY <1>1 DEF Frees, BooksInv, TableTypes
<1> HIDE DEF Slots
<1>3. Active' = Active \ {k} /\ k \in Active
  BY <1>1, <1>2 DEF Active
<1>4. Cardinality(Active') = Cardinality(Active) - 1
  BY <1>3, ActiveCount, FS_RemoveElement
<1>5. Cardinality(Active) \in Nat /\ Cardinality(Active) # 0 /\ Cardinality(Active) <= MaxSubscriptions
  BY <1>3, ActiveCount, FS_EmptySet
<1>6. TableTypes' /\ Books'
  BY <1>2, <1>4, <1>5, ConstantTypes DEF BooksInv, TableTypes, Books, Frees
<1>7. Unique'
  BY <1>1, <1>2 DEF BooksInv, Unique
<1>8. InPhase'
  BY <1>1, <1>2 DEF BooksInv, InPhase
<1> QED  BY <1>6, <1>7, <1>8 DEF BooksInv

\* Time and reports touch no subscription's name.
SameSubscriptions ==
    \A k \in Slots :
      /\ subscriptions'[k].active = subscriptions[k].active
      /\ subscriptions[k].active =>
           /\ subscriptions'[k].endpoint = subscriptions[k].endpoint
           /\ subscriptions'[k].report = subscriptions[k].report
           /\ subscriptions'[k].interval = subscriptions[k].interval

LEMMA SameKeepsBooks ==
  ASSUME BooksInv, SameSubscriptions, UNCHANGED <<activeSubscriptions, subscriptionHighWater>>,
         subscriptions' \in [Slots -> Slot], InPhase'
  PROVE  BooksInv'
<1> HIDE DEF Slots
<1>1. Active' = Active
  BY DEF Active, SameSubscriptions
<1>2. TableTypes' /\ Books'
  BY <1>1 DEF BooksInv, TableTypes, Books
<1>3. Unique'
  BY DEF BooksInv, Unique, SameSubscriptions
<1> QED  BY <1>2, <1>3 DEF BooksInv

LEMMA ReportsKeepBooks ==
  ASSUME BooksInv, sendDueReports
  PROVE  BooksInv' /\ SameSubscriptions /\ NothingOverdue'
<1> DEFINE new(k) == [subscriptions[k] EXCEPT !.dueIn = NextDue(subscriptions[k])]
<1>1. subscriptions \in [Slots -> Slot] /\ InPhase
  BY DEF BooksInv, TableTypes
<1>2. subscriptions' = [k \in Slots |-> IF k \in Due THEN new(k) ELSE subscriptions[k]]
  BY DEF sendDueReports
<1>3. ASSUME NEW k \in Due
      PROVE  /\ k \in Slots /\ subscriptions[k].active
             /\ new(k) \in Slot /\ new(k).active
             /\ new(k).endpoint = subscriptions[k].endpoint
             /\ new(k).report = subscriptions[k].report
             /\ new(k).interval = subscriptions[k].interval
             /\ new(k).since < new(k).interval
             /\ new(k).dueIn > 0 /\ new(k).dueIn <= new(k).interval
             /\ (new(k).dueIn + new(k).since) % new(k).interval = 0
  <2>1. k \in Slots /\ subscriptions[k].active /\ subscriptions[k] \in Slot
    BY <1>1 DEF Due
  <2>2. PICK x \in Slot : x = subscriptions[k]
    BY <2>1
  <2>3. x \in ActiveSlot
    BY <2>1, <2>2, SlotFields
  <2>4. x.since < x.interval /\ (x.dueIn + x.since) % x.interval = 0
    BY <1>1, <2>1, <2>2 DEF InPhase
  <2>5. x.interval \in Nat \ {0} /\ x.interval <= MaxInterval /\ x.dueIn \in Int /\ x.since \in Nat
    BY <2>3, ConstantTypes DEF ActiveSlot
  <2>6. PICK d : d = NextDue(x)
    OBVIOUS
  <2>7. d \in 1..x.interval /\ (d + x.since) % x.interval = 0
    BY <2>4, <2>5, <2>6, NextInPhase
  <2>8. d \in (-MaxLate)..MaxInterval /\ d > 0 /\ d <= x.interval
    BY <2>5, <2>7, ConstantTypes
  <2>9. [x EXCEPT !.dueIn = d] \in ActiveSlot /\ [x EXCEPT !.dueIn = d].dueIn = d
    BY <2>3, <2>8 DEF ActiveSlot
  <2>10. ActiveSlot \subseteq Slot
    BY DEF ActiveSlot, Slot
  <2> QED  BY <2>1, <2>2, <2>3, <2>4, <2>6, <2>7, <2>8, <2>9, <2>10 DEF ActiveSlot
<1> HIDE DEF new, Slots, Slot
<1>4. subscriptions' \in [Slots -> Slot]
  BY <1>1, <1>2, <1>3
<1>5. \A k \in Slots : subscriptions'[k] = IF k \in Due THEN new(k) ELSE subscriptions[k]
  BY <1>2
<1>6. SameSubscriptions
  BY <1>1, <1>3, <1>5, SlotFields DEF SameSubscriptions
<1>7. InPhase'
  BY <1>1, <1>3, <1>5 DEF InPhase
<1>8. ASSUME NEW k \in Slots, subscriptions'[k].active  PROVE subscriptions'[k].dueIn > 0
  <2>1. CASE k \in Due
    BY <1>3, <1>5, <2>1
  <2>2. CASE k \notin Due
    <3>1. subscriptions[k].active /\ subscriptions'[k] = subscriptions[k] /\ subscriptions[k] \in Slot
      BY <1>1, <1>5, <1>8, <2>2
    <3>2. ~(subscriptions[k].dueIn <= 0)
      BY <2>2, <3>1 DEF Due
    <3>3. subscriptions[k].dueIn \in Int
      <4>1. PICK s \in Slot : s = subscriptions[k] /\ s.active
        BY <3>1
      <4>2. s \in ActiveSlot
        BY <4>1, SlotFields
      <4>3. s.dueIn \in (-MaxLate)..MaxInterval
        BY <4>2 DEF ActiveSlot
      <4> QED  BY <4>1, <4>3, ConstantTypes
    <3> QED  BY <3>1, <3>2, <3>3
  <2> QED  BY <2>1, <2>2
<1>9. NothingOverdue'
  BY <1>8 DEF NothingOverdue, Slots
<1> QED  BY <1>4, <1>6, <1>7, <1>9, SameKeepsBooks DEF sendDueReports

LEMMA TickKeepsBooks ==
  ASSUME BooksInv, Tick
  PROVE  BooksInv' /\ SameSubscriptions
<1> DEFINE new(k) == [subscriptions[k] EXCEPT !.dueIn = @ - 1,
                                              !.since = (@ + 1) % subscriptions[k].interval]
<1>1. subscriptions \in [Slots -> Slot] /\ InPhase
  BY DEF BooksInv, TableTypes
<1>2. subscriptions' = [k \in Slots |-> IF subscriptions[k].active THEN new(k) ELSE subscriptions[k]]
  BY DEF Tick
<1>3. ASSUME NEW k \in Slots, subscriptions[k].active
      PROVE  /\ new(k) \in Slot /\ new(k).active
             /\ new(k).endpoint = subscriptions[k].endpoint
             /\ new(k).report = subscriptions[k].report
             /\ new(k).interval = subscriptions[k].interval
             /\ new(k).since < new(k).interval
             /\ new(k).dueIn <= new(k).interval
             /\ (new(k).dueIn + new(k).since) % new(k).interval = 0
  <2>2. PICK x \in Slot : x = subscriptions[k]
    BY <1>1
  <2>3. x \in ActiveSlot
    BY <1>3, <2>2, SlotFields
  <2>4. x.since < x.interval /\ (x.dueIn + x.since) % x.interval = 0 /\ x.dueIn > -MaxLate
        /\ x.dueIn <= x.interval
    BY <1>1, <1>3, <2>2 DEF InPhase, Tick
  <2>5. x.interval \in Nat \ {0} /\ x.interval <= MaxInterval /\ x.dueIn \in Int
        /\ x.since \in 0..(x.interval - 1) /\ MaxLate \in Nat /\ MaxInterval \in Nat
    BY <2>3, <2>4, ConstantTypes DEF ActiveSlot
  <2>6. PICK g : g = (x.since + 1) % x.interval
    OBVIOUS
  <2>7. g \in 0..(x.interval - 1) /\ ((x.dueIn - 1) + g) % x.interval = 0
    BY <2>4, <2>5, <2>6, TickInPhase
  <2>8. x.dueIn - 1 \in (-MaxLate)..MaxInterval /\ g \in 0..MaxInterval /\ g < x.interval
        /\ x.dueIn - 1 <= x.interval
    BY <2>3, <2>4, <2>5, <2>7 DEF ActiveSlot
  <2>9. PICK y : y = [x EXCEPT !.dueIn = @ - 1, !.since = g]
    OBVIOUS
  <2>10. y \in ActiveSlot /\ y.dueIn = x.dueIn - 1 /\ y.since = g /\ y.active
         /\ y.endpoint = x.endpoint /\ y.report = x.report /\ y.interval = x.interval
    BY <2>3, <2>8, <2>9 DEF ActiveSlot
  <2>11. ActiveSlot \subseteq Slot
    BY DEF ActiveSlot, Slot
  <2>12. new(k) = y
    BY <2>2, <2>3, <2>6, <2>9 DEF ActiveSlot
  <2> HIDE DEF new
  <2> QED  BY <2>2, <2>7, <2>8, <2>10, <2>11, <2>12
<1> HIDE DEF new, Slots, Slot
<1>4. subscriptions' \in [Slots -> Slot]
  BY <1>1, <1>2, <1>3
<1>5. \A k \in Slots : subscriptions'[k] = IF subscriptions[k].active THEN new(k) ELSE subscriptions[k]
  BY <1>2
<1>6. SameSubscriptions
  BY <1>1, <1>3, <1>5, SlotFields DEF SameSubscriptions
<1>7. InPhase'
  BY <1>1, <1>3, <1>5 DEF InPhase
<1> QED  BY <1>4, <1>6, <1>7, SameKeepsBooks DEF Tick

--------------------------------------------------------------------------------
(* Sockets *)

\* Where the j-th datagram was before the i-th was taken out.
Place(i, j) == IF j < i THEN j ELSE j + 1

\* RemoveAt keeps the other datagrams, in their order.
LEMMA Removed ==
  ASSUME NEW S, NEW s \in Seq(S), NEW i \in 1..Len(s)
  PROVE  /\ RemoveAt(s, i) \in Seq(S)
         /\ Len(RemoveAt(s, i)) = Len(s) - 1
         /\ \A j \in 1..Len(RemoveAt(s, i)) :
              Place(i, j) \in 1..Len(s) /\ RemoveAt(s, i)[j] = s[Place(i, j)]
<1> DEFINE f == SubSeq(s, 1, i - 1)
           g == SubSeq(s, i + 1, Len(s))
<1>1. Len(s) \in Nat /\ i \in Nat /\ 1 <= i /\ i <= Len(s)
  OBVIOUS
<1>2. f \in Seq(S) /\ Len(f) = i - 1 /\ \A j \in 1..(i - 1) : f[j] = s[j]
  BY <1>1, SMTT(30)
<1>3. g \in Seq(S) /\ Len(g) = Len(s) - i /\ \A j \in 1..(Len(s) - i) : g[j] = s[i + j]
  BY <1>1, SMTT(30)
<1>4. RemoveAt(s, i) = f \o g
  BY DEF RemoveAt
<1> HIDE DEF f, g
<1>5. /\ f \o g \in Seq(S) /\ Len(f \o g) = Len(s) - 1
      /\ \A j \in 1..(Len(s) - 1) : (f \o g)[j] = IF j <= i - 1 THEN f[j] ELSE g[j - (i - 1)]
  <2>1. /\ f \o g \in Seq(S) /\ Len(f \o g) = Len(f) + Len(g)
        /\ \A j \in 1..(Len(f) + Len(g)) : (f \o g)[j] = IF j <= Len(f) THEN f[j] ELSE g[j - Len(f)]
    BY <1>2, <1>3, ConcatProperties
  <2>2. Len(f) + Len(g) = Len(s) - 1
    BY <1>1, <1>2, <1>3
  <2> QED  BY <1>2, <2>1, <2>2
<1>6. ASSUME NEW j \in 1..(Len(s) - 1)
      PROVE  Place(i, j) \in 1..Len(s) /\ (f \o g)[j] = s[Place(i, j)]
  <2>1. CASE j < i
    <3>1. Place(i, j) = j /\ j \in 1..(i - 1) /\ j \in 1..Len(s) /\ j <= i - 1
      BY <1>1, <2>1 DEF Place
    <3> QED  BY <1>2, <1>5, <3>1
  <2>2. CASE ~(j < i)
    <3>1. /\ Place(i, j) = j + 1 /\ j + 1 \in 1..Len(s) /\ ~(j <= i - 1)
          /\ j - (i - 1) \in 1..(Len(s) - i) /\ i + (j - (i - 1)) = j + 1
      BY <1>1, <2>2 DEF Place
    <3>2. (f \o g)[j] = g[j - (i - 1)] /\ g[j - (i - 1)] = s[i + (j - (i - 1))]
      BY <1>3, <1>5, <3>1
    <3> QED  BY <3>1, <3>2
  <2> QED  BY <2>1, <2>2
<1> QED  BY <1>4, <1>5, <1>6

\* What arrives is behind what was there before.
LEMMA DeliveredBehind ==
  ASSUME NEW S, NEW s \in Seq(S), NEW d \in Seq(S)
  PROVE  /\ Delivered(s, d) \in Seq(S)
         /\ Len(Delivered(s, d)) \in {Len(s), Len(s) + Len(d)}
         /\ \A j \in 1..Len(Delivered(s, d)) :
              IF j <= Len(s) THEN Delivered(s, d)[j] = s[j]
              ELSE j - Len(s) \in 1..Len(d) /\ Delivered(s, d)[j] = d[j - Len(s)]
<1>1. Len(s) \in Nat /\ Len(d) \in Nat
  OBVIOUS
<1>2. /\ s \o d \in Seq(S) /\ Len(s \o d) = Len(s) + Len(d)
      /\ \A j \in 1..(Len(s) + Len(d)) : (s \o d)[j] = IF j <= Len(s) THEN s[j] ELSE d[j - Len(s)]
  BY ConcatProperties
<1>3. CASE Len(s) + Len(d) <= MaxInFlight
  <2>1. Delivered(s, d) = s \o d
    BY <1>3 DEF Delivered
  <2> QED  BY <1>1, <1>2, <2>1
<1>4. CASE ~(Len(s) + Len(d) <= MaxInFlight)
  <2>1. Delivered(s, d) = s
    BY <1>4 DEF Delivered
  <2> QED  BY <1>1, <2>1
<1> QED  BY <1>3, <1>4

\* What is sent to an endpoint reaches that monitor's socket only.
LEMMA SentTo ==
  ASSUME toMonitor \in [Monitors -> Seq(Message)], NEW e, NEW d \in Seq(Message)
  PROVE  /\ ToEndpoint(e, d) \in [Monitors -> Seq(Message)]
         /\ \A m \in Monitors :
              ToEndpoint(e, d)[m] = IF m = e /\ monitor[m].phase # "exited"
                                      THEN Delivered(toMonitor[m], d) ELSE toMonitor[m]
<1>1. CASE e \in Monitors /\ monitor[e].phase # "exited"
  <2>1. ToEndpoint(e, d) = [toMonitor EXCEPT ![e] = Delivered(toMonitor[e], d)]
    BY <1>1 DEF ToEndpoint
  <2>2. Delivered(toMonitor[e], d) \in Seq(Message)
    BY <1>1, DeliveredBehind
  <2> HIDE DEF Message
  <2> QED  BY <1>1, <2>1, <2>2
<1>2. CASE ~(e \in Monitors /\ monitor[e].phase # "exited")
  BY <1>2 DEF ToEndpoint
<1> QED  BY <1>1, <1>2

ReportOf(r) == [kind |-> "Report", report |-> r]

\* A report goes to an endpoint that has a subscription for it.
LEMMA ReportsAreDue ==
  ASSUME TypeOK, NEW m \in Monitors, NEW b \in ReportsTo(m)
  PROVE  /\ b \in Seq(Message)
         /\ \A i \in 1..Len(b) :
              \E k \in Slots : /\ subscriptions[k].active /\ subscriptions[k].endpoint = m
                               /\ b[i] = ReportOf(subscriptions[k].report)
<1> DEFINE due == {k \in Due : subscriptions[k].endpoint = m}
<1>1. due \subseteq Slots
  BY DEF Due
<1>2. PICK s \in UNION {SetToSeqs(sent) : sent \in SUBSET due} :
         b = [i \in DOMAIN s |-> [kind |-> "Report", report |-> subscriptions[s[i]].report]]
  BY DEF ReportsTo
<1>3. PICK sent \in SUBSET due : s \in SetToSeqs(sent)
  BY <1>2
<1>4. IsFiniteSet(sent) /\ Cardinality(sent) \in Nat
  BY <1>1, SlotNumbers, FS_Subset, FS_CardinalityType
<1>5. PICK n \in Nat : n = Cardinality(sent)
  BY <1>4
<1>6. s \in [1..n -> sent]
  BY <1>3, <1>5 DEF SetToSeqs
<1>7. ASSUME NEW i \in 1..n
      PROVE  /\ s[i] \in Slots /\ subscriptions[s[i]].active /\ subscriptions[s[i]].endpoint = m
             /\ ReportOf(subscriptions[s[i]].report) \in Message
  <2>1. s[i] \in due
    BY <1>3, <1>6
  <2>2. s[i] \in Slots /\ subscriptions[s[i]].active /\ subscriptions[s[i]].endpoint = m
    BY <2>1 DEF Due
  <2>3. subscriptions[s[i]] \in Slot
    BY <2>2 DEF TypeOK
  <2>4. subscriptions[s[i]].report \in ReportType
    BY <2>2, <2>3, SlotFields DEF ActiveSlot
  <2> QED  BY <2>2, <2>4 DEF ReportOf, Message
<1>8. b = [i \in 1..n |-> ReportOf(subscriptions[s[i]].report)]
  BY <1>2, <1>6, Zenon DEF ReportOf
<1> HIDE DEF Message, ReportOf, Slots
<1>9. b \in [1..n -> Message]
  BY <1>7, <1>8
<1>10. b \in Seq(Message) /\ Len(b) = n
  BY <1>5, <1>9
<1> QED  BY <1>7, <1>8, <1>10

--------------------------------------------------------------------------------
(* Every step keeps the invariant of the table. *)

Process == [phase : {"sending", "waiting", "receiving", "exited"},
            step : 1..(Len(Demo) + 2), attempt : 1..MaxAttempts]

LinkTypes ==
    /\ turn \in {"poll", "reports"}
    /\ toDevice \in Seq(Request)
    /\ toMonitor \in [Monitors -> Seq(Message)]
    /\ monitor \in [Monitors -> Process]

LEMMA InvParts == TableInv <=> BooksInv /\ LinkTypes /\ Phases
BY DEF TableInv, BooksInv, LinkTypes, TypeOK, TableTypes, Process

\* The demonstration's requests.
RequestAt(m, t) ==
    [from |-> m, kind |-> IF t = Unsubscribing THEN "WXUSB" ELSE "WXSUB", txn |-> t,
     report |-> Demo[IF t = Unsubscribing THEN 1 ELSE t].report,
     interval |-> Demo[IF t = Unsubscribing THEN 1 ELSE t].interval]

LEMMA DemoItems ==
    /\ Len(Demo) \in Nat \ {0}
    /\ \A k \in 1..Len(Demo) : Demo[k].report \in ReportType /\ Demo[k].interval \in Interval
<1> DEFINE Item == [report : ReportType, interval : MinInterval..MaxInterval]
<1>1. Demo \in Seq(Item) /\ Len(Demo) > 0
  BY DemoAssumption
<1>2. ASSUME NEW k \in 1..Len(Demo)  PROVE Demo[k] \in Item
  <2> HIDE DEF Item
  <2> QED  BY <1>1
<1> QED  BY <1>1, <1>2 DEF Interval

LEMMA DemoRequests ==
  ASSUME NEW m \in Monitors, NEW t \in 1..Unsubscribing
  PROVE  /\ RequestAt(m, t) \in Request /\ Requested(RequestAt(m, t))
         /\ RequestAt(m, t).from = m /\ RequestAt(m, t).txn = t
         /\ RequestAt(m, t).kind = IF t = Unsubscribing THEN "WXUSB" ELSE "WXSUB"
         /\ RequestAt(m, t).report = Demo[IF t = Unsubscribing THEN 1 ELSE t].report
         /\ RequestAt(m, t).interval = Demo[IF t = Unsubscribing THEN 1 ELSE t].interval
<1> DEFINE k == IF t = Unsubscribing THEN 1 ELSE t
<1>1. k \in 1..Len(Demo) /\ t \in Nat
  BY DemoItems DEF Unsubscribing
<1>2. Demo[k].report \in ReportType /\ Demo[k].interval \in Interval
  BY <1>1, DemoItems
<1> HIDE DEF k
<1>3. RequestAt(m, t) = [from |-> m, kind |-> IF t = Unsubscribing THEN "WXUSB" ELSE "WXSUB",
                         txn |-> t, report |-> Demo[k].report, interval |-> Demo[k].interval]
  BY DEF RequestAt, k
<1>4. Demo[k].interval \in Nat
  BY <1>2, ConstantTypes
<1>5. RequestAt(m, t) \in Request
  BY <1>1, <1>2, <1>3, <1>4 DEF Request, Endpoint
<1> QED  BY <1>2, <1>3, <1>5 DEF Requested, k

LEMMA RequestOfIsThat ==
  ASSUME LinkTypes, Phases, NEW m \in Monitors, monitor[m].phase \in {"sending", "waiting"}
  PROVE  RequestOf(m) = RequestAt(m, monitor[m].step) /\ monitor[m].step \in 1..Unsubscribing
<1>1. monitor[m].step \in 1..Unsubscribing
  BY DemoItems DEF LinkTypes, Phases, Process, Unsubscribing
<1> QED  BY <1>1 DEF RequestOf, RequestAt

\* What becomes of a process.
LEMMA ProcessBecomes ==
  ASSUME LinkTypes, Phases, NEW m \in Monitors, NEW x \in Process,
         x.phase \in {"sending", "waiting"} => x.step <= Unsubscribing,
         Becomes(m, x)
  PROVE  /\ monitor' \in [Monitors -> Process] /\ Phases'
         /\ monitor'[m] = x /\ \A n \in Monitors \ {m} : monitor'[n] = monitor[n]
<1>1. monitor' \in [Monitors -> Process] /\ monitor'[m] = x
      /\ \A n \in Monitors \ {m} : monitor'[n] = monitor[n]
  BY DEF LinkTypes, Becomes
<1>2. Phases'
  BY <1>1 DEF Phases, Unsubscribing
<1> QED  BY <1>1, <1>2

LEMMA NextAttemptKeeps ==
  ASSUME NEW x \in Process
  PROVE  /\ NextAttempt(x) \in Process /\ NextAttempt(x).step = x.step
         /\ NextAttempt(x).phase \in {"sending", "exited"}
<1>1. CASE x.attempt < MaxAttempts
  <2>1. NextAttempt(x) = [x EXCEPT !.phase = "sending", !.attempt = x.attempt + 1]
    BY <1>1 DEF NextAttempt, Process
  <2>2. x.attempt + 1 \in 1..MaxAttempts
    BY <1>1, ConstantTypes DEF Process
  <2> QED  BY <2>1, <2>2 DEF Process
<1>2. CASE ~(x.attempt < MaxAttempts)
  <2>1. NextAttempt(x) = [x EXCEPT !.phase = "exited"]
    BY <1>2 DEF NextAttempt
  <2> QED  BY <2>1 DEF Process
<1> QED  BY <1>1, <1>2

LEMMA ConfirmedNext ==
  ASSUME NEW x \in Process, x.step <= Unsubscribing
  PROVE  /\ Confirmed(x) \in Process /\ Confirmed(x).step = x.step + 1
         /\ Confirmed(x).phase \in {"sending", "receiving"}
         /\ Confirmed(x).phase = "sending" => Confirmed(x).step <= Unsubscribing
<1> DEFINE phase == IF x.step < Len(Demo) THEN "sending" ELSE "receiving"
<1>1. /\ x.step \in 1..(Len(Demo) + 2) /\ x.step + 1 \in 1..(Len(Demo) + 2)
      /\ 1 \in 1..MaxAttempts /\ Len(Demo) \in Nat
  BY ConstantTypes, DemoItems DEF Process, Unsubscribing
<1>2. Confirmed(x) = [x EXCEPT !.step = x.step + 1, !.attempt = 1, !.phase = phase]
  BY DEF Confirmed, Process
<1>3. /\ phase \in {"sending", "receiving"}
      /\ phase = "sending" => x.step + 1 <= Unsubscribing
  BY <1>1 DEF Unsubscribing
<1> HIDE DEF phase
<1> QED  BY <1>1, <1>2, <1>3 DEF Process

\* What a process makes of a message.
LEMMA ReceivedMessage ==
  ASSUME LinkTypes, Phases, NEW m \in Monitors, receiveOne(m)
  PROVE  \E i \in Arriving(toMonitor[m]), x \in Process :
           /\ i \in 1..Len(toMonitor[m])
           /\ toMonitor' = [toMonitor EXCEPT ![m] = RemoveAt(toMonitor[m], i)]
           /\ Becomes(m, x)
           /\ x.phase \in {"sending", "waiting"} => x.step <= Unsubscribing
           /\ \/ x.step = monitor[m].step
              \/ /\ x = Confirmed(monitor[m]) /\ x.step = monitor[m].step + 1
                 /\ monitor[m].phase = "waiting"
                 /\ toMonitor[m][i].kind = "WXACK" /\ toMonitor[m][i].txn = monitor[m].step
                 /\ toMonitor[m][i].result = "OK"
<1> DEFINE x == monitor[m]
<1>1. PICK i \in Arriving(toMonitor[m]) :
        /\ toMonitor' = [toMonitor EXCEPT ![m] = RemoveAt(toMonitor[m], i)]
        /\ Becomes(m, IF ~IsAckFor(toMonitor[m][i], x) THEN x
                      ELSE IF toMonitor[m][i].result = "OK" THEN Confirmed(x)
                      ELSE [x EXCEPT !.phase = "exited"])
  BY DEF receiveOne
<1>2. toMonitor[m] \in Seq(Message) /\ x \in Process
      /\ (x.phase \in {"sending", "waiting"} => x.step <= Unsubscribing)
  BY DEF LinkTypes, Phases
<1>3. i \in 1..Len(toMonitor[m])
  BY <1>2 DEF Arriving
<1> HIDE DEF x
<1>4. CASE ~IsAckFor(toMonitor[m][i], x)
  <2>1. Becomes(m, x)
    BY <1>1, <1>4
  <2> QED  BY <1>1, <1>2, <1>3, <2>1 DEF x
<1>5. CASE IsAckFor(toMonitor[m][i], x) /\ toMonitor[m][i].result = "OK"
  <2>1. Becomes(m, Confirmed(x)) /\ x.phase = "waiting"
        /\ toMonitor[m][i].kind = "WXACK" /\ toMonitor[m][i].txn = x.step
    BY <1>1, <1>5 DEF IsAckFor
  <2>2. /\ Confirmed(x) \in Process /\ Confirmed(x).step = x.step + 1
        /\ Confirmed(x).phase \in {"sending", "waiting"} => Confirmed(x).step <= Unsubscribing
    BY <1>2, <2>1, ConfirmedNext
  <2> QED  BY <1>1, <1>3, <1>5, <2>1, <2>2 DEF x
<1>6. CASE IsAckFor(toMonitor[m][i], x) /\ toMonitor[m][i].result # "OK"
  <2>1. PICK y : y = [x EXCEPT !.phase = "exited"]
    OBVIOUS
  <2>2. Becomes(m, y)
    BY <1>1, <1>6, <2>1
  <2>3. y \in Process /\ y.step = x.step /\ y.phase = "exited"
    BY <1>2, <2>1 DEF Process
  <2> QED  BY <1>1, <1>3, <2>2, <2>3 DEF x
<1> QED  BY <1>4, <1>5, <1>6

\* The request of a turn.
LEMMA TurnsRequest ==
  ASSUME LinkTypes, receiveRequest
  PROVE  \E i \in Arriving(toDevice), q \in Request :
           /\ i \in 1..Len(toDevice) /\ q = toDevice[i]
           /\ toDevice' = RemoveAt(toDevice, i)
           /\ \/ q.kind = "WXSUB" /\ processSubscribe(q)
              \/ q.kind = "WXUSB" /\ processUnsubscribe(q)
              \/ UNCHANGED <<table, toMonitor>>
           /\ turn' = "reports" /\ UNCHANGED monitor
<1>1. PICK i \in Arriving(toDevice) :
        /\ toDevice' = RemoveAt(toDevice, i)
        /\ CASE toDevice[i].kind = "WXSUB" -> processSubscribe(toDevice[i])
             [] toDevice[i].kind = "WXUSB" -> processUnsubscribe(toDevice[i])
             [] OTHER -> UNCHANGED <<table, toMonitor>>
  BY DEF receiveRequest
<1>2. toDevice \in Seq(Request) /\ i \in 1..Len(toDevice)
  BY DEF LinkTypes, Arriving
<1> HIDE DEF Request
<1>3. toDevice[i] \in Request
  BY <1>2
<1>4. PICK q \in Request : q = toDevice[i]
  BY <1>3
<1>5. CASE q.kind = "WXSUB"
  <2>1. processSubscribe(q)
    BY <1>1, <1>4, <1>5
  <2> QED  BY <1>1, <1>2, <1>4, <1>5, <2>1 DEF receiveRequest
<1>6. CASE q.kind = "WXUSB"
  <2>1. processUnsubscribe(q)
    BY <1>1, <1>4, <1>6
  <2> QED  BY <1>1, <1>2, <1>4, <1>6, <2>1 DEF receiveRequest
<1>7. CASE q.kind # "WXSUB" /\ q.kind # "WXUSB"
  <2>1. UNCHANGED <<table, toMonitor>>
    BY <1>1, <1>4, <1>7
  <2> QED  BY <1>1, <1>2, <1>4, <2>1 DEF receiveRequest
<1> QED  BY <1>5, <1>6, <1>7

Ack(q, result) == [kind |-> "WXACK", txn |-> q.txn, result |-> result]

\* Every request that is understood is answered; with "OK", if it is to
\* subscribe, only when there is a slot for it.
LEMMA Answers ==
  ASSUME NEW q \in Request, processSubscribe(q) \/ processUnsubscribe(q)
  PROVE  \E result \in Result :
           /\ <<Ack(q, result)>> \in Seq(Message)
           /\ toMonitor' = ToEndpoint(q.from, <<Ack(q, result)>>)
           /\ processSubscribe(q) /\ result = "OK" => \E k \in Slots : Renews(q, k) \/ Takes(q, k)
<1>1. ASSUME NEW result \in Result  PROVE <<Ack(q, result)>> \in Seq(Message)
  <2>1. Ack(q, result) \in Message
    BY DEF Ack, Message, Request
  <2> HIDE DEF Message
  <2> QED  BY <2>1
<1>2. CASE processSubscribe(q)
  <2>1. CASE q.report = BadReport \/ q.interval \notin Interval
    <3>1. toMonitor' = ToEndpoint(q.from, <<Ack(q, "INVALID_PARAM")>>)
      BY <1>2, <2>1 DEF processSubscribe, sendAck, Ack
    <3> QED  BY <1>1, <3>1 DEF Result
  <2>2. CASE ~(q.report = BadReport \/ q.interval \notin Interval)
    <3>1. PICK result \in Result :
            result = IF Matching(q.from, q.report) \cup FreeSlots # {} THEN "OK" ELSE "BUSY"
      BY DEF Result
    <3>2. toMonitor' = ToEndpoint(q.from, <<Ack(q, result)>>)
      BY <1>2, <2>2, <3>1 DEF processSubscribe, sendAck, Ack
    <3>3. Requested(q)
      BY <2>2 DEF Requested, Request
    <3>4. result = "OK" => \E k \in Slots : Renews(q, k) \/ Takes(q, k)
      BY <1>2, <3>1, <3>3, SubscribeOnTable
    <3> QED  BY <1>1, <3>2, <3>4
  <2> QED  BY <2>1, <2>2
<1>3. CASE processUnsubscribe(q) /\ ~processSubscribe(q)
  <2>1. PICK result \in Result : result = IF q.report = BadReport THEN "INVALID_PARAM" ELSE "OK"
    BY DEF Result
  <2>2. toMonitor' = ToEndpoint(q.from, <<Ack(q, result)>>)
    BY <1>3, <2>1 DEF processUnsubscribe, sendAck, Ack
  <2> QED  BY <1>1, <1>3, <2>2
<1> QED  BY <1>2, <1>3

\* The reports of a turn.
LEMMA TurnsReports ==
  ASSUME TypeOK, sendDueReports
  PROVE  /\ toMonitor' \in [Monitors -> Seq(Message)]
         /\ \A m \in Monitors : \E b \in ReportsTo(m) :
              /\ b \in Seq(Message)
              /\ toMonitor'[m] = IF monitor[m].phase # "exited"
                                   THEN Delivered(toMonitor[m], b) ELSE toMonitor[m]
<1>1. PICK reports \in [Monitors -> UNION {ReportsTo(m) : m \in Monitors}] :
        /\ \A m \in Monitors : reports[m] \in ReportsTo(m)
        /\ toMonitor' = [m \in Monitors |-> ToEndpoint(m, reports[m])[m]]
  BY DEF sendDueReports
<1>2. toMonitor \in [Monitors -> Seq(Message)]
  BY DEF TypeOK
<1>3. ASSUME NEW m \in Monitors
      PROVE  /\ reports[m] \in ReportsTo(m) /\ reports[m] \in Seq(Message)
             /\ toMonitor'[m] = IF monitor[m].phase # "exited"
                                  THEN Delivered(toMonitor[m], reports[m]) ELSE toMonitor[m]
             /\ toMonitor'[m] \in Seq(Message)
  <2>1. reports[m] \in ReportsTo(m) /\ reports[m] \in Seq(Message)
    BY <1>1, ReportsAreDue
  <2>2. /\ ToEndpoint(m, reports[m]) \in [Monitors -> Seq(Message)]
        /\ ToEndpoint(m, reports[m])[m] = IF monitor[m].phase # "exited"
                                            THEN Delivered(toMonitor[m], reports[m]) ELSE toMonitor[m]
    BY <1>2, <2>1, SentTo
  <2>3. toMonitor'[m] = ToEndpoint(m, reports[m])[m]
    BY <1>1
  <2> HIDE DEF Message
  <2> QED  BY <2>1, <2>2, <2>3
<1> HIDE DEF Message
<1> QED  BY <1>1, <1>3

LEMMA ReceiveKeepsTableInv ==
  ASSUME TableInv, receiveRequest
  PROVE  TableInv'
<1>1. BooksInv /\ LinkTypes /\ Phases
  BY InvParts
<1>2. PICK i \in Arriving(toDevice), q \in Request :
           /\ i \in 1..Len(toDevice) /\ q = toDevice[i]
           /\ toDevice' = RemoveAt(toDevice, i)
           /\ processSubscribe(q) \/ processUnsubscribe(q) \/ UNCHANGED <<table, toMonitor>>
           /\ turn' = "reports" /\ UNCHANGED monitor
  BY <1>1, TurnsRequest
<1>3. toDevice' \in Seq(Request)
  <2> HIDE DEF Request
  <2> QED  BY <1>1, <1>2, Removed DEF LinkTypes
<1>4. toMonitor \in [Monitors -> Seq(Message)]
  BY <1>1 DEF LinkTypes
<1>5. CASE processSubscribe(q) \/ processUnsubscribe(q)
  <2>1. toMonitor' \in [Monitors -> Seq(Message)]
    <3>1. PICK result \in Result :
            /\ <<Ack(q, result)>> \in Seq(Message)
            /\ toMonitor' = ToEndpoint(q.from, <<Ack(q, result)>>)
      BY <1>1, <1>5, Answers
    <3> QED  BY <1>4, <3>1, SentTo
  <2>2. BooksInv'
    <3>1. CASE UNCHANGED table
      BY <1>1, <3>1 DEF table, BooksInv, TableTypes, Unique, Books, InPhase, Active
    <3>2. CASE \E k \in Slots : Renews(q, k) \/ Takes(q, k) \/ Frees(q, k)
      BY <1>1, <3>2, RenewsKeepsBooks, TakesKeepsBooks, FreesKeepsBooks
    <3> QED  BY <1>5, <3>1, <3>2, RequestOnTable
  <2>3. LinkTypes' /\ Phases'
    BY <1>1, <1>2, <1>3, <2>1 DEF LinkTypes, Phases, Unsubscribing
  <2> QED  BY <2>2, <2>3, InvParts, PTL
<1>6. CASE UNCHANGED <<table, toMonitor>>
  <2>1. BooksInv'
    BY <1>1, <1>6 DEF table, BooksInv, TableTypes, Unique, Books, InPhase, Active
  <2>2. LinkTypes' /\ Phases'
    BY <1>1, <1>2, <1>3, <1>6 DEF LinkTypes, Phases, Unsubscribing
  <2> QED  BY <2>1, <2>2, InvParts, PTL
<1> QED  BY <1>2, <1>5, <1>6

LEMMA UnchangedBooks ==
  ASSUME BooksInv, UNCHANGED table
  PROVE  BooksInv'
BY DEF table, BooksInv, TableTypes, Unique, Books, InPhase, Active

LEMMA UnchangedPhases ==
  ASSUME Phases, UNCHANGED monitor
  PROVE  Phases'
BY DEF Phases, Unsubscribing

LEMMA DeviceKeepsTableInv ==
  ASSUME TableInv, pollTimesOut \/ sendDueReports \/ Tick
  PROVE  TableInv'
<1>1. BooksInv /\ LinkTypes /\ Phases /\ TypeOK
  BY InvParts DEF TableInv
<1>2. CASE pollTimesOut
  <2>1. BooksInv' /\ Phases'
    BY <1>1, <1>2, UnchangedBooks, UnchangedPhases DEF pollTimesOut
  <2>2. LinkTypes'
    BY <1>1, <1>2 DEF pollTimesOut, LinkTypes
  <2> QED  BY <2>1, <2>2, InvParts, PTL
<1>3. CASE sendDueReports
  <2>1. BooksInv' /\ Phases'
    BY <1>1, <1>3, ReportsKeepBooks, UnchangedPhases DEF sendDueReports
  <2>2. LinkTypes'
    BY <1>1, <1>3, TurnsReports DEF sendDueReports, LinkTypes
  <2> QED  BY <2>1, <2>2, InvParts, PTL
<1>4. CASE Tick
  <2>1. BooksInv' /\ Phases'
    BY <1>1, <1>4, TickKeepsBooks, UnchangedPhases DEF Tick
  <2>2. LinkTypes'
    BY <1>1, <1>4 DEF Tick, LinkTypes
  <2> QED  BY <2>1, <2>2, InvParts, PTL
<1> QED  BY <1>2, <1>3, <1>4

LEMMA LinkKeepsTableInv ==
  ASSUME TableInv, Lose \/ StrangerSends
  PROVE  TableInv'
<1>1. BooksInv /\ LinkTypes /\ Phases
  BY InvParts
<1>2. UNCHANGED table /\ UNCHANGED monitor /\ turn' = turn
  BY DEF Lose, StrangerSends, device
<1>3. BooksInv' /\ Phases'
  BY <1>1, <1>2, UnchangedBooks, UnchangedPhases
<1>4. CASE Lose
  <2>1. CASE \E i \in DOMAIN toDevice : toDevice' = RemoveAt(toDevice, i) /\ UNCHANGED toMonitor
    <3>1. toDevice' \in Seq(Request)
      <4> HIDE DEF Request
      <4> QED  BY <1>1, <2>1, Removed DEF LinkTypes
    <3>2. LinkTypes'
      BY <1>1, <1>2, <2>1, <3>1 DEF LinkTypes
    <3> QED  BY <1>3, <3>2, InvParts, PTL
  <2>2. CASE \E m \in Monitors : \E i \in DOMAIN toMonitor[m] :
               /\ toMonitor' = [toMonitor EXCEPT ![m] = RemoveAt(@, i)]
               /\ UNCHANGED toDevice
    <3>0. PICK m \in Monitors : \E i \in DOMAIN toMonitor[m] :
               /\ toMonitor' = [toMonitor EXCEPT ![m] = RemoveAt(@, i)]
               /\ UNCHANGED toDevice
      BY <2>2
    <3>1. PICK i \in DOMAIN toMonitor[m] :
               /\ toMonitor' = [toMonitor EXCEPT ![m] = RemoveAt(@, i)]
               /\ UNCHANGED toDevice
      BY <3>0
    <3>2. RemoveAt(toMonitor[m], i) \in Seq(Message)
      <4> HIDE DEF Message
      <4> QED  BY <1>1, <3>1, Removed DEF LinkTypes
    <3>3. LinkTypes'
      <4> HIDE DEF Message
      <4> QED  BY <1>1, <1>2, <3>1, <3>2 DEF LinkTypes
    <3> QED  BY <1>3, <3>3, InvParts, PTL
  <2> QED  BY <1>4, <2>1, <2>2 DEF Lose
<1>5. CASE StrangerSends
  <2>1. PICK r \in StrangerRequests : toDevice' = Delivered(toDevice, <<r>>)
    BY <1>5 DEF StrangerSends
  <2>2. r \in Request
    BY StrangerAssumption, ConstantTypes DEF Request, Endpoint
  <2>3. <<r>> \in Seq(Request)
    BY <2>2
  <2>4. toDevice' \in Seq(Request)
    BY <1>1, <2>1, <2>3, DeliveredBehind DEF LinkTypes
  <2>5. LinkTypes'
    BY <1>1, <1>2, <1>5, <2>4 DEF LinkTypes, StrangerSends
  <2> QED  BY <1>3, <2>5, InvParts, PTL
<1> QED  BY <1>4, <1>5

LEMMA MonitorKeepsTableInv ==
  ASSUME TableInv, NEW m \in Monitors,
         Transact(m) \/ receiveOne(m) \/ unsubscribeAt(m) \/ Stop(m)
  PROVE  TableInv'
<1>1. BooksInv /\ LinkTypes /\ Phases
  BY InvParts
<1>2. UNCHANGED table /\ turn' = turn
  BY DEF Transact, sendAttempt, AckTimeout, receiveOne, unsubscribeAt, Stop, device
<1>3. BooksInv'
  BY <1>1, <1>2, UnchangedBooks
<1>4. PICK x \in Process : x = monitor[m]
  BY <1>1 DEF LinkTypes
<1>5. ASSUME NEW y \in Process, y.phase \in {"sending", "waiting"} => y.step <= Unsubscribing,
             Becomes(m, y), toDevice' \in Seq(Request), toMonitor' \in [Monitors -> Seq(Message)]
      PROVE  TableInv'
  <2>1. LinkTypes' /\ Phases'
    BY <1>1, <1>2, <1>5, ProcessBecomes DEF LinkTypes
  <2> QED  BY <1>3, <2>1, InvParts, PTL
<1>6. x.phase \in {"sending", "waiting"} => x.step <= Unsubscribing
  BY <1>1, <1>4 DEF Phases
<1>7. CASE sendAttempt(m)
  <2>1. x.phase = "sending" /\ toMonitor' = toMonitor
    BY <1>4, <1>7 DEF sendAttempt
  <2>2. CASE toDevice' = Delivered(toDevice, <<RequestOf(m)>>)
             /\ Becomes(m, [monitor[m] EXCEPT !.phase = "waiting"])
    <3>1. PICK y : y = [x EXCEPT !.phase = "waiting"]
      OBVIOUS
    <3>2. y \in Process /\ y.step = x.step
      BY <1>4, <3>1 DEF Process
    <3>3. RequestOf(m) \in Request
      BY <1>1, <1>4, <2>1, RequestOfIsThat, DemoRequests
    <3>4. <<RequestOf(m)>> \in Seq(Request)
      <4> HIDE DEF Request
      <4> QED  BY <3>3
    <3>5. toDevice' \in Seq(Request)
      BY <1>1, <2>2, <3>4, DeliveredBehind DEF LinkTypes
    <3> QED  BY <1>1, <1>4, <1>5, <1>6, <2>1, <2>2, <3>1, <3>2, <3>5 DEF LinkTypes
  <2>3. CASE UNCHANGED toDevice /\ Becomes(m, NextAttempt(monitor[m]))
    BY <1>1, <1>4, <1>5, <1>6, <2>1, <2>3, NextAttemptKeeps DEF LinkTypes
  <2> QED  BY <1>7, <2>2, <2>3 DEF sendAttempt
<1>8. CASE AckTimeout(m)
  <2>1. UNCHANGED <<toDevice, toMonitor>> /\ Becomes(m, NextAttempt(x)) /\ x.phase = "waiting"
    BY <1>4, <1>8 DEF AckTimeout
  <2> QED  BY <1>1, <1>5, <1>6, <2>1, NextAttemptKeeps DEF LinkTypes
<1>9. CASE receiveOne(m)
  <2>1. PICK i \in 1..Len(toMonitor[m]), y \in Process :
           /\ toMonitor' = [toMonitor EXCEPT ![m] = RemoveAt(toMonitor[m], i)]
           /\ Becomes(m, y)
           /\ y.phase \in {"sending", "waiting"} => y.step <= Unsubscribing
    BY <1>1, <1>9, ReceivedMessage
  <2>2. toMonitor' \in [Monitors -> Seq(Message)]
    <3>1. toMonitor \in [Monitors -> Seq(Message)]
      BY <1>1 DEF LinkTypes
    <3> HIDE DEF Message
    <3>2. RemoveAt(toMonitor[m], i) \in Seq(Message)
      BY <3>1, Removed
    <3> QED  BY <2>1, <3>1, <3>2
  <2> QED  BY <1>1, <1>5, <1>9, <2>1, <2>2 DEF receiveOne, LinkTypes
<1>10. CASE unsubscribeAt(m)
  <2>1. PICK y : y = [x EXCEPT !.phase = "sending"]
    OBVIOUS
  <2>2. y \in Process /\ y.step = x.step /\ x.step = Unsubscribing /\ Becomes(m, y)
    BY <1>4, <1>10, <2>1 DEF unsubscribeAt, Process
  <2> QED  BY <1>1, <1>5, <1>10, <2>2, DemoItems DEF unsubscribeAt, LinkTypes, Unsubscribing
<1>11. CASE Stop(m)
  <2>1. PICK y : y = [x EXCEPT !.phase = "exited"]
    OBVIOUS
  <2>2. y \in Process /\ y.phase = "exited" /\ Becomes(m, y)
    BY <1>4, <1>11, <2>1 DEF Stop, Process
  <2>3. toMonitor' \in [Monitors -> Seq(Message)]
    <3>1. toMonitor \in [Monitors -> Seq(Message)] /\ toMonitor' = [toMonitor EXCEPT ![m] = <<>>]
      BY <1>1, <1>11 DEF LinkTypes, Stop
    <3> HIDE DEF Message
    <3>2. <<>> \in Seq(Message)
      OBVIOUS
    <3> QED  BY <3>1, <3>2
  <2> QED  BY <1>1, <1>5, <1>11, <2>2, <2>3 DEF Stop, LinkTypes
<1> QED  BY <1>7, <1>8, <1>9, <1>10, <1>11 DEF Transact

LEMMA InitTableInv == Init => TableInv
<1> SUFFICES ASSUME Init  PROVE TableInv
  OBVIOUS
<1>1. Free \in Slot /\ ~Free.active
  BY DEF Free, Slot
<1>2. subscriptions \in [Slots -> Slot] /\ \A k \in Slots : subscriptions[k] = Free
  BY <1>1 DEF Init
<1>3. Active = {}
  BY <1>1, <1>2 DEF Active
<1>4. TableTypes /\ Books
  BY <1>2, <1>3, ConstantTypes, FS_EmptySet DEF TableTypes, Books, Init
<1>5. Unique /\ InPhase
  BY <1>1, <1>2 DEF Unique, InPhase
<1>6. [phase |-> "sending", step |-> 1, attempt |-> 1] \in Process
  BY ConstantTypes, DemoItems DEF Process
<1>7. monitor \in [Monitors -> Process] /\ Phases
  BY <1>6, DemoItems DEF Init, Phases, Unsubscribing
<1>8. toMonitor \in [Monitors -> Seq(Message)] /\ toDevice \in Seq(Request) /\ turn \in {"poll", "reports"}
  BY DEF Init
<1> QED  BY <1>4, <1>5, <1>7, <1>8, InvParts DEF BooksInv, LinkTypes

LEMMA NextTableInv == TableInv /\ [Next]_vars => TableInv'
<1> SUFFICES ASSUME TableInv, [Next]_vars  PROVE TableInv'
  OBVIOUS
<1>1. CASE receiveRequest
  BY <1>1, ReceiveKeepsTableInv
<1>2. CASE pollTimesOut \/ sendDueReports \/ Tick
  BY <1>2, DeviceKeepsTableInv
<1>3. CASE Lose \/ StrangerSends
  BY <1>3, LinkKeepsTableInv
<1>4. CASE \E m \in Monitors : Transact(m) \/ receiveOne(m) \/ unsubscribeAt(m) \/ Stop(m)
  BY <1>4, MonitorKeepsTableInv
<1>5. CASE UNCHANGED vars
  <2>1. BooksInv /\ LinkTypes /\ Phases
    BY InvParts
  <2>2. BooksInv' /\ Phases'
    BY <1>5, <2>1, UnchangedBooks, UnchangedPhases DEF vars, table
  <2>3. LinkTypes'
    BY <1>5, <2>1 DEF vars, LinkTypes
  <2> QED  BY <2>2, <2>3, InvParts, PTL
<1> QED  BY <1>1, <1>2, <1>3, <1>4, <1>5 DEF Next, DeviceTurn

\* The books of the table are in order, and every deadline is where it belongs.
LEMMA TableInvariant == Spec => []TableInv
BY InitTableInv, NextTableInv, PTL DEF Spec

\* No endpoint has two subscriptions for one report, the counter is the number
\* of those in force, and the mark that DIA reports is never below it: for any
\* number of slots, monitors and requests in transit, and any link.
THEOREM TheTableKeepsItsBooks == Spec => []CountersAgree
<1>1. TableInv => CountersAgree
  <2> SUFFICES ASSUME TableInv  PROVE CountersAgree
    OBVIOUS
  <2>1. TypeOK /\ Unique /\ Books
    BY DEF TableInv
  <2>2. ASSUME NEW e \in Endpoint, NEW r \in ReportType
        PROVE  Cardinality(Matching(e, r)) <= 1
    <3>1. \A j, k \in Matching(e, r) : j = k
      BY <2>1 DEF Matching, Matches, Unique
    <3>2. CASE Matching(e, r) = {}
      <4>1. Cardinality({}) = 0
        BY FS_EmptySet
      <4> QED  BY <3>2, <4>1
    <3>3. CASE Matching(e, r) # {}
      <4>1. PICK k : k \in Matching(e, r)
        BY <3>3
      <4>2. Matching(e, r) = {k}
        BY <3>1, <4>1
      <4>3. Cardinality({k}) = 1
        BY FS_Singleton
      <4> QED  BY <4>2, <4>3
    <3> QED  BY <3>2, <3>3
  <2> QED  BY <2>1, <2>2 DEF CountersAgree, Books, Active
<1> QED  BY <1>1, TableInvariant, PTL

\* However late the device is, a deadline stays whole intervals from the moment
\* of the subscription and at most one of them away, and lies ahead once a turn's
\* reports are sent.
THEOREM DeadlinesDoNotDrift == Spec => NoDrift
<1>1. TableInv => \A k \in Slots : subscriptions[k].active => OnItsGrid(subscriptions[k])
  BY DEF TableInv, InPhase, OnItsGrid
<1>2. TableInv /\ [Next]_vars => [turn = "reports" /\ turn' = "poll" => NothingOverdue']_vars
  <2> SUFFICES ASSUME TableInv, Next, turn = "reports", turn' = "poll"  PROVE NothingOverdue'
    OBVIOUS
  <2>1. sendDueReports
    BY DEF Next, DeviceTurn, receiveRequest, pollTimesOut, Tick, Lose, StrangerSends, device,
           Transact, sendAttempt, AckTimeout, receiveOne, unsubscribeAt, Stop
  <2> QED  BY <2>1, ReportsKeepBooks, InvParts
<1> QED  BY <1>1, <1>2, TableInvariant, PTL DEF Spec, NoDrift

--------------------------------------------------------------------------------
(* The table implements SubscriptionSpec: a slot in use is its subscription. *)

Entry(k) == [endpoint |-> subscriptions[k].endpoint, report |-> subscriptions[k].report,
             interval |-> subscriptions[k].interval]

LEMMA InRegistry ==
  ASSUME NEW x
  PROVE  x \in Registry <=> \E k \in Slots : subscriptions[k].active /\ x = Entry(k)
BY Zenon DEF Registry, FreeSlots, Entry

LEMMA RegistryFits ==
  ASSUME NEW k \in FreeSlots
  PROVE  Cardinality(Registry) < MaxSubscriptions
<1> DEFINE f == [j \in Active |-> Entry(j)]
<1>1. f \in Surjection(Active, Registry)
  <2> HIDE DEF Slots
  <2>1. f \in [Active -> Registry]
    BY InRegistry DEF Active
  <2>2. \A x \in Registry : \E j \in Active : f[j] = x
    BY InRegistry DEF Active
  <2> QED  BY <2>1, <2>2 DEF Surjection
<1> HIDE DEF f
<1>2. IsFiniteSet(Active) /\ Cardinality(Active) \in 0..MaxSubscriptions /\ Cardinality(Active) # MaxSubscriptions
  BY ActiveCount DEF FreeSlots, Active
<1>3. IsFiniteSet(Registry) /\ Cardinality(Registry) <= Cardinality(Active)
  BY <1>1, <1>2, FS_Surjection
<1>4. Cardinality(Registry) \in Nat
  BY <1>3, FS_CardinalityType
<1> QED  BY <1>2, <1>3, <1>4, ConstantTypes

NextEntry(k) == [endpoint |-> subscriptions'[k].endpoint, report |-> subscriptions'[k].report,
                 interval |-> subscriptions'[k].interval]

EntryOf(q) == [endpoint |-> q.from, report |-> q.report, interval |-> q.interval]

\* The entry that a slot gets is the subscription the request asks for.
LEMMA SubscriptionStep ==
  ASSUME TableInv, NEW q, NEW k \in Slots, Renews(q, k) \/ Takes(q, k)
  PROVE  Abstract!Subscribe(EntryOf(q)) /\ EntryOf(q) \in Abstract!Subscription
<1> DEFINE old == Abstract!For(q.from, q.report)
<1>1. Requested(q)
  BY DEF Renews, Takes
<1>2. EntryOf(q) \in Abstract!Subscription
  BY <1>1 DEF EntryOf, Requested, Request, Abstract!Subscription
<1>3. subscriptions' = [subscriptions EXCEPT ![k] = Subscribed(q)] /\ subscriptions \in [Slots -> Slot]
  BY DEF Renews, Takes, TableInv, TypeOK
<1>4. \A j \in Slots : j # k => subscriptions'[j] = subscriptions[j]
  BY <1>3
<1>5. subscriptions'[k] = Subscribed(q)
  BY <1>3
<1>6. \A x : x \in old <=> x \in Registry /\ x.endpoint = q.from /\ x.report = q.report
  BY DEF Abstract!For
<1>7. \A j \in Slots : subscriptions[j].active =>
        (Entry(j).endpoint = q.from /\ Entry(j).report = q.report <=> j \in Matching(q.from, q.report))
  BY DEF Entry, Matching, Matches
<1>8. \A j \in Matching(q.from, q.report) : j = k
  BY DEF Renews, Takes, Matching, Matches, TableInv, Unique
<1>9. \A j \in Slots : j = k /\ subscriptions[k].active => j \in Matching(q.from, q.report)
  BY DEF Renews, Takes, FreeSlots
<1>10. Subscribed(q).active
  BY DEF Subscribed
<1>11. ASSUME NEW x  PROVE x \in Registry' <=> x \in (Registry \ old) \cup {EntryOf(q)}
  <2>1. x \in Registry' <=> \E j \in Slots : subscriptions'[j].active /\ x = NextEntry(j)
    BY Zenon DEF Registry, FreeSlots, NextEntry
  <2>2. \A j \in Slots : j # k => NextEntry(j) = Entry(j)
    BY <1>4 DEF NextEntry, Entry
  <2>3. NextEntry(k) = EntryOf(q)
    BY <1>5 DEF NextEntry, Subscribed, EntryOf
  <2>4. subscriptions'[k].active
    BY <1>5 DEF Subscribed
  <2>5. ASSUME x \in Registry'  PROVE x \in (Registry \ old) \cup {EntryOf(q)}
    <3>1. PICK j \in Slots : subscriptions'[j].active /\ x = NextEntry(j)
      BY <2>1, <2>5
    <3>2. CASE j # k
      <4>1. subscriptions[j].active /\ x = Entry(j)
        BY <1>4, <2>2, <3>1, <3>2
      <4> QED  BY <1>6, <1>7, <1>8, <3>2, <4>1, InRegistry
    <3> QED  BY <2>3, <3>1, <3>2
  <2>6. ASSUME x \in Registry, x \notin old  PROVE x \in Registry'
    <3>1. PICK j \in Slots : subscriptions[j].active /\ x = Entry(j)
      BY <2>6, InRegistry
    <3>2. j # k
      BY <1>6, <1>7, <1>9, <2>6, <3>1
    <3> QED  BY <1>4, <2>1, <2>2, <3>1, <3>2
  <2>7. ASSUME x = EntryOf(q)  PROVE x \in Registry'
    BY <2>1, <2>3, <2>4, <2>7
  <2> QED  BY <2>5, <2>6, <2>7
<1>12. Registry' = (Registry \ old) \cup {EntryOf(q)}
  BY <1>11
<1>13. old # {} \/ Cardinality(Registry) < MaxSubscriptions
  <2>1. CASE Renews(q, k)
    <3>1. subscriptions[k].active /\ k \in Matching(q.from, q.report)
      BY <2>1 DEF Renews, Matching, Matches
    <3>2. Entry(k) \in old
      BY <1>6, <1>7, <3>1, InRegistry
    <3> QED  BY <3>2
  <2>2. CASE Takes(q, k)
    BY <2>2, RegistryFits DEF Takes
  <2> QED  BY <2>1, <2>2
<1>14. EntryOf(q).endpoint = q.from /\ EntryOf(q).report = q.report
  BY DEF EntryOf
<1> HIDE DEF old
<1>15. old = Abstract!For(EntryOf(q).endpoint, EntryOf(q).report)
  BY <1>14 DEF old
<1>16. /\ Abstract!For(EntryOf(q).endpoint, EntryOf(q).report) # {}
         \/ Cardinality(Registry) < MaxSubscriptions
      /\ Registry' = (Registry \ Abstract!For(EntryOf(q).endpoint, EntryOf(q).report))
                      \cup {EntryOf(q)}
  BY <1>12, <1>13, <1>15
<1>17. Abstract!Subscribe(EntryOf(q))
  BY <1>16 DEF Abstract!Subscribe, Abstract!Cardinality, Cardinality
<1> QED  BY <1>2, <1>17

\* The entry of a slot that is freed is the one for that endpoint and report.
LEMMA UnsubscriptionStep ==
  ASSUME TableInv, NEW q, NEW k \in Slots, Frees(q, k)
  PROVE  Abstract!Unsubscribe(q.from, q.report) /\ q.from \in Endpoint /\ q.report \in ReportType
<1> DEFINE old == Abstract!For(q.from, q.report)
<1>1. q.from \in Endpoint /\ q.report \in ReportType
  BY DEF Frees, Request
<1>2. subscriptions' = [subscriptions EXCEPT ![k] = Free] /\ subscriptions \in [Slots -> Slot]
  BY DEF Frees, TableInv, TypeOK
<1>3. /\ \A j \in Slots : j # k => subscriptions'[j] = subscriptions[j]
      /\ ~subscriptions'[k].active
  BY <1>2 DEF Free
<1>4. \A x : x \in old <=> x \in Registry /\ x.endpoint = q.from /\ x.report = q.report
  BY DEF Abstract!For
<1>5. \A j \in Slots : subscriptions[j].active =>
        (Entry(j).endpoint = q.from /\ Entry(j).report = q.report <=> j = k)
  BY DEF Entry, Frees, Matching, Matches, TableInv, Unique
<1>6. ASSUME NEW x  PROVE x \in Registry' <=> x \in Registry \ old
  <2>1. x \in Registry' <=> \E j \in Slots : subscriptions'[j].active /\ x = NextEntry(j)
    BY Zenon DEF Registry, FreeSlots, NextEntry
  <2>2. \A j \in Slots : j # k => NextEntry(j) = Entry(j)
    BY <1>3 DEF NextEntry, Entry
  <2>3. ASSUME x \in Registry'  PROVE x \in Registry \ old
    <3>1. PICK j \in Slots : subscriptions'[j].active /\ x = NextEntry(j) /\ j # k
      BY <1>3, <2>1, <2>3
    <3> QED  BY <1>3, <1>4, <1>5, <2>2, <3>1, InRegistry
  <2>4. ASSUME x \in Registry, x \notin old  PROVE x \in Registry'
    <3>1. PICK j \in Slots : subscriptions[j].active /\ x = Entry(j)
      BY <2>4, InRegistry
    <3>2. j # k
      BY <1>4, <1>5, <2>4, <3>1
    <3> QED  BY <1>3, <2>1, <2>2, <3>1, <3>2
  <2> QED  BY <2>3, <2>4
<1>7. Registry' = Registry \ old
  BY <1>6
<1> QED  BY <1>1, <1>7 DEF Abstract!Unsubscribe

LEMMA SameRegistry ==
  ASSUME SameSubscriptions
  PROVE  Registry' = Registry
<1>1. ASSUME NEW x  PROVE x \in Registry' <=> x \in Registry
  <2>1. x \in Registry' <=> \E j \in Slots : subscriptions'[j].active /\ x = NextEntry(j)
    BY Zenon DEF Registry, FreeSlots, NextEntry
  <2>2. \A j \in Slots : subscriptions[j].active => NextEntry(j) = Entry(j)
    BY DEF SameSubscriptions, NextEntry, Entry
  <2> QED  BY <2>1, <2>2, InRegistry DEF SameSubscriptions
<1> QED  BY <1>1

\* What may change the table.
LEMMA TableMoves ==
  ASSUME [Next]_vars
  PROVE  UNCHANGED table \/ sendDueReports \/ Tick \/ receiveRequest
BY DEF Next, DeviceTurn, pollTimesOut, Lose, StrangerSends, Transact, sendAttempt, AckTimeout,
       receiveOne, unsubscribeAt, Stop, device, vars, table

\* The table of the Weather Device, with its slots, counters and deadlines, is a
\* registry that keeps at most one subscription for each endpoint and report,
\* at most as many as it has slots, and changes one only by a request for it.
THEOREM TheTableIsARegistry == Spec => IsARegistry
<1>1. Init => Abstract!Init
  <2> SUFFICES ASSUME Init  PROVE Registry = {}
    BY DEF Abstract!Init
  <2>1. \A k \in Slots : ~subscriptions[k].active
    BY DEF Init, Free
  <2> QED  BY <2>1, InRegistry
<1>2. TableInv /\ [Next]_vars => [Abstract!Next]_Registry
  <2> SUFFICES ASSUME TableInv, [Next]_vars  PROVE Abstract!Next \/ UNCHANGED Registry
    OBVIOUS
  <2>1. CASE UNCHANGED table
    BY <2>1 DEF table, Registry, FreeSlots
  <2>2. CASE sendDueReports \/ Tick
    BY <2>2, ReportsKeepBooks, TickKeepsBooks, SameRegistry, InvParts
  <2>3. CASE receiveRequest /\ ~UNCHANGED table
    <3>1. PICK q \in Request : processSubscribe(q) \/ processUnsubscribe(q)
      BY <2>3, TurnsRequest, InvParts
    <3>2. PICK k \in Slots : Renews(q, k) \/ Takes(q, k) \/ Frees(q, k)
      BY <2>3, <3>1, RequestOnTable
    <3>3. CASE Renews(q, k) \/ Takes(q, k)
      BY <3>3, SubscriptionStep DEF Abstract!Next
    <3>4. CASE Frees(q, k)
      BY <3>4, UnsubscriptionStep DEF Abstract!Next
    <3> QED  BY <3>2, <3>3, <3>4
  <2> QED  BY <2>1, <2>2, <2>3, TableMoves
<1> QED  BY <1>1, <1>2, TableInvariant, PTL DEF Spec, IsARegistry, Abstract!Spec

--------------------------------------------------------------------------------
(* What is on its way: requests are the demonstration's, and not ahead of the *)
(* process that sent them; nor is an acknowledgement.                         *)

RequestOK(q) ==
    q.from \in Monitors =>
      /\ q.txn \in 1..Unsubscribing /\ q.txn <= monitor[q.from].step
      /\ q = RequestAt(q.from, q.txn)

AckOK(m, a) == a.kind = "WXACK" => a.txn <= monitor[m].step

RequestsOK == \A q \in ToSet(toDevice) : RequestOK(q)
AcksOK == \A m \in Monitors : \A a \in ToSet(toMonitor[m]) : AckOK(m, a)

LinkInv == RequestsOK /\ AcksOK

\* m has subscribed to everything and has not asked for the end of anything.
Content(m) == monitor[m].step = Unsubscribing /\ monitor[m].phase = "receiving"

\* A request to unsubscribe is on its way only when it has been asked for.
AskedInv ==
    \A q \in ToSet(toDevice) :
      q.from \in Monitors /\ q.txn = Unsubscribing => ~Content(q.from)

\* Processes go on from step to step.
StepsGrow == \A m \in Monitors : monitor'[m].step \in {monitor[m].step, monitor[m].step + 1}

\* The members of a socket, before and after.
LEMMA Members ==
  ASSUME NEW S, NEW s \in Seq(S)
  PROVE  /\ ToSet(s) \subseteq S
         /\ \A x : x \in ToSet(s) <=> \E i \in 1..Len(s) : x = s[i]
         /\ \A i \in 1..Len(s) : ToSet(RemoveAt(s, i)) \subseteq ToSet(s)
         /\ \A d \in Seq(S) : ToSet(Delivered(s, d)) \subseteq ToSet(s) \cup ToSet(d)
         /\ \A x \in S : ToSet(<<x>>) = {x}
<1>1. ASSUME NEW t \in Seq(S)
      PROVE  ToSet(t) \subseteq S /\ \A x : x \in ToSet(t) <=> \E i \in 1..Len(t) : x = t[i]
  BY DEF ToSet
<1>2. ASSUME NEW i \in 1..Len(s)  PROVE ToSet(RemoveAt(s, i)) \subseteq ToSet(s)
  <2>1. RemoveAt(s, i) \in Seq(S)
    BY Removed
  <2> SUFFICES ASSUME NEW x \in ToSet(RemoveAt(s, i))  PROVE x \in ToSet(s)
    OBVIOUS
  <2>2. PICK j \in 1..Len(RemoveAt(s, i)) : x = RemoveAt(s, i)[j]
    BY <1>1, <2>1
  <2>3. Place(i, j) \in 1..Len(s) /\ x = s[Place(i, j)]
    BY <2>2, Removed
  <2> QED  BY <1>1, <2>3
<1>3. ASSUME NEW d \in Seq(S)  PROVE ToSet(Delivered(s, d)) \subseteq ToSet(s) \cup ToSet(d)
  <2> DEFINE t == Delivered(s, d)
  <2>1. /\ t \in Seq(S) /\ Len(t) \in Nat
        /\ \A j \in 1..Len(t) :
             IF j <= Len(s) THEN t[j] = s[j] ELSE j - Len(s) \in 1..Len(d) /\ t[j] = d[j - Len(s)]
    BY DeliveredBehind
  <2> HIDE DEF t
  <2> SUFFICES ASSUME NEW x \in ToSet(t)  PROVE x \in ToSet(s) \/ x \in ToSet(d)
    BY DEF t
  <2>2. PICK j \in 1..Len(t) : x = t[j]
    BY <1>1, <2>1
  <2>3. CASE j <= Len(s)
    BY <1>1, <2>1, <2>2, <2>3
  <2>4. CASE ~(j <= Len(s))
    BY <1>1, <2>1, <2>2, <2>4
  <2> QED  BY <2>3, <2>4
<1>4. ASSUME NEW x \in S  PROVE ToSet(<<x>>) = {x}
  BY DEF ToSet
<1> QED  BY <1>1, <1>2, <1>3, <1>4

LEMMA RequestStaysOK ==
  ASSUME LinkTypes, StepsGrow, NEW q, RequestOK(q)
  PROVE  RequestOK(q)'
<1>1. SUFFICES ASSUME q.from \in Monitors
               PROVE  q.txn \in 1..Unsubscribing /\ q.txn <= monitor'[q.from].step
                      /\ q = RequestAt(q.from, q.txn)
  BY DEF RequestOK, RequestAt, Unsubscribing
<1>2. monitor[q.from] \in Process
  BY <1>1 DEF LinkTypes
<1>3. monitor[q.from].step \in Nat /\ monitor'[q.from].step \in Nat
      /\ monitor'[q.from].step >= monitor[q.from].step
  BY <1>1, <1>2, DemoItems DEF StepsGrow, Process
<1> QED  BY <1>1, <1>3, DemoItems DEF RequestOK, Unsubscribing

LEMMA AckStaysOK ==
  ASSUME LinkTypes, StepsGrow, NEW m \in Monitors, NEW a \in Message, AckOK(m, a)
  PROVE  AckOK(m, a)'
<1>1. monitor[m] \in Process
  BY DEF LinkTypes
<1>2. monitor[m].step \in Nat /\ monitor'[m].step >= monitor[m].step /\ monitor'[m].step \in Nat
  BY <1>1, DemoItems DEF StepsGrow, Process
<1>3. a.kind = "WXACK" => a.txn \in Nat
  BY DEF Message
<1> QED  BY <1>2, <1>3 DEF AckOK

\* Nothing but what was there, or is as it should be.
LEMMA LinkInvFrom ==
  ASSUME LinkTypes, LinkInv, StepsGrow,
         \A q \in ToSet(toDevice') : q \in ToSet(toDevice) \/ RequestOK(q)',
         \A m \in Monitors : \A a \in ToSet(toMonitor'[m]) : a \in ToSet(toMonitor[m]) \/ AckOK(m, a)'
  PROVE  LinkInv'
<1>1. ASSUME NEW q \in ToSet(toDevice')  PROVE RequestOK(q)'
  BY RequestStaysOK DEF LinkInv, RequestsOK
<1>2. ASSUME NEW m \in Monitors, NEW a \in ToSet(toMonitor'[m])
      PROVE  AckOK(m, a)'
  <2>1. CASE a \in ToSet(toMonitor[m])
    <3>1. a \in Message
      <4> HIDE DEF Message
      <4>1. toMonitor[m] \in Seq(Message)
        BY DEF LinkTypes
      <4> QED  BY <2>1, <4>1, Members
    <3> QED  BY <2>1, <3>1, AckStaysOK DEF LinkInv, AcksOK
  <2> QED  BY <2>1
<1> QED  BY <1>1, <1>2 DEF LinkInv, RequestsOK, AcksOK

\* What a step may do to the sockets.  A datagram is taken out; or there arrives
\* a stranger's request, or the one of a process's transaction, or reports, or
\* the answer to the turn's request; or the port is closed.
Sent(q) ==
    \/ q.from = Stranger
    \/ \E m \in Monitors : /\ monitor[m].step \in 1..Unsubscribing
                           /\ monitor[m].phase = "sending"
                           /\ q = RequestAt(m, monitor[m].step)

MovedDevice ==
    \/ toDevice' = toDevice
    \/ \E i \in 1..Len(toDevice) : toDevice' = RemoveAt(toDevice, i)
    \/ \E q \in Request : Sent(q) /\ toDevice' = Delivered(toDevice, <<q>>)

Answered(m, a) ==
    \E i \in Arriving(toDevice), q \in Request, result \in Result :
      /\ i \in 1..Len(toDevice) /\ q = toDevice[i] /\ toDevice' = RemoveAt(toDevice, i)
      /\ q.from = m /\ a = Ack(q, result)
      /\ \/ q.kind = "WXSUB" /\ processSubscribe(q)
            /\ (result = "OK" => \E k \in Slots : Renews(q, k) \/ Takes(q, k))
         \/ q.kind = "WXUSB" /\ processUnsubscribe(q)

IsReportTo(m, a) ==
    \E k \in Slots : /\ subscriptions[k].active /\ subscriptions[k].endpoint = m
                     /\ a = ReportOf(subscriptions[k].report)

MovedMonitor(m) ==
    \/ toMonitor'[m] = toMonitor[m]
    \/ toMonitor'[m] = <<>>
    \/ \E i \in 1..Len(toMonitor[m]) : toMonitor'[m] = RemoveAt(toMonitor[m], i)
    \/ \E b \in Seq(Message) : /\ \A i \in 1..Len(b) : IsReportTo(m, b[i])
                               /\ toMonitor'[m] = Delivered(toMonitor[m], b)
    \/ \E a \in Message : Answered(m, a) /\ toMonitor'[m] = Delivered(toMonitor[m], <<a>>)

SocketsMove == MovedDevice /\ \A m \in Monitors : MovedMonitor(m)

LEMMA ReceiveMoves ==
  ASSUME LinkTypes, receiveRequest
  PROVE  SocketsMove
<1>1. PICK i \in Arriving(toDevice), q \in Request :
        /\ i \in 1..Len(toDevice) /\ q = toDevice[i]
        /\ toDevice' = RemoveAt(toDevice, i)
        /\ \/ q.kind = "WXSUB" /\ processSubscribe(q)
           \/ q.kind = "WXUSB" /\ processUnsubscribe(q)
           \/ UNCHANGED <<table, toMonitor>>
  BY TurnsRequest
<1>2. toMonitor \in [Monitors -> Seq(Message)] /\ MovedDevice
  BY <1>1 DEF LinkTypes, MovedDevice
<1>3. CASE UNCHANGED <<table, toMonitor>>
  BY <1>2, <1>3 DEF SocketsMove, MovedMonitor
<1>4. CASE (q.kind = "WXSUB" /\ processSubscribe(q)) \/ (q.kind = "WXUSB" /\ processUnsubscribe(q))
  <2>1. PICK result \in Result :
           /\ <<Ack(q, result)>> \in Seq(Message)
           /\ toMonitor' = ToEndpoint(q.from, <<Ack(q, result)>>)
           /\ processSubscribe(q) /\ result = "OK" => \E k \in Slots : Renews(q, k) \/ Takes(q, k)
    BY <1>4, Answers
  <2>2. PICK a : a = Ack(q, result)
    OBVIOUS
  <2>3. a \in Message
    BY <1>1, <2>2 DEF Ack, Message, Request
  <2>4. ASSUME NEW m \in Monitors  PROVE MovedMonitor(m)
    <3>1. toMonitor'[m] = IF m = q.from /\ monitor[m].phase # "exited"
                            THEN Delivered(toMonitor[m], <<a>>) ELSE toMonitor[m]
      BY <1>2, <2>1, <2>2, SentTo
    <3>2. m = q.from => Answered(m, a)
      BY <1>1, <1>4, <2>1, <2>2 DEF Answered
    <3> QED  BY <2>3, <3>1, <3>2 DEF MovedMonitor
  <2> QED  BY <1>2, <2>4 DEF SocketsMove
<1> QED  BY <1>1, <1>3, <1>4

LEMMA ReportsMove ==
  ASSUME TypeOK, sendDueReports
  PROVE  SocketsMove
<1>1. MovedDevice
  BY DEF sendDueReports, MovedDevice
<1>2. ASSUME NEW m \in Monitors  PROVE MovedMonitor(m)
  <2>1. PICK b \in ReportsTo(m) :
          /\ b \in Seq(Message)
          /\ toMonitor'[m] = IF monitor[m].phase # "exited"
                               THEN Delivered(toMonitor[m], b) ELSE toMonitor[m]
    BY TurnsReports
  <2>2. \A i \in 1..Len(b) : IsReportTo(m, b[i])
    BY ReportsAreDue DEF IsReportTo
  <2> QED  BY <2>1, <2>2 DEF MovedMonitor
<1> QED  BY <1>1, <1>2 DEF SocketsMove

LEMMA LinkMoves ==
  ASSUME LinkTypes, Lose \/ StrangerSends
  PROVE  SocketsMove
<1>1. toDevice \in Seq(Request) /\ toMonitor \in [Monitors -> Seq(Message)]
  BY DEF LinkTypes
<1>2. CASE \E i \in DOMAIN toDevice : toDevice' = RemoveAt(toDevice, i) /\ UNCHANGED toMonitor
  BY <1>1, <1>2 DEF SocketsMove, MovedDevice, MovedMonitor
<1>3. ASSUME NEW m \in Monitors, NEW i \in DOMAIN toMonitor[m],
             toMonitor' = [toMonitor EXCEPT ![m] = RemoveAt(@, i)], UNCHANGED toDevice
      PROVE  SocketsMove
  <2> HIDE DEF Message
  <2>1. toMonitor[m] \in Seq(Message) /\ i \in 1..Len(toMonitor[m])
    BY <1>1, <1>3
  <2>2. toMonitor'[m] = RemoveAt(toMonitor[m], i) /\ \A n \in Monitors \ {m} : toMonitor'[n] = toMonitor[n]
    BY <1>1, <1>3
  <2> QED  BY <1>3, <2>1, <2>2 DEF SocketsMove, MovedDevice, MovedMonitor
<1>4. CASE StrangerSends
  <2>1. PICK r \in StrangerRequests : toDevice' = Delivered(toDevice, <<r>>)
    BY <1>4 DEF StrangerSends
  <2>2. r \in Request /\ r.from = Stranger
    BY StrangerAssumption, ConstantTypes DEF Request, Endpoint
  <2>3. MovedDevice
    BY <2>1, <2>2 DEF MovedDevice, Sent
  <2> QED  BY <1>4, <2>3 DEF SocketsMove, MovedMonitor, StrangerSends
<1> QED  BY <1>2, <1>3, <1>4 DEF Lose

\* What a step of a process does to the sockets and to its place in the demonstration.
LEMMA MonitorMoves ==
  ASSUME TableInv, NEW m \in Monitors,
         Transact(m) \/ receiveOne(m) \/ unsubscribeAt(m) \/ Stop(m)
  PROVE  SocketsMove /\ StepsGrow
<1>1. LinkTypes /\ Phases
  BY InvParts
<1>2. toDevice \in Seq(Request) /\ toMonitor \in [Monitors -> Seq(Message)]
      /\ monitor \in [Monitors -> Process] /\ monitor[m] \in Process
  BY <1>1 DEF LinkTypes
<1>3. ASSUME NEW y, Becomes(m, y), y.step \in {monitor[m].step, monitor[m].step + 1}
      PROVE  StepsGrow
  BY <1>2, <1>3 DEF Becomes, StepsGrow
<1>4. ASSUME NEW s, Becomes(m, [monitor[m] EXCEPT !.phase = s])
      PROVE  StepsGrow
  <2>1. PICK y : y = [monitor[m] EXCEPT !.phase = s]
    OBVIOUS
  <2>2. y.step = monitor[m].step
    BY <1>2, <2>1 DEF Process
  <2> QED  BY <1>3, <1>4, <2>1, <2>2
<1>5. toMonitor' = toMonitor => \A n \in Monitors : MovedMonitor(n)
  BY DEF MovedMonitor
<1>6. CASE sendAttempt(m)
  <2>1. monitor[m].phase = "sending" /\ toMonitor' = toMonitor
    BY <1>6 DEF sendAttempt
  <2>2. CASE toDevice' = Delivered(toDevice, <<RequestOf(m)>>)
             /\ Becomes(m, [monitor[m] EXCEPT !.phase = "waiting"])
    <3>1. PICK q : q = RequestOf(m)
      OBVIOUS
    <3>2. q = RequestAt(m, monitor[m].step) /\ monitor[m].step \in 1..Unsubscribing /\ q \in Request
      BY <1>1, <2>1, <3>1, RequestOfIsThat, DemoRequests
    <3>3. MovedDevice
      BY <2>1, <2>2, <3>1, <3>2 DEF MovedDevice, Sent
    <3> QED  BY <1>4, <1>5, <2>1, <2>2, <3>3 DEF SocketsMove
  <2>3. CASE UNCHANGED toDevice /\ Becomes(m, NextAttempt(monitor[m]))
    BY <1>2, <1>3, <1>5, <2>1, <2>3, NextAttemptKeeps DEF SocketsMove, MovedDevice
  <2> QED  BY <1>6, <2>2, <2>3 DEF sendAttempt
<1>7. CASE AckTimeout(m)
  <2>1. UNCHANGED <<toDevice, toMonitor>> /\ Becomes(m, NextAttempt(monitor[m]))
    BY <1>7 DEF AckTimeout
  <2> QED  BY <1>2, <1>3, <1>5, <2>1, NextAttemptKeeps DEF SocketsMove, MovedDevice
<1>8. CASE receiveOne(m)
  <2>1. PICK i \in 1..Len(toMonitor[m]), y \in Process :
           /\ toMonitor' = [toMonitor EXCEPT ![m] = RemoveAt(toMonitor[m], i)]
           /\ Becomes(m, y) /\ y.step \in {monitor[m].step, monitor[m].step + 1}
    BY <1>1, <1>8, ReceivedMessage
  <2>2. toMonitor'[m] = RemoveAt(toMonitor[m], i)
        /\ \A n \in Monitors \ {m} : toMonitor'[n] = toMonitor[n]
    <3> HIDE DEF Message
    <3> QED  BY <1>2, <2>1
  <2>3. \A n \in Monitors : MovedMonitor(n)
    BY <2>2 DEF MovedMonitor
  <2> QED  BY <1>3, <1>8, <2>1, <2>3 DEF SocketsMove, MovedDevice, receiveOne
<1>9. CASE unsubscribeAt(m)
  BY <1>4, <1>5, <1>9 DEF unsubscribeAt, SocketsMove, MovedDevice
<1>10. CASE Stop(m)
  <2>1. toMonitor' = [toMonitor EXCEPT ![m] = <<>>] /\ toDevice' = toDevice
    BY <1>10 DEF Stop
  <2>2. toMonitor'[m] = <<>> /\ \A n \in Monitors \ {m} : toMonitor'[n] = toMonitor[n]
    <3> HIDE DEF Message
    <3> QED  BY <1>2, <2>1
  <2>3. \A n \in Monitors : MovedMonitor(n)
    BY <2>2 DEF MovedMonitor
  <2> QED  BY <1>4, <1>10, <2>1, <2>3 DEF SocketsMove, MovedDevice, Stop
<1> QED  BY <1>6, <1>7, <1>8, <1>9, <1>10 DEF Transact

LEMMA NextMoves ==
  ASSUME TableInv, [Next]_vars
  PROVE  SocketsMove /\ StepsGrow
<1>1. LinkTypes /\ TypeOK
  BY InvParts DEF TableInv
<1>2. UNCHANGED monitor => StepsGrow
  BY DEF StepsGrow
<1>3. CASE receiveRequest
  BY <1>1, <1>2, <1>3, ReceiveMoves DEF receiveRequest
<1>4. CASE sendDueReports
  BY <1>1, <1>2, <1>4, ReportsMove DEF sendDueReports
<1>5. CASE Lose \/ StrangerSends
  BY <1>1, <1>2, <1>5, LinkMoves DEF Lose, StrangerSends
<1>6. CASE \E m \in Monitors : Transact(m) \/ receiveOne(m) \/ unsubscribeAt(m) \/ Stop(m)
  BY <1>6, MonitorMoves
<1>7. CASE pollTimesOut \/ Tick \/ UNCHANGED vars
  BY <1>2, <1>7 DEF pollTimesOut, Tick, vars, SocketsMove, MovedDevice, MovedMonitor
<1> QED  BY <1>3, <1>4, <1>5, <1>6, <1>7 DEF Next, DeviceTurn

\* So nothing else is ever found in them.
LEMMA NothingElse ==
  ASSUME LinkTypes, SocketsMove
  PROVE  /\ \A q \in ToSet(toDevice') : q \in ToSet(toDevice) \/ Sent(q)
         /\ \A m \in Monitors : \A a \in ToSet(toMonitor'[m]) :
              \/ a \in ToSet(toMonitor[m])
              \/ a.kind = "Report" /\ IsReportTo(m, a)
              \/ Answered(m, a)
<1>1. toDevice \in Seq(Request) /\ toMonitor \in [Monitors -> Seq(Message)]
  BY DEF LinkTypes
<1>2. ASSUME NEW x \in ToSet(toDevice'), x \notin ToSet(toDevice)  PROVE Sent(x)
  <2> HIDE DEF Request
  <2>1. PICK q \in Request : Sent(q) /\ toDevice' = Delivered(toDevice, <<q>>)
    BY <1>1, <1>2, Members DEF SocketsMove, MovedDevice
  <2>2. <<q>> \in Seq(Request) /\ ToSet(<<q>>) = {q}
    BY <1>1, Members
  <2>3. x = q
    <3>1. PICK d : d = <<q>>
      OBVIOUS
    <3>2. d \in Seq(Request) /\ ToSet(d) = {q} /\ toDevice' = Delivered(toDevice, d)
      BY <2>1, <2>2, <3>1
    <3>3. ToSet(toDevice') \subseteq ToSet(toDevice) \cup ToSet(d)
      BY <1>1, <3>2, Members
    <3> QED  BY <1>2, <3>2, <3>3
  <2> QED  BY <2>1, <2>3
<1>3. ASSUME NEW m \in Monitors, NEW x \in ToSet(toMonitor'[m]), x \notin ToSet(toMonitor[m])
      PROVE  (x.kind = "Report" /\ IsReportTo(m, x)) \/ Answered(m, x)
  <2> HIDE DEF Message
  <2>1. toMonitor[m] \in Seq(Message)
    BY <1>1
  <2>2. ToSet(<<>>) = {}
    BY DEF ToSet
  <2>3. MovedMonitor(m)
    BY DEF SocketsMove
  <2>4. CASE \E b \in Seq(Message) : /\ \A i \in 1..Len(b) : IsReportTo(m, b[i])
                                     /\ toMonitor'[m] = Delivered(toMonitor[m], b)
    <3>1. PICK b \in Seq(Message) : /\ \A i \in 1..Len(b) : IsReportTo(m, b[i])
                                    /\ toMonitor'[m] = Delivered(toMonitor[m], b)
      BY <2>4
    <3>2. x \in ToSet(b)
      BY <1>3, <2>1, <3>1, Members
    <3>3. PICK i \in 1..Len(b) : x = b[i]
      BY <3>1, <3>2, Members
    <3>4. IsReportTo(m, x)
      BY <3>1, <3>3
    <3> QED  BY <3>4 DEF IsReportTo, ReportOf
  <2>5. CASE \E a \in Message : Answered(m, a) /\ toMonitor'[m] = Delivered(toMonitor[m], <<a>>)
    <3>1. PICK a \in Message : Answered(m, a) /\ toMonitor'[m] = Delivered(toMonitor[m], <<a>>)
      BY <2>5
    <3>2. <<a>> \in Seq(Message) /\ ToSet(<<a>>) = {a}
      BY <2>1, Members
    <3>3. ToSet(toMonitor'[m]) \subseteq ToSet(toMonitor[m]) \cup ToSet(<<a>>)
      <4>1. PICK s \in Seq(Message), d \in Seq(Message) : s = toMonitor[m] /\ d = <<a>>
        BY <2>1, <3>2
      <4>2. \A e \in Seq(Message) : ToSet(Delivered(s, e)) \subseteq ToSet(s) \cup ToSet(e)
        BY <4>1, Members
      <4>3. ToSet(Delivered(s, d)) \subseteq ToSet(s) \cup ToSet(d)
        BY <4>1, <4>2
      <4> QED  BY <3>1, <4>1, <4>3
    <3>4. x = a
      BY <1>3, <3>2, <3>3
    <3> QED  BY <3>1, <3>4
  <2> QED  BY <1>3, <2>1, <2>2, <2>3, <2>4, <2>5, Members DEF MovedMonitor
<1> QED  BY <1>2, <1>3

\* An answer is to a request there was.
LEMMA AnsweredRequest ==
  ASSUME LinkTypes, NEW m \in Monitors, NEW a, Answered(m, a)
  PROVE  \E q \in ToSet(toDevice), result \in Result :
           /\ q \in Request /\ q.from = m /\ a = Ack(q, result)
           /\ \/ q.kind = "WXSUB" /\ processSubscribe(q)
                 /\ (result = "OK" => \E k \in Slots : Renews(q, k) \/ Takes(q, k))
              \/ q.kind = "WXUSB" /\ processUnsubscribe(q)
<1>1. toDevice \in Seq(Request)
  BY DEF LinkTypes
<1>2. \A i \in 1..Len(toDevice) : toDevice[i] \in ToSet(toDevice)
  BY <1>1, Members
<1> QED  BY <1>2, Zenon DEF Answered

LEMMA NextLinkInv ==
  ASSUME TableInv, LinkInv, [Next]_vars
  PROVE  LinkInv'
<1>1. LinkTypes /\ SocketsMove /\ StepsGrow
  BY NextMoves, InvParts
<1>2. \A m \in Monitors : monitor[m].step \in Nat /\ monitor'[m].step \in Nat
                          /\ monitor'[m].step >= monitor[m].step
  <2>1. \A m \in Monitors : monitor[m] \in Process
    BY <1>1 DEF LinkTypes
  <2>2. \A m \in Monitors : monitor[m].step \in Nat
    BY <2>1, DemoItems DEF Process
  <2> QED  BY <1>1, <2>2 DEF StepsGrow
<1>3. ASSUME NEW q \in ToSet(toDevice')  PROVE q \in ToSet(toDevice) \/ RequestOK(q)'
  <2>1. CASE q.from = Stranger
    BY <2>1, NamesAssumption DEF RequestOK
  <2>2. CASE \E m \in Monitors : monitor[m].step \in 1..Unsubscribing /\ q = RequestAt(m, monitor[m].step)
    <3>1. PICK m \in Monitors : monitor[m].step \in 1..Unsubscribing /\ q = RequestAt(m, monitor[m].step)
      BY <2>2
    <3>2. PICK t \in 1..Unsubscribing : t = monitor[m].step
      BY <3>1
    <3>3. q.from = m /\ q.txn = t /\ q = RequestAt(q.from, q.txn)
      BY <3>1, <3>2, DemoRequests
    <3>4. q.txn <= monitor'[q.from].step
      BY <1>2, <3>2, <3>3
    <3> QED  BY <3>2, <3>3, <3>4 DEF RequestOK, RequestAt, Unsubscribing
  <2> QED  BY <1>1, <2>1, <2>2, NothingElse DEF Sent
<1>4. ASSUME NEW m \in Monitors, NEW a \in ToSet(toMonitor'[m])
      PROVE  a \in ToSet(toMonitor[m]) \/ AckOK(m, a)'
  <2>1. CASE a.kind = "Report"
    BY <2>1 DEF AckOK
  <2>2. CASE Answered(m, a)
    <3>1. PICK q \in ToSet(toDevice), result \in Result : q.from = m /\ a = Ack(q, result)
      BY <1>1, <2>2, AnsweredRequest
    <3>2. q.txn <= monitor[m].step /\ q.txn \in Nat
      BY <3>1, DemoItems DEF LinkInv, RequestsOK, RequestOK, Unsubscribing
    <3> QED  BY <1>2, <3>1, <3>2 DEF AckOK, Ack
  <2> QED  BY <1>1, <2>1, <2>2, NothingElse
<1> QED  BY <1>1, <1>3, <1>4, LinkInvFrom

LEMMA InitLinkInv == Init => LinkInv
BY DEF Init, LinkInv, RequestsOK, AcksOK, ToSet

LEMMA LinkInvariant == Spec => []LinkInv
<1>1. TableInv /\ LinkInv /\ [Next]_vars => LinkInv'
  BY NextLinkInv
<1> QED  BY <1>1, InitLinkInv, TableInvariant, PTL DEF Spec

\* The request that changes it.
LEMMA RequestThatChanges ==
  ASSUME LinkTypes, receiveRequest, ~UNCHANGED table
  PROVE  \E q \in ToSet(toDevice) :
           /\ q \in Request
           /\ \/ /\ q.kind = "WXSUB" /\ processSubscribe(q)
                 /\ \E k \in Slots : Renews(q, k) \/ Takes(q, k)
              \/ q.kind = "WXUSB" /\ \E k \in Slots : Frees(q, k)
<1>1. PICK i \in 1..Len(toDevice), q \in Request :
        /\ q = toDevice[i]
        /\ \/ q.kind = "WXSUB" /\ processSubscribe(q)
           \/ q.kind = "WXUSB" /\ processUnsubscribe(q)
  BY TurnsRequest
<1>2. toDevice \in Seq(Request)
  BY DEF LinkTypes
<1>3. q \in ToSet(toDevice)
  <2> HIDE DEF Request
  <2> QED  BY <1>1, <1>2, Members
<1>4. processSubscribe(q) => \E k \in Slots : Renews(q, k) \/ Takes(q, k)
  BY SubscribeOnTable
<1>5. processUnsubscribe(q) => \E k \in Slots : Frees(q, k)
  BY UnsubscribeOnTable
<1> QED  BY <1>1, <1>3, <1>4, <1>5

\* A process goes on only by the acknowledgement it waits for.
LEMMA StepsAreEarned ==
  ASSUME TableInv, [Next]_vars, NEW m \in Monitors, monitor'[m].step # monitor[m].step
  PROVE  receiveOne(m)
<1>1. LinkTypes
  BY InvParts
<1>2. monitor \in [Monitors -> Process]
  BY <1>1 DEF LinkTypes
<1>3. ASSUME NEW n \in Monitors, NEW y, Becomes(n, y)
      PROVE  n = m /\ y.step # monitor[m].step
  BY <1>2, <1>3 DEF Becomes
<1>4. PICK n \in Monitors : Transact(n) \/ receiveOne(n) \/ unsubscribeAt(n) \/ Stop(n)
  BY DEF Next, DeviceTurn, receiveRequest, pollTimesOut, sendDueReports, Tick, Lose, StrangerSends, vars
<1>5. \A s : [monitor[n] EXCEPT !.phase = s].step = monitor[n].step
  BY <1>2 DEF Process
<1>6. monitor[n] \in Process /\ NextAttempt(monitor[n]).step = monitor[n].step
  BY <1>2, NextAttemptKeeps
<1>7. ~unsubscribeAt(n) /\ ~Stop(n)
  BY <1>3, <1>5 DEF unsubscribeAt, Stop
<1>8. ~Transact(n)
  BY <1>3, <1>5, <1>6 DEF Transact, sendAttempt, AckTimeout
<1>9. receiveOne(n) => n = m
  BY <1>3, <1>1, ReceivedMessage, InvParts
<1> QED  BY <1>4, <1>7, <1>8, <1>9

\* It comes to this when the last subscription is confirmed.
LEMMA ContentBegins ==
  ASSUME TableInv, [Next]_vars, NEW m \in Monitors, Content(m)'
  PROVE  Content(m) \/ monitor[m].step < Unsubscribing
<1>1. LinkTypes /\ StepsGrow
  BY NextMoves, InvParts
<1>2. monitor \in [Monitors -> Process]
  BY <1>1 DEF LinkTypes
<1>3. monitor'[m].step = Unsubscribing /\ monitor'[m].phase = "receiving"
      /\ monitor[m].step \in Nat /\ monitor'[m].step \in {monitor[m].step, monitor[m].step + 1}
      /\ Unsubscribing \in Nat
  BY <1>1, <1>2, DemoItems DEF Content, Unsubscribing, StepsGrow, Process
<1>4. CASE monitor'[m].step # monitor[m].step
  BY <1>3, <1>4
<1>5. CASE monitor'[m].step = monitor[m].step /\ monitor'[m] # monitor[m]
  <2>1. ASSUME NEW n \in Monitors, NEW y, Becomes(n, y)
        PROVE  n = m /\ y.phase = "receiving" /\ y.step = monitor[m].step /\ y # monitor[m]
    BY <1>2, <1>3, <1>5, <2>1 DEF Becomes
  <2>2. PICK n \in Monitors : Transact(n) \/ receiveOne(n) \/ unsubscribeAt(n) \/ Stop(n)
    BY <1>5 DEF Next, DeviceTurn, receiveRequest, pollTimesOut, sendDueReports, Tick, Lose, StrangerSends, vars
  <2>3. \A s : [monitor[n] EXCEPT !.phase = s].phase = s
    BY <1>2 DEF Process
  <2>4. NextAttempt(monitor[n]).phase \in {"sending", "exited"}
    BY <1>2, NextAttemptKeeps
  <2>5. ~Transact(n) /\ ~unsubscribeAt(n) /\ ~Stop(n)
    BY <2>1, <2>3, <2>4 DEF Transact, sendAttempt, AckTimeout, unsubscribeAt, Stop
  <2>6. ASSUME receiveOne(n)  PROVE FALSE
    <3>1. PICK i \in Arriving(toMonitor[n]) :
            Becomes(n, IF ~IsAckFor(toMonitor[n][i], monitor[n]) THEN monitor[n]
                       ELSE IF toMonitor[n][i].result = "OK" THEN Confirmed(monitor[n])
                       ELSE [monitor[n] EXCEPT !.phase = "exited"])
      BY <2>6 DEF receiveOne
    <3>2. Confirmed(monitor[n]).step = monitor[n].step + 1 /\ monitor[n].step \in Nat
      BY <1>2, DemoItems DEF Confirmed, Process
    <3>3. Becomes(n, monitor[n]) \/ Becomes(n, Confirmed(monitor[n]))
            \/ Becomes(n, [monitor[n] EXCEPT !.phase = "exited"])
      BY <3>1
    <3>4. ~Becomes(n, monitor[n]) /\ ~Becomes(n, [monitor[n] EXCEPT !.phase = "exited"])
      BY <2>1, <2>3
    <3>5. ~Becomes(n, Confirmed(monitor[n]))
      BY <2>1, <3>2
    <3> QED  BY <3>3, <3>4, <3>5
  <2> QED  BY <2>2, <2>5, <2>6
<1>6. CASE monitor'[m] = monitor[m]
  BY <1>3, <1>6 DEF Content
<1> QED  BY <1>4, <1>5, <1>6

LEMMA NextAskedInv ==
  ASSUME TableInv, LinkInv, AskedInv, [Next]_vars
  PROVE  AskedInv'
<1>1. LinkTypes /\ SocketsMove
  BY NextMoves, InvParts
<1>2. SUFFICES ASSUME NEW q \in ToSet(toDevice'), q.from \in Monitors, q.txn = Unsubscribing,
                      Content(q.from)'
               PROVE  FALSE
  BY DEF AskedInv, Unsubscribing
<1>3. PICK m \in Monitors : m = q.from
  BY <1>2
<1>4. Content(m) \/ monitor[m].step < Unsubscribing
  BY <1>2, <1>3, ContentBegins
<1>5. monitor[m].step \in Nat /\ Unsubscribing \in Nat
  BY <1>1, DemoItems DEF LinkTypes, Process, Unsubscribing
<1>6. CASE q \in ToSet(toDevice)
  <2>1. ~Content(m)
    BY <1>2, <1>3, <1>6 DEF AskedInv
  <2>2. q.txn <= monitor[m].step
    BY <1>3, <1>6 DEF LinkInv, RequestsOK, RequestOK
  <2> QED  BY <1>2, <1>4, <1>5, <2>1, <2>2
<1>7. CASE Sent(q)
  <2>1. PICK n \in Monitors : /\ monitor[n].step \in 1..Unsubscribing
                              /\ monitor[n].phase = "sending"
                              /\ q = RequestAt(n, monitor[n].step)
    BY <1>3, <1>7, NamesAssumption DEF Sent
  <2>2. n = m /\ monitor[m].step = Unsubscribing
    BY <1>2, <1>3, <2>1, DemoRequests
  <2> QED  BY <1>4, <1>5, <2>1, <2>2 DEF Content
<1> QED  BY <1>1, <1>6, <1>7, NothingElse

LEMMA AskedInvariant == Spec => []AskedInv
<1>1. Init => AskedInv
  BY DEF Init, AskedInv, ToSet
<1>2. TableInv /\ LinkInv /\ AskedInv /\ [Next]_vars => AskedInv'
  BY NextAskedInv
<1> QED  BY <1>1, <1>2, TableInvariant, LinkInvariant, PTL DEF Spec

--------------------------------------------------------------------------------
(* What a monitor was told it has subscribed to, it has, if the demonstration *)
(* asks for no report twice, as it does not.                                  *)

DistinctReports == \A j, k \in 1..Len(Demo) : Demo[j].report = Demo[k].report => j = k

Holds(m, k) ==
    \E j \in Matching(m, Demo[k].report) : subscriptions[j].interval = Demo[k].interval

Tells(m, a) ==
    a.kind = "WXACK" /\ a.result = "OK" /\ a.txn \in 1..Len(Demo) /\ Wanted(m, a.txn)
      => Holds(m, a.txn)

HoldInv ==
    /\ \A m \in Monitors : \A k \in 1..Len(Demo) :
         k < monitor[m].step /\ Wanted(m, k) => Holds(m, k)
    /\ \A m \in Monitors : \A a \in ToSet(toMonitor[m]) : Tells(m, a)

\* Nobody but the monitor changes its subscription, and the copies of its
\* requests that are still on their way ask for the same, or for its end.
LEMMA HoldsOn ==
  ASSUME TableInv, LinkInv, DistinctReports, [Next]_vars,
         NEW m \in Monitors, NEW k \in 1..Len(Demo), Wanted(m, k), Holds(m, k),
         AskedInv
  PROVE  Holds(m, k)'
<1> DEFINE r == Demo[k].report
           v == Demo[k].interval
<1>1. PICK j \in Slots : subscriptions[j].active /\ subscriptions[j].endpoint = m
                         /\ subscriptions[j].report = r /\ subscriptions[j].interval = v
  BY DEF Holds, Matching, Matches
<1>2. SUFFICES subscriptions'[j].active /\ subscriptions'[j].endpoint = m
               /\ subscriptions'[j].report = r /\ subscriptions'[j].interval = v
  BY DEF Holds, Matching, Matches, Slots
<1>3. CASE UNCHANGED table
  BY <1>1, <1>3 DEF table
<1>4. CASE sendDueReports \/ Tick
  BY <1>1, <1>4, ReportsKeepBooks, TickKeepsBooks, InvParts DEF SameSubscriptions
<1>5. CASE receiveRequest /\ ~UNCHANGED table
  <2>1. PICK q \in ToSet(toDevice) :
          /\ q \in Request
          /\ \/ q.kind = "WXSUB" /\ \E i \in Slots : Renews(q, i) \/ Takes(q, i)
             \/ q.kind = "WXUSB" /\ \E i \in Slots : Frees(q, i)
    BY <1>5, RequestThatChanges, InvParts
  <2>2. ASSUME q.from = m, q.report = r
        PROVE  /\ q.kind = "WXSUB" => q.interval = v
               /\ q.kind # "WXUSB"
    <3>1. /\ q.txn \in 1..Unsubscribing /\ q.txn <= monitor[m].step /\ q = RequestAt(m, q.txn)
      BY <2>2 DEF LinkInv, RequestsOK, RequestOK
    <3>2. PICK t \in 1..Unsubscribing : t = q.txn
      BY <3>1
    <3>3. /\ q.kind = IF t = Unsubscribing THEN "WXUSB" ELSE "WXSUB"
          /\ q.report = Demo[IF t = Unsubscribing THEN 1 ELSE t].report
          /\ q.interval = Demo[IF t = Unsubscribing THEN 1 ELSE t].interval
      BY <3>1, <3>2, DemoRequests
    <3>4. CASE t = Unsubscribing
      <4>1. k = 1
        <5>1. 1 \in 1..Len(Demo) /\ Demo[k].report = Demo[1].report
          BY <2>2, <3>3, <3>4, DemoItems
        <5> QED  BY <5>1 DEF DistinctReports
      <4>2. monitor[m].step < Unsubscribing /\ monitor[m].step \in Nat
        <5>1. monitor[m] \in Process
          BY InvParts DEF LinkTypes
        <5>2. ~Content(m)
          BY <2>2, <3>2, <3>4 DEF AskedInv
        <5> QED  BY <4>1, <5>1, <5>2, DemoItems DEF Wanted, Content, Process
      <4> QED  BY <3>1, <3>2, <3>4, <4>2, DemoItems DEF Unsubscribing
    <3>5. CASE t # Unsubscribing
      <4>1. t \in 1..Len(Demo)
        BY <3>5, DemoItems DEF Unsubscribing
      <4>2. t = k
        BY <2>2, <3>3, <3>5, <4>1 DEF DistinctReports
      <4> QED  BY <3>3, <3>5, <4>2
    <3> QED  BY <3>4, <3>5
  <2>3. subscriptions \in [Slots -> Slot]
    BY DEF TableInv, TypeOK
  <2>4. CASE q.kind = "WXSUB" /\ \E i \in Slots : Renews(q, i) \/ Takes(q, i)
    <3>1. PICK i \in Slots : Renews(q, i) \/ Takes(q, i)
      BY <2>4
    <3>2. subscriptions' = [subscriptions EXCEPT ![i] = Subscribed(q)]
      BY <3>1 DEF Renews, Takes
    <3>3. i # j => subscriptions'[j] = subscriptions[j]
      BY <2>3, <3>2
    <3>4. CASE i = j
      <4>1. Renews(q, j)
        BY <1>1, <3>1, <3>4 DEF Takes, FreeSlots
      <4>2. q.from = m /\ q.report = r
        BY <1>1, <4>1 DEF Renews, Matching, Matches
      <4>3. q.interval = v
        BY <2>2, <2>4, <4>2
      <4>4. subscriptions'[j] = Subscribed(q)
        BY <2>3, <3>2, <3>4
      <4> QED  BY <4>2, <4>3, <4>4 DEF Subscribed
    <3> QED  BY <1>1, <3>3, <3>4
  <2>5. CASE q.kind = "WXUSB" /\ \E i \in Slots : Frees(q, i)
    <3>1. PICK i \in Slots : Frees(q, i)
      BY <2>5
    <3>2. i # j
      BY <1>1, <2>2, <2>5, <3>1 DEF Frees, Matching, Matches
    <3>3. subscriptions'[j] = subscriptions[j]
      BY <2>3, <3>1, <3>2 DEF Frees
    <3> QED  BY <1>1, <3>3
  <2> QED  BY <2>1, <2>4, <2>5
<1> QED  BY <1>3, <1>4, <1>5, TableMoves

\* A subscription that is confirmed is in the table.
LEMMA AnswersTell ==
  ASSUME TableInv, LinkInv, NEW m \in Monitors, NEW a, Answered(m, a),
         a.result = "OK", a.txn \in 1..Len(Demo)
  PROVE  Holds(m, a.txn)'
<1>1. PICK q \in ToSet(toDevice), result \in Result :
        /\ q \in Request /\ q.from = m /\ a = Ack(q, result)
        /\ \/ q.kind = "WXSUB" /\ processSubscribe(q)
              /\ (result = "OK" => \E k \in Slots : Renews(q, k) \/ Takes(q, k))
           \/ q.kind = "WXUSB" /\ processUnsubscribe(q)
  BY AnsweredRequest, InvParts
<1>2. PICK t \in 1..Len(Demo) : t = a.txn
  OBVIOUS
<1>3. result = "OK" /\ q.txn = t
  BY <1>1, <1>2 DEF Ack
<1>4. t \in 1..Unsubscribing /\ t # Unsubscribing
  BY DemoItems DEF Unsubscribing
<1>5. q = RequestAt(m, t)
  BY <1>1, <1>3 DEF LinkInv, RequestsOK, RequestOK
<1>6. q.kind = "WXSUB" /\ q.report = Demo[t].report /\ q.interval = Demo[t].interval
  BY <1>4, <1>5, DemoRequests
<1>7. PICK k \in Slots : Renews(q, k) \/ Takes(q, k)
  BY <1>1, <1>3, <1>6
<1>8. subscriptions'[k] = Subscribed(q)
  BY <1>7 DEF Renews, Takes, TableInv, TypeOK
<1>9. Holds(m, t)'
  BY <1>1, <1>6, <1>8 DEF Holds, Matching, Matches, Subscribed, Slots
<1> QED  BY <1>2, <1>9

LEMMA NextHoldInv ==
  ASSUME TableInv, LinkInv, AskedInv, HoldInv, DistinctReports, [Next]_vars
  PROVE  HoldInv'
<1>1. LinkTypes /\ SocketsMove /\ StepsGrow
  BY NextMoves, InvParts
<1>2. \A m \in Monitors : /\ monitor[m].step \in Nat
                          /\ monitor'[m].step \in {monitor[m].step, monitor[m].step + 1}
  <2>1. \A m \in Monitors : monitor[m] \in Process
    BY <1>1 DEF LinkTypes
  <2>2. \A m \in Monitors : monitor[m].step \in Nat
    BY <2>1, DemoItems DEF Process
  <2> QED  BY <1>1, <2>2 DEF StepsGrow
<1>3. \A m \in Monitors : \A k \in 1..Len(Demo) : Wanted(m, k)' => Wanted(m, k)
  <2>1. \A m \in Monitors : Content(m)' => Content(m) \/ monitor[m].step < Unsubscribing
    BY ContentBegins
  <2> QED  BY <1>2, <2>1, DemoItems DEF Wanted, Content, Unsubscribing
<1>4. ASSUME NEW m \in Monitors, NEW k \in 1..Len(Demo), k < monitor'[m].step, Wanted(m, k)'
      PROVE  Holds(m, k)'
  <2>1. Wanted(m, k)
    BY <1>3, <1>4
  <2>2. CASE k < monitor[m].step
    BY <2>1, <2>2, HoldsOn DEF HoldInv
  <2>3. CASE ~(k < monitor[m].step)
    <3>1. k = monitor[m].step /\ monitor'[m].step # monitor[m].step
      BY <1>2, <1>4, <2>3
    <3>2. PICK i \in 1..Len(toMonitor[m]) :
            /\ toMonitor[m][i].kind = "WXACK" /\ toMonitor[m][i].txn = monitor[m].step
            /\ toMonitor[m][i].result = "OK"
      <4>1. receiveOne(m) /\ Phases
        BY <3>1, StepsAreEarned, InvParts
      <4>2. PICK i \in Arriving(toMonitor[m]), x \in Process :
               /\ i \in 1..Len(toMonitor[m]) /\ Becomes(m, x)
               /\ \/ x.step = monitor[m].step
                  \/ toMonitor[m][i].kind = "WXACK" /\ toMonitor[m][i].txn = monitor[m].step
                     /\ toMonitor[m][i].result = "OK"
        BY <1>1, <4>1, ReceivedMessage
      <4>3. monitor'[m] = x
        BY <1>1, <4>2 DEF LinkTypes, Becomes
      <4> QED  BY <3>1, <4>2, <4>3
    <3>3. PICK a : a = toMonitor[m][i]
      OBVIOUS
    <3>4. a \in ToSet(toMonitor[m])
      <4> HIDE DEF Message
      <4>1. toMonitor[m] \in Seq(Message)
        BY <1>1 DEF LinkTypes
      <4> QED  BY <3>2, <3>3, <4>1, Members
    <3>5. Holds(m, k)
      BY <2>1, <3>1, <3>2, <3>3, <3>4 DEF HoldInv, Tells
    <3> QED  BY <2>1, <3>5, HoldsOn
  <2> QED  BY <2>2, <2>3
<1>5. ASSUME NEW m \in Monitors, NEW a \in ToSet(toMonitor'[m]),
             a.kind = "WXACK", a.result = "OK", a.txn \in 1..Len(Demo), Wanted(m, a.txn)'
      PROVE  Holds(m, a.txn)'
  <2>1. Wanted(m, a.txn)
    BY <1>3, <1>5
  <2>2. CASE a \in ToSet(toMonitor[m])
    <3>1. Holds(m, a.txn)
      BY <1>5, <2>1, <2>2 DEF HoldInv, Tells
    <3>2. PICK k \in 1..Len(Demo) : k = a.txn
      BY <1>5
    <3>3. Holds(m, k)'
      BY <2>1, <3>1, <3>2, HoldsOn
    <3> QED  BY <3>2, <3>3
  <2>3. CASE Answered(m, a)
    BY <1>5, <2>3, AnswersTell
  <2> QED  BY <1>1, <1>5, <2>2, <2>3, NothingElse
<1>6. \A m \in Monitors : \A k \in 1..Len(Demo) :
         k < monitor'[m].step /\ Wanted(m, k)' => Holds(m, k)'
  BY <1>4
<1>7. \A m \in Monitors : \A a \in ToSet(toMonitor'[m]) : Tells(m, a)'
  BY <1>5 DEF Tells
<1> QED  BY <1>6, <1>7 DEF HoldInv

LEMMA InitHoldInv == Init => HoldInv
<1> SUFFICES ASSUME Init  PROVE HoldInv
  OBVIOUS
<1>1. \A m \in Monitors : monitor[m].step = 1 /\ ToSet(toMonitor[m]) = {}
  BY DEF Init, ToSet
<1> QED  BY <1>1, DemoItems DEF HoldInv

\* What a monitor was told it has subscribed to, it has, with the interval it
\* asked for, until it asks for the end of it: whatever was lost, repeated or
\* overtaken, and whatever the others ask for.
THEOREM ConfirmedIsSubscribed ==
  ASSUME DistinctReports
  PROVE  Spec => []ConfirmedMeansSubscribed
<1>1. TableInv /\ LinkInv /\ AskedInv /\ HoldInv /\ [Next]_vars => HoldInv'
  BY NextHoldInv
<1>2. HoldInv => ConfirmedMeansSubscribed
  BY DEF HoldInv, ConfirmedMeansSubscribed, Holds, Wanted
<1> QED  BY <1>1, <1>2, InitHoldInv, TableInvariant, LinkInvariant, AskedInvariant, PTL DEF Spec

--------------------------------------------------------------------------------
(* On a link that keeps the order of datagrams, nothing more is sent to a     *)
(* monitor that was told it has unsubscribed.                                 *)

\* Its subscription is gone, and it does not come back.
Gone(m) ==
    /\ Matching(m, Demo[1].report) = {}
    /\ \A q \in ToSet(toDevice) : q.from = m => q.kind = "WXUSB"

StoppedReport == ReportOf(Demo[1].report)

\* Behind a monitor's request to unsubscribe there are only copies of it.
UnsubscriptionsLast ==
    \A i, j \in 1..Len(toDevice) :
      /\ i < j /\ toDevice[i].from = toDevice[j].from
      /\ toDevice[i].from \in Monitors /\ toDevice[i].kind = "WXUSB"
      => toDevice[j].kind = "WXUSB"

\* Behind the acknowledgement of it there is no such report.
AckedInv ==
    \A m \in Monitors : \A i \in 1..Len(toMonitor[m]) :
      toMonitor[m][i].kind = "WXACK" /\ toMonitor[m][i].txn = Unsubscribing =>
        /\ Gone(m)
        /\ \A j \in 1..Len(toMonitor[m]) : j > i => toMonitor[m][j] # StoppedReport

Stopped ==
    \A m \in Monitors : monitor[m].step = Unsubscribed =>
      /\ Gone(m)
      /\ \A j \in 1..Len(toMonitor[m]) : toMonitor[m][j] # StoppedReport

StopInv == UnsubscriptionsLast /\ AckedInv /\ Stopped

\* A monitor's request is one to unsubscribe exactly at that step.
LEMMA UnsubscriptionStepOnly ==
  ASSUME NEW m \in Monitors, NEW t \in 1..Unsubscribing
  PROVE  RequestAt(m, t).kind = "WXUSB" <=> t = Unsubscribing
BY DemoRequests

LEMMA StepTypes ==
  ASSUME LinkTypes, NEW m \in Monitors
  PROVE  monitor[m].step \in 1..Unsubscribed
<1>1. monitor[m] \in Process
  BY DEF LinkTypes
<1> QED  BY <1>1, DemoItems DEF Process, Unsubscribed

LEMMA GoneStays ==
  ASSUME TableInv, [Next]_vars, NEW m \in Monitors, monitor[m].step >= Unsubscribing, Gone(m)
  PROVE  Gone(m)'
<1> DEFINE r == Demo[1].report
<1>1. LinkTypes /\ SocketsMove
  BY NextMoves, InvParts
<1>2. ASSUME NEW q \in ToSet(toDevice'), q.from = m  PROVE q.kind = "WXUSB"
  <2>1. CASE q \in ToSet(toDevice)
    BY <1>2, <2>1 DEF Gone
  <2>2. CASE Sent(q)
    <3>1. PICK n \in Monitors : monitor[n].step \in 1..Unsubscribing /\ q = RequestAt(n, monitor[n].step)
      BY <1>2, <2>2, NamesAssumption DEF Sent
    <3>2. n = m
      BY <1>2, <3>1, DemoRequests
    <3>3. monitor[m].step = Unsubscribing
      BY <3>1, <3>2, DemoItems DEF Unsubscribing
    <3> QED  BY <3>1, <3>2, <3>3, DemoRequests
  <2> QED  BY <1>1, <2>1, <2>2, NothingElse
<1>3. \A k \in Slots : ~ (/\ subscriptions[k].active /\ subscriptions[k].endpoint = m
                          /\ subscriptions[k].report = r)
  BY DEF Gone, Matching, Matches
<1>4. SUFFICES \A k \in Slots : ~ (/\ subscriptions'[k].active /\ subscriptions'[k].endpoint = m
                                   /\ subscriptions'[k].report = r)
  BY <1>2 DEF Gone, Matching, Matches, Slots
<1>5. CASE UNCHANGED table
  BY <1>3, <1>5 DEF table
<1>6. CASE sendDueReports \/ Tick
  BY <1>3, <1>6, ReportsKeepBooks, TickKeepsBooks, InvParts DEF SameSubscriptions
<1>7. CASE receiveRequest /\ ~UNCHANGED table
  <2>1. PICK q \in ToSet(toDevice) :
          \/ q.kind = "WXSUB" /\ \E k \in Slots : Renews(q, k) \/ Takes(q, k)
          \/ q.kind = "WXUSB" /\ \E k \in Slots : Frees(q, k)
    BY <1>1, <1>7, RequestThatChanges
  <2>2. subscriptions \in [Slots -> Slot]
    BY DEF TableInv, TypeOK
  <2>3. CASE q.kind = "WXSUB" /\ \E k \in Slots : Renews(q, k) \/ Takes(q, k)
    <3>1. q.from # m
      BY <2>3 DEF Gone
    <3>2. PICK k \in Slots : subscriptions' = [subscriptions EXCEPT ![k] = Subscribed(q)]
      BY <2>3 DEF Renews, Takes
    <3>3. subscriptions'[k] = Subscribed(q) /\ \A j \in Slots \ {k} : subscriptions'[j] = subscriptions[j]
      BY <2>2, <3>2
    <3> QED  BY <1>3, <3>1, <3>3 DEF Subscribed
  <2>4. CASE \E k \in Slots : Frees(q, k)
    <3>1. PICK k \in Slots : subscriptions' = [subscriptions EXCEPT ![k] = Free]
      BY <2>4 DEF Frees
    <3>2. subscriptions'[k] = Free /\ \A j \in Slots \ {k} : subscriptions'[j] = subscriptions[j]
      BY <2>2, <3>1
    <3> QED  BY <1>3, <3>2 DEF Free
  <2> QED  BY <2>1, <2>3, <2>4
<1> QED  BY <1>5, <1>6, <1>7, TableMoves

\* The answer to a request to unsubscribe is sent when it is done, and the
\* requests behind it are copies.
LEMMA AnsweredIsGone ==
  ASSUME TableInv, LinkInv, UnsubscriptionsLast, ~Reordering,
         NEW m \in Monitors, NEW a, Answered(m, a), a.txn = Unsubscribing
  PROVE  Gone(m)'
<1> DEFINE r == Demo[1].report
<1>1. PICK i \in Arriving(toDevice), q \in Request, result \in Result :
        /\ i \in 1..Len(toDevice) /\ q = toDevice[i] /\ toDevice' = RemoveAt(toDevice, i)
        /\ q.from = m /\ a = Ack(q, result)
        /\ \/ q.kind = "WXSUB" /\ processSubscribe(q)
           \/ q.kind = "WXUSB" /\ processUnsubscribe(q)
  BY DEF Answered
<1>2. i = 1 /\ toDevice \in Seq(Request)
  BY <1>1, InvParts DEF Arriving, LinkTypes
<1>3. q.kind = "WXUSB" /\ q.report = r /\ r \in ReportType
  <2> HIDE DEF Request
  <2>1. q \in ToSet(toDevice)
    BY <1>1, <1>2, Members
  <2>2. q.txn = Unsubscribing
    BY <1>1 DEF Ack
  <2>3. q = RequestAt(m, Unsubscribing) /\ Unsubscribing \in 1..Unsubscribing
    BY <1>1, <2>1, <2>2 DEF LinkInv, RequestsOK, RequestOK
  <2> QED  BY <2>3, DemoRequests, DemoItems
<1>4. \A k \in Slots : ~ (/\ subscriptions'[k].active /\ subscriptions'[k].endpoint = m
                          /\ subscriptions'[k].report = r)
  <2>1. processUnsubscribe(q)
    BY <1>1, <1>3
  <2>2. CASE UNCHANGED table /\ Matching(m, r) = {}
    BY <2>2 DEF table, Matching, Matches
  <2>3. CASE \E k \in Slots : Frees(q, k)
    <3>1. PICK k \in Slots : Frees(q, k)
      BY <2>3
    <3>2. subscriptions'[k] = Free /\ \A j \in Slots \ {k} : subscriptions'[j] = subscriptions[j]
      BY <3>1 DEF Frees, TableInv, TypeOK
    <3>3. subscriptions[k].active /\ subscriptions[k].endpoint = m /\ subscriptions[k].report = r
      BY <1>1, <1>3, <3>1 DEF Frees, Matching, Matches
    <3>4. \A j \in Slots \ {k} : ~ (/\ subscriptions[j].active /\ subscriptions[j].endpoint = m
                                    /\ subscriptions[j].report = r)
      BY <3>3 DEF TableInv, Unique
    <3> QED  BY <3>2, <3>4 DEF Free
  <2> QED  BY <1>1, <1>3, <2>1, <2>2, <2>3, UnsubscribeOnTable
<1>5. ASSUME NEW x \in ToSet(toDevice'), x.from = m  PROVE x.kind = "WXUSB"
  <2> HIDE DEF Request
  <2>1. RemoveAt(toDevice, 1) \in Seq(Request)
    BY <1>1, <1>2, Removed
  <2>2. PICK j \in 1..Len(RemoveAt(toDevice, 1)) : x = RemoveAt(toDevice, 1)[j]
    BY <1>1, <1>2, <1>5, <2>1, Members
  <2>3. Place(1, j) \in 1..Len(toDevice) /\ x = toDevice[Place(1, j)] /\ 1 < Place(1, j)
    <3>1. j \in Nat /\ j >= 1
      BY <2>1, <2>2
    <3>2. Place(1, j) = j + 1
      BY <3>1 DEF Place
    <3>3. 1 \in 1..Len(toDevice) /\ toDevice \in Seq(Request)
      BY <1>1, <1>2
    <3>4. Place(1, j) \in 1..Len(toDevice) /\ RemoveAt(toDevice, 1)[j] = toDevice[Place(1, j)]
      BY <2>2, <3>3, Removed
    <3> QED  BY <2>2, <3>1, <3>2, <3>4
  <2> QED  BY <1>1, <1>2, <1>3, <1>5, <2>3 DEF UnsubscriptionsLast
<1> QED  BY <1>4, <1>5 DEF Gone, Matching, Matches, Slots

LEMMA LastStaysLast ==
  ASSUME TableInv, LinkInv, UnsubscriptionsLast, [Next]_vars
  PROVE  UnsubscriptionsLast'
<1>1. LinkTypes /\ MovedDevice /\ toDevice \in Seq(Request)
  BY NextMoves, InvParts DEF SocketsMove, LinkTypes
<1>2. SUFFICES ASSUME NEW i \in 1..Len(toDevice'), NEW j \in 1..Len(toDevice'), i < j,
                      toDevice'[i].from = toDevice'[j].from, toDevice'[i].from \in Monitors,
                      toDevice'[i].kind = "WXUSB"
               PROVE  toDevice'[j].kind = "WXUSB"
  BY DEF UnsubscriptionsLast
<1>3. CASE toDevice' = toDevice
  BY <1>2, <1>3 DEF UnsubscriptionsLast
<1>4. CASE \E h \in 1..Len(toDevice) : toDevice' = RemoveAt(toDevice, h)
  <2>1. PICK h \in 1..Len(toDevice) : toDevice' = RemoveAt(toDevice, h)
    BY <1>4
  <2>2. /\ Place(h, i) \in 1..Len(toDevice) /\ toDevice'[i] = toDevice[Place(h, i)]
        /\ Place(h, j) \in 1..Len(toDevice) /\ toDevice'[j] = toDevice[Place(h, j)]
        /\ Len(toDevice') \in Nat
    BY <1>1, <2>1, Removed
  <2>3. Place(h, i) < Place(h, j)
    BY <1>2, <2>1, <2>2 DEF Place
  <2> QED  BY <1>2, <2>2, <2>3 DEF UnsubscriptionsLast
<1>5. CASE \E q \in Request : Sent(q) /\ toDevice' = Delivered(toDevice, <<q>>)
  <2>1. PICK q \in Request : Sent(q) /\ toDevice' = Delivered(toDevice, <<q>>)
    BY <1>5
  <2> HIDE DEF Request
  <2>2. <<q>> \in Seq(Request) /\ Len(<<q>>) = 1 /\ <<q>>[1] = q /\ Len(toDevice) \in Nat
    BY <1>1
  <2>3. /\ Len(toDevice') \in {Len(toDevice), Len(toDevice) + 1}
        /\ \A h \in 1..Len(toDevice') :
             IF h <= Len(toDevice) THEN toDevice'[h] = toDevice[h]
             ELSE h - Len(toDevice) \in 1..1 /\ toDevice'[h] = <<q>>[h - Len(toDevice)]
    BY <1>1, <2>1, <2>2, DeliveredBehind
  <2>4. i \in 1..Len(toDevice) /\ toDevice'[i] = toDevice[i]
    BY <1>2, <2>2, <2>3
  <2>5. CASE j <= Len(toDevice)
    BY <1>2, <2>2, <2>3, <2>4, <2>5 DEF UnsubscriptionsLast
  <2>6. CASE ~(j <= Len(toDevice))
    <3>1. toDevice'[j] = q
      BY <2>2, <2>3, <2>6
    <3>2. PICK m \in Monitors : monitor[m].step \in 1..Unsubscribing /\ q = RequestAt(m, monitor[m].step)
      BY <1>2, <2>1, <2>4, <3>1, NamesAssumption DEF Sent
    <3>3. q.from = m
      BY <3>2, DemoRequests
    <3>4. PICK x \in ToSet(toDevice) : x = toDevice[i]
      BY <1>1, <2>4, Members
    <3>5. x.from = m /\ x.kind = "WXUSB"
      BY <1>2, <2>4, <3>1, <3>3, <3>4
    <3>6. x.txn \in 1..Unsubscribing /\ x.txn <= monitor[m].step /\ x = RequestAt(m, x.txn)
      BY <3>5 DEF LinkInv, RequestsOK, RequestOK
    <3>7. x.txn = Unsubscribing
      BY <3>5, <3>6, UnsubscriptionStepOnly
    <3>8. monitor[m].step = Unsubscribing
      BY <3>2, <3>6, <3>7, DemoItems DEF Unsubscribing
    <3>9. q.kind = "WXUSB"
      BY <3>2, <3>8, UnsubscriptionStepOnly
    <3> QED  BY <3>1, <3>9
  <2> QED  BY <2>5, <2>6
<1> QED  BY <1>1, <1>3, <1>4, <1>5 DEF MovedDevice

\* What is sent to a monitor whose subscription is gone is no such report.
LEMMA NoMoreReports ==
  ASSUME TableInv, NEW m \in Monitors, Matching(m, Demo[1].report) = {}, NEW a
  PROVE  /\ IsReportTo(m, a) => a # StoppedReport
         /\ Answered(m, a) => a # StoppedReport
<1>1. ASSUME IsReportTo(m, a), a = StoppedReport  PROVE FALSE
  <2>1. PICK k \in Slots : /\ subscriptions[k].active /\ subscriptions[k].endpoint = m
                           /\ a = ReportOf(subscriptions[k].report)
    BY <1>1 DEF IsReportTo
  <2>2. subscriptions[k].report = Demo[1].report
    BY <1>1, <2>1 DEF StoppedReport, ReportOf
  <2> QED  BY <2>1, <2>2 DEF Matching, Matches
<1>2. ASSUME Answered(m, a), a = StoppedReport  PROVE FALSE
  <2>1. a.kind = "WXACK"
    BY <1>2 DEF Answered, Ack
  <2>2. a.kind = "Report"
    BY <1>2 DEF StoppedReport, ReportOf
  <2> QED  BY <2>1, <2>2
<1> QED  BY <1>1, <1>2

\* Behind the acknowledgement, old or new, there is no such report.
LEMMA AckedStays ==
  ASSUME TableInv, LinkInv, StopInv, ~Reordering, [Next]_vars
  PROVE  AckedInv'
<1>1. LinkTypes /\ SocketsMove
  BY NextMoves, InvParts
<1> SUFFICES ASSUME NEW m \in Monitors, NEW i \in 1..Len(toMonitor'[m]),
                    toMonitor'[m][i].kind = "WXACK", toMonitor'[m][i].txn = Unsubscribing
             PROVE  /\ Gone(m)'
                    /\ \A j \in 1..Len(toMonitor'[m]) : j > i => toMonitor'[m][j] # StoppedReport
  BY DEF AckedInv, Unsubscribing, StoppedReport, ReportOf
<1> DEFINE s == toMonitor[m]
           t == toMonitor'[m]
<1>2. s \in Seq(Message) /\ Len(s) \in Nat
  <2> HIDE DEF Message
  <2>1. toMonitor \in [Monitors -> Seq(Message)]
    BY <1>1 DEF LinkTypes
  <2> QED  BY <2>1
<1>3. ASSUME NEW h \in 1..Len(s), s[h] = t[i]
      PROVE  /\ Gone(m)' /\ Matching(m, Demo[1].report) = {}
             /\ \A j \in 1..Len(s) : j > h => s[j] # StoppedReport
  <2>1. /\ Gone(m)
        /\ \A j \in 1..Len(s) : j > h => s[j] # StoppedReport
    BY <1>3 DEF StopInv, AckedInv
  <2>2. s[h] \in ToSet(s)
    <3> HIDE DEF Message
    <3> QED  BY <1>2, Members
  <2>3. Unsubscribing <= monitor[m].step
    BY <1>3, <2>2 DEF LinkInv, AcksOK, AckOK
  <2>4. monitor[m].step >= Unsubscribing
    BY <1>1, <2>3, StepTypes, DemoItems DEF Unsubscribing, Unsubscribed
  <2>5. Gone(m)'
    BY <2>1, <2>4, GoneStays
  <2> QED  BY <2>1, <2>5 DEF Gone
<1> HIDE DEF s, t
<1>4. MovedMonitor(m)
  BY <1>1 DEF SocketsMove
<1>5. CASE t = s
  BY <1>3, <1>5 DEF t
<1>6. CASE t = <<>>
  BY <1>6 DEF t
<1>7. CASE \E h \in 1..Len(s) : t = RemoveAt(s, h)
  <2>1. PICK h \in 1..Len(s) : t = RemoveAt(s, h)
    BY <1>7
  <2>2. /\ Len(t) \in Nat
        /\ \A j \in 1..Len(t) : Place(h, j) \in 1..Len(s) /\ t[j] = s[Place(h, j)]
    <3> HIDE DEF Message
    <3> QED  BY <1>2, <2>1, Removed
  <2>3. \A j \in 1..Len(t) : j > i => Place(h, j) > Place(h, i)
    BY <2>1, <2>2 DEF Place, t
  <2> QED  BY <1>3, <2>2, <2>3 DEF t
<1>8. CASE \E b \in Seq(Message) : /\ \A j \in 1..Len(b) : IsReportTo(m, b[j])
                                   /\ t = Delivered(s, b)
  <2>1. PICK b \in Seq(Message) : /\ \A j \in 1..Len(b) : IsReportTo(m, b[j])
                                  /\ t = Delivered(s, b)
    BY <1>8
  <2>2. /\ Len(t) \in Nat
        /\ \A j \in 1..Len(t) : IF j <= Len(s) THEN t[j] = s[j]
                                ELSE j - Len(s) \in 1..Len(b) /\ t[j] = b[j - Len(s)]
    BY <1>2, <2>1, DeliveredBehind
  <2>3. \A j \in 1..Len(t) : ~(j <= Len(s)) => IsReportTo(m, t[j])
    BY <2>1, <2>2
  <2>4. i <= Len(s)
    <3>1. PICK x : x = t[i]
      OBVIOUS
    <3>2. x.kind = "WXACK" /\ i \in 1..Len(t)
      BY <3>1 DEF t
    <3>3. ~IsReportTo(m, x)
      BY <3>2 DEF IsReportTo, ReportOf
    <3> QED  BY <2>3, <3>1, <3>2, <3>3
  <2>5. i \in 1..Len(s) /\ s[i] = t[i]
    BY <1>2, <2>2, <2>4 DEF t
  <2>6. ASSUME NEW j \in 1..Len(t), j > i  PROVE t[j] # StoppedReport
    <3>1. CASE j <= Len(s)
      <4>1. j \in 1..Len(s) /\ t[j] = s[j]
        BY <1>2, <2>2, <3>1
      <4>2. \A k \in 1..Len(s) : k > i => s[k] # StoppedReport
        BY <1>3, <2>5
      <4> QED  BY <2>6, <4>1, <4>2
    <3>2. CASE ~(j <= Len(s))
      BY <1>3, <2>3, <2>5, <3>2, NoMoreReports
    <3> QED  BY <3>1, <3>2
  <2> QED  BY <1>3, <2>5, <2>6 DEF t
<1>9. CASE \E a \in Message : Answered(m, a) /\ t = Delivered(s, <<a>>)
  <2>1. PICK a \in Message : Answered(m, a) /\ t = Delivered(s, <<a>>)
    BY <1>9
  <2> HIDE DEF Message
  <2>0. PICK d : d = <<a>>
    OBVIOUS
  <2>2. d \in Seq(Message) /\ Len(d) = 1 /\ d[1] = a /\ t = Delivered(s, d)
    BY <2>1, <2>0
  <2>3. /\ Len(t) \in Nat
        /\ \A j \in 1..Len(t) : IF j <= Len(s) THEN t[j] = s[j]
                                ELSE j - Len(s) \in 1..Len(d) /\ t[j] = d[j - Len(s)]
    <3>1. s \in Seq(Message)
      BY <1>2
    <3>2. PICK u : u = Delivered(s, d)
      OBVIOUS
    <3>3. /\ u \in Seq(Message)
          /\ \A j \in 1..Len(u) : IF j <= Len(s) THEN u[j] = s[j]
                                  ELSE j - Len(s) \in 1..Len(d) /\ u[j] = d[j - Len(s)]
      BY <2>2, <3>1, <3>2, DeliveredBehind
    <3>4. t = u
      BY <2>2, <3>2
    <3>5. Len(u) \in Nat
      BY <3>3
    <3> QED  BY <3>3, <3>4, <3>5
  <2>4. \A j \in 1..Len(t) : ~(j <= Len(s)) => j = Len(s) + 1 /\ t[j] = a
    BY <1>2, <2>2, <2>3
  <2>5. CASE i <= Len(s)
    <3>1. i \in 1..Len(s) /\ s[i] = t[i]
      BY <1>2, <2>3, <2>5 DEF t
    <3>2. ASSUME NEW j \in 1..Len(t), j > i  PROVE t[j] # StoppedReport
      <4>1. CASE j <= Len(s)
        BY <1>2, <1>3, <2>3, <3>1, <3>2, <4>1
      <4>2. CASE ~(j <= Len(s))
        BY <1>3, <2>1, <2>4, <3>1, <4>2, NoMoreReports
      <4> QED  BY <4>1, <4>2
    <3> QED  BY <1>3, <3>1, <3>2 DEF t
  <2>6. CASE ~(i <= Len(s))
    <3>1. t[i] = a /\ \A j \in 1..Len(t) : ~(j > i)
      BY <1>2, <2>3, <2>4, <2>6 DEF t
    <3>2. Gone(m)'
      BY <2>1, <3>1, AnsweredIsGone DEF StopInv, t
    <3> QED  BY <3>1, <3>2 DEF t
  <2> QED  BY <2>5, <2>6
<1> QED  BY <1>4, <1>5, <1>6, <1>7, <1>8, <1>9 DEF MovedMonitor, s, t

LEMMA StoppedStays ==
  ASSUME TableInv, LinkInv, StopInv, ~Reordering, [Next]_vars
  PROVE  Stopped'
<1>1. LinkTypes /\ SocketsMove /\ Phases
  BY NextMoves, InvParts
<1> SUFFICES ASSUME NEW m \in Monitors, monitor'[m].step = Unsubscribed
             PROVE  /\ Gone(m)'
                    /\ \A j \in 1..Len(toMonitor'[m]) : toMonitor'[m][j] # StoppedReport
  BY DEF Stopped, Unsubscribed, StoppedReport, ReportOf
<1>2. toMonitor[m] \in Seq(Message) /\ toMonitor'[m] \in Seq(Message)
  <2> HIDE DEF Message
  <2>1. LinkTypes'
    BY NextTableInv, InvParts, PTL
  <2> QED  BY <1>1, <2>1 DEF LinkTypes
<1>3. CASE monitor[m].step = Unsubscribed
  <2>1. /\ Gone(m)
        /\ \A j \in 1..Len(toMonitor[m]) : toMonitor[m][j] # StoppedReport
    BY <1>3 DEF StopInv, Stopped
  <2>2. Gone(m)'
    BY <1>3, <2>1, GoneStays, DemoItems DEF Unsubscribing, Unsubscribed
  <2>3. ASSUME NEW j \in 1..Len(toMonitor'[m])  PROVE toMonitor'[m][j] # StoppedReport
    <3> HIDE DEF Message
    <3>1. PICK a : a = toMonitor'[m][j]
      OBVIOUS
    <3>2. a \in ToSet(toMonitor'[m])
      BY <1>2, <3>1, Members
    <3>3. \/ a \in ToSet(toMonitor[m])
          \/ IsReportTo(m, a) \/ Answered(m, a)
      BY <1>1, <3>2, NothingElse
    <3>4. a \in ToSet(toMonitor[m]) => a # StoppedReport
      BY <1>2, <2>1, Members
    <3>5. Matching(m, Demo[1].report) = {}
      BY <2>1 DEF Gone
    <3> QED  BY <3>1, <3>3, <3>4, <3>5, NoMoreReports
  <2> QED  BY <2>2, <2>3
<1>4. CASE monitor[m].step # Unsubscribed
  <2>1. PICK i \in Arriving(toMonitor[m]), x \in Process :
           /\ i \in 1..Len(toMonitor[m])
           /\ toMonitor' = [toMonitor EXCEPT ![m] = RemoveAt(toMonitor[m], i)]
           /\ Becomes(m, x)
           /\ \/ x.step = monitor[m].step
              \/ /\ x.step = monitor[m].step + 1
                 /\ toMonitor[m][i].kind = "WXACK" /\ toMonitor[m][i].txn = monitor[m].step
    BY <1>1, <1>4, StepsAreEarned, ReceivedMessage
  <2>2. monitor'[m] = x /\ toMonitor'[m] = RemoveAt(toMonitor[m], i) /\ i = 1
    <3> HIDE DEF Message
    <3> QED  BY <1>1, <2>1 DEF LinkTypes, Becomes, Arriving
  <2>3. monitor[m].step = Unsubscribing /\ toMonitor[m][1].kind = "WXACK"
        /\ toMonitor[m][1].txn = Unsubscribing
    BY <1>1, <1>4, <2>1, <2>2, StepTypes, DemoItems DEF Unsubscribing, Unsubscribed
  <2>4. /\ Gone(m)
        /\ \A j \in 1..Len(toMonitor[m]) : j > 1 => toMonitor[m][j] # StoppedReport
    BY <2>1, <2>2, <2>3 DEF StopInv, AckedInv
  <2>5. Gone(m)'
    BY <2>3, <2>4, GoneStays, DemoItems DEF Unsubscribing
  <2>6. ASSUME NEW j \in 1..Len(toMonitor'[m])  PROVE toMonitor'[m][j] # StoppedReport
    <3> HIDE DEF Message
    <3>1. Place(1, j) \in 1..Len(toMonitor[m]) /\ toMonitor'[m][j] = toMonitor[m][Place(1, j)]
      BY <1>2, <2>1, <2>2, Removed
    <3>2. Place(1, j) > 1
      BY <1>2 DEF Place
    <3> QED  BY <2>4, <3>1, <3>2
  <2> QED  BY <2>5, <2>6
<1> QED  BY <1>3, <1>4

LEMMA InitStopInv == Init => StopInv
<1> SUFFICES ASSUME Init  PROVE StopInv
  OBVIOUS
<1>1. toDevice = <<>> /\ \A m \in Monitors : monitor[m].step = 1 /\ toMonitor[m] = <<>>
  BY DEF Init
<1> QED  BY <1>1, DemoItems DEF StopInv, UnsubscriptionsLast, AckedInv, Stopped, Unsubscribed

\* Once a monitor was told that it has unsubscribed, no such report is sent to it
\* or still on its way, if the link keeps the order of datagrams: although copies
\* of its requests may be, whatever was lost, and whatever the others ask for.
THEOREM StoppedMeansStopped ==
  ASSUME ~Reordering
  PROVE  Spec => []ReportsStopped
<1>1. TableInv /\ LinkInv /\ StopInv /\ [Next]_vars => StopInv'
  BY LastStaysLast, AckedStays, StoppedStays DEF StopInv
<1>2. TableInv /\ StopInv => ReportsStopped
  <2> SUFFICES ASSUME TableInv, StopInv, NEW m \in Monitors, monitor[m].step = Unsubscribed
               PROVE  /\ Matching(m, Demo[1].report) = {}
                      /\ \A i \in DOMAIN toMonitor[m] :
                           toMonitor[m][i] # [kind |-> "Report", report |-> Demo[1].report]
    BY DEF ReportsStopped
  <2>1. toMonitor[m] \in Seq(Message)
    <3> HIDE DEF Message
    <3> QED  BY DEF TableInv, TypeOK
  <2> QED  BY <2>1 DEF StopInv, Stopped, Gone, StoppedReport, ReportOf
<1> QED  BY <1>1, <1>2, InitStopInv, TableInvariant, LinkInvariant, PTL DEF Spec
===============================================================================
