-------------------------- MODULE ParameterLab_proof --------------------------
(****************************************************************************)
(* Proofs about ParameterLab, for every script of requests and every        *)
(* capacity of the queues: the store follows the rules of precedence and    *)
(* each change is reported once and in order.                               *)
(****************************************************************************)
EXTENDS ParameterLab, SequenceTheorems, FiniteSetTheorems, TLAPS

--------------------------------------------------------------------------------
(* The inductive invariant.  Of the requests submitted a first part has been *)
(* handled; the owner may be at the next one; the rest is in the queue.      *)

InHand == IF owner \in {"check", "copied"} THEN 1 ELSE 0
Handled == Len(submitted) - Len(updates) - InHand

UpdatesInOrder ==
    /\ Handled >= 0
    /\ \A i \in 1..Len(updates) : updates[i] = submitted[Handled + InHand + i]
    /\ owner \in {"check", "copied"} => request = submitted[Handled + 1]
    /\ owner = "notify" => request \in ParameterUpdateRequest
    /\ updatesStopped => producer = "done"
    /\ owner = "done" => updates = <<>> /\ updatesStopped

\* The requests among the first h that take effect.
EffectiveAmong(h) ==
    {i \in 1..h : /\ Admissible(submitted[i])
                  /\ \A j \in 1..(i - 1) :
                       submitted[j].id = submitted[i].id /\ Admissible(submitted[j]) =>
                         precedence[submitted[j].source] <= precedence[submitted[i].source]}

\* The last of them for a parameter; the value is under way while the owner copies it.
LastAmong(h, id, i) ==
    /\ i \in EffectiveAmong(h) /\ submitted[i].id = id
    /\ \A j \in EffectiveAmong(h) : submitted[j].id = id => j <= i

Copying(id) == owner = "copied" /\ request.id = id

StoreAfter(h) ==
    /\ store.generation = Cardinality(EffectiveAmong(h))
    /\ \A id \in ParameterID :
         /\ \A j \in 1..h : submitted[j].id = id /\ Admissible(submitted[j]) =>
              precedence[submitted[j].source] <= precedence[store.sources[id]]
         /\ \/ /\ \A j \in EffectiveAmong(h) : submitted[j].id # id
               /\ store.sources[id] = "CompiledDefault"
               /\ ~Copying(id) => store.values[id] = defaultValue[id]
            \/ \E i \in 1..h :
               /\ LastAmong(h, id, i)
               /\ store.sources[id] = submitted[i].source
               /\ ~Copying(id) => store.values[id] = submitted[i].text.value
    /\ owner = "copied" => /\ Result = "OK"
                           /\ store.values[request.id] = request.text.value

\* Each change is reported, or on its way to the consumer, in the order of the changes.
Announcing == IF owner = "notify" THEN 1 ELSE 0
Printing == IF consumer = "print" THEN 1 ELSE 0

WrittenSince(e) == writtenBy[e.id] >= e.generation

ChangesInOrder ==
    /\ store.generation = Len(reports) + Printing + Len(notes) + Announcing
    /\ \A k \in 1..Len(reports) : reports[k][1] = k /\ reports[k][2] >= k
    /\ consumer = "print" => /\ event["consumer"] \in ParameterChangeEvent
                             /\ event["consumer"].generation = Len(reports) + 1
                             /\ WrittenSince(event["consumer"])
    /\ \A i \in 1..Len(notes) : /\ notes[i].generation = Len(reports) + Printing + i
                                /\ WrittenSince(notes[i])
    /\ owner = "notify" => /\ event["owner"] \in ParameterChangeEvent
                           /\ event["owner"].generation = store.generation
                           /\ WrittenSince(event["owner"])
    /\ \A id \in ParameterID :
         writtenBy[id] <= store.generation + (IF Copying(id) THEN 1 ELSE 0)
    /\ owner = "copied" => writtenBy[request.id] = store.generation + 1
    /\ notesStopped => owner = "done"
    /\ consumer = "done" => notes = <<>> /\ notesStopped

StoreFollows == \E h \in Nat : h = Handled /\ StoreAfter(h)

Inv == TypeOK /\ UpdatesInOrder /\ StoreFollows /\ ChangesInOrder

--------------------------------------------------------------------------------
(* Facts about queues and about the requests that take effect *)

LEMMA QueueFacts ==
  ASSUME NEW S, NEW s \in Seq(S)
  PROVE  /\ Len(s) \in Nat /\ DOMAIN s = 1..Len(s) /\ \A i \in 1..Len(s) : s[i] \in S
         /\ s # <<>> => /\ Len(s) > 0 /\ Head(s) = s[1] /\ Head(s) \in S /\ Tail(s) \in Seq(S)
                        /\ Len(Tail(s)) = Len(s) - 1
                        /\ \A i \in 1..(Len(s) - 1) : Tail(s)[i] = s[i + 1]
         /\ s = <<>> <=> Len(s) = 0
         /\ \A e \in S : /\ Append(s, e) \in Seq(S) /\ Len(Append(s, e)) = Len(s) + 1
                         /\ Append(s, e)[Len(s) + 1] = e
                         /\ \A i \in 1..Len(s) : Append(s, e)[i] = s[i]
<1>1. Len(s) \in Nat /\ DOMAIN s = 1..Len(s) /\ \A i \in 1..Len(s) : s[i] \in S
  OBVIOUS
<1>2. s = <<>> <=> Len(s) = 0
  BY EmptySeq
<1>3. s # <<>> => /\ Len(s) > 0 /\ Head(s) = s[1] /\ Head(s) \in S /\ Tail(s) \in Seq(S)
                  /\ Len(Tail(s)) = Len(s) - 1
                  /\ \A i \in 1..(Len(s) - 1) : Tail(s)[i] = s[i + 1]
  BY <1>1, <1>2, HeadTailProperties
<1>4. \A e \in S : /\ Append(s, e) \in Seq(S) /\ Len(Append(s, e)) = Len(s) + 1
                   /\ Append(s, e)[Len(s) + 1] = e
                   /\ \A i \in 1..Len(s) : Append(s, e)[i] = s[i]
  BY AppendProperties
<1> QED  BY <1>1, <1>2, <1>3, <1>4

LEMMA PrecedenceType == \A s \in ParameterSource : precedence[s] \in Nat
BY DEF ParameterSource, precedence

LEMMA EffectiveIsFinite ==
  ASSUME NEW h \in Nat
  PROVE  /\ IsFiniteSet(EffectiveAmong(h)) /\ Cardinality(EffectiveAmong(h)) \in Nat
         /\ EffectiveAmong(h) \subseteq 1..h
<1>1. EffectiveAmong(h) \subseteq 1..h
  BY DEF EffectiveAmong
<1>2. IsFiniteSet(1..h)
  BY FS_Interval
<1>3. IsFiniteSet(EffectiveAmong(h))
  BY <1>1, <1>2, FS_Subset
<1> QED  BY <1>1, <1>3, FS_CardinalityType

\* Whether a request takes effect depends on those before it, and on no later one.
LEMMA EffectiveKept ==
  ASSUME NEW h \in Nat, \A j \in 1..h : submitted'[j] = submitted[j]
  PROVE  EffectiveAmong(h)' = EffectiveAmong(h)
<1>1. \A i \in 1..h : \A j \in 1..(i - 1) : submitted'[i] = submitted[i] /\ submitted'[j] = submitted[j]
  OBVIOUS
<1> QED  BY <1>1 DEF EffectiveAmong

LEMMA EffectiveNext ==
  ASSUME NEW h \in Nat
  PROVE  EffectiveAmong(h + 1) = IF h + 1 \in EffectiveAmong(h + 1)
                                 THEN EffectiveAmong(h) \cup {h + 1} ELSE EffectiveAmong(h)
<1>1. \A i : i \in 1..(h + 1) <=> i \in 1..h \/ i = h + 1
  OBVIOUS
<1>2. \A i \in 1..h : i \in EffectiveAmong(h + 1) <=> i \in EffectiveAmong(h)
  BY <1>1 DEF EffectiveAmong
<1>3. EffectiveAmong(h + 1) \subseteq 1..(h + 1) /\ EffectiveAmong(h) \subseteq 1..h
  BY DEF EffectiveAmong
<1> DEFINE A == EffectiveAmong(h + 1)
           B == EffectiveAmong(h)
<1> HIDE DEF A, B
<1>4. /\ \A i \in A : i \in 1..h \/ i = h + 1
      /\ \A i \in 1..h : i \in A <=> i \in B
      /\ B \subseteq 1..h
  BY <1>1, <1>2, <1>3 DEF A, B
<1>5. h + 1 \in A => A = B \cup {h + 1}
  BY <1>4
<1>6. h + 1 \notin A => A = B
  BY <1>4
<1> QED  BY <1>5, <1>6 DEF A, B

\* What set answers is what the rules say of the next request.
LEMMA AcceptedMeansEffective ==
  ASSUME TypeOK, NEW h \in Nat, h + 1 \in 1..Len(submitted), request = submitted[h + 1],
         StoreAfter(h)
  PROVE  /\ Result = "OK" <=> h + 1 \in EffectiveAmong(h + 1)
         /\ Result # "OK" /\ Admissible(request) =>
              precedence[request.source] <= precedence[store.sources[request.id]]
<1> DEFINE id == request.id
           p == precedence[request.source]
           q == precedence[store.sources[id]]
<1>1. /\ request \in ParameterUpdateRequest /\ store \in Store
      /\ \A i \in 1..Len(submitted) : submitted[i] \in ParameterUpdateRequest
  BY QueueFacts DEF TypeOK
<1>2. id \in ParameterID /\ request.source \in ParameterSource /\ store.sources[id] \in ParameterSource
  BY <1>1 DEF ParameterUpdateRequest, Store
<1>3. p \in Nat /\ q \in Nat
  BY <1>2, PrecedenceType
<1>4. Result = "OK" <=> Admissible(request) /\ ~(p < q)
  BY DEF Result, CheckText, CheckUpdate, Admissible
<1>5. h \in Nat /\ 1..((h + 1) - 1) = 1..h /\ h <= Len(submitted) /\ h + 1 \in 1..(h + 1)
      /\ Len(submitted) \in Nat
  BY QueueFacts DEF TypeOK
<1>6. \A j \in 1..h : submitted[j].id = id /\ Admissible(submitted[j]) =>
         precedence[submitted[j].source] <= q
  BY <1>2 DEF StoreAfter
<1>7. \/ store.sources[id] = "CompiledDefault"
      \/ \E i \in 1..h : /\ Admissible(submitted[i]) /\ submitted[i].id = id
                         /\ store.sources[id] = submitted[i].source
  BY <1>2 DEF StoreAfter, LastAmong, EffectiveAmong
<1>8. h + 1 \in EffectiveAmong(h + 1) <=>
        /\ Admissible(request)
        /\ \A j \in 1..h : submitted[j].id = id /\ Admissible(submitted[j]) =>
             precedence[submitted[j].source] <= p
  BY <1>5 DEF EffectiveAmong
<1>9. \A j \in 1..h : precedence[submitted[j].source] \in Nat
  <2>1. \A j \in 1..h : submitted[j] \in ParameterUpdateRequest
    BY <1>1, <1>5
  <2> QED  BY <2>1, PrecedenceType DEF ParameterUpdateRequest
<1> HIDE DEF p, q
<1>10. ~(p < q) => \A j \in 1..h : submitted[j].id = id /\ Admissible(submitted[j]) =>
             precedence[submitted[j].source] <= p
  BY <1>3, <1>6, <1>9
<1>11. (\A j \in 1..h : submitted[j].id = id /\ Admissible(submitted[j]) =>
             precedence[submitted[j].source] <= p) => ~(p < q)
  <2>1. CASE store.sources[id] = "CompiledDefault"
    BY <1>3, <2>1 DEF q, precedence
  <2>2. CASE store.sources[id] # "CompiledDefault"
    <3>1. PICK i \in 1..h : Admissible(submitted[i]) /\ submitted[i].id = id
                            /\ store.sources[id] = submitted[i].source
      BY <1>7, <2>2
    <3>2. precedence[submitted[i].source] = q
      BY <3>1 DEF q
    <3> QED  BY <1>3, <3>1, <3>2
  <2> QED  BY <2>1, <2>2
<1>12. Result # "OK" /\ Admissible(request) => p <= q
  BY <1>3, <1>4
<1> QED  BY <1>4, <1>8, <1>10, <1>11, <1>12 DEF p, q

--------------------------------------------------------------------------------
(* The store *)

\* A step that leaves the store and what the owner copies as they are, and at most
\* appends to the requests submitted.
LEMMA StoreKept ==
  ASSUME NEW h \in Nat, StoreAfter(h),
         \A j \in 1..h : submitted'[j] = submitted[j],
         UNCHANGED store, owner' = "copied" <=> owner = "copied",
         owner = "copied" => UNCHANGED request
  PROVE  StoreAfter(h)'
<1>1. EffectiveAmong(h)' = EffectiveAmong(h)
  BY EffectiveKept
<1>2. \A id \in ParameterID : Copying(id)' <=> Copying(id)
  BY DEF Copying
<1>3. owner' = "copied" => Result' = Result /\ request' = request
  BY DEF Result
<1>4. ASSUME NEW id \in ParameterID, NEW i \in 1..h
      PROVE  LastAmong(h, id, i)' <=> LastAmong(h, id, i)
  <2>1. \A j \in EffectiveAmong(h) : submitted'[j] = submitted[j]
    BY DEF EffectiveAmong
  <2> QED  BY <1>1, <2>1 DEF LastAmong
<1>5. \A j \in EffectiveAmong(h) : submitted'[j] = submitted[j]
  BY DEF EffectiveAmong
<1>6. store'.generation = Cardinality(EffectiveAmong(h)')
  BY <1>1 DEF StoreAfter
<1>7. ASSUME NEW id \in ParameterID
      PROVE  /\ \A j \in 1..h : submitted'[j].id = id /\ Admissible(submitted[j])' =>
                  precedence[submitted'[j].source] <= precedence[store'.sources[id]]
             /\ \/ /\ \A j \in EffectiveAmong(h)' : submitted'[j].id # id
                   /\ store'.sources[id] = "CompiledDefault"
                   /\ ~Copying(id)' => store'.values[id] = defaultValue[id]
                \/ \E i \in 1..h :
                   /\ LastAmong(h, id, i)'
                   /\ store'.sources[id] = submitted'[i].source
                   /\ ~Copying(id)' => store'.values[id] = submitted'[i].text.value
  <2>1. \A j \in 1..h : submitted'[j].id = id /\ Admissible(submitted[j])' =>
                  precedence[submitted'[j].source] <= precedence[store'.sources[id]]
    <3>1. \A j \in 1..h : Admissible(submitted[j])' <=> Admissible(submitted[j])
      BY DEF Admissible
    <3> QED  BY <3>1 DEF StoreAfter
  <2>2. CASE /\ \A j \in EffectiveAmong(h) : submitted[j].id # id
             /\ store.sources[id] = "CompiledDefault"
             /\ ~Copying(id) => store.values[id] = defaultValue[id]
    BY <1>1, <1>2, <1>5, <2>1, <2>2
  <2>3. CASE \E i \in 1..h :
               /\ LastAmong(h, id, i)
               /\ store.sources[id] = submitted[i].source
               /\ ~Copying(id) => store.values[id] = submitted[i].text.value
    BY <1>2, <1>4, <2>1, <2>3
  <2> QED  BY <2>2, <2>3 DEF StoreAfter
<1>8. owner' = "copied" => Result' = "OK" /\ store'.values[request'.id] = request'.text.value
  BY <1>3 DEF StoreAfter
<1> QED  BY <1>6, <1>7, <1>8 DEF StoreAfter

\* A request that is refused changes nothing, and does not take effect.
LEMMA StoreAfterReject ==
  ASSUME TypeOK, NEW h \in Nat, h + 1 \in 1..Len(submitted), request = submitted[h + 1],
         StoreAfter(h), RejectUpdate
  PROVE  StoreAfter(h + 1)'
<1>1. /\ owner = "check" /\ Result # "OK" /\ owner' = "pop"
      /\ UNCHANGED <<store, submitted>>
  BY DEF RejectUpdate, histories
<1>2. EffectiveAmong(h + 1) = EffectiveAmong(h) /\ EffectiveAmong(h + 1)' = EffectiveAmong(h + 1)
  <2>1. \A j \in 1..(h + 1) : submitted'[j] = submitted[j]
    BY <1>1
  <2>2. h + 1 \notin EffectiveAmong(h + 1)
    BY <1>1, AcceptedMeansEffective
  <2>3. EffectiveAmong(h + 1) = EffectiveAmong(h)
    BY <2>2, EffectiveNext
  <2>4. h + 1 \in Nat
    OBVIOUS
  <2>5. EffectiveAmong(h + 1)' = EffectiveAmong(h + 1)
    BY <2>1, <2>4, EffectiveKept
  <2> QED  BY <2>3, <2>5
<1>3. \A id : ~Copying(id) /\ ~Copying(id)'
  BY <1>1 DEF Copying
<1>4. store'.generation = Cardinality(EffectiveAmong(h + 1)')
  BY <1>1, <1>2 DEF StoreAfter
<1>5. ASSUME NEW id \in ParameterID
      PROVE  /\ \A j \in 1..(h + 1) : submitted'[j].id = id /\ Admissible(submitted[j])' =>
                  precedence[submitted'[j].source] <= precedence[store'.sources[id]]
             /\ \/ /\ \A j \in EffectiveAmong(h + 1)' : submitted'[j].id # id
                   /\ store'.sources[id] = "CompiledDefault"
                   /\ ~Copying(id)' => store'.values[id] = defaultValue[id]
                \/ \E i \in 1..(h + 1) :
                   /\ LastAmong(h + 1, id, i)'
                   /\ store'.sources[id] = submitted'[i].source
                   /\ ~Copying(id)' => store'.values[id] = submitted'[i].text.value
  <2>1. ASSUME NEW j \in 1..(h + 1), submitted[j].id = id, Admissible(submitted[j])
        PROVE  precedence[submitted[j].source] <= precedence[store.sources[id]]
    <3>1. CASE j \in 1..h
      BY <2>1, <3>1 DEF StoreAfter
    <3>2. CASE j = h + 1
      BY <1>1, <2>1, <3>2, AcceptedMeansEffective
    <3> QED  BY <3>1, <3>2
  <2>2. \A j \in 1..(h + 1) : Admissible(submitted[j])' <=> Admissible(submitted[j])
    BY <1>1 DEF Admissible
  <2>3. CASE /\ \A j \in EffectiveAmong(h) : submitted[j].id # id
             /\ store.sources[id] = "CompiledDefault"
             /\ ~Copying(id) => store.values[id] = defaultValue[id]
    BY <1>1, <1>2, <1>3, <2>1, <2>2, <2>3
  <2>4. CASE \E i \in 1..h :
               /\ LastAmong(h, id, i)
               /\ store.sources[id] = submitted[i].source
               /\ ~Copying(id) => store.values[id] = submitted[i].text.value
    <3>1. PICK i \in 1..h : /\ LastAmong(h, id, i)
                            /\ store.sources[id] = submitted[i].source
                            /\ store.values[id] = submitted[i].text.value
      BY <1>3, <2>4
    <3>2. LastAmong(h + 1, id, i)'
      BY <1>1, <1>2, <3>1 DEF LastAmong
    <3> QED  BY <1>1, <2>1, <2>2, <3>1, <3>2
  <2> QED  BY <2>3, <2>4 DEF StoreAfter
<1> QED  BY <1>1, <1>4, <1>5 DEF StoreAfter

\* What the two halves of set do to the store.
LEMMA CopyFacts ==
  ASSUME NEW s \in Store, NEW id \in ParameterID, NEW v \in Int, validate(id, v),
         NEW t, t = CopyValue(s, id, v)
  PROVE  /\ t \in Store /\ t.sources = s.sources /\ t.generation = s.generation
         /\ t.values[id] = v
         /\ \A i \in ParameterID : i # id => t.values[i] = s.values[i]
<1> DEFINE w == [s.values EXCEPT ![id] = v]
<1>1. /\ s.values \in [ParameterID -> Int] /\ \A i \in ParameterID : validate(i, s.values[i])
      /\ s.sources \in [ParameterID -> ParameterSource] /\ s.generation \in Nat
      /\ s = [values |-> s.values, sources |-> s.sources, generation |-> s.generation]
  BY DEF Store, ParameterValues
<1>2. t = [values |-> w, sources |-> s.sources, generation |-> s.generation]
  BY <1>1 DEF CopyValue
<1>3. w \in [ParameterID -> Int] /\ w[id] = v /\ \A i \in ParameterID : i # id => w[i] = s.values[i]
  BY <1>1
<1>4. \A i \in ParameterID : validate(i, w[i])
  BY <1>1, <1>3
<1> HIDE DEF w
<1>5. w \in ParameterValues
  BY <1>3, <1>4 DEF ParameterValues
<1> QED  BY <1>1, <1>2, <1>3, <1>5 DEF Store

LEMMA RecordFacts ==
  ASSUME NEW s \in Store, NEW id \in ParameterID, NEW src \in ParameterSource,
         NEW t, t = RecordUpdate(s, id, src)
  PROVE  /\ t \in Store /\ t.values = s.values /\ t.generation = s.generation + 1
         /\ t.sources[id] = src
         /\ \A i \in ParameterID : i # id => t.sources[i] = s.sources[i]
<1> DEFINE w == [s.sources EXCEPT ![id] = src]
<1>1. /\ s.values \in ParameterValues
      /\ s.sources \in [ParameterID -> ParameterSource] /\ s.generation \in Nat
      /\ s = [values |-> s.values, sources |-> s.sources, generation |-> s.generation]
  BY DEF Store
<1>2. t = [values |-> s.values, sources |-> w, generation |-> s.generation + 1]
  BY <1>1 DEF RecordUpdate
<1>3. /\ w \in [ParameterID -> ParameterSource] /\ w[id] = src
      /\ \A i \in ParameterID : i # id => w[i] = s.sources[i]
  BY <1>1
<1> HIDE DEF w
<1> QED  BY <1>1, <1>2, <1>3 DEF Store

LEMMA RequestType ==
  ASSUME TypeOK, request # None
  PROVE  /\ request \in ParameterUpdateRequest /\ request.id \in ParameterID
         /\ request.source \in ParameterSource /\ request.text.value \in Int
         /\ Result = "OK" => validate(request.id, request.text.value)
<1>1. request \in ParameterUpdateRequest
  BY DEF TypeOK
<1>2. /\ request.id \in ParameterID /\ request.source \in ParameterSource
      /\ request.text.value \in Int
  BY <1>1 DEF ParameterUpdateRequest, Text
<1>3. Result = "OK" => validate(request.id, request.text.value)
  BY DEF Result, CheckText, CheckUpdate
<1> QED  BY <1>1, <1>2, <1>3

\* The value of an accepted request is in the store before anything else of it.
LEMMA StoreAfterAccept ==
  ASSUME TypeOK, NEW h \in Nat, StoreAfter(h), AcceptUpdate, request # None
  PROVE  StoreAfter(h)'
<1>1. /\ owner = "check" /\ Result = "OK" /\ owner' = "copied"
      /\ store' = CopyValue(store, request.id, request.text.value)
      /\ UNCHANGED <<request, submitted>>
  BY DEF AcceptUpdate
<1>2. /\ store'.sources = store.sources /\ store'.generation = store.generation
      /\ store'.values[request.id] = request.text.value
      /\ \A i \in ParameterID : i # request.id => store'.values[i] = store.values[i]
  <2>1. store \in Store
    BY DEF TypeOK
  <2> QED  BY <1>1, <2>1, RequestType, CopyFacts
<1>3. EffectiveAmong(h)' = EffectiveAmong(h)
  BY <1>1, EffectiveKept
<1>4. \A id : ~Copying(id) /\ (Copying(id)' <=> request.id = id)
  BY <1>1 DEF Copying
<1>5. Result' = "OK"
  BY <1>1, <1>2 DEF Result, CheckText, CheckUpdate
<1>6. store'.generation = Cardinality(EffectiveAmong(h)')
  BY <1>2, <1>3 DEF StoreAfter
<1>7. ASSUME NEW id \in ParameterID
      PROVE  /\ \A j \in 1..h : submitted'[j].id = id /\ Admissible(submitted[j])' =>
                  precedence[submitted'[j].source] <= precedence[store'.sources[id]]
             /\ \/ /\ \A j \in EffectiveAmong(h)' : submitted'[j].id # id
                   /\ store'.sources[id] = "CompiledDefault"
                   /\ ~Copying(id)' => store'.values[id] = defaultValue[id]
                \/ \E i \in 1..h :
                   /\ LastAmong(h, id, i)'
                   /\ store'.sources[id] = submitted'[i].source
                   /\ ~Copying(id)' => store'.values[id] = submitted'[i].text.value
  <2>1. \A j \in 1..h : submitted'[j].id = id /\ Admissible(submitted[j])' =>
                  precedence[submitted'[j].source] <= precedence[store'.sources[id]]
    <3>1. \A j \in 1..h : Admissible(submitted[j])' <=> Admissible(submitted[j])
      BY <1>1 DEF Admissible
    <3> QED  BY <1>1, <1>2, <3>1 DEF StoreAfter
  <2>2. ~Copying(id)' => store'.values[id] = store.values[id]
    BY <1>2, <1>4
  <2>3. \A i \in 1..h : LastAmong(h, id, i)' <=> LastAmong(h, id, i)
    BY <1>1, <1>3 DEF LastAmong
  <2>4. CASE /\ \A j \in EffectiveAmong(h) : submitted[j].id # id
             /\ store.sources[id] = "CompiledDefault"
             /\ store.values[id] = defaultValue[id]
    BY <1>1, <1>2, <1>3, <2>1, <2>2, <2>4
  <2>5. CASE \E i \in 1..h :
               /\ LastAmong(h, id, i)
               /\ store.sources[id] = submitted[i].source
               /\ store.values[id] = submitted[i].text.value
    BY <1>1, <1>2, <2>1, <2>2, <2>3, <2>5
  <2> QED  BY <1>4, <2>4, <2>5 DEF StoreAfter
<1>8. owner' = "copied" => Result' = "OK" /\ store'.values[request'.id] = request'.text.value
  BY <1>1, <1>2, <1>5
<1> QED  BY <1>6, <1>7, <1>8 DEF StoreAfter

\* With the provenance and the generation the request has taken effect.
LEMMA StoreAfterFinish ==
  ASSUME TypeOK, NEW h \in Nat, h + 1 \in 1..Len(submitted), request = submitted[h + 1],
         StoreAfter(h), FinishUpdate, request # None
  PROVE  StoreAfter(h + 1)'
<1>1. /\ owner = "copied" /\ owner' = "notify"
      /\ store' = RecordUpdate(store, request.id, request.source)
      /\ UNCHANGED <<request, submitted>>
  BY DEF FinishUpdate, histories
<1>2. /\ store'.values = store.values /\ store'.generation = store.generation + 1
      /\ store'.sources[request.id] = request.source
      /\ \A i \in ParameterID : i # request.id => store'.sources[i] = store.sources[i]
  <2>1. store \in Store
    BY DEF TypeOK
  <2> QED  BY <1>1, <2>1, RequestType, RecordFacts
<1>3. Result = "OK" /\ store.values[request.id] = request.text.value
  BY <1>1 DEF StoreAfter
<1>4. h + 1 \in EffectiveAmong(h + 1)
  BY <1>3, AcceptedMeansEffective
<1>5. EffectiveAmong(h + 1) = EffectiveAmong(h) \cup {h + 1}
  BY <1>4, EffectiveNext
<1>6. EffectiveAmong(h + 1)' = EffectiveAmong(h + 1)
  <2>1. h + 1 \in Nat /\ \A j \in 1..(h + 1) : submitted'[j] = submitted[j]
    BY <1>1
  <2> QED  BY <2>1, EffectiveKept
<1>7. \A id : Copying(id) <=> request.id = id
  BY <1>1 DEF Copying
<1>8. \A id : ~Copying(id)'
  BY <1>1 DEF Copying
<1>9. /\ EffectiveAmong(h) \subseteq 1..h /\ h + 1 \notin EffectiveAmong(h)
      /\ Cardinality(EffectiveAmong(h + 1)) = Cardinality(EffectiveAmong(h)) + 1
  <2>1. /\ IsFiniteSet(EffectiveAmong(h)) /\ EffectiveAmong(h) \subseteq 1..h
    BY EffectiveIsFinite
  <2>2. h + 1 \notin EffectiveAmong(h)
    BY <2>1
  <2> QED  BY <1>5, <2>1, <2>2, FS_AddElement
<1>10. store'.generation = Cardinality(EffectiveAmong(h + 1)')
  BY <1>2, <1>6, <1>9 DEF StoreAfter
<1>11. \A j \in 1..(h + 1) : /\ Admissible(submitted[j])' <=> Admissible(submitted[j])
                             /\ submitted'[j] = submitted[j]
  BY <1>1 DEF Admissible
<1>12. ASSUME NEW id \in ParameterID, id # request.id
      PROVE  /\ \A j \in 1..(h + 1) : submitted'[j].id = id /\ Admissible(submitted[j])' =>
                  precedence[submitted'[j].source] <= precedence[store'.sources[id]]
             /\ \/ /\ \A j \in EffectiveAmong(h + 1)' : submitted'[j].id # id
                   /\ store'.sources[id] = "CompiledDefault"
                   /\ ~Copying(id)' => store'.values[id] = defaultValue[id]
                \/ \E i \in 1..(h + 1) :
                   /\ LastAmong(h + 1, id, i)'
                   /\ store'.sources[id] = submitted'[i].source
                   /\ ~Copying(id)' => store'.values[id] = submitted'[i].text.value
  <2>1. store'.sources[id] = store.sources[id] /\ store'.values[id] = store.values[id] /\ ~Copying(id)
    BY <1>2, <1>7, <1>12
  <2>2. \A j \in 1..(h + 1) : submitted'[j].id = id /\ Admissible(submitted[j])' =>
                  precedence[submitted'[j].source] <= precedence[store'.sources[id]]
    <3>1. \A j \in 1..h : submitted[j].id = id /\ Admissible(submitted[j]) =>
                  precedence[submitted[j].source] <= precedence[store.sources[id]]
      BY DEF StoreAfter
    <3>2. \A j \in 1..(h + 1) : j \in 1..h \/ j = h + 1
      OBVIOUS
    <3> QED  BY <1>11, <1>12, <2>1, <3>1, <3>2
  <2>3. \A i \in 1..h : LastAmong(h, id, i) => LastAmong(h + 1, id, i)'
    BY <1>1, <1>5, <1>6, <1>12 DEF LastAmong
  <2>4. CASE /\ \A j \in EffectiveAmong(h) : submitted[j].id # id
             /\ store.sources[id] = "CompiledDefault"
             /\ store.values[id] = defaultValue[id]
    BY <1>1, <1>5, <1>6, <1>12, <2>1, <2>2, <2>4
  <2>5. CASE \E i \in 1..h :
               /\ LastAmong(h, id, i)
               /\ store.sources[id] = submitted[i].source
               /\ store.values[id] = submitted[i].text.value
    <3>1. PICK i \in 1..h : /\ LastAmong(h, id, i)
                            /\ store.sources[id] = submitted[i].source
                            /\ store.values[id] = submitted[i].text.value
      BY <2>5
    <3>2. i \in 1..(h + 1)
      OBVIOUS
    <3> QED  BY <1>1, <2>1, <2>2, <2>3, <3>1, <3>2
  <2> QED  BY <2>1, <2>4, <2>5 DEF StoreAfter
<1>13. ASSUME NEW id \in ParameterID, id = request.id
      PROVE  /\ \A j \in 1..(h + 1) : submitted'[j].id = id /\ Admissible(submitted[j])' =>
                  precedence[submitted'[j].source] <= precedence[store'.sources[id]]
             /\ \E i \in 1..(h + 1) :
                   /\ LastAmong(h + 1, id, i)'
                   /\ store'.sources[id] = submitted'[i].source
                   /\ ~Copying(id)' => store'.values[id] = submitted'[i].text.value
  <2>1. store'.sources[id] = request.source /\ store'.values[id] = request.text.value
    BY <1>2, <1>3, <1>13
  <2>2. \A j \in 1..((h + 1) - 1) : submitted[j].id = submitted[h + 1].id /\ Admissible(submitted[j]) =>
           precedence[submitted[j].source] <= precedence[submitted[h + 1].source]
    BY <1>4 DEF EffectiveAmong
  <2>3. precedence[request.source] <= precedence[request.source]
    BY RequestType, PrecedenceType
  <2>4. \A j \in 1..(h + 1) : j \in 1..((h + 1) - 1) \/ j = h + 1
    OBVIOUS
  <2>5. \A j \in 1..(h + 1) : submitted'[j].id = id /\ Admissible(submitted[j])' =>
                  precedence[submitted'[j].source] <= precedence[store'.sources[id]]
    BY <1>11, <1>13, <2>1, <2>2, <2>3, <2>4
  <2>6. LastAmong(h + 1, id, h + 1)'
    <3>1. \A j \in EffectiveAmong(h + 1) : j <= h + 1
      BY DEF EffectiveAmong
    <3> QED  BY <1>1, <1>4, <1>6, <1>13, <3>1 DEF LastAmong
  <2>7. h + 1 \in 1..(h + 1)
    OBVIOUS
  <2> QED  BY <1>1, <2>1, <2>5, <2>6, <2>7
<1> QED  BY <1>1, <1>10, <1>12, <1>13 DEF StoreAfter

--------------------------------------------------------------------------------
(* The steps *)

LEMMA Sizes ==
  ASSUME Inv
  PROVE  /\ Len(submitted) \in Nat /\ Len(updates) \in Nat /\ Len(notes) \in Nat
         /\ Len(reports) \in Nat /\ store.generation \in Nat
         /\ Handled \in Nat /\ InHand \in {0, 1}
         /\ Len(submitted) = Handled + InHand + Len(updates)
         /\ StoreAfter(Handled)
<1>1. /\ Len(submitted) \in Nat /\ Len(updates) \in Nat /\ Len(notes) \in Nat
      /\ Len(reports) \in Nat
  BY QueueFacts DEF Inv, TypeOK, updateQueue!TypeOK, notificationQueue!TypeOK
<1>2. store.generation \in Nat
  BY DEF Inv, TypeOK, Store
<1>3. InHand \in {0, 1}
  BY DEF InHand
<1>4. StoreAfter(Handled) /\ Handled \in Nat
  BY DEF Inv, StoreFollows
<1>5. Len(submitted) = Handled + InHand + Len(updates)
  BY <1>1, <1>3 DEF Handled
<1> QED  BY <1>1, <1>2, <1>3, <1>4, <1>5

\* What is in the owner's hands is a request.
LEMMA RequestInHand ==
  ASSUME Inv, owner \in {"check", "copied"}
  PROVE  /\ InHand = 1 /\ Handled + 1 \in 1..Len(submitted)
         /\ request = submitted[Handled + 1] /\ request # None
<1>1. InHand = 1
  BY DEF InHand
<1>2. Handled + 1 \in 1..Len(submitted)
  BY <1>1, Sizes
<1>3. request = submitted[Handled + 1]
  BY DEF Inv, UpdatesInOrder
<1>4. request \in ParameterUpdateRequest
  BY <1>2, <1>3, QueueFacts DEF Inv, TypeOK
<1> QED  BY <1>1, <1>2, <1>3, <1>4, LabAssumption

\* The producer's steps, and those of the consumer, leave the owner's part as it is.
LEMMA StoreFollowsKept ==
  ASSUME Inv, UNCHANGED <<owner, request, store>>, Handled' = Handled,
         \A j \in 1..Len(submitted) : submitted'[j] = submitted[j]
  PROVE  StoreFollows'
<1>1. PICK h \in Nat : h = Handled
  BY Sizes
<1>2. StoreAfter(h)
  BY <1>1, Sizes
<1>3. \A j \in 1..h : submitted'[j] = submitted[j]
  <2>1. h <= Len(submitted)
    BY <1>1, Sizes
  <2> QED  BY <2>1, Sizes
<1>4. StoreAfter(h)'
  BY <1>2, <1>3, StoreKept
<1>5. h = Handled'
  BY <1>1
<1> QED  BY <1>4, <1>5 DEF StoreFollows

LEMMA ChangesKept ==
  ASSUME ChangesInOrder, UNCHANGED <<consumer, event, notes, notesStopped, store, writtenBy, reports>>,
         owner' = owner, UNCHANGED request
  PROVE  ChangesInOrder'
BY DEF ChangesInOrder, Announcing, Printing, WrittenSince, Copying

LEMMA UpdatesKept ==
  ASSUME UpdatesInOrder, UNCHANGED <<producer, owner, updates, updatesStopped, request, submitted>>
  PROVE  UpdatesInOrder' /\ Handled' = Handled
BY DEF UpdatesInOrder, Handled, InHand

LEMMA SkipKeepsInv ==
  ASSUME Inv, SkipRequest
  PROVE  Inv'
<1>1. /\ script # <<>> /\ script' = Tail(script)
      /\ UNCHANGED <<producer, owner, consumer, updates, updatesStopped, notes, notesStopped,
                     request, event, store, submitted, writtenBy, reports>>
  BY DEF SkipRequest, updateVars, noteVars, histories
<1>2. TypeOK'
  <2>1. Tail(script) \in Seq(ParameterUpdateRequest)
    BY <1>1, QueueFacts DEF Inv, TypeOK
  <2> QED  BY <1>1, <2>1 DEF Inv, TypeOK, updateQueue!TypeOK, notificationQueue!TypeOK
<1>3. UpdatesInOrder' /\ Handled' = Handled
  BY <1>1, UpdatesKept DEF Inv
<1>4. StoreFollows'
  BY <1>1, <1>3, StoreFollowsKept
<1>5. ChangesInOrder'
  BY <1>1, ChangesKept DEF Inv
<1> QED  BY <1>2, <1>3, <1>4, <1>5 DEF Inv

LEMMA SubmitKeepsInv ==
  ASSUME Inv, SubmitRequest
  PROVE  Inv'
<1>1. PICK r : r = Head(script)
  OBVIOUS
<1>2. /\ producer = "submit" /\ script # <<>> /\ script' = Tail(script)
      /\ ~updatesStopped /\ Len(updates) < Capacity
      /\ updates' = Append(updates, r) /\ submitted' = Append(submitted, r)
      /\ UNCHANGED <<producer, owner, consumer, updatesStopped, notes, notesStopped,
                     request, event, store, writtenBy, reports>>
  BY <1>1 DEF SubmitRequest, noteVars, updateQueue!Push
<1>3. r \in ParameterUpdateRequest /\ Tail(script) \in Seq(ParameterUpdateRequest)
  BY <1>1, <1>2, QueueFacts DEF Inv, TypeOK
<1>4. /\ updates \in Seq(ParameterUpdateRequest) /\ submitted \in Seq(ParameterUpdateRequest)
      /\ Len(updates) \in Nat
  BY Sizes DEF Inv, TypeOK, updateQueue!TypeOK
<1>5. /\ updates' \in Seq(ParameterUpdateRequest) /\ Len(updates') = Len(updates) + 1
      /\ updates'[Len(updates) + 1] = r /\ \A i \in 1..Len(updates) : updates'[i] = updates[i]
  BY <1>2, <1>3, <1>4, QueueFacts
<1>6. /\ submitted' \in Seq(ParameterUpdateRequest) /\ Len(submitted') = Len(submitted) + 1
      /\ submitted'[Len(submitted) + 1] = r
      /\ \A i \in 1..Len(submitted) : submitted'[i] = submitted[i]
  BY <1>2, <1>3, <1>4, QueueFacts
<1>7. TypeOK'
  <2>1. Len(updates') <= Capacity
    BY <1>2, <1>4, <1>5, LabAssumption
  <2> QED  BY <1>2, <1>3, <1>5, <1>6, <2>1 DEF Inv, TypeOK, updateQueue!TypeOK, notificationQueue!TypeOK
<1>8. Handled' = Handled /\ InHand' = InHand
  <2>1. InHand' = InHand
    BY <1>2 DEF InHand
  <2> QED  BY <1>5, <1>6, <2>1, Sizes DEF Handled
<1>9. UpdatesInOrder'
  <2>1. ASSUME NEW i \in 1..Len(updates')
        PROVE  updates'[i] = submitted'[Handled' + InHand' + i]
    <3>1. CASE i \in 1..Len(updates)
      <4>1. Handled + InHand + i \in 1..Len(submitted)
        BY <3>1, Sizes
      <4>2. updates[i] = submitted[Handled + InHand + i]
        BY <3>1 DEF Inv, UpdatesInOrder
      <4> QED  BY <1>5, <1>6, <1>8, <3>1, <4>1, <4>2
    <3>2. CASE i = Len(updates) + 1
      <4>1. Handled + InHand + i = Len(submitted) + 1
        BY <3>2, Sizes
      <4> QED  BY <1>5, <1>6, <1>8, <3>2, <4>1
    <3> QED  BY <1>4, <1>5, <3>1, <3>2
  <2>2. owner' \in {"check", "copied"} => request' = submitted'[Handled' + 1]
    BY <1>2, <1>6, <1>8, RequestInHand
  <2>3. owner' # "done"
    BY <1>2 DEF Inv, UpdatesInOrder
  <2> QED  BY <1>2, <1>8, <2>1, <2>2, <2>3, Sizes DEF Inv, UpdatesInOrder
<1>10. StoreFollows'
  BY <1>2, <1>6, <1>8, StoreFollowsKept
<1>11. ChangesInOrder'
  BY <1>2, ChangesKept DEF Inv
<1> QED  BY <1>7, <1>9, <1>10, <1>11 DEF Inv

LEMMA StopUpdatesKeepsInv ==
  ASSUME Inv, StopUpdates
  PROVE  Inv'
<1>1. /\ producer' = "done" /\ updatesStopped' = TRUE
      /\ UNCHANGED <<script, owner, consumer, updates, notes, notesStopped,
                     request, event, store, submitted, writtenBy, reports>>
  BY DEF StopUpdates, noteVars, histories, updateQueue!Stop
<1>2. TypeOK'
  BY <1>1 DEF Inv, TypeOK, updateQueue!TypeOK, notificationQueue!TypeOK
<1>3. Handled' = Handled /\ InHand' = InHand
  BY <1>1 DEF Handled, InHand
<1>4. UpdatesInOrder'
  BY <1>1, <1>3 DEF Inv, UpdatesInOrder
<1>5. StoreFollows'
  BY <1>1, <1>3, StoreFollowsKept
<1>6. ChangesInOrder'
  BY <1>1, ChangesKept DEF Inv
<1> QED  BY <1>2, <1>4, <1>5, <1>6 DEF Inv

LEMMA PopRequestKeepsInv ==
  ASSUME Inv, PopRequest
  PROVE  Inv'
<1>1. /\ owner = "pop" /\ updates # <<>> /\ updates' = Tail(updates)
      /\ request' = Head(updates) /\ owner' = "check"
      /\ UNCHANGED <<script, producer, consumer, updatesStopped, notes, notesStopped,
                     event, store, submitted, writtenBy, reports>>
  BY DEF PopRequest, noteVars, histories, updateQueue!Pop
<1>2. updates \in Seq(ParameterUpdateRequest)
  BY DEF Inv, TypeOK, updateQueue!TypeOK
<1>3. /\ updates' \in Seq(ParameterUpdateRequest) /\ Len(updates') = Len(updates) - 1
      /\ Len(updates) > 0 /\ request' = updates[1] /\ request' \in ParameterUpdateRequest
      /\ \A i \in 1..(Len(updates) - 1) : updates'[i] = updates[i + 1]
  BY <1>1, <1>2, QueueFacts
<1>4. InHand = 0 /\ InHand' = 1
  BY <1>1 DEF InHand
<1>5. Handled' = Handled
  BY <1>1, <1>3, <1>4, Sizes DEF Handled
<1>6. TypeOK'
  <2>1. Len(updates') <= Capacity
    BY <1>3, Sizes, LabAssumption DEF Inv, TypeOK, updateQueue!TypeOK
  <2> QED  BY <1>1, <1>3, <2>1 DEF Inv, TypeOK, updateQueue!TypeOK, notificationQueue!TypeOK
<1>7. UpdatesInOrder'
  <2>1. \A i \in 1..Len(updates) : updates[i] = submitted[Handled + i]
    BY <1>4, Sizes DEF Inv, UpdatesInOrder
  <2>2. ASSUME NEW i \in 1..Len(updates')
        PROVE  updates'[i] = submitted'[Handled' + InHand' + i]
    <3>1. i + 1 \in 1..Len(updates) /\ Handled + (i + 1) = Handled' + InHand' + i
      BY <1>3, <1>4, <1>5, Sizes
    <3> QED  BY <1>1, <1>3, <2>1, <2>2, <3>1
  <2>3. request' = submitted'[Handled' + 1]
    BY <1>1, <1>3, <1>5, <2>1, Sizes
  <2> QED  BY <1>1, <1>5, <2>2, <2>3, Sizes DEF Inv, UpdatesInOrder
<1>8. StoreFollows'
  <2>1. PICK h \in Nat : h = Handled
    BY Sizes
  <2>2. StoreAfter(h)
    BY <2>1, Sizes
  <2>3. StoreAfter(h)'
    BY <1>1, <2>2, StoreKept
  <2>4. h = Handled'
    BY <1>5, <2>1
  <2> QED  BY <2>3, <2>4 DEF StoreFollows
<1>9. ChangesInOrder'
  BY <1>1 DEF Inv, ChangesInOrder, Announcing, Printing, WrittenSince, Copying
<1> QED  BY <1>6, <1>7, <1>8, <1>9 DEF Inv

\* One more request has been handled.
LEMMA HandledNext ==
  ASSUME Inv, owner \in {"check", "copied"}, owner' \notin {"check", "copied"},
         UNCHANGED <<updates, submitted>>
  PROVE  Handled' = Handled + 1 /\ InHand' = 0 /\ Handled' + InHand' = Handled + InHand
<1>1. InHand = 1 /\ InHand' = 0
  BY DEF InHand
<1>2. Handled' = Handled + 1
  BY <1>1, Sizes DEF Handled
<1> QED  BY <1>1, <1>2, Sizes

LEMMA RejectKeepsInv ==
  ASSUME Inv, RejectUpdate
  PROVE  Inv'
<1>1. /\ owner = "check" /\ owner' = "pop" /\ request' = None
      /\ UNCHANGED <<script, producer, consumer, updates, updatesStopped, notes, notesStopped,
                     event, store, submitted, writtenBy, reports>>
  BY DEF RejectUpdate, updateVars, noteVars, histories
<1>2. TypeOK'
  BY <1>1 DEF Inv, TypeOK, updateQueue!TypeOK, notificationQueue!TypeOK
<1>3. Handled' = Handled + 1 /\ Handled' + InHand' = Handled + InHand
  BY <1>1, HandledNext
<1>4. UpdatesInOrder'
  BY <1>1, <1>3, Sizes DEF Inv, UpdatesInOrder
<1>5. StoreFollows'
  <2>1. PICK h \in Nat : h = Handled
    BY Sizes
  <2>2. StoreAfter(h) /\ h + 1 \in 1..Len(submitted) /\ request = submitted[h + 1]
    BY <1>1, <2>1, Sizes, RequestInHand
  <2>3. StoreAfter(h + 1)'
    BY <2>2, StoreAfterReject DEF Inv
  <2>4. h + 1 \in Nat /\ h + 1 = Handled'
    BY <1>3, <2>1
  <2> QED  BY <2>3, <2>4 DEF StoreFollows
<1>6. ChangesInOrder'
  BY <1>1 DEF Inv, ChangesInOrder, Announcing, Printing, WrittenSince, Copying
<1> QED  BY <1>2, <1>4, <1>5, <1>6 DEF Inv

LEMMA AcceptKeepsInv ==
  ASSUME Inv, AcceptUpdate
  PROVE  Inv'
<1>1. /\ owner = "check" /\ owner' = "copied" /\ Result = "OK"
      /\ store' = CopyValue(store, request.id, request.text.value)
      /\ writtenBy' = [writtenBy EXCEPT ![request.id] = store.generation + 1]
      /\ UNCHANGED <<script, producer, consumer, updates, updatesStopped, notes, notesStopped,
                     request, event, submitted, reports>>
  BY DEF AcceptUpdate, updateVars, noteVars
<1>2. request # None
  BY <1>1, RequestInHand
<1>3. /\ request.id \in ParameterID /\ request.text.value \in Int
      /\ validate(request.id, request.text.value)
  BY <1>1, <1>2, RequestType DEF Inv
<1>4. store' \in Store /\ store'.generation = store.generation
  <2>1. store \in Store
    BY DEF Inv, TypeOK
  <2> QED  BY <1>1, <1>3, <2>1, CopyFacts
<1>5. /\ writtenBy' \in [ParameterID -> Nat] /\ writtenBy \in [ParameterID -> Nat]
      /\ writtenBy'[request.id] = store.generation + 1
      /\ \A id \in ParameterID : id # request.id => writtenBy'[id] = writtenBy[id]
  BY <1>1, <1>3, Sizes DEF Inv, TypeOK
<1>6. TypeOK'
  BY <1>1, <1>4, <1>5 DEF Inv, TypeOK, updateQueue!TypeOK, notificationQueue!TypeOK
<1>7. Handled' = Handled /\ InHand' = InHand
  BY <1>1 DEF Handled, InHand
<1>8. UpdatesInOrder'
  BY <1>1, <1>7 DEF Inv, UpdatesInOrder
<1>9. StoreFollows'
  <2>1. PICK h \in Nat : h = Handled
    BY Sizes
  <2>2. StoreAfter(h)
    BY <2>1, Sizes
  <2>3. StoreAfter(h)'
    BY <1>2, <2>2, StoreAfterAccept DEF Inv
  <2>4. h = Handled'
    BY <1>7, <2>1
  <2> QED  BY <2>3, <2>4 DEF StoreFollows
<1>10. ChangesInOrder'
  <2>1. \A id : ~Copying(id) /\ (Copying(id)' <=> request.id = id)
    BY <1>1 DEF Copying
  <2>2. \A id \in ParameterID : writtenBy[id] <= store.generation
    BY <2>1, Sizes DEF Inv, ChangesInOrder
  <2>3. \A id \in ParameterID : writtenBy[id] <= writtenBy'[id]
    BY <1>5, <2>2, Sizes
  <2>4. ASSUME NEW e \in ParameterChangeEvent, WrittenSince(e)
        PROVE  writtenBy'[e.id] >= e.generation
    BY <1>5, <2>3, <2>4 DEF WrittenSince, ParameterChangeEvent
  <2>5. \A id \in ParameterID :
           writtenBy'[id] <= store'.generation + (IF Copying(id)' THEN 1 ELSE 0)
    BY <1>4, <1>5, <2>1, <2>2, Sizes
  <2>6. \A i \in 1..Len(notes) : /\ notes'[i].generation = Len(reports') + Printing' + i
                                 /\ writtenBy'[notes'[i].id] >= notes'[i].generation
    <3>1. \A i \in 1..Len(notes) : notes[i] \in ParameterChangeEvent
      BY QueueFacts DEF Inv, TypeOK, notificationQueue!TypeOK
    <3> QED  BY <1>1, <2>4, <3>1 DEF Inv, ChangesInOrder, Printing
  <2>7. consumer' = "print" => /\ event'["consumer"] \in ParameterChangeEvent
                               /\ event'["consumer"].generation = Len(reports') + 1
                               /\ writtenBy'[event'["consumer"].id] >= event'["consumer"].generation
    BY <1>1, <2>4 DEF Inv, ChangesInOrder
  <2>8. store'.generation = Len(reports') + Printing' + Len(notes') + Announcing'
    BY <1>1, <1>4 DEF Inv, ChangesInOrder, Announcing, Printing
  <2> QED  BY <1>1, <1>4, <1>5, <2>5, <2>6, <2>7, <2>8 DEF Inv, ChangesInOrder, WrittenSince
<1> QED  BY <1>6, <1>8, <1>9, <1>10 DEF Inv

LEMMA FinishKeepsInv ==
  ASSUME Inv, FinishUpdate
  PROVE  Inv'
<1>1. PICK e : e = [id |-> request.id, source |-> request.source, generation |-> store'.generation]
  OBVIOUS
<1>2. /\ owner = "copied" /\ owner' = "notify"
      /\ store' = RecordUpdate(store, request.id, request.source)
      /\ event' = [event EXCEPT !["owner"] = e]
      /\ UNCHANGED <<script, producer, consumer, updates, updatesStopped, notes, notesStopped,
                     request, submitted, writtenBy, reports>>
  BY <1>1 DEF FinishUpdate, updateVars, noteVars, histories
<1>3. request # None
  BY <1>2, RequestInHand
<1>4. /\ request \in ParameterUpdateRequest /\ request.id \in ParameterID
      /\ request.source \in ParameterSource
  BY <1>3, RequestType DEF Inv
<1>5. store' \in Store /\ store'.generation = store.generation + 1
  <2>1. store \in Store
    BY DEF Inv, TypeOK
  <2> QED  BY <1>2, <1>4, <2>1, RecordFacts
<1>6. /\ e \in ParameterChangeEvent /\ e.id = request.id /\ e.generation = store'.generation
  BY <1>1, <1>4, <1>5, Sizes DEF ParameterChangeEvent
<1>7. /\ event' \in [{"owner", "consumer"} -> ParameterChangeEvent \cup {None}]
      /\ event'["owner"] = e /\ event'["consumer"] = event["consumer"]
  BY <1>2, <1>6 DEF Inv, TypeOK
<1>8. TypeOK'
  BY <1>2, <1>5, <1>7 DEF Inv, TypeOK, updateQueue!TypeOK, notificationQueue!TypeOK
<1>9. Handled' = Handled + 1 /\ Handled' + InHand' = Handled + InHand
  BY <1>2, HandledNext
<1>10. UpdatesInOrder'
  BY <1>2, <1>4, <1>9, Sizes DEF Inv, UpdatesInOrder
<1>11. StoreFollows'
  <2>1. PICK h \in Nat : h = Handled
    BY Sizes
  <2>2. StoreAfter(h) /\ h + 1 \in 1..Len(submitted) /\ request = submitted[h + 1]
    BY <1>2, <2>1, Sizes, RequestInHand
  <2>3. StoreAfter(h + 1)'
    BY <1>2, <1>3, <2>2, StoreAfterFinish DEF Inv
  <2>4. h + 1 \in Nat /\ h + 1 = Handled'
    BY <1>9, <2>1
  <2> QED  BY <2>3, <2>4 DEF StoreFollows
<1>12. ChangesInOrder'
  <2>1. \A id : ~Copying(id)' /\ (Copying(id) <=> request.id = id)
    BY <1>2 DEF Copying
  <2>2. \A id \in ParameterID : writtenBy'[id] <= store'.generation + (IF Copying(id)' THEN 1 ELSE 0)
    <3>1. \A id \in ParameterID : writtenBy[id] <= store.generation + (IF Copying(id) THEN 1 ELSE 0)
      BY DEF Inv, ChangesInOrder
    <3>2. \A id \in ParameterID : writtenBy[id] \in Nat
      BY DEF Inv, TypeOK
    <3>3. ASSUME NEW id \in ParameterID  PROVE writtenBy[id] <= store.generation + 1
      <4>1. store.generation \in Nat /\ writtenBy[id] \in Nat
        BY <3>2, Sizes
      <4>2. CASE Copying(id)
        BY <3>1, <4>2
      <4>3. CASE ~Copying(id)
        <5>1. writtenBy[id] <= store.generation
          BY <3>1, <4>1, <4>3
        <5> QED  BY <4>1, <5>1
      <4> QED  BY <4>2, <4>3
    <3>4. ASSUME NEW id \in ParameterID
          PROVE  writtenBy'[id] <= store'.generation + (IF Copying(id)' THEN 1 ELSE 0)
      <4>1. writtenBy'[id] = writtenBy[id] /\ store'.generation = store.generation + 1 /\ ~Copying(id)'
        BY <1>2, <1>5, <2>1
      <4>2. store'.generation \in Nat
        BY <4>1, Sizes
      <4> QED  BY <3>3, <4>1, <4>2
    <3> QED  BY <3>4
  <2>3. store'.generation = Len(reports') + Printing' + Len(notes') + Announcing'
    <3>1. Announcing = 0 /\ Announcing' = 1 /\ Printing' = Printing /\ Printing \in {0, 1}
      BY <1>2 DEF Announcing, Printing
    <3> QED  BY <1>2, <1>5, <3>1, Sizes DEF Inv, ChangesInOrder
  <2>4. writtenBy'[e.id] >= e.generation
    BY <1>2, <1>5, <1>6, Sizes DEF Inv, ChangesInOrder
  <2>5. \A i \in 1..Len(notes) : /\ notes'[i].generation = Len(reports') + Printing' + i
                                 /\ writtenBy'[notes'[i].id] >= notes'[i].generation
    BY <1>2 DEF Inv, ChangesInOrder, Printing, WrittenSince
  <2>6. consumer' = "print" => /\ event'["consumer"] \in ParameterChangeEvent
                               /\ event'["consumer"].generation = Len(reports') + 1
                               /\ writtenBy'[event'["consumer"].id] >= event'["consumer"].generation
    BY <1>2, <1>7 DEF Inv, ChangesInOrder, WrittenSince
  <2>7. /\ \A k \in 1..Len(reports') : reports'[k][1] = k /\ reports'[k][2] >= k
        /\ notesStopped' => owner' = "done"
        /\ consumer' = "done" => notes' = <<>> /\ notesStopped'
    BY <1>2 DEF Inv, ChangesInOrder
  <2> QED  BY <1>2, <1>6, <1>7, <2>2, <2>3, <2>4, <2>5, <2>6, <2>7 DEF ChangesInOrder, WrittenSince
<1> QED  BY <1>8, <1>10, <1>11, <1>12 DEF Inv

LEMMA NotifyKeepsInv ==
  ASSUME Inv, NotifyChange
  PROVE  Inv'
<1>1. PICK e : e = event["owner"]
  OBVIOUS
<1>2. /\ owner = "notify" /\ owner' = "pop" /\ request' = None
      /\ Len(notes) < Capacity /\ notes' = Append(notes, e)
      /\ event' = [event EXCEPT !["owner"] = None]
      /\ UNCHANGED <<script, producer, consumer, updates, updatesStopped, notesStopped,
                     store, submitted, writtenBy, reports>>
  BY <1>1 DEF NotifyChange, updateVars, histories, notificationQueue!Push
<1>3. /\ e \in ParameterChangeEvent /\ e.generation = store.generation
      /\ writtenBy[e.id] >= e.generation
  BY <1>1, <1>2 DEF Inv, ChangesInOrder, WrittenSince
<1>4. /\ notes' \in Seq(ParameterChangeEvent) /\ Len(notes') = Len(notes) + 1
      /\ notes'[Len(notes) + 1] = e /\ \A i \in 1..Len(notes) : notes'[i] = notes[i]
  BY <1>2, <1>3, QueueFacts DEF Inv, TypeOK, notificationQueue!TypeOK
<1>5. /\ event' \in [{"owner", "consumer"} -> ParameterChangeEvent \cup {None}]
      /\ event'["consumer"] = event["consumer"]
  BY <1>2 DEF Inv, TypeOK
<1>6. TypeOK'
  <2>1. Len(notes') <= Capacity
    BY <1>2, <1>4, Sizes, LabAssumption
  <2> QED  BY <1>2, <1>4, <1>5, <2>1 DEF Inv, TypeOK, updateQueue!TypeOK, notificationQueue!TypeOK
<1>7. Handled' = Handled /\ InHand' = InHand
  BY <1>2 DEF Handled, InHand
<1>8. UpdatesInOrder'
  BY <1>2, <1>7 DEF Inv, UpdatesInOrder
<1>9. StoreFollows'
  <2>1. PICK h \in Nat : h = Handled
    BY Sizes
  <2>2. StoreAfter(h)
    BY <2>1, Sizes
  <2>3. StoreAfter(h)'
    BY <1>2, <2>2, StoreKept
  <2>4. h = Handled'
    BY <1>7, <2>1
  <2> QED  BY <2>3, <2>4 DEF StoreFollows
<1>10. ChangesInOrder'
  <2>1. /\ Announcing = 1 /\ Announcing' = 0 /\ Printing' = Printing /\ Printing \in {0, 1}
    BY <1>2 DEF Announcing, Printing
  <2>2. store.generation = Len(reports) + Printing + Len(notes) + 1
    BY <2>1 DEF Inv, ChangesInOrder
  <2>3. store'.generation = Len(reports') + Printing' + Len(notes') + Announcing'
    BY <1>2, <1>4, <2>1, <2>2, Sizes
  <2>4. ASSUME NEW i \in 1..Len(notes')
        PROVE  /\ notes'[i].generation = Len(reports') + Printing' + i
               /\ writtenBy'[notes'[i].id] >= notes'[i].generation
    <3>1. CASE i \in 1..Len(notes)
      BY <1>2, <1>4, <2>1, <3>1 DEF Inv, ChangesInOrder, WrittenSince
    <3>2. CASE i = Len(notes) + 1
      BY <1>2, <1>3, <1>4, <2>1, <2>2, <3>2, Sizes
    <3> QED  BY <1>4, <3>1, <3>2, Sizes
  <2>5. \A id \in ParameterID : ~Copying(id) /\ ~Copying(id)'
    BY <1>2 DEF Copying
  <2>6. consumer' # "done" /\ ~notesStopped'
    <3>1. ~notesStopped
      BY <1>2 DEF NotifyChange, Inv, ChangesInOrder
    <3> QED  BY <1>2, <3>1 DEF Inv, ChangesInOrder
  <2>7. consumer' = "print" => /\ event'["consumer"] \in ParameterChangeEvent
                               /\ event'["consumer"].generation = Len(reports') + 1
                               /\ writtenBy'[event'["consumer"].id] >= event'["consumer"].generation
    BY <1>2, <1>5 DEF Inv, ChangesInOrder, WrittenSince
  <2>8. /\ \A k \in 1..Len(reports') : reports'[k][1] = k /\ reports'[k][2] >= k
        /\ \A id \in ParameterID : writtenBy'[id] <= store'.generation + (IF Copying(id)' THEN 1 ELSE 0)
    BY <1>2, <2>5 DEF Inv, ChangesInOrder
  <2> QED  BY <1>2, <2>3, <2>4, <2>6, <2>7, <2>8 DEF ChangesInOrder, WrittenSince
<1> QED  BY <1>6, <1>8, <1>9, <1>10 DEF Inv

LEMMA StopNotificationsKeepsInv ==
  ASSUME Inv, StopNotifications
  PROVE  Inv'
<1>1. /\ owner = "pop" /\ owner' = "done" /\ updatesStopped /\ updates = <<>>
      /\ notesStopped' = TRUE
      /\ UNCHANGED <<script, producer, consumer, updates, updatesStopped, notes,
                     request, event, store, submitted, writtenBy, reports>>
  BY DEF StopNotifications, updateVars, histories, notificationQueue!Stop, updateQueue!Drained
<1>2. TypeOK'
  BY <1>1 DEF Inv, TypeOK, updateQueue!TypeOK, notificationQueue!TypeOK
<1>3. Handled' = Handled /\ InHand' = InHand
  BY <1>1 DEF Handled, InHand
<1>4. UpdatesInOrder'
  BY <1>1, <1>3 DEF Inv, UpdatesInOrder
<1>5. StoreFollows'
  <2>1. PICK h \in Nat : h = Handled
    BY Sizes
  <2>2. StoreAfter(h)
    BY <2>1, Sizes
  <2>3. StoreAfter(h)'
    BY <1>1, <2>2, StoreKept
  <2>4. h = Handled'
    BY <1>3, <2>1
  <2> QED  BY <2>3, <2>4 DEF StoreFollows
<1>6. ChangesInOrder'
  BY <1>1 DEF Inv, ChangesInOrder, Announcing, Printing, WrittenSince, Copying
<1> QED  BY <1>2, <1>4, <1>5, <1>6 DEF Inv

LEMMA PopEventKeepsInv ==
  ASSUME Inv, PopEvent
  PROVE  Inv'
<1>1. PICK e : e = Head(notes)
  OBVIOUS
<1>2. /\ consumer = "pop" /\ notes # <<>> /\ notes' = Tail(notes) /\ consumer' = "print"
      /\ event' = [event EXCEPT !["consumer"] = e]
      /\ UNCHANGED <<script, producer, owner, updates, updatesStopped, notesStopped,
                     request, store, submitted, writtenBy, reports>>
  BY <1>1 DEF PopEvent, updateVars, histories, notificationQueue!Pop
<1>3. notes \in Seq(ParameterChangeEvent)
  BY DEF Inv, TypeOK, notificationQueue!TypeOK
<1>4. /\ notes' \in Seq(ParameterChangeEvent) /\ Len(notes') = Len(notes) - 1
      /\ Len(notes) > 0 /\ e = notes[1] /\ e \in ParameterChangeEvent
      /\ \A i \in 1..(Len(notes) - 1) : notes'[i] = notes[i + 1]
  BY <1>1, <1>2, <1>3, QueueFacts
<1>5. /\ event' \in [{"owner", "consumer"} -> ParameterChangeEvent \cup {None}]
      /\ event'["consumer"] = e /\ event'["owner"] = event["owner"]
  BY <1>2, <1>4 DEF Inv, TypeOK
<1>6. TypeOK'
  <2>1. Len(notes') <= Capacity
    BY <1>4, Sizes, LabAssumption DEF Inv, TypeOK, notificationQueue!TypeOK
  <2> QED  BY <1>2, <1>4, <1>5, <2>1 DEF Inv, TypeOK, updateQueue!TypeOK, notificationQueue!TypeOK
<1>7. UpdatesInOrder' /\ Handled' = Handled
  BY <1>2, UpdatesKept DEF Inv
<1>8. StoreFollows'
  BY <1>2, <1>7, StoreFollowsKept
<1>9. ChangesInOrder'
  <2>1. Printing = 0 /\ Printing' = 1 /\ Announcing' = Announcing /\ Announcing \in {0, 1}
    BY <1>2 DEF Announcing, Printing
  <2>2. \A i \in 1..Len(notes) : /\ notes[i].generation = Len(reports) + i
                                 /\ writtenBy[notes[i].id] >= notes[i].generation
    BY <2>1, Sizes DEF Inv, ChangesInOrder, WrittenSince
  <2>3. e.generation = Len(reports') + 1 /\ writtenBy'[e.id] >= e.generation
    BY <1>2, <1>4, <2>2, Sizes
  <2>4. ASSUME NEW i \in 1..Len(notes')
        PROVE  /\ notes'[i].generation = Len(reports') + Printing' + i
               /\ writtenBy'[notes'[i].id] >= notes'[i].generation
    <3>1. i + 1 \in 1..Len(notes) /\ i \in 1..(Len(notes) - 1) /\ i \in Nat
      BY <1>4, Sizes
    <3>2. notes'[i] = notes[i + 1]
      BY <1>4, <3>1
    <3>3. /\ notes[i + 1].generation = Len(reports) + (i + 1)
          /\ writtenBy[notes[i + 1].id] >= notes[i + 1].generation
      BY <2>2, <3>1
    <3>4. Len(reports) + (i + 1) = Len(reports') + Printing' + i
      BY <1>2, <2>1, <3>1, Sizes
    <3> QED  BY <1>2, <3>2, <3>3, <3>4
  <2>5. store'.generation = Len(reports') + Printing' + Len(notes') + Announcing'
    BY <1>2, <1>4, <2>1, Sizes DEF Inv, ChangesInOrder
  <2>6. owner' = "notify" => /\ event'["owner"] \in ParameterChangeEvent
                             /\ event'["owner"].generation = store'.generation
                             /\ writtenBy'[event'["owner"].id] >= event'["owner"].generation
    BY <1>2, <1>5 DEF Inv, ChangesInOrder, WrittenSince
  <2>7. \A id \in ParameterID : writtenBy'[id] <= store'.generation + (IF Copying(id)' THEN 1 ELSE 0)
    BY <1>2 DEF Inv, ChangesInOrder, Copying
  <2>8. /\ \A k \in 1..Len(reports') : reports'[k][1] = k /\ reports'[k][2] >= k
        /\ owner' = "copied" => writtenBy'[request'.id] = store'.generation + 1
        /\ notesStopped' => owner' = "done"
    BY <1>2 DEF Inv, ChangesInOrder
  <2> QED  BY <1>2, <1>4, <1>5, <2>3, <2>4, <2>5, <2>6, <2>7, <2>8 DEF ChangesInOrder, WrittenSince
<1> QED  BY <1>6, <1>7, <1>8, <1>9 DEF Inv

LEMMA PrintKeepsInv ==
  ASSUME Inv, PrintEvent
  PROVE  Inv'
<1>1. PICK e : e = event["consumer"]
  OBVIOUS
<1>2. PICK r : r = <<e.generation, writtenBy[e.id]>>
  OBVIOUS
<1>3. /\ consumer = "print" /\ consumer' = "pop" /\ reports' = Append(reports, r)
      /\ event' = [event EXCEPT !["consumer"] = None]
      /\ UNCHANGED <<script, producer, owner, updates, updatesStopped, notes, notesStopped,
                     request, store, submitted, writtenBy>>
  BY <1>1, <1>2 DEF PrintEvent, updateVars, noteVars
<1>4. /\ e \in ParameterChangeEvent /\ e.generation = Len(reports) + 1
      /\ writtenBy[e.id] >= e.generation
  BY <1>1, <1>3 DEF Inv, ChangesInOrder, WrittenSince
<1>5. r \in Nat \X Nat /\ r[1] = Len(reports) + 1 /\ r[2] >= Len(reports) + 1
  <2>1. e.generation \in Nat /\ writtenBy[e.id] \in Nat
    BY <1>4 DEF ParameterChangeEvent, Inv, TypeOK
  <2> QED  BY <1>2, <1>4, <2>1
<1>6. /\ reports' \in Seq(Nat \X Nat) /\ Len(reports') = Len(reports) + 1
      /\ reports'[Len(reports) + 1] = r /\ \A k \in 1..Len(reports) : reports'[k] = reports[k]
  <2>1. reports \in Seq(Nat \X Nat)
    BY DEF Inv, TypeOK
  <2> HIDE DEF Inv
  <2> QED  BY <1>3, <1>5, <2>1, QueueFacts
<1>7. /\ event' \in [{"owner", "consumer"} -> ParameterChangeEvent \cup {None}]
      /\ event'["owner"] = event["owner"]
  BY <1>3 DEF Inv, TypeOK
<1>8. TypeOK'
  BY <1>3, <1>6, <1>7 DEF Inv, TypeOK, updateQueue!TypeOK, notificationQueue!TypeOK
<1>9. UpdatesInOrder' /\ Handled' = Handled
  BY <1>3, UpdatesKept DEF Inv
<1>10. StoreFollows'
  BY <1>3, <1>9, StoreFollowsKept
<1>11. ChangesInOrder'
  <2>1. Printing = 1 /\ Printing' = 0 /\ Announcing' = Announcing /\ Announcing \in {0, 1}
    BY <1>3 DEF Announcing, Printing
  <2>2. Len(reports') + Printing' = Len(reports) + Printing
    BY <1>6, <2>1, Sizes
  <2>3. store'.generation = Len(reports') + Printing' + Len(notes') + Announcing'
    BY <1>3, <2>1, <2>2 DEF Inv, ChangesInOrder
  <2>4. ASSUME NEW i \in 1..Len(notes)
        PROVE  /\ notes'[i].generation = Len(reports') + Printing' + i
               /\ writtenBy'[notes'[i].id] >= notes'[i].generation
    BY <1>3, <2>2 DEF Inv, ChangesInOrder, WrittenSince
  <2>5. ASSUME NEW k \in 1..Len(reports')
        PROVE  reports'[k][1] = k /\ reports'[k][2] >= k
    <3>1. CASE k \in 1..Len(reports)
      BY <1>6, <3>1 DEF Inv, ChangesInOrder
    <3>2. CASE k = Len(reports) + 1
      BY <1>5, <1>6, <3>2
    <3> QED  BY <1>6, <3>1, <3>2, Sizes
  <2>6. owner' = "notify" => /\ event'["owner"] \in ParameterChangeEvent
                             /\ event'["owner"].generation = store'.generation
                             /\ writtenBy'[event'["owner"].id] >= event'["owner"].generation
    BY <1>3, <1>7 DEF Inv, ChangesInOrder, WrittenSince
  <2>7. \A id \in ParameterID : writtenBy'[id] <= store'.generation + (IF Copying(id)' THEN 1 ELSE 0)
    BY <1>3 DEF Inv, ChangesInOrder, Copying
  <2>8. /\ owner' = "copied" => writtenBy'[request'.id] = store'.generation + 1
        /\ notesStopped' => owner' = "done"
    BY <1>3 DEF Inv, ChangesInOrder
  <2> QED  BY <1>3, <2>3, <2>4, <2>5, <2>6, <2>7, <2>8 DEF ChangesInOrder, WrittenSince
<1> QED  BY <1>8, <1>9, <1>10, <1>11 DEF Inv

LEMMA ConsumerEndsKeepsInv ==
  ASSUME Inv, ConsumerEnds
  PROVE  Inv'
<1>1. /\ consumer = "pop" /\ consumer' = "done" /\ notesStopped /\ notes = <<>>
      /\ UNCHANGED <<script, producer, owner, updates, updatesStopped, notes, notesStopped,
                     request, event, store, submitted, writtenBy, reports>>
  BY DEF ConsumerEnds, updateVars, noteVars, histories, notificationQueue!Drained
<1>2. TypeOK'
  BY <1>1 DEF Inv, TypeOK, updateQueue!TypeOK, notificationQueue!TypeOK
<1>3. UpdatesInOrder' /\ Handled' = Handled
  BY <1>1, UpdatesKept DEF Inv
<1>4. StoreFollows'
  BY <1>1, <1>3, StoreFollowsKept
<1>5. ChangesInOrder'
  BY <1>1 DEF Inv, ChangesInOrder, Announcing, Printing, WrittenSince, Copying
<1> QED  BY <1>2, <1>3, <1>4, <1>5 DEF Inv

LEMMA UnchangedKeepsInv ==
  ASSUME Inv, UNCHANGED vars
  PROVE  Inv'
<1>1. UNCHANGED <<script, producer, owner, consumer, updates, updatesStopped, notes, notesStopped,
                  request, event, store, submitted, writtenBy, reports>>
  BY DEF vars, updateVars, noteVars, histories
<1>2. TypeOK'
  BY <1>1 DEF Inv, TypeOK, updateQueue!TypeOK, notificationQueue!TypeOK
<1>3. UpdatesInOrder' /\ Handled' = Handled
  BY <1>1, UpdatesKept DEF Inv
<1>4. StoreFollows'
  BY <1>1, <1>3, StoreFollowsKept
<1>5. ChangesInOrder'
  BY <1>1, ChangesKept DEF Inv
<1> QED  BY <1>2, <1>3, <1>4, <1>5 DEF Inv

LEMMA InitEstablishesInv == Init => Inv
<1> SUFFICES ASSUME Init  PROVE Inv
  OBVIOUS
<1>1. /\ script \in Scripts /\ producer = "submit" /\ owner = "pop" /\ consumer = "pop"
      /\ updates = <<>> /\ updatesStopped = FALSE /\ notes = <<>> /\ notesStopped = FALSE
      /\ request = None /\ event = [t \in {"owner", "consumer"} |-> None]
      /\ store = NewStore /\ submitted = <<>>
      /\ writtenBy = [id \in ParameterID |-> 0] /\ reports = <<>>
  BY DEF Init, updateQueue!Init, notificationQueue!Init
<1>2. /\ <<>> \in Seq(ParameterUpdateRequest) /\ <<>> \in Seq(ParameterChangeEvent)
      /\ <<>> \in Seq(Nat \X Nat)
  OBVIOUS
<1>3. Len(updates) = 0 /\ Len(notes) = 0 /\ Len(submitted) = 0 /\ Len(reports) = 0
  BY <1>1, EmptySeq
<1>4. NewStore \in Store
  <2>1. defaultValue \in ParameterValues
    <3>1. defaultValue \in [ParameterID -> Int]
      BY DEF defaultValue, ParameterID
    <3>2. \A id \in ParameterID : validate(id, defaultValue[id])
      <4>1. defaultValue["ReportingInterval"] \in ValidValues["ReportingInterval"]
        BY DEF defaultValue, ValidValues
      <4>2. defaultValue["TemperatureLimit"] \in ValidValues["TemperatureLimit"]
        BY DEF defaultValue, ValidValues
      <4>3. defaultValue["OperatingMode"] \in ValidValues["OperatingMode"]
        BY DEF defaultValue, ValidValues
      <4> QED  BY <4>1, <4>2, <4>3, Zenon DEF ParameterID, validate
    <3> QED  BY <3>1, <3>2 DEF ParameterValues
  <2> QED  BY <2>1 DEF NewStore, Store, ParameterSource
<1>5. TypeOK
  <2>1. script \in Seq(ParameterUpdateRequest)
    BY <1>1, ScriptsAssumption
  <2>2. 0 <= Capacity
    BY LabAssumption
  <2> QED  BY <1>1, <1>2, <1>3, <1>4, <2>1, <2>2 DEF TypeOK, updateQueue!TypeOK, notificationQueue!TypeOK
<1>6. Handled = 0 /\ InHand = 0
  <2>1. InHand = 0
    BY <1>1 DEF InHand
  <2> QED  BY <1>3, <2>1 DEF Handled
<1>7. UpdatesInOrder
  BY <1>1, <1>3, <1>6 DEF UpdatesInOrder
<1>8. StoreAfter(0)
  <2>1. EffectiveAmong(0) = {}
    BY DEF EffectiveAmong
  <2>2. Cardinality(EffectiveAmong(0)) = 0
    BY <2>1, FS_EmptySet
  <2>3. \A id : ~Copying(id)
    BY <1>1 DEF Copying
  <2> QED  BY <1>1, <2>1, <2>2, <2>3 DEF StoreAfter, NewStore
<1>9. StoreFollows
  BY <1>6, <1>8 DEF StoreFollows
<1>10. ChangesInOrder
  <2>1. store.generation = 0
    BY <1>1 DEF NewStore
  <2> QED  BY <1>1, <1>3, <2>1 DEF ChangesInOrder, Announcing, Printing, Copying
<1> QED  BY <1>5, <1>7, <1>9, <1>10 DEF Inv

LEMMA NextKeepsInv == Inv /\ [Next]_vars => Inv'
<1> SUFFICES ASSUME Inv, [Next]_vars  PROVE Inv'
  OBVIOUS
<1>1. CASE Producer
  BY <1>1, SkipKeepsInv, SubmitKeepsInv, StopUpdatesKeepsInv DEF Producer
<1>2. CASE Owner
  BY <1>2, PopRequestKeepsInv, RejectKeepsInv, AcceptKeepsInv, FinishKeepsInv, NotifyKeepsInv,
     StopNotificationsKeepsInv DEF Owner
<1>3. CASE Consumer
  BY <1>3, PopEventKeepsInv, PrintKeepsInv, ConsumerEndsKeepsInv DEF Consumer
<1>4. CASE UNCHANGED vars
  BY <1>4, UnchangedKeepsInv
<1> QED  BY <1>1, <1>2, <1>3, <1>4 DEF Next

--------------------------------------------------------------------------------
(* The theorems *)

\* The invariant holds throughout, whatever the script.
THEOREM Invariance == Spec => []Inv
BY InitEstablishesInv, NextKeepsInv, PTL DEF Spec

\* Whatever is submitted and however the threads take turns, the lab ends with the
\* store that the rules of precedence make of the requests submitted.
THEOREM StoreIsWhatPrecedenceSays == Spec => []StoreFollowsPrecedence
<1>1. Inv => StoreFollowsPrecedence
  <2> SUFFICES ASSUME Inv  PROVE StoreFollowsPrecedence
    OBVIOUS
  <2>1. TypeOK
    BY DEF Inv
  <2>2. ASSUME owner = "done"
        PROVE  /\ store.generation = Cardinality(Effective(submitted))
               /\ \A id \in ParameterID :
                    LET last == LastFor(id, submitted) IN
                      IF last = {} THEN /\ store.values[id] = defaultValue[id]
                                        /\ store.sources[id] = "CompiledDefault"
                      ELSE \A i \in last : /\ store.values[id] = submitted[i].text.value
                                           /\ store.sources[id] = submitted[i].source
    <3>1. PICK h \in Nat : h = Handled
      BY Sizes
    <3>2. StoreAfter(h)
      BY <3>1, Sizes
    <3>3. h = Len(submitted)
      <4>1. Len(updates) = 0 /\ InHand = 0
        BY <2>2, EmptySeq DEF Inv, UpdatesInOrder, InHand
      <4> QED  BY <3>1, <4>1, Sizes
    <3>4. DOMAIN submitted = 1..h
      BY <3>3, QueueFacts DEF Inv, TypeOK
    <3>5. Effective(submitted) = EffectiveAmong(h)
      BY <3>4 DEF Effective, EffectiveAmong
    <3>6. \A id \in ParameterID : \A i : i \in LastFor(id, submitted) <=> LastAmong(h, id, i)
      BY <3>5 DEF LastFor, LastAmong
    <3>7. store.generation = Cardinality(Effective(submitted))
      BY <3>2, <3>5 DEF StoreAfter
    <3>8. ASSUME NEW id \in ParameterID, LastFor(id, submitted) = {}
          PROVE  store.values[id] = defaultValue[id] /\ store.sources[id] = "CompiledDefault"
      <4>1. ~Copying(id)
        BY <2>2 DEF Copying
      <4> QED  BY <3>2, <3>6, <3>8, <4>1 DEF StoreAfter
    <3>9. ASSUME NEW id \in ParameterID, NEW i \in LastFor(id, submitted)
          PROVE  /\ store.values[id] = submitted[i].text.value
                 /\ store.sources[id] = submitted[i].source
      <4>1. ~Copying(id)
        BY <2>2 DEF Copying
      <4>2. LastAmong(h, id, i) /\ i \in EffectiveAmong(h) /\ submitted[i].id = id
        BY <3>6 DEF LastAmong
      <4>3. PICK k \in 1..h : /\ LastAmong(h, id, k)
                              /\ store.sources[id] = submitted[k].source
                              /\ store.values[id] = submitted[k].text.value
        BY <3>2, <4>1, <4>2 DEF StoreAfter
      <4>4. k <= i /\ i <= k /\ i \in 1..h
        BY <4>2, <4>3 DEF LastAmong, EffectiveAmong
      <4>5. i = k
        BY <4>4
      <4> QED  BY <4>3, <4>5
    <3> QED  BY <3>7, <3>8, <3>9
  <2> QED  BY <2>1, <2>2 DEF StoreFollowsPrecedence
<1> QED  BY <1>1, Invariance, PTL

\* Each accepted update is reported once, in order, with a value that is not older,
\* and none is left when the lab is done.
THEOREM ChangesAreReported == Spec => []EveryChangeReported
<1>1. Inv => EveryChangeReported
  <2> SUFFICES ASSUME Inv  PROVE EveryChangeReported
    OBVIOUS
  <2>1. \A k \in DOMAIN reports : reports[k][1] = k /\ reports[k][2] >= k
    BY QueueFacts DEF Inv, TypeOK, ChangesInOrder
  <2>2. ASSUME Done  PROVE Len(reports) = store.generation
    <3>1. Len(notes) = 0 /\ Printing = 0 /\ Announcing = 0
      BY <2>2, EmptySeq DEF Done, Inv, ChangesInOrder, Printing, Announcing
    <3> QED  BY <3>1, Sizes DEF Inv, ChangesInOrder
  <2> QED  BY <2>1, <2>2 DEF EveryChangeReported
<1> QED  BY <1>1, Invariance, PTL
================================================================================
