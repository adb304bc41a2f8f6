------------------------ MODULE RetryTransaction_proof ------------------------
(****************************************************************************)
(* Proofs about RetryTransaction, for every set of clients, every budget,   *)
(* every link and every server mode: the clients' type correctness, budget  *)
(* and timer discipline, and that success is never reported for a           *)
(* transaction the server has not carried out.  For clients that run one    *)
(* after the other over a link that keeps the order of datagrams and        *)
(* repeats none: the server carries out each transaction at most once, and  *)
(* the lab implements TransactionSpec.  Any number of clients, any budget,  *)
(* failing calls and lost datagrams are covered; retries make the copies.   *)
(****************************************************************************)
EXTENDS RetryTransaction, SequenceTheorems, FiniteSetTheorems, TLAPS

--------------------------------------------------------------------------------
(* Sequences, which stand for datagrams in transit, and enumerations of sets. *)

\* Removing any one element, as delivery or loss does, leaves a sequence of
\* elements that were there before.
LEMMA RemoveAtSeq ==
  ASSUME NEW S, NEW s \in Seq(S), NEW i \in 1..Len(s)
  PROVE  /\ RemoveAt(s, i) \in Seq(S)
         /\ Len(RemoveAt(s, i)) = Len(s) - 1
         /\ ToSet(RemoveAt(s, i)) \subseteq ToSet(s)
<1> DEFINE f == SubSeq(s, 1, i-1)
           g == SubSeq(s, i+1, Len(s))
<1>0. Len(s) \in Nat /\ i \in Nat /\ 1 <= i /\ i <= Len(s)
  OBVIOUS
<1>1. /\ f \in Seq(S) /\ Len(f) = i-1
      /\ \A j \in 1..(i-1) : f[j] = s[j]
  BY SMTT(30)
<1>2. /\ g \in Seq(S) /\ Len(g) = Len(s) - i
      /\ \A j \in 1..(Len(s)-i) : g[j] = s[i+j]
  BY SMTT(30)
<1>3. RemoveAt(s, i) = f \o g
  BY DEF RemoveAt
<1> HIDE DEF f, g
<1>4. /\ f \o g \in Seq(S) /\ Len(f \o g) = Len(f) + Len(g)
      /\ \A j \in 1..(Len(f) + Len(g)) :
           (f \o g)[j] = IF j <= Len(f) THEN f[j] ELSE g[j-Len(f)]
  BY <1>1, <1>2, ConcatProperties
<1>5. Len(f \o g) = Len(s) - 1
  BY <1>0, <1>1, <1>2, <1>4
<1>6. ASSUME NEW j \in 1..(Len(s)-1)  PROVE (f \o g)[j] \in ToSet(s)
  <2>1. CASE j <= i-1
    <3>1. j \in 1..(i-1) /\ j \in 1..Len(s)
      BY <1>0, <2>1
    <3>2. (f \o g)[j] = f[j]
      BY <1>0, <1>1, <1>2, <1>4, <2>1
    <3>3. f[j] = s[j]
      BY <1>1, <3>1
    <3>4. s[j] \in ToSet(s)
      BY <3>1 DEF ToSet
    <3> QED  BY <3>2, <3>3, <3>4
  <2>2. CASE j > i-1
    <3>1. (f \o g)[j] = g[j-(i-1)] /\ j-(i-1) \in 1..(Len(s)-i)
      BY <1>0, <1>1, <1>2, <1>4, <2>2
    <3>2. g[j-(i-1)] = s[j+1] /\ j+1 \in 1..Len(s)
      BY <1>0, <1>2, <3>1
    <3>3. s[j+1] \in ToSet(s)
      BY <3>2 DEF ToSet
    <3> QED  BY <3>1, <3>2, <3>3
  <2>3. j <= i-1 \/ j > i-1
    BY <1>0
  <2> QED  BY <2>1, <2>2, <2>3
<1>7. DOMAIN (f \o g) = 1..(Len(s)-1)
  BY <1>4, <1>5
<1>8. ToSet(f \o g) \subseteq ToSet(s)
  BY <1>6, <1>7 DEF ToSet
<1> QED  BY <1>3, <1>4, <1>5, <1>8

\* Appending, as sendto, duplication or push do, adds just that element.
LEMMA AppendSeq ==
  ASSUME NEW S, NEW s \in Seq(S), NEW e \in S
  PROVE  /\ Append(s, e) \in Seq(S)
         /\ Len(Append(s, e)) = Len(s) + 1
         /\ ToSet(Append(s, e)) = ToSet(s) \cup {e}
<1>1. /\ Append(s, e) \in Seq(S) /\ Len(Append(s, e)) = Len(s) + 1
      /\ \A j \in 1..Len(s) : Append(s, e)[j] = s[j]
      /\ Append(s, e)[Len(s)+1] = e
  BY AppendProperties
<1>2. DOMAIN s = 1..Len(s) /\ DOMAIN Append(s, e) = 1..(Len(s)+1) /\ Len(s) \in Nat
  BY <1>1
<1>3. ToSet(Append(s, e)) \subseteq ToSet(s) \cup {e}
  BY <1>1, <1>2 DEF ToSet
<1>4. ToSet(s) \subseteq ToSet(Append(s, e))
  BY <1>1, <1>2 DEF ToSet
<1>5. e \in ToSet(Append(s, e))
  BY <1>1, <1>2 DEF ToSet
<1> QED  BY <1>1, <1>3, <1>4, <1>5

\* An enumeration of a subset of a finite set is a sequence over that set.
LEMMA SetToSeqsSeq ==
  ASSUME NEW S, IsFiniteSet(S), NEW R \in SUBSET S, NEW b \in SetToSeqs(R)
  PROVE  b \in Seq(S)
<1>1. Cardinality(R) \in Nat
  BY FS_Subset, FS_CardinalityType
<1>2. b \in [1..Cardinality(R) -> R]
  BY DEF SetToSeqs
<1> QED  BY <1>1, <1>2

--------------------------------------------------------------------------------
(* One client's context. *)

\* What holds of a context at every point of a handler ...
ContextOK(x) ==
    /\ x \in ClientContext
    /\ x.phase = "NotStarted" => x.state = "Idle" /\ x.attempts = 0
    /\ x.state = "WaitingToRetry" => x.attempts < MaxAttempts
    /\ ~x.serviceAvailable => x.attempts = MaxAttempts /\ x.state = "Failed"

\* ... and between two handlers, where a wait needs a timer.
Guarded(x) == x.phase = "Running" /\ x.state \in Waiting => x.timer # "Disarmed"

LEMMA FailTransactionOK ==
  ASSUME NEW x, ContextOK(x), x.phase # "NotStarted"
  PROVE  ContextOK(FailTransaction(x)) /\ Guarded(FailTransaction(x))
BY DEF ContextOK, Guarded, FailTransaction, ClientContext, TransactionState, Waiting

LEMMA ScheduleRetryOK ==
  ASSUME NEW x, ContextOK(x), x.phase = "Running", x.state \in Waiting,
         NEW timerOk \in BOOLEAN
  PROVE  ContextOK(ScheduleRetry(x, timerOk)) /\ Guarded(ScheduleRetry(x, timerOk))
<1>0. MaxAttempts \in Nat /\ x.attempts \in 0..MaxAttempts /\ x.attempts \in Nat
  BY OptionsAssumption DEF ContextOK, ClientContext
<1>1. CASE x.attempts >= MaxAttempts
  <2>1. x.attempts = MaxAttempts /\ ScheduleRetry(x, timerOk) = ExhaustRetryBudget(x)
    BY <1>0, <1>1 DEF ScheduleRetry
  <2> QED  BY <2>1 DEF ExhaustRetryBudget, ContextOK, Guarded, ClientContext,
                       TransactionState, Waiting
<1>2. CASE ~(x.attempts >= MaxAttempts) /\ timerOk
  <2>1. x.attempts < MaxAttempts
    BY <1>0, <1>2
  <2>2. ScheduleRetry(x, timerOk) = [x EXCEPT !.state = "WaitingToRetry", !.timer = "Armed"]
    BY <1>2 DEF ScheduleRetry, ArmRetryDelay
  <2> QED  BY <2>1, <2>2 DEF ContextOK, Guarded, ClientContext, TransactionState, Waiting
<1>3. CASE ~(x.attempts >= MaxAttempts) /\ ~timerOk
  BY <1>3, FailTransactionOK DEF ScheduleRetry, ArmRetryDelay
<1> QED  BY <1>1, <1>2, <1>3

LEMMA OnResponseOK ==
  ASSUME NEW c \in Clients, NEW x, ContextOK(x), Guarded(x), x.phase = "Running",
         NEW m \in Response, NEW timerOk \in BOOLEAN
  PROVE  ContextOK(OnResponse(c, x, m, timerOk)) /\ Guarded(OnResponse(c, x, m, timerOk))
<1>1. CASE x.state \notin Waiting \/ m.id # TxnId[c]
  BY <1>1 DEF OnResponse
<1> DEFINE live == x.state \in Waiting /\ m.id = TxnId[c]
<1>2. CASE live /\ m.type = "Ack"
  BY <1>2 DEF OnResponse, HandleAnswer, ContextOK, Guarded, ClientContext, TransactionState, Waiting
<1>3. CASE live /\ m.type = "Busy"
  <2> DEFINE y == [x EXCEPT !.timer = "Disarmed"]
  <2>1. ContextOK(y) /\ y.phase = "Running" /\ y.state \in Waiting
    BY <1>3 DEF ContextOK, ClientContext, Waiting
  <2>2. OnResponse(c, x, m, timerOk) = ScheduleRetry(y, timerOk)
    BY <1>3 DEF OnResponse, HandleAnswer
  <2> QED  BY <2>1, <2>2, ScheduleRetryOK
<1>4. CASE live /\ m.type = "InvalidValue"
  BY <1>4, FailTransactionOK DEF OnResponse, HandleAnswer
<1> QED  BY <1>1, <1>2, <1>3, <1>4 DEF Response

LEMMA OutcomesBoolean == Outcomes \subseteq BOOLEAN
BY DEF Outcomes

\* send_attempt, from a context that may send
LEMMA AttemptedOK ==
  ASSUME NEW x \in ClientContext, x.phase \in {"Running", "Exited"},
         x.attempts < MaxAttempts, x.serviceAvailable, NEW ok \in BOOLEAN
  PROVE  LET z == Attempted(x, ok)
         IN  /\ ContextOK(z) /\ Guarded(z)
             /\ z.succeeded => x.succeeded
             /\ z.phase = x.phase /\ z.status = x.status
<1> DEFINE y == [x EXCEPT !.attempts = @ + 1]
           z == IF ok THEN [y EXCEPT !.timer = "Armed", !.state = "WaitingForResponse"]
                ELSE FailTransaction(y)
<1>1. y \in ClientContext /\ y.phase = x.phase /\ y.serviceAvailable /\ y.status = x.status
      /\ y.succeeded = x.succeeded
  <2>1. MaxAttempts \in Nat /\ x.attempts \in 0..MaxAttempts
    BY OptionsAssumption DEF ClientContext
  <2>2. x.attempts + 1 \in 0..MaxAttempts
    BY <2>1
  <2> QED  BY <2>2 DEF ClientContext
<1>2. Attempted(x, ok) = z
  BY DEF Attempted
<1> HIDE DEF y
<1>3. ContextOK(z) /\ Guarded(z) /\ (z.succeeded => x.succeeded)
      /\ z.phase = x.phase /\ z.status = x.status
  BY <1>1 DEF FailTransaction, ContextOK, Guarded, ClientContext, TransactionState, Waiting
<1> QED  BY <1>2, <1>3

LEMMA RequestSent ==
  ASSUME TypeOK, NEW c \in Clients, NEW sendOk \in BOOLEAN,
         requests' = IF sendOk THEN Append(requests, RequestOf(c)) ELSE requests
  PROVE  /\ requests' \in Seq(Request)
         /\ ToSet(requests') \subseteq ToSet(requests) \cup {RequestOf(c)}
<1>1. requests \in Seq(Request) /\ RequestOf(c) \in Request
  BY OptionsAssumption DEF TypeOK, Request, RequestOf
<1>2. CASE sendOk
  BY <1>1, <1>2, AppendSeq
<1>3. CASE ~sendOk
  BY <1>1, <1>3
<1> QED  BY <1>2, <1>3

--------------------------------------------------------------------------------
(* The inductive invariant of the clients.  TypeOK alone is not inductive: the *)
(* bound on attempts rests on the budget left whenever a client waits to       *)
(* retry, and on a client that has not started having made no attempt.         *)

ClientInv == TypeOK /\ \A c \in Clients : ContextOK(client[c]) /\ Guarded(client[c])

LEMMA UpdateClient ==
  ASSUME ClientInv, NEW c \in Clients, NEW y, ContextOK(y), Guarded(y),
         client' = [client EXCEPT ![c] = y]
  PROVE  /\ client' \in [Clients -> ClientContext]
         /\ \A d \in Clients : ContextOK(client'[d]) /\ Guarded(client'[d])
<1>1. client \in [Clients -> ClientContext] /\ y \in ClientContext
  BY DEF ClientInv, TypeOK, ContextOK
<1>2. \A d \in Clients : client'[d] = IF d = c THEN y ELSE client[d]
  BY <1>1
<1> QED  BY <1>1, <1>2 DEF ClientInv

\* Only the clients' contexts change.
LEMMA OnlyClients ==
  ASSUME ClientInv, NEW c \in Clients, NEW y, ContextOK(y), Guarded(y),
         client' = [client EXCEPT ![c] = y],
         UNCHANGED <<server, requests, responses, duplicates, executions>>
  PROVE  ClientInv'
BY UpdateClient DEF ClientInv, TypeOK

\* Only the network and the server change.
LEMMA ClientsUntouched ==
  ASSUME ClientInv, UNCHANGED client,
         server' \in ServerContext, requests' \in Seq(Request),
         responses' \in [Ports -> Seq(Response)],
         duplicates' \in 0..MaxDuplicates, executions' \in [Clients -> Nat]
  PROVE  ClientInv'
BY DEF ClientInv, TypeOK

LEMMA AfterDispatchOK ==
  ASSUME ClientInv, NEW c \in Clients, Alive(c), client[c].batch # <<>>
  PROVE  ContextOK(AfterDispatch(c)) /\ Guarded(AfterDispatch(c))
<1> DEFINE x == client[c]
<1>1. x \in ClientContext /\ ContextOK(x) /\ Guarded(x)
  BY DEF ClientInv, TypeOK
<1>2. x.batch \in Seq(Sources) /\ Tail(x.batch) \in Seq(Sources)
  BY <1>1 DEF ClientContext
<1>3. AfterDispatch(c) = [x EXCEPT !.batch = Tail(x.batch)]
  BY DEF AfterDispatch
<1> HIDE DEF x
<1> QED  BY <1>1, <1>2, <1>3 DEF ContextOK, Guarded, ClientContext

\* An event loop that has read the expired timer, before the handler runs
LEMMA TimerReadOK ==
  ASSUME ClientInv, NEW c \in Clients, Alive(c), client[c].batch # <<>>
  PROVE  LET x == [AfterDispatch(c) EXCEPT !.timer = "Disarmed"]
         IN  /\ ContextOK(x) /\ x.phase = "Running"
             /\ x.state = client[c].state /\ x.attempts = client[c].attempts
             /\ x.succeeded = client[c].succeeded /\ x.status = client[c].status
             /\ x.serviceAvailable = client[c].serviceAvailable
<1>1. ContextOK(AfterDispatch(c)) /\ client[c] \in ClientContext
  BY AfterDispatchOK DEF ClientInv, TypeOK
<1>2. /\ AfterDispatch(c).phase = "Running" /\ AfterDispatch(c).state = client[c].state
      /\ AfterDispatch(c).attempts = client[c].attempts
      /\ AfterDispatch(c).succeeded = client[c].succeeded
      /\ AfterDispatch(c).status = client[c].status
      /\ AfterDispatch(c).serviceAvailable = client[c].serviceAvailable
  BY <1>1 DEF AfterDispatch, Alive, ClientContext
<1> HIDE DEF AfterDispatch
<1> QED  BY <1>1, <1>2 DEF ContextOK, ClientContext

LEMMA RemoveResponse ==
  ASSUME TypeOK, NEW p \in Ports, NEW i \in 1..Len(responses[p]),
         responses' = [responses EXCEPT ![p] = RemoveAt(@, i)]
  PROVE  /\ responses' \in [Ports -> Seq(Response)]
         /\ \A q \in Ports : ToSet(responses'[q]) \subseteq ToSet(responses[q])
         /\ responses[p][i] \in Response /\ responses[p][i] \in ToSet(responses[p])
<1>1. responses[p] \in Seq(Response) /\ responses \in [Ports -> Seq(Response)]
  BY DEF TypeOK
<1>2. RemoveAt(responses[p], i) \in Seq(Response)
      /\ ToSet(RemoveAt(responses[p], i)) \subseteq ToSet(responses[p])
  BY <1>1, RemoveAtSeq
<1>3. responses[p][i] \in Response /\ responses[p][i] \in ToSet(responses[p])
  BY <1>1 DEF ToSet
<1>4. \A q \in Ports : responses'[q] = IF q = p THEN RemoveAt(responses[p], i) ELSE responses[q]
  BY <1>1
<1> QED  BY <1>1, <1>2, <1>3, <1>4

LEMMA RemoveRequest ==
  ASSUME TypeOK, NEW i \in 1..Len(requests), requests' = RemoveAt(requests, i)
  PROVE  /\ requests' \in Seq(Request)
         /\ ToSet(requests') \subseteq ToSet(requests)
         /\ requests[i] \in Request /\ requests[i] \in ToSet(requests)
<1>1. requests \in Seq(Request)
  BY DEF TypeOK
<1>2. requests[i] \in Request /\ requests[i] \in ToSet(requests)
  BY <1>1 DEF ToSet
<1> QED  BY <1>1, <1>2, RemoveAtSeq

LEMMA AppendResponse ==
  ASSUME TypeOK, NEW p \in Ports, NEW m \in Response,
         responses' = [responses EXCEPT ![p] = Append(@, m)]
  PROVE  /\ responses' \in [Ports -> Seq(Response)]
         /\ \A q \in Ports : ToSet(responses'[q]) \subseteq ToSet(responses[q]) \cup {m}
<1>1. responses[p] \in Seq(Response) /\ responses \in [Ports -> Seq(Response)]
  BY DEF TypeOK
<1>2. Append(responses[p], m) \in Seq(Response)
      /\ ToSet(Append(responses[p], m)) = ToSet(responses[p]) \cup {m}
  BY <1>1, AppendSeq
<1>3. \A q \in Ports : responses'[q] = IF q = p THEN Append(responses[p], m) ELSE responses[q]
  BY <1>1
<1> QED  BY <1>1, <1>2, <1>3
--------------------------------------------------------------------------------
LEMMA InitClientInv == Init => ClientInv
<1> SUFFICES ASSUME Init PROVE ClientInv
  OBVIOUS
<1>1. NewClient \in ClientContext /\ ContextOK(NewClient) /\ Guarded(NewClient)
  BY OptionsAssumption DEF NewClient, ContextOK, Guarded, ClientContext, TransactionState, Waiting
<1>2. server \in ServerContext
  BY DEF Init, ServerContext, InitialInterval
<1>3. duplicates \in 0..MaxDuplicates
  BY LinkAssumption DEF Init
<1> QED  BY <1>1, <1>2, <1>3 DEF Init, ClientInv, TypeOK

LEMMA StartInv ==
  ASSUME ClientInv, NEW c \in Clients, Start(c)  PROVE ClientInv'
<1>1. PICK sendOk \in BOOLEAN, timerOk \in BOOLEAN :
        SendAttempt(c, [client[c] EXCEPT
                          !.phase = IF sendOk /\ timerOk THEN "Running" ELSE "Exited",
                          !.status = IF sendOk /\ timerOk THEN 0 ELSE 1],
                    sendOk, timerOk)
  BY OutcomesBoolean DEF Start
<1> DEFINE phase == IF sendOk /\ timerOk THEN "Running" ELSE "Exited"
           status == IF sendOk /\ timerOk THEN 0 ELSE 1
           x == [client[c] EXCEPT !.phase = phase, !.status = status]
<1>2. client[c] \in ClientContext /\ ContextOK(client[c]) /\ client[c].phase = "NotStarted"
  BY DEF ClientInv, TypeOK, Start
<1>3. SendAttempt(c, x, sendOk, timerOk) /\ TypeOK
  BY <1>1 DEF ClientInv
<1>4. x \in ClientContext /\ x.phase \in {"Running", "Exited"}
      /\ x.attempts = 0 /\ x.serviceAvailable
  <2>1. phase \in {"Running", "Exited"} /\ status \in 0..2
    OBVIOUS
  <2> HIDE DEF phase, status
  <2>2. client[c].attempts = 0 /\ client[c].serviceAvailable
    BY <1>2 DEF ContextOK, ClientContext
  <2> QED  BY <1>2, <2>1, <2>2 DEF ClientContext
<1>5. x.attempts < MaxAttempts
  BY <1>4, OptionsAssumption
<1> HIDE DEF x
<1> DEFINE z == Attempted(x, sendOk /\ timerOk)
<1>6. ContextOK(z) /\ Guarded(z)
  BY <1>4, <1>5, AttemptedOK
<1>7. client' = [client EXCEPT ![c] = z] /\ requests' \in Seq(Request)
  BY <1>3, RequestSent DEF SendAttempt
<1> HIDE DEF z
<1> QED  BY <1>6, <1>7, UpdateClient DEF Start, ClientInv, TypeOK

LEMMA PollOnceInv ==
  ASSUME ClientInv, NEW c \in Clients, PollOnce(c)  PROVE ClientInv'
<1>1. PICK b \in SetToSeqs(ReadySources(c)) : client' = [client EXCEPT ![c].batch = b]
  BY DEF PollOnce
<1>2. ReadySources(c) \in SUBSET Sources /\ IsFiniteSet(Sources)
  <2>1. IsFiniteSet({"udp"} \cup {"timer"}) /\ IsFiniteSet({"signal"})
    BY FS_Singleton, FS_Union
  <2>2. IsFiniteSet(({"udp"} \cup {"timer"}) \cup {"signal"})
    BY <2>1, FS_Union
  <2>3. Sources = ({"udp"} \cup {"timer"}) \cup {"signal"}
    BY DEF Sources
  <2> QED  BY <2>2, <2>3 DEF ReadySources
<1>3. b \in Seq(Sources)
  BY <1>2, SetToSeqsSeq
<1> DEFINE x == client[c]
           y == [x EXCEPT !.batch = b]
<1>4. client' = [client EXCEPT ![c] = y]
  BY <1>1
<1>5. x \in ClientContext /\ ContextOK(x) /\ Guarded(x)
  BY DEF ClientInv, TypeOK
<1> HIDE DEF x
<1>6. ContextOK(y) /\ Guarded(y)
  BY <1>3, <1>5 DEF ContextOK, Guarded, ClientContext
<1> QED  BY <1>4, <1>6, OnlyClients DEF PollOnce

LEMMA HandleResponseInv ==
  ASSUME ClientInv, NEW c \in Clients, HandleResponse(c)  PROVE ClientInv'
<1>1. PICK i \in 1..Len(responses[Port[c]]), timerOk \in BOOLEAN :
        /\ client' = [client EXCEPT
              ![c] = OnResponse(c, client[c], responses[Port[c]][i], timerOk)]
        /\ responses' = [responses EXCEPT ![Port[c]] = RemoveAt(@, i)]
  BY OutcomesBoolean DEF HandleResponse
<1>2. Port[c] \in Ports
  BY DEF Ports
<1>3. responses[Port[c]][i] \in Response /\ responses' \in [Ports -> Seq(Response)]
  BY <1>1, <1>2, RemoveResponse DEF ClientInv
<1>4. ContextOK(client[c]) /\ Guarded(client[c]) /\ client[c].phase = "Running"
  BY DEF ClientInv, HandleResponse, Dispatching, Alive
<1> DEFINE y == OnResponse(c, client[c], responses[Port[c]][i], timerOk)
<1>5. ContextOK(y) /\ Guarded(y)
  BY <1>3, <1>4, OnResponseOK
<1> HIDE DEF y
<1>6. client' = [client EXCEPT ![c] = y]
  BY <1>1 DEF y
<1> QED  BY <1>3, <1>5, <1>6, UpdateClient DEF HandleResponse, ClientInv, TypeOK

LEMMA TimerInv ==
  ASSUME ClientInv, NEW c \in Clients, IdleTimer(c) \/ ResponseTimeout(c) \/ RetryNow(c)
  PROVE  ClientInv'
<1> DEFINE z == AfterDispatch(c)
           x == [AfterDispatch(c) EXCEPT !.timer = "Disarmed"]
<1>0. Alive(c) /\ client[c].batch # <<>>
  BY DEF IdleTimer, ResponseTimeout, RetryNow, Dispatching
<1>1. /\ ContextOK(x) /\ x.phase = "Running"
      /\ x.state = client[c].state /\ x.attempts = client[c].attempts
      /\ x.serviceAvailable = client[c].serviceAvailable
  BY <1>0, TimerReadOK
<1>2. ContextOK(z) /\ Guarded(z) /\ client[c] \in ClientContext /\ ContextOK(client[c])
  BY <1>0, AfterDispatchOK DEF ClientInv, TypeOK
<1>3. z.timer = client[c].timer /\ z.state = client[c].state
  BY <1>2 DEF AfterDispatch, ClientContext
<1>4. CASE IdleTimer(c)
  <2> DEFINE y == [z EXCEPT !.timer = IF @ = "Expired" THEN "Disarmed" ELSE @]
  <2>1. client' = [client EXCEPT ![c] = y]
    BY <1>4 DEF IdleTimer
  <2>2. client[c].timer = "Expired" => client[c].state \notin Waiting
    BY <1>4 DEF IdleTimer
  <2> HIDE DEF z
  <2>3. ContextOK(y) /\ Guarded(y)
    BY <1>2, <1>3, <2>2 DEF ContextOK, Guarded, ClientContext
  <2> QED  BY <1>4, <2>1, <2>3, OnlyClients DEF IdleTimer
<1>5. CASE ResponseTimeout(c)
  <2>1. PICK timerOk \in BOOLEAN : client' = [client EXCEPT ![c] = ScheduleRetry(x, timerOk)]
    BY <1>5, OutcomesBoolean DEF ResponseTimeout
  <2>2. x.state \in Waiting
    BY <1>1, <1>5 DEF ResponseTimeout, Waiting
  <2> DEFINE y == ScheduleRetry(x, timerOk)
  <2>3. ContextOK(y) /\ Guarded(y)
    BY <1>1, <2>2, ScheduleRetryOK
  <2> QED  BY <1>5, <2>1, <2>3, OnlyClients DEF ResponseTimeout
<1>6. CASE RetryNow(c)
  <2>1. PICK sendOk \in BOOLEAN, timerOk \in BOOLEAN : SendAttempt(c, x, sendOk, timerOk)
    BY <1>6, OutcomesBoolean DEF RetryNow
  <2>2. client[c].state = "WaitingToRetry"
    BY <1>6 DEF RetryNow
  <2>3. x \in ClientContext /\ x.attempts < MaxAttempts /\ x.serviceAvailable
    BY <1>1, <1>2, <2>2 DEF ContextOK, ClientContext
  <2> HIDE DEF x
  <2> DEFINE y == Attempted(x, sendOk /\ timerOk)
  <2>4. ContextOK(y) /\ Guarded(y)
    BY <1>1, <2>3, AttemptedOK
  <2>5. TypeOK
    BY DEF ClientInv
  <2>6. client' = [client EXCEPT ![c] = y] /\ requests' \in Seq(Request)
    BY <2>1, <2>5, RequestSent DEF SendAttempt
  <2> HIDE DEF y
  <2> QED  BY <1>6, <2>4, <2>6, UpdateClient DEF RetryNow, ClientInv, TypeOK
<1> QED  BY <1>4, <1>5, <1>6
LEMMA LoopInv ==
  ASSUME ClientInv, NEW c \in Clients,
         \/ SocketDrained(c) \/ OnSignal(c) \/ Exit(c) \/ TimerExpires(c) \/ Signal(c)
  PROVE  ClientInv'
<1> DEFINE x == client[c]
           z == AfterDispatch(c)
<1>1. x \in ClientContext /\ ContextOK(x) /\ Guarded(x)
  BY DEF ClientInv, TypeOK
<1>2. CASE SocketDrained(c)
  BY <1>2, AfterDispatchOK, OnlyClients DEF SocketDrained, Dispatching
<1>3. CASE OnSignal(c)
  <2> DEFINE y == [z EXCEPT !.signalled = FALSE, !.stopRequested = TRUE]
  <2>1. ContextOK(z) /\ Guarded(z) /\ client' = [client EXCEPT ![c] = y]
    BY <1>3, AfterDispatchOK DEF OnSignal, Dispatching
  <2> HIDE DEF z
  <2>2. ContextOK(y) /\ Guarded(y)
    BY <2>1 DEF ContextOK, Guarded, ClientContext
  <2> QED  BY <1>3, <2>1, <2>2, OnlyClients DEF OnSignal
<1>4. CASE Exit(c)
  <2> DEFINE status == IF x.succeeded THEN 0 ELSE 2
             y == [x EXCEPT !.phase = "Exited", !.status = status]
  <2>1. client' = [client EXCEPT ![c] = y] /\ status \in 0..2
    BY <1>4 DEF Exit
  <2> HIDE DEF x, status
  <2>2. ContextOK(y) /\ Guarded(y)
    BY <1>1, <2>1 DEF ContextOK, Guarded, ClientContext
  <2> QED  BY <1>4, <2>1, <2>2, OnlyClients DEF Exit
<1>5. CASE TimerExpires(c)
  <2> DEFINE y == [x EXCEPT !.timer = "Expired"]
  <2>1. client' = [client EXCEPT ![c] = y]
    BY <1>5 DEF TimerExpires
  <2> HIDE DEF x
  <2>2. ContextOK(y) /\ Guarded(y)
    BY <1>1 DEF ContextOK, Guarded, ClientContext
  <2> QED  BY <1>5, <2>1, <2>2, OnlyClients DEF TimerExpires
<1>6. CASE Signal(c)
  <2> DEFINE y == [x EXCEPT !.signalled = TRUE]
  <2>1. client' = [client EXCEPT ![c] = y]
    BY <1>6 DEF Signal
  <2> HIDE DEF x
  <2>2. ContextOK(y) /\ Guarded(y)
    BY <1>1 DEF ContextOK, Guarded, ClientContext
  <2> QED  BY <1>6, <2>1, <2>2, OnlyClients DEF Signal
<1> QED  BY <1>2, <1>3, <1>4, <1>5, <1>6

\* What one request does to the server, the responses and the history
LEMMA ReplyType ==
  ASSUME TypeOK, NEW m \in Request,
         NEW type \in {"Ack", "Busy", "InvalidValue"}, Reply(m, type)
  PROVE  /\ responses' \in [Ports -> Seq(Response)]
         /\ \A p \in Ports : ToSet(responses'[p]) \subseteq
                             ToSet(responses[p]) \cup {[id |-> m.id, type |-> type]}
<1> DEFINE r == [id |-> m.id, type |-> type]
           p == Port[m.from]
<1>1. r \in Response /\ p \in Ports
  BY DEF Request, Response, Ports
<1>2. responses' = [responses EXCEPT ![p] = Append(@, r)]
  BY DEF Reply
<1> HIDE DEF r, p
<1>3. /\ responses' \in [Ports -> Seq(Response)]
      /\ \A q \in Ports : ToSet(responses'[q]) \subseteq ToSet(responses[q]) \cup {r}
  BY <1>1, <1>2, AppendResponse
<1> QED  BY <1>3 DEF r

LEMMA OnRequestInv ==
  ASSUME ClientInv, OnRequest  PROVE ClientInv'
<1>1. PICK i \in 1..Len(requests) :
        /\ \/ AnswerDuplicate(requests[i]) \/ RefuseBusy(requests[i])
           \/ RejectInterval(requests[i]) \/ Execute(requests[i])
        /\ requests' = RemoveAt(requests, i)
  BY DEF OnRequest
<1> DEFINE m == requests[i]
<1>2. TypeOK /\ m \in Request /\ requests' \in Seq(Request)
  BY <1>1, RemoveRequest DEF ClientInv
<1>3. server \in ServerContext /\ executions \in [Clients -> Nat]
      /\ responses \in [Ports -> Seq(Response)] /\ m.from \in Clients
      /\ m.interval \in Nat /\ m.id \in Nat
  BY <1>2 DEF TypeOK, Request
<1> HIDE DEF m
<1>4. responses' \in [Ports -> Seq(Response)]
  <2>1. CASE UNCHANGED responses
    BY <1>3, <2>1
  <2>2. CASE \E type \in {"Ack", "Busy", "InvalidValue"} : Reply(m, type)
    BY <1>2, <2>2, ReplyType
  <2> QED  BY <1>1, <2>1, <2>2 DEF m, AnswerDuplicate, RefuseBusy, RejectInterval, Execute
<1>5. server' \in ServerContext /\ executions' \in [Clients -> Nat]
  <2>1. CASE AnswerDuplicate(m) \/ RejectInterval(m)
    BY <1>3, <2>1 DEF AnswerDuplicate, RejectInterval
  <2>2. CASE RefuseBusy(m)
    BY <1>3, <2>2 DEF RefuseBusy, ServerContext
  <2>3. CASE Execute(m)
    <3> DEFINE drop == server.firstAckDropped \/ (server.mode = "DropFirstAck" /\ ~server.firstAckDropped)
    <3>1. drop \in BOOLEAN
      OBVIOUS
    <3>2. /\ server' = [server EXCEPT !.reportingInterval = m.interval,
                            !.hasCompleted = TRUE, !.completedId = m.id,
                            !.firstAckDropped = drop]
          /\ executions' = [executions EXCEPT ![m.from] = executions[m.from] + 1]
      BY <2>3 DEF Execute
    <3> HIDE DEF drop
    <3>3. server' \in ServerContext
      BY <1>3, <3>1, <3>2 DEF ServerContext
    <3>4. executions[m.from] + 1 \in Nat
      BY <1>3
    <3> QED  BY <1>3, <3>2, <3>3, <3>4
  <2> QED  BY <1>1, <2>1, <2>2, <2>3 DEF m
<1>6. UNCHANGED client /\ UNCHANGED duplicates
  BY DEF OnRequest
<1> QED  BY <1>2, <1>4, <1>5, <1>6 DEF ClientInv, TypeOK

LEMMA NetworkInv ==
  ASSUME ClientInv, StopServer \/ Network  PROVE ClientInv'
<1>1. TypeOK
  BY DEF ClientInv
<1>2. CASE StopServer
  BY <1>1, <1>2, ClientsUntouched DEF StopServer, TypeOK, ServerContext
<1>3. CASE LoseRequest
  BY <1>1, <1>3, RemoveRequest, ClientsUntouched DEF LoseRequest, TypeOK
<1>4. CASE LoseResponse
  <2>1. responses' \in [Ports -> Seq(Response)]
    BY <1>1, <1>4, RemoveResponse DEF LoseResponse
  <2> QED  BY <1>1, <1>4, <2>1, ClientsUntouched DEF LoseResponse, TypeOK
<1>5. ASSUME DuplicateRequest \/ DuplicateResponse  PROVE duplicates' \in 0..MaxDuplicates
  BY <1>1, <1>5, LinkAssumption DEF DuplicateRequest, DuplicateResponse, TypeOK
<1>6. CASE DuplicateRequest
  <2>1. requests' \in Seq(Request)
    <3>1. PICK i \in 1..Len(requests) : requests' = Append(requests, requests[i])
      BY <1>6 DEF DuplicateRequest
    <3> QED  BY <1>1, <3>1 DEF TypeOK
  <2> QED  BY <1>1, <1>5, <1>6, <2>1, ClientsUntouched DEF DuplicateRequest, TypeOK
<1>7. CASE DuplicateResponse
  <2>1. responses' \in [Ports -> Seq(Response)]
    <3>0. PICK p \in Ports : \E i \in 1..Len(responses[p]) :
            responses' = [responses EXCEPT ![p] = Append(@, @[i])]
      BY <1>7 DEF DuplicateResponse
    <3>1. PICK i \in 1..Len(responses[p]) :
            responses' = [responses EXCEPT ![p] = Append(@, @[i])]
      BY <3>0
    <3>2. responses[p] \in Seq(Response) /\ responses[p][i] \in Response
      BY <1>1 DEF TypeOK
    <3> QED  BY <1>1, <3>1, <3>2, AppendResponse
  <2> QED  BY <1>1, <1>5, <1>7, <2>1, ClientsUntouched DEF DuplicateResponse, TypeOK
<1> QED  BY <1>2, <1>3, <1>4, <1>6, <1>7 DEF Network

LEMMA NextClientInv == ClientInv /\ [Next]_vars => ClientInv'
<1> SUFFICES ASSUME ClientInv, [Next]_vars  PROVE ClientInv'
  OBVIOUS
<1>1. ASSUME NEW c \in Clients, Start(c)  PROVE ClientInv'
  BY <1>1, StartInv
<1>2. ASSUME NEW c \in Clients, ClientStep(c)  PROVE ClientInv'
  BY <1>2, PollOnceInv, HandleResponseInv, TimerInv, LoopInv DEF ClientStep
<1>3. ASSUME NEW c \in Clients, TimerExpires(c) \/ Signal(c)  PROVE ClientInv'
  BY <1>3, LoopInv
<1>4. CASE OnRequest
  BY <1>4, OnRequestInv
<1>5. CASE StopServer \/ Network
  BY <1>5, NetworkInv
<1>6. CASE Finished \/ UNCHANGED vars
  BY <1>6 DEF Finished, vars, ClientInv, TypeOK
<1> QED  BY <1>1, <1>2, <1>3, <1>4, <1>5, <1>6 DEF Next

LEMMA ClientInvariant == Spec => []ClientInv
BY InitClientInv, NextClientInv, PTL DEF Spec

\* Every component of the state keeps its type; in particular no client ever
\* makes more attempts than --max-attempts, on any network.
THEOREM TypeCorrect == Spec => []TypeOK
<1>1. ClientInv => TypeOK
  BY DEF ClientInv
<1> QED  BY <1>1, ClientInvariant, PTL

\* A client that waits always has a timer that is armed or has expired, so its
\* event loop cannot hang on a lost response (on_response, schedule_retry).
THEOREM TimerAlwaysGuards == Spec => []TimerGuardsWait
<1>1. ClientInv => TimerGuardsWait
  BY DEF ClientInv, Guarded, TimerGuardsWait, Alive
<1> QED  BY <1>1, ClientInvariant, PTL

\* No retry delay is entered without an attempt left, and the service is only
\* marked unavailable when the whole budget has been spent (schedule_retry).
THEOREM BudgetRespected == Spec => []RetryWithinBudget
<1>1. ClientInv => RetryWithinBudget
  BY DEF ClientInv, ContextOK, RetryWithinBudget
<1> QED  BY <1>1, ClientInvariant, PTL
--------------------------------------------------------------------------------
(* A settled transaction. *)

Settled(x) == x.state \in {"Succeeded", "Failed"}
SameOutcome(x, y) ==
    y.state = x.state /\ y.succeeded = x.succeeded /\ y.attempts = x.attempts

\* A step of one client that keeps the outcome of its own, if settled, keeps
\* those of all.
LEMMA OneClientStable ==
  ASSUME ClientInv, NEW c \in Clients, NEW y,
         client' = [client EXCEPT ![c] = y],
         Settled(client[c]) => SameOutcome(client[c], y)
  PROVE  \A d \in Clients : Settled(client[d]) => SameOutcome(client[d], client'[d])
<1>1. \A d \in Clients : client'[d] = IF d = c THEN y ELSE client[d]
  BY DEF ClientInv, TypeOK
<1> QED  BY <1>1 DEF SameOutcome

\* The steps of a client at the end of which a settled transaction is what it
\* was: those that may change it are disabled, or ignore what they are given.
LEMMA ClientStable ==
  ASSUME ClientInv, NEW c \in Clients,
         Start(c) \/ ClientStep(c) \/ TimerExpires(c) \/ Signal(c)
  PROVE  \A d \in Clients : Settled(client[d]) => SameOutcome(client[d], client'[d])
<1> DEFINE x == client[c]
           z == AfterDispatch(c)
<1>1. x \in ClientContext /\ ContextOK(x)
  BY DEF ClientInv, TypeOK
<1>2. z.state = x.state /\ SameOutcome(x, z)
  BY <1>1 DEF AfterDispatch, ClientContext, SameOutcome
<1>3. CASE Start(c)
  <2>1. ~Settled(x)
    BY <1>1, <1>3 DEF Start, ContextOK, Settled
  <2>2. PICK y : client' = [client EXCEPT ![c] = y]
    BY <1>3 DEF Start, SendAttempt
  <2> QED  BY <2>1, <2>2, OneClientStable
<1>4. CASE PollOnce(c)
  <2>1. PICK b \in SetToSeqs(ReadySources(c)) : client' = [client EXCEPT ![c].batch = b]
    BY <1>4 DEF PollOnce
  <2>2. client' = [client EXCEPT ![c] = [x EXCEPT !.batch = b]]
    BY <2>1
  <2>3. SameOutcome(x, [x EXCEPT !.batch = b])
    BY <1>1 DEF SameOutcome, ClientContext
  <2> QED  BY <2>2, <2>3, OneClientStable
<1>5. CASE HandleResponse(c)
  <2>1. PICK i \in 1..Len(responses[Port[c]]), timerOk \in Outcomes :
          client' = [client EXCEPT ![c] = OnResponse(c, @, responses[Port[c]][i], timerOk)]
    BY <1>5 DEF HandleResponse
  <2> DEFINE y == OnResponse(c, x, responses[Port[c]][i], timerOk)
  <2>2. client' = [client EXCEPT ![c] = y]
    BY <2>1
  <2>3. Settled(x) => y = x
    BY DEF Settled, OnResponse, Waiting
  <2>4. Settled(x) => SameOutcome(x, y)
    BY <2>3 DEF SameOutcome
  <2> HIDE DEF y
  <2> QED  BY <2>2, <2>4, OneClientStable
<1>6. CASE SocketDrained(c)
  <2>1. client' = [client EXCEPT ![c] = z]
    BY <1>6 DEF SocketDrained
  <2> QED  BY <1>2, <2>1, OneClientStable
<1>7. CASE IdleTimer(c)
  <2> DEFINE y == [z EXCEPT !.timer = IF @ = "Expired" THEN "Disarmed" ELSE @]
  <2>1. client' = [client EXCEPT ![c] = y]
    BY <1>7 DEF IdleTimer
  <2>2. SameOutcome(x, y)
    BY <1>1 DEF SameOutcome, ClientContext, AfterDispatch
  <2> QED  BY <2>1, <2>2, OneClientStable
<1>8. CASE ResponseTimeout(c) \/ RetryNow(c)
  <2>1. ~Settled(x)
    BY <1>8 DEF ResponseTimeout, RetryNow, Settled
  <2>2. PICK y : client' = [client EXCEPT ![c] = y]
    BY <1>8 DEF ResponseTimeout, RetryNow, SendAttempt
  <2> QED  BY <2>1, <2>2, OneClientStable
<1>9. CASE OnSignal(c)
  <2> DEFINE y == [z EXCEPT !.signalled = FALSE, !.stopRequested = TRUE]
  <2>1. client' = [client EXCEPT ![c] = y]
    BY <1>9 DEF OnSignal
  <2>2. SameOutcome(x, y)
    BY <1>1 DEF SameOutcome, ClientContext, AfterDispatch
  <2> QED  BY <2>1, <2>2, OneClientStable
<1>10. CASE Exit(c)
  <2> DEFINE y == [x EXCEPT !.phase = "Exited", !.status = IF x.succeeded THEN 0 ELSE 2]
  <2>1. client' = [client EXCEPT ![c] = y]
    BY <1>10 DEF Exit
  <2>2. SameOutcome(x, y)
    BY <1>1 DEF SameOutcome, ClientContext
  <2> QED  BY <2>1, <2>2, OneClientStable
<1>11. CASE TimerExpires(c)
  <2>1. client' = [client EXCEPT ![c] = [x EXCEPT !.timer = "Expired"]]
    BY <1>11 DEF TimerExpires
  <2>2. SameOutcome(x, [x EXCEPT !.timer = "Expired"])
    BY <1>1 DEF SameOutcome, ClientContext
  <2> QED  BY <2>1, <2>2, OneClientStable
<1>12. CASE Signal(c)
  <2>1. client' = [client EXCEPT ![c] = [x EXCEPT !.signalled = TRUE]]
    BY <1>12 DEF Signal
  <2>2. SameOutcome(x, [x EXCEPT !.signalled = TRUE])
    BY <1>1 DEF SameOutcome, ClientContext
  <2> QED  BY <2>1, <2>2, OneClientStable
<1> QED  BY <1>3, <1>4, <1>5, <1>6, <1>7, <1>8, <1>9, <1>10, <1>11, <1>12 DEF ClientStep

\* What a client has told its user it never takes back: a settled transaction
\* keeps its state, its result and its number of attempts, whatever answers,
\* timeouts and signals are still to be handled (the guards on context.state in
\* on_response, handle_response_timeout and the retry timer's handler).
THEOREM OutcomeIsFinal == Spec => OutcomeStable
<1> DEFINE Kept == \A c \in Clients : Settled(client[c]) => SameOutcome(client[c], client'[c])
<1>1. ASSUME ClientInv, Next  PROVE Kept
  <2>1. ASSUME NEW c \in Clients, Start(c) \/ ClientStep(c) \/ TimerExpires(c) \/ Signal(c)
        PROVE Kept
    BY <1>1, <2>1, ClientStable
  <2>2. CASE OnRequest \/ StopServer \/ Network \/ Finished
    <3>1. UNCHANGED client
      BY <2>2 DEF OnRequest, StopServer, Network, LoseRequest, LoseResponse,
                  DuplicateRequest, DuplicateResponse, Finished, vars
    <3> QED  BY <3>1 DEF SameOutcome
  <2> QED  BY <1>1, <2>1, <2>2 DEF Next
<1>2. ClientInv /\ [Next]_vars =>
        [\A c \in Clients : client[c].state \in {"Succeeded", "Failed"} =>
           /\ client'[c].state = client[c].state
           /\ client'[c].succeeded = client[c].succeeded
           /\ client'[c].attempts = client[c].attempts]_vars
  BY <1>1 DEF Settled, SameOutcome
<1> QED  BY <1>2, ClientInvariant, PTL DEF Spec, OutcomeStable

--------------------------------------------------------------------------------
(* Success.  That a client which reports success was served is not inductive: *)
(* it rests on the ACKs in transit and on the transaction the server          *)
(* remembers, which must all stand for transactions it has carried out.       *)

\* The clients use different transaction identifiers.
DistinctIds == \A c, d \in Clients : TxnId[c] = TxnId[d] => c = d

CarriedOut(id) == \A c \in Clients : TxnId[c] = id => executions[c] > 0

RequestsGenuine == \A m \in ToSet(requests) : m.id = TxnId[m.from]
AcksGenuine == \A p \in Ports : \A m \in ToSet(responses[p]) :
                 m.type = "Ack" => CarriedOut(m.id)
MemoryGenuine == server.hasCompleted => CarriedOut(server.completedId)
SuccessGenuine == \A c \in Clients :
                    /\ client[c].succeeded => executions[c] > 0
                    /\ client[c].phase = "Exited" /\ client[c].status = 0
                         => client[c].succeeded

AckInv == RequestsGenuine /\ AcksGenuine /\ MemoryGenuine /\ SuccessGenuine

\* A step of a client that keeps what is known of the others: all it may add to
\* the network is its own request.
LEMMA ClientKeepsAckInv ==
  ASSUME ClientInv, AckInv, NEW c \in Clients, NEW y,
         client' = [client EXCEPT ![c] = y],
         y.succeeded => client[c].succeeded \/ executions[c] > 0,
         y.phase = "Exited" /\ y.status = 0 => y.succeeded,
         requests' = requests \/ ToSet(requests') \subseteq ToSet(requests) \cup {RequestOf(c)},
         \A p \in Ports : ToSet(responses'[p]) \subseteq ToSet(responses[p]),
         UNCHANGED <<server, executions>>
  PROVE  AckInv'
<1>1. client \in [Clients -> ClientContext]
  BY DEF ClientInv, TypeOK
<1>2. \A d \in Clients : client'[d] = IF d = c THEN y ELSE client[d]
  BY <1>1
<1>3. SuccessGenuine'
  BY <1>2 DEF AckInv, SuccessGenuine
<1>4. RequestsGenuine'
  BY DEF AckInv, RequestsGenuine, RequestOf
<1>5. AcksGenuine' /\ MemoryGenuine'
  BY DEF AckInv, AcksGenuine, MemoryGenuine, CarriedOut
<1> QED  BY <1>3, <1>4, <1>5 DEF AckInv

LEMMA StartAckInv ==
  ASSUME ClientInv, AckInv, NEW c \in Clients, Start(c)  PROVE AckInv'
<1>1. PICK sendOk \in BOOLEAN, timerOk \in BOOLEAN :
        SendAttempt(c, [client[c] EXCEPT
                          !.phase = IF sendOk /\ timerOk THEN "Running" ELSE "Exited",
                          !.status = IF sendOk /\ timerOk THEN 0 ELSE 1],
                    sendOk, timerOk)
  BY OutcomesBoolean DEF Start
<1> DEFINE phase == IF sendOk /\ timerOk THEN "Running" ELSE "Exited"
           status == IF sendOk /\ timerOk THEN 0 ELSE 1
           x == [client[c] EXCEPT !.phase = phase, !.status = status]
<1>2. client[c] \in ClientContext /\ ContextOK(client[c]) /\ client[c].phase = "NotStarted"
  BY DEF ClientInv, TypeOK, Start
<1>3. SendAttempt(c, x, sendOk, timerOk) /\ TypeOK
  BY <1>1 DEF ClientInv
<1>4. /\ x \in ClientContext /\ x.phase \in {"Running", "Exited"}
      /\ x.attempts = 0 /\ x.serviceAvailable /\ x.succeeded = client[c].succeeded
      /\ ~(x.phase = "Exited" /\ x.status = 0)
  <2>1. phase \in {"Running", "Exited"} /\ status \in 0..2 /\ ~(phase = "Exited" /\ status = 0)
    OBVIOUS
  <2> HIDE DEF phase, status
  <2>2. client[c].attempts = 0 /\ client[c].serviceAvailable
    BY <1>2 DEF ContextOK, ClientContext
  <2> QED  BY <1>2, <2>1, <2>2 DEF ClientContext
<1>5. x.attempts < MaxAttempts
  BY <1>4, OptionsAssumption
<1> HIDE DEF x
<1> DEFINE z == Attempted(x, sendOk /\ timerOk)
<1>6. (z.succeeded => x.succeeded) /\ z.phase = x.phase /\ z.status = x.status
  BY <1>4, <1>5, AttemptedOK
<1>7. client' = [client EXCEPT ![c] = z]
      /\ ToSet(requests') \subseteq ToSet(requests) \cup {RequestOf(c)}
  BY <1>3, RequestSent DEF SendAttempt
<1> HIDE DEF z
<1>8. /\ z.succeeded => client[c].succeeded
      /\ ~(z.phase = "Exited" /\ z.status = 0)
  BY <1>4, <1>6
<1>9. UNCHANGED <<server, responses, executions>>
  BY DEF Start
<1> QED  BY <1>7, <1>8, <1>9, ClientKeepsAckInv

\* The only handler that reports success is the one that reads an ACK for the
\* client's own transaction.
LEMMA HandleResponseAckInv ==
  ASSUME ClientInv, AckInv, NEW c \in Clients, HandleResponse(c)  PROVE AckInv'
<1>1. PICK i \in 1..Len(responses[Port[c]]), timerOk \in BOOLEAN :
        /\ client' = [client EXCEPT
              ![c] = OnResponse(c, client[c], responses[Port[c]][i], timerOk)]
        /\ responses' = [responses EXCEPT ![Port[c]] = RemoveAt(@, i)]
  BY OutcomesBoolean DEF HandleResponse
<1> DEFINE x == client[c]
           m == responses[Port[c]][i]
           y == OnResponse(c, x, m, timerOk)
<1>2. Port[c] \in Ports /\ TypeOK
  BY DEF Ports, ClientInv
<1>3. /\ m \in Response /\ m \in ToSet(responses[Port[c]])
      /\ \A p \in Ports : ToSet(responses'[p]) \subseteq ToSet(responses[p])
  BY <1>1, <1>2, RemoveResponse
<1>4. x \in ClientContext /\ x.phase = "Running"
  BY DEF ClientInv, TypeOK, HandleResponse, Dispatching, Alive
<1>5. m.type = "Ack" /\ m.id = TxnId[c] => executions[c] > 0
  BY <1>2, <1>3 DEF AckInv, AcksGenuine, CarriedOut
<1>6. client' = [client EXCEPT ![c] = y]
  BY <1>1
<1> HIDE DEF x, m
<1>7. y.phase = "Running" /\ (y.succeeded => x.succeeded \/ executions[c] > 0)
  <2>1. CASE x.state \notin Waiting \/ m.id # TxnId[c]
    BY <1>4, <2>1 DEF OnResponse
  <2>2. CASE ~(x.state \notin Waiting \/ m.id # TxnId[c]) /\ m.type = "Ack"
    BY <1>4, <1>5, <2>2 DEF OnResponse, HandleAnswer, ClientContext
  <2>3. CASE ~(x.state \notin Waiting \/ m.id # TxnId[c]) /\ m.type # "Ack"
    BY <1>4, <2>3 DEF OnResponse, HandleAnswer, ClientContext, ScheduleRetry, ArmRetryDelay,
                      ExhaustRetryBudget, FailTransaction
  <2> QED  BY <2>1, <2>2, <2>3
<1> HIDE DEF y
<1>8. UNCHANGED <<server, requests, executions>> /\ x = client[c]
  BY DEF HandleResponse, x
<1> QED  BY <1>3, <1>6, <1>7, <1>8, ClientKeepsAckInv
\* The other steps of a client neither report success nor read a response.
LEMMA QuietStepAckInv ==
  ASSUME ClientInv, AckInv, NEW c \in Clients,
         \/ PollOnce(c) \/ SocketDrained(c) \/ IdleTimer(c) \/ ResponseTimeout(c)
         \/ RetryNow(c) \/ OnSignal(c) \/ Exit(c) \/ TimerExpires(c) \/ Signal(c)
  PROVE  AckInv'
<1> DEFINE x == client[c]
           z == AfterDispatch(c)
           t == [AfterDispatch(c) EXCEPT !.timer = "Disarmed"]
<1>1. x \in ClientContext /\ TypeOK
  BY DEF ClientInv, TypeOK
<1>2. /\ z.succeeded = x.succeeded /\ z.phase = x.phase /\ z.status = x.status
      /\ t.succeeded = x.succeeded /\ t.phase = x.phase /\ t.status = x.status
      /\ t.attempts = x.attempts
  BY <1>1 DEF AfterDispatch, ClientContext
<1>3. x.phase = "Exited" /\ x.status = 0 => x.succeeded
  BY DEF AckInv, SuccessGenuine
<1>4. UNCHANGED <<server, responses, executions>>
  BY DEF PollOnce, SocketDrained, IdleTimer, ResponseTimeout, RetryNow, OnSignal,
         Exit, TimerExpires, Signal
<1>5. ASSUME NEW y,
             client' = [client EXCEPT ![c] = y],
             y.succeeded => x.succeeded,
             y.phase = "Exited" /\ y.status = 0 => y.succeeded,
             requests' = requests \/ ToSet(requests') \subseteq ToSet(requests) \cup {RequestOf(c)}
      PROVE  AckInv'
  BY <1>4, <1>5, ClientKeepsAckInv
<1>6. CASE PollOnce(c)
  <2>1. PICK b \in SetToSeqs(ReadySources(c)) : client' = [client EXCEPT ![c].batch = b]
    BY <1>6 DEF PollOnce
  <2> DEFINE y == [x EXCEPT !.batch = b]
  <2>2. client' = [client EXCEPT ![c] = y] /\ requests' = requests
    BY <1>6, <2>1 DEF PollOnce
  <2>3. y.succeeded = x.succeeded /\ y.phase = x.phase /\ y.status = x.status
    BY <1>1 DEF ClientContext
  <2> HIDE DEF x, y
  <2> QED  BY <1>5, <1>3, <2>2, <2>3
<1>7. CASE SocketDrained(c)
  <2>1. client' = [client EXCEPT ![c] = z] /\ requests' = requests
    BY <1>7 DEF SocketDrained
  <2> HIDE DEF x, z
  <2> QED  BY <1>5, <1>2, <1>3, <2>1
<1>8. CASE IdleTimer(c)
  <2> DEFINE y == [z EXCEPT !.timer = IF @ = "Expired" THEN "Disarmed" ELSE @]
  <2>1. client' = [client EXCEPT ![c] = y] /\ requests' = requests
    BY <1>8 DEF IdleTimer
  <2>2. y.succeeded = z.succeeded /\ y.phase = z.phase /\ y.status = z.status
    BY <1>1 DEF AfterDispatch, ClientContext
  <2> HIDE DEF x, y, z
  <2> QED  BY <1>5, <1>2, <1>3, <2>1, <2>2
<1>9. CASE ResponseTimeout(c)
  <2>1. PICK timerOk \in BOOLEAN : client' = [client EXCEPT ![c] = ScheduleRetry(t, timerOk)]
    BY <1>9, OutcomesBoolean DEF ResponseTimeout
  <2> DEFINE y == ScheduleRetry(t, timerOk)
  <2>2. y.phase = x.phase /\ y.status = x.status /\ (y.succeeded => x.succeeded)
    BY <1>1, <1>2 DEF AfterDispatch, ClientContext, ScheduleRetry, ArmRetryDelay,
                           ExhaustRetryBudget, FailTransaction
  <2>3. x.phase = "Running" /\ requests' = requests
    BY <1>9 DEF ResponseTimeout, Dispatching, Alive
  <2> HIDE DEF x, y
  <2> QED  BY <1>5, <2>1, <2>2, <2>3 DEF y
<1>10. CASE RetryNow(c)
  <2>1. PICK sendOk \in BOOLEAN, timerOk \in BOOLEAN : SendAttempt(c, t, sendOk, timerOk)
    BY <1>10, OutcomesBoolean DEF RetryNow
  <2>2. /\ client[c].batch # <<>> /\ Alive(c) /\ client[c].state = "WaitingToRetry"
        /\ ContextOK(client[c])
    BY <1>10 DEF RetryNow, Dispatching, ClientInv
  <2>3. t \in ClientContext /\ t.phase = "Running" /\ t.attempts < MaxAttempts /\ t.serviceAvailable
    BY <2>2, TimerReadOK DEF ContextOK, ClientContext
  <2> HIDE DEF t
  <2> DEFINE y == Attempted(t, sendOk /\ timerOk)
  <2>4. (y.succeeded => t.succeeded) /\ y.phase = t.phase /\ y.status = t.status
    BY <2>3, AttemptedOK
  <2>5. client' = [client EXCEPT ![c] = y]
        /\ ToSet(requests') \subseteq ToSet(requests) \cup {RequestOf(c)}
    BY <1>1, <2>1, RequestSent DEF SendAttempt
  <2> HIDE DEF x, y
  <2> QED  BY <1>5, <1>2, <2>3, <2>4, <2>5
<1>11. CASE OnSignal(c)
  <2> DEFINE y == [z EXCEPT !.signalled = FALSE, !.stopRequested = TRUE]
  <2>1. client' = [client EXCEPT ![c] = y] /\ requests' = requests
    BY <1>11 DEF OnSignal
  <2>2. y.succeeded = z.succeeded /\ y.phase = z.phase /\ y.status = z.status
    BY <1>1 DEF AfterDispatch, ClientContext
  <2> HIDE DEF x, y, z
  <2> QED  BY <1>5, <1>2, <1>3, <2>1, <2>2
<1>12. CASE Exit(c)
  <2> DEFINE status == IF x.succeeded THEN 0 ELSE 2
             y == [x EXCEPT !.phase = "Exited", !.status = status]
  <2>1. client' = [client EXCEPT ![c] = y] /\ requests' = requests
    BY <1>12 DEF Exit
  <2>2. status = 0 => x.succeeded
    OBVIOUS
  <2> HIDE DEF status
  <2>3. y.succeeded = x.succeeded /\ y.status = status
    BY <1>1 DEF ClientContext
  <2> HIDE DEF x, y
  <2> QED  BY <1>5, <2>1, <2>2, <2>3
<1>13. CASE TimerExpires(c)
  <2> DEFINE y == [x EXCEPT !.timer = "Expired"]
  <2>1. client' = [client EXCEPT ![c] = y] /\ requests' = requests
    BY <1>13 DEF TimerExpires
  <2>2. y.succeeded = x.succeeded /\ y.phase = x.phase /\ y.status = x.status
    BY <1>1 DEF ClientContext
  <2> HIDE DEF x, y
  <2> QED  BY <1>5, <1>3, <2>1, <2>2
<1>14. CASE Signal(c)
  <2> DEFINE y == [x EXCEPT !.signalled = TRUE]
  <2>1. client' = [client EXCEPT ![c] = y] /\ requests' = requests
    BY <1>14 DEF Signal
  <2>2. y.succeeded = x.succeeded /\ y.phase = x.phase /\ y.status = x.status
    BY <1>1 DEF ClientContext
  <2> HIDE DEF x, y
  <2> QED  BY <1>5, <1>3, <2>1, <2>2
<1> QED  BY <1>6, <1>7, <1>8, <1>9, <1>10, <1>11, <1>12, <1>13, <1>14
LEMMA OnRequestAckInv ==
  ASSUME ClientInv, AckInv, DistinctIds, OnRequest  PROVE AckInv'
<1>1. PICK i \in 1..Len(requests) :
        /\ \/ AnswerDuplicate(requests[i]) \/ RefuseBusy(requests[i])
           \/ RejectInterval(requests[i]) \/ Execute(requests[i])
        /\ requests' = RemoveAt(requests, i)
  BY DEF OnRequest
<1>0. PICK m : m = requests[i]
  OBVIOUS
<1>2. /\ TypeOK /\ m \in Request /\ m \in ToSet(requests)
      /\ ToSet(requests') \subseteq ToSet(requests)
  BY <1>1, <1>0, RemoveRequest DEF ClientInv
<1>3. m.from \in Clients /\ m.id = TxnId[m.from] /\ executions \in [Clients -> Nat]
      /\ server \in ServerContext
  BY <1>2 DEF TypeOK, Request, AckInv, RequestsGenuine
<1>4. /\ \A c \in Clients : executions[c] > 0 => executions'[c] > 0
      /\ Execute(m) => executions'[m.from] > 0
  <2>1. CASE UNCHANGED executions /\ ~Execute(m)
    BY <2>1
  <2>2. CASE Execute(m)
    <3>1. \A c \in Clients : executions'[c] =
            IF c = m.from THEN executions[m.from] + 1 ELSE executions[c]
      BY <1>3, <2>2 DEF Execute
    <3> QED  BY <1>3, <3>1
  <2> QED  BY <1>1, <1>0, <2>1, <2>2 DEF AnswerDuplicate, RefuseBusy, RejectInterval
<1>5. \A id : CarriedOut(id) => CarriedOut(id)'
  BY <1>4 DEF CarriedOut
<1>6. IsDuplicate(m) => CarriedOut(m.id)
  <2>1. IsDuplicate(m) => server.hasCompleted /\ m.id = server.completedId
    BY DEF IsDuplicate
  <2>2. server.hasCompleted => \A c \in Clients :
          TxnId[c] = server.completedId => executions[c] > 0
    BY DEF AckInv, MemoryGenuine, CarriedOut
  <2> QED  BY <2>1, <2>2 DEF CarriedOut
<1>7. Execute(m) => CarriedOut(m.id)'
  BY <1>3, <1>4 DEF CarriedOut, DistinctIds
<1>8. RequestsGenuine'
  BY <1>2 DEF AckInv, RequestsGenuine
<1>9. SuccessGenuine'
  BY <1>4 DEF AckInv, SuccessGenuine, OnRequest
<1>10. MemoryGenuine'
  <2>1. CASE Execute(m)
    <3>1. server'.completedId = m.id
      BY <1>3, <2>1 DEF Execute, ServerContext
    <3> QED  BY <1>7, <2>1, <3>1 DEF MemoryGenuine, CarriedOut
  <2>2. CASE RefuseBusy(m)
    <3>1. server'.hasCompleted = server.hasCompleted /\ server'.completedId = server.completedId
      BY <1>3, <2>2 DEF RefuseBusy, ServerContext
    <3> QED  BY <1>5, <3>1 DEF AckInv, MemoryGenuine
  <2>3. CASE AnswerDuplicate(m) \/ RejectInterval(m)
    BY <1>5, <2>3 DEF AnswerDuplicate, RejectInterval, AckInv, MemoryGenuine
  <2> QED  BY <1>1, <1>0, <2>1, <2>2, <2>3
<1>11. AcksGenuine'
  <2>1. CASE UNCHANGED responses
    BY <1>5, <2>1 DEF AckInv, AcksGenuine
  <2>2. ASSUME NEW type \in {"Ack", "Busy", "InvalidValue"}, Reply(m, type),
               type = "Ack" => CarriedOut(m.id)'
        PROVE  AcksGenuine'
    <3>1. \A p \in Ports : ToSet(responses'[p]) \subseteq
                           ToSet(responses[p]) \cup {[id |-> m.id, type |-> type]}
      BY <1>2, <2>2, ReplyType
    <3>2. ASSUME NEW p \in Ports, NEW n \in ToSet(responses'[p]), n.type = "Ack"
          PROVE  CarriedOut(n.id)'
      <4>1. CASE n = [id |-> m.id, type |-> type]
        BY <2>2, <3>2, <4>1 DEF CarriedOut
      <4>2. CASE n \in ToSet(responses[p])
        BY <1>5, <3>2, <4>2 DEF AckInv, AcksGenuine
      <4> QED  BY <3>1, <4>1, <4>2
    <3> QED  BY <3>2 DEF AcksGenuine
  <2>3. CASE AnswerDuplicate(m)
    BY <1>5, <1>6, <2>1, <2>2, <2>3 DEF AnswerDuplicate
  <2>4. CASE RefuseBusy(m)
    BY <2>2, <2>4 DEF RefuseBusy
  <2>5. CASE RejectInterval(m)
    BY <2>2, <2>5 DEF RejectInterval
  <2>6. CASE Execute(m)
    BY <1>7, <2>1, <2>2, <2>6 DEF Execute
  <2> QED  BY <1>1, <1>0, <2>3, <2>4, <2>5, <2>6
<1> QED  BY <1>8, <1>9, <1>10, <1>11 DEF AckInv

LEMMA NetworkAckInv ==
  ASSUME ClientInv, AckInv, StopServer \/ Network  PROVE AckInv'
<1>1. TypeOK /\ UNCHANGED <<client, executions>>
  BY DEF ClientInv, StopServer, Network, LoseRequest, LoseResponse, DuplicateRequest,
         DuplicateResponse
<1>2. ToSet(requests') \subseteq ToSet(requests)
  <2>1. CASE UNCHANGED requests
    BY <2>1
  <2>2. CASE LoseRequest
    BY <1>1, <2>2, RemoveRequest DEF LoseRequest
  <2>3. CASE DuplicateRequest
    <3>1. PICK i \in 1..Len(requests) : requests' = Append(requests, requests[i])
      BY <2>3 DEF DuplicateRequest
    <3>2. requests \in Seq(Request) /\ requests[i] \in Request /\ requests[i] \in ToSet(requests)
      BY <1>1 DEF TypeOK, ToSet
    <3> QED  BY <3>1, <3>2, AppendSeq
  <2> QED  BY <2>1, <2>2, <2>3 DEF StopServer, Network, LoseResponse, DuplicateResponse
<1>3. \A p \in Ports : ToSet(responses'[p]) \subseteq ToSet(responses[p])
  <2>1. CASE UNCHANGED responses
    BY <2>1
  <2>2. CASE LoseResponse
    <3>1. PICK p \in Ports : \E i \in 1..Len(responses[p]) :
            responses' = [responses EXCEPT ![p] = RemoveAt(@, i)]
      BY <2>2 DEF LoseResponse
    <3> QED  BY <1>1, <3>1, RemoveResponse
  <2>3. CASE DuplicateResponse
    <3>1. PICK p \in Ports : \E i \in 1..Len(responses[p]) :
            responses' = [responses EXCEPT ![p] = Append(@, @[i])]
      BY <2>3 DEF DuplicateResponse
    <3>2. PICK i \in 1..Len(responses[p]) :
            responses' = [responses EXCEPT ![p] = Append(@, @[i])]
      BY <3>1
    <3> DEFINE m == responses[p][i]
    <3>3. m \in Response /\ m \in ToSet(responses[p])
      BY <1>1 DEF TypeOK, ToSet
    <3>4. responses' = [responses EXCEPT ![p] = Append(@, m)]
      BY <3>2
    <3> HIDE DEF m
    <3>5. \A q \in Ports : ToSet(responses'[q]) \subseteq
                           IF q = p THEN ToSet(responses[q]) \cup {m} ELSE ToSet(responses[q])
      BY <1>1, <3>3, <3>4, AppendSeq DEF TypeOK
    <3> QED  BY <3>3, <3>5
  <2> QED  BY <2>1, <2>2, <2>3 DEF StopServer, Network, LoseRequest, DuplicateRequest
<1>4. server \in ServerContext
  BY <1>1 DEF TypeOK
<1>5. server'.hasCompleted = server.hasCompleted /\ server'.completedId = server.completedId
  <2>1. CASE StopServer
    BY <1>4, <2>1 DEF StopServer, ServerContext
  <2>2. CASE Network
    BY <2>2 DEF Network, LoseRequest, LoseResponse, DuplicateRequest, DuplicateResponse
  <2> QED  BY <2>1, <2>2
<1>6. RequestsGenuine' /\ AcksGenuine'
  BY <1>1, <1>2, <1>3 DEF AckInv, RequestsGenuine, AcksGenuine, CarriedOut
<1>7. MemoryGenuine' /\ SuccessGenuine'
  BY <1>1, <1>5 DEF AckInv, MemoryGenuine, SuccessGenuine, CarriedOut
<1> QED  BY <1>6, <1>7 DEF AckInv

LEMMA InitAckInv == Init => AckInv
<1> SUFFICES ASSUME Init PROVE AckInv
  OBVIOUS
<1>1. ToSet(<<>>) = {}
  BY DEF ToSet
<1>2. \A c \in Clients : client[c] = NewClient
  BY DEF Init
<1> QED  BY <1>1, <1>2 DEF Init, NewClient, AckInv, RequestsGenuine, AcksGenuine,
                           MemoryGenuine, SuccessGenuine

LEMMA NextAckInv ==
  ASSUME DistinctIds, ClientInv, AckInv, [Next]_vars  PROVE AckInv'
<1>1. ASSUME NEW c \in Clients, Start(c)  PROVE AckInv'
  BY <1>1, StartAckInv
<1>2. ASSUME NEW c \in Clients, ClientStep(c)  PROVE AckInv'
  BY <1>2, HandleResponseAckInv, QuietStepAckInv DEF ClientStep
<1>3. ASSUME NEW c \in Clients, TimerExpires(c) \/ Signal(c)  PROVE AckInv'
  BY <1>3, QuietStepAckInv
<1>4. CASE OnRequest
  BY <1>4, OnRequestAckInv
<1>5. CASE StopServer \/ Network
  BY <1>5, NetworkAckInv
<1>6. CASE Finished \/ UNCHANGED vars
  BY <1>6 DEF Finished, vars, AckInv, RequestsGenuine, AcksGenuine, MemoryGenuine,
              SuccessGenuine, CarriedOut
<1> QED  BY <1>1, <1>2, <1>3, <1>4, <1>5, <1>6 DEF Next

\* When transaction identifiers are not reused, a client reports success only
\* for a transaction the server has carried out, whatever the network loses,
\* duplicates or reorders, in every server mode, and with shared ports.
THEOREM SuccessIsGenuine ==
  ASSUME DistinctIds  PROVE Spec => []SuccessMeansApplied
<1>1. Init => ClientInv /\ AckInv
  BY InitClientInv, InitAckInv
<1>2. (ClientInv /\ AckInv) /\ [Next]_vars => (ClientInv /\ AckInv)'
  BY DistinctIds, NextClientInv, NextAckInv
<1>3. ClientInv /\ AckInv => SuccessMeansApplied
  BY DEF AckInv, SuccessGenuine, SuccessMeansApplied
<1> QED  BY <1>1, <1>2, <1>3, PTL DEF Spec

--------------------------------------------------------------------------------
(* Clients that run one after the other over a link that keeps the order of  *)
(* datagrams and repeats none: the server carries out each transaction at     *)
(* most once, and the lab implements TransactionSpec.                         *)

\* What the lab has on the loopback interface, with clients run by hand.
InOrder == Sequential /\ FifoLink /\ MaxDuplicates = 0

--------------------------------------------------------------------------------
(* The inductive invariant.  Requests are in the channel in the order of the  *)
(* clients, and the transaction the server remembers is as if before them.    *)

\* From position i on, client c is over.
Past(c, i) ==
    /\ client[c].phase = "Exited"
    /\ \A k \in 1..Len(requests) : k >= i => requests[k].from # c

\* When another client's request is behind one of c's, c is over.
InTurn ==
    \A c \in Clients : \A i, j \in 1..Len(requests) :
        i < j /\ requests[i].from = c /\ requests[j].from # c => Past(c, j)

Remembered(c) == server.hasCompleted /\ server.completedId = TxnId[c]

MemoryInTurn ==
    \A c \in Clients : Remembered(c) =>
        /\ client[c].phase # "NotStarted"
        /\ \A j \in 1..Len(requests) : requests[j].from # c => Past(c, j)

\* Each request is that of a client that has started.
SentByClients ==
    \A i \in 1..Len(requests) :
        /\ requests[i] = RequestOf(requests[i].from)
        /\ client[requests[i].from].phase # "NotStarted"

OneRuns == \A c, d \in Clients : Alive(c) /\ Alive(d) => c = d

\* What has been carried out is what the server remembers, or is over for good.
ExecutedOnce ==
    \A c \in Clients :
        /\ executions[c] <= 1
        /\ executions[c] > 0 => Remembered(c) \/ Past(c, 1)

OnceInv == InTurn /\ MemoryInTurn /\ SentByClients /\ OneRuns /\ ExecutedOnce

\* A client that has succeeded is settled, and so never takes it back.
SuccessSettled == \A c \in Clients : client[c].succeeded => Settled(client[c])

--------------------------------------------------------------------------------
(* The channel *)

\* Where the j-th request was before the i-th was taken out.
Place(i, j) == IF j < i THEN j ELSE j + 1

\* RemoveAt keeps the other requests, in their order.
LEMMA RemovedRequest ==
  ASSUME TypeOK, NEW i \in 1..Len(requests), requests' = RemoveAt(requests, i)
  PROVE  /\ Len(requests') = Len(requests) - 1
         /\ \A j \in 1..Len(requests') :
              Place(i, j) \in 1..Len(requests) /\ requests'[j] = requests[Place(i, j)]
<1> DEFINE s == requests
           f == SubSeq(s, 1, i - 1)
           g == SubSeq(s, i + 1, Len(s))
<1>1. s \in Seq(Request) /\ Len(s) \in Nat /\ i \in Nat /\ 1 <= i /\ i <= Len(s)
  BY DEF TypeOK
<1> HIDE DEF s
<1>2. f \in Seq(Request) /\ Len(f) = i - 1 /\ \A j \in 1..(i - 1) : f[j] = s[j]
  BY <1>1, SMTT(30)
<1>3. /\ g \in Seq(Request) /\ Len(g) = Len(s) - i
      /\ \A j \in 1..(Len(s) - i) : g[j] = s[i + j]
  BY <1>1, SMTT(30)
<1>4. requests' = f \o g
  BY DEF RemoveAt, s
<1> HIDE DEF f, g
<1>5. /\ Len(f \o g) = Len(s) - 1
      /\ \A j \in 1..(Len(s) - 1) : (f \o g)[j] = IF j <= i - 1 THEN f[j] ELSE g[j - (i - 1)]
  <2>1. /\ Len(f \o g) = Len(f) + Len(g)
        /\ \A j \in 1..(Len(f) + Len(g)) : (f \o g)[j] = IF j <= Len(f) THEN f[j] ELSE g[j - Len(f)]
    BY <1>2, <1>3, ConcatProperties
  <2>2. Len(f) + Len(g) = Len(s) - 1
    BY <1>1, <1>2, <1>3
  <2> QED  BY <1>2, <2>1, <2>2
<1>6. ASSUME NEW j \in 1..(Len(s) - 1)
      PROVE  Place(i, j) \in 1..Len(s) /\ (f \o g)[j] = s[Place(i, j)]
  <2>1. CASE j < i
    <3>1. Place(i, j) = j /\ j \in 1..(i - 1) /\ j \in 1..Len(s) /\ j <= i - 1
      BY <1>1, <2>1 DEF Place
    <3> QED  BY <1>2, <1>5, <3>1
  <2>2. CASE ~(j < i)
    <3>1. /\ Place(i, j) = j + 1 /\ j + 1 \in 1..Len(s) /\ ~(j <= i - 1)
          /\ j - (i - 1) \in 1..(Len(s) - i) /\ i + (j - (i - 1)) = j + 1
      BY <1>1, <2>2 DEF Place
    <3>2. (f \o g)[j] = g[j - (i - 1)] /\ g[j - (i - 1)] = s[i + (j - (i - 1))]
      BY <1>3, <1>5, <3>1
    <3> QED  BY <3>1, <3>2
  <2> QED  BY <2>1, <2>2
<1> QED  BY <1>4, <1>5, <1>6 DEF s

\* A delivery or a loss keeps the order of the others.
LEMMA RemovalKeepsOrder ==
  ASSUME TypeOK, UNCHANGED client,
         NEW i \in 1..Len(requests), requests' = RemoveAt(requests, i)
  PROVE  /\ \A c \in Clients, j \in 1..Len(requests') :
              Past(c, Place(i, j)) => Past(c, j)'
         /\ \A c \in Clients : Past(c, 1) => Past(c, 1)'
         /\ InTurn => InTurn'
         /\ SentByClients => SentByClients'
         /\ OneRuns => OneRuns'
<1>1. /\ Len(requests') = Len(requests) - 1 /\ Len(requests) \in Nat /\ i \in Nat
      /\ \A j \in 1..Len(requests') :
           Place(i, j) \in 1..Len(requests) /\ requests'[j] = requests[Place(i, j)]
  BY RemovedRequest DEF TypeOK
<1>2. \A j, k \in 1..Len(requests') : /\ k >= j => Place(i, k) >= Place(i, j)
                                      /\ j < k => Place(i, j) < Place(i, k)
                                      /\ Place(i, k) >= 1
  BY <1>1 DEF Place
<1>3. ASSUME NEW c \in Clients, NEW j \in 1..Len(requests'), Past(c, Place(i, j))
      PROVE  Past(c, j)'
  BY <1>1, <1>2, <1>3 DEF Past
<1>4. ASSUME NEW c \in Clients, Past(c, 1)  PROVE Past(c, 1)'
  BY <1>1, <1>2, <1>4 DEF Past
<1>5. ASSUME InTurn  PROVE InTurn'
  <2>1. ASSUME NEW c \in Clients, NEW j \in 1..Len(requests'), NEW k \in 1..Len(requests'),
               j < k, requests'[j].from = c, requests'[k].from # c
        PROVE  Past(c, k)'
    <3>1. Past(c, Place(i, k))
      BY <1>1, <1>2, <1>5, <2>1 DEF InTurn
    <3> QED  BY <1>3, <3>1
  <2> QED  BY <2>1 DEF InTurn
<1>6. SentByClients => SentByClients'
  BY <1>1 DEF SentByClients, RequestOf
<1>7. OneRuns => OneRuns'
  BY DEF OneRuns, Alive
<1> QED  BY <1>3, <1>4, <1>5, <1>6, <1>7

--------------------------------------------------------------------------------
(* The clients *)

\* Success comes with the state of that name, or has been there before.
Succeeds(x, y) == y.succeeded => x.succeeded \/ y.state = "Succeeded"

\* What a step of a client may do, as far as the others are concerned.
Acts(c) ==
    /\ client[c].phase # "Exited" /\ client'[c].phase \in {"Running", "Exited"}
    /\ \A d \in Clients \ {c} : client'[d] = client[d] /\ ~Alive(d)
    /\ requests' = requests \/ requests' = Append(requests, RequestOf(c))
    /\ Succeeds(client[c], client'[c])
    /\ UNCHANGED <<server, executions>>

\* Every step of a client is of that kind: only one runs, and it sends its own request.
LEMMA ClientActs ==
  ASSUME ClientInv, OneRuns, InOrder, NEW c \in Clients,
         Start(c) \/ ClientStep(c) \/ TimerExpires(c) \/ Signal(c)
  PROVE  Acts(c)
<1> DEFINE x == client[c]
           z == AfterDispatch(c)
<1>1. x \in ClientContext /\ TypeOK
  BY DEF ClientInv, TypeOK
<1>2. z.phase = x.phase /\ Succeeds(x, z)
  BY <1>1 DEF AfterDispatch, ClientContext, Succeeds
<1>3. ASSUME NEW y, client' = [client EXCEPT ![c] = y], y.phase \in {"Running", "Exited"}, Succeeds(x, y),
             Alive(c) \/ (x.phase = "NotStarted" /\ \A d \in Clients \ {c} : ~Alive(d)),
             requests' = requests \/ requests' = Append(requests, RequestOf(c)),
             UNCHANGED <<server, executions>>
      PROVE  Acts(c)
  <2>1. client'[c] = y /\ \A d \in Clients \ {c} : client'[d] = client[d]
    BY <1>1, <1>3 DEF TypeOK
  <2>2. x.phase # "Exited" /\ \A d \in Clients \ {c} : ~Alive(d)
    BY <1>3 DEF OneRuns, Alive
  <2> QED  BY <1>3, <2>1, <2>2 DEF Acts
<1>4. CASE Start(c)
  <2>1. PICK sendOk \in BOOLEAN, timerOk \in BOOLEAN :
          SendAttempt(c, [x EXCEPT !.phase = IF sendOk /\ timerOk THEN "Running" ELSE "Exited",
                                   !.status = IF sendOk /\ timerOk THEN 0 ELSE 1],
                      sendOk, timerOk)
    BY <1>4, OutcomesBoolean DEF Start
  <2> DEFINE phase == IF sendOk /\ timerOk THEN "Running" ELSE "Exited"
             status == IF sendOk /\ timerOk THEN 0 ELSE 1
             t == [x EXCEPT !.phase = phase, !.status = status]
             y == Attempted(t, sendOk /\ timerOk)
  <2>2. phase \in {"Running", "Exited"} /\ status \in 0..2
    OBVIOUS
  <2> HIDE DEF phase, status
  <2>3. x.phase = "NotStarted" /\ x.attempts = 0 /\ x.serviceAvailable
        /\ \A d \in Clients \ {c} : ~Alive(d)
    BY <1>1, <1>4 DEF Start, ClientInv, ContextOK, InOrder, ClientContext
  <2>4. /\ t \in ClientContext /\ t.phase = phase /\ t.attempts < MaxAttempts
        /\ t.serviceAvailable /\ t.succeeded = x.succeeded
    <3>1. /\ t \in ClientContext /\ t.phase = phase /\ t.attempts = 0
          /\ t.serviceAvailable /\ t.succeeded = x.succeeded
      BY <1>1, <2>2, <2>3 DEF ClientContext
    <3> QED  BY <3>1, OptionsAssumption
  <2>5. SendAttempt(c, t, sendOk, timerOk)
    BY <2>1 DEF phase, status
  <2> HIDE DEF t
  <2>6. y.phase = phase /\ (y.succeeded => t.succeeded)
    BY <2>2, <2>4, AttemptedOK
  <2>7. client' = [client EXCEPT ![c] = y]
        /\ (requests' = requests \/ requests' = Append(requests, RequestOf(c)))
    BY <2>5 DEF SendAttempt
  <2>8. UNCHANGED <<server, executions>>
    BY <1>4 DEF Start
  <2> HIDE DEF y, x
  <2>9. Succeeds(x, y)
    BY <2>4, <2>6 DEF Succeeds
  <2> QED  BY <1>3, <2>2, <2>3, <2>6, <2>7, <2>8, <2>9
<1>5. CASE RetryNow(c)
  <2> DEFINE t == [z EXCEPT !.timer = "Disarmed"]
  <2>1. PICK sendOk \in BOOLEAN, timerOk \in BOOLEAN : SendAttempt(c, t, sendOk, timerOk)
    BY <1>5, OutcomesBoolean DEF RetryNow
  <2> DEFINE y == Attempted(t, sendOk /\ timerOk)
  <2>2. Alive(c) /\ x.batch # <<>> /\ x.state = "WaitingToRetry" /\ ContextOK(x)
    BY <1>5 DEF RetryNow, Dispatching, ClientInv
  <2>3. /\ t \in ClientContext /\ t.phase = "Running" /\ t.attempts < MaxAttempts
        /\ t.serviceAvailable /\ t.succeeded = x.succeeded
    BY <1>1, <2>2, TimerReadOK DEF ContextOK, ClientContext
  <2> HIDE DEF t
  <2>4. y.phase = "Running" /\ Succeeds(x, y)
    BY <2>3, AttemptedOK DEF Succeeds
  <2>5. client' = [client EXCEPT ![c] = y]
        /\ (requests' = requests \/ requests' = Append(requests, RequestOf(c)))
    BY <2>1 DEF SendAttempt
  <2>6. UNCHANGED <<server, executions>>
    BY <1>5 DEF RetryNow
  <2> HIDE DEF y, x
  <2> QED  BY <1>3, <2>2, <2>4, <2>5, <2>6
<1>6. ASSUME NEW y, client' = [client EXCEPT ![c] = y], y.phase \in {"Running", "Exited"}, Succeeds(x, y),
             Alive(c), UNCHANGED <<server, requests, executions>>
      PROVE  Acts(c)
  BY <1>3, <1>6
<1>7. CASE PollOnce(c)
  <2>1. PICK b \in SetToSeqs(ReadySources(c)) : client' = [client EXCEPT ![c].batch = b]
    BY <1>7 DEF PollOnce
  <2> DEFINE y == [x EXCEPT !.batch = b]
  <2>2. client' = [client EXCEPT ![c] = y]
    BY <2>1
  <2>3. /\ Alive(c) /\ y.phase = "Running" /\ Succeeds(x, y)
        /\ UNCHANGED <<server, requests, executions>>
    BY <1>1, <1>7 DEF PollOnce, Alive, ClientContext, Succeeds
  <2> HIDE DEF y
  <2> QED  BY <1>6, <2>2, <2>3
<1>8. CASE HandleResponse(c)
  <2>1. PICK i \in 1..Len(responses[Port[c]]), timerOk \in BOOLEAN :
          client' = [client EXCEPT ![c] = OnResponse(c, @, responses[Port[c]][i], timerOk)]
    BY <1>8, OutcomesBoolean DEF HandleResponse
  <2> DEFINE m == responses[Port[c]][i]
             y == OnResponse(c, x, m, timerOk)
  <2>2. client' = [client EXCEPT ![c] = y]
    BY <2>1
  <2>3. x.phase = "Running" /\ Alive(c) /\ UNCHANGED <<server, requests, executions>>
    BY <1>8 DEF HandleResponse, Dispatching, Alive
  <2> HIDE DEF m
  <2>4. y.phase = "Running" /\ Succeeds(x, y)
    BY <1>1, <2>3 DEF OnResponse, HandleAnswer, ScheduleRetry, ArmRetryDelay,
                      ExhaustRetryBudget, FailTransaction, ClientContext, Succeeds
  <2> HIDE DEF y
  <2> QED  BY <1>6, <2>2, <2>3, <2>4
<1>9. CASE SocketDrained(c)
  <2>1. Alive(c) /\ x.phase = "Running" /\ UNCHANGED <<server, requests, executions>>
        /\ client' = [client EXCEPT ![c] = z]
    BY <1>9 DEF SocketDrained, Dispatching, Alive
  <2> HIDE DEF z, x
  <2> QED  BY <1>2, <1>6, <2>1
<1>10. CASE IdleTimer(c)
  <2> DEFINE y == [z EXCEPT !.timer = IF @ = "Expired" THEN "Disarmed" ELSE @]
  <2>1. Alive(c) /\ x.phase = "Running" /\ UNCHANGED <<server, requests, executions>>
        /\ client' = [client EXCEPT ![c] = y]
    BY <1>10 DEF IdleTimer, Dispatching, Alive
  <2>2. y.phase = "Running" /\ Succeeds(x, y)
    BY <1>1, <2>1 DEF AfterDispatch, ClientContext, Succeeds
  <2> HIDE DEF y
  <2> QED  BY <1>6, <2>1, <2>2
<1>11. CASE ResponseTimeout(c)
  <2> DEFINE t == [z EXCEPT !.timer = "Disarmed"]
  <2>1. PICK timerOk \in BOOLEAN : client' = [client EXCEPT ![c] = ScheduleRetry(t, timerOk)]
    BY <1>11, OutcomesBoolean DEF ResponseTimeout
  <2> DEFINE y == ScheduleRetry(t, timerOk)
  <2>2. Alive(c) /\ x.phase = "Running" /\ UNCHANGED <<server, requests, executions>>
    BY <1>11 DEF ResponseTimeout, Dispatching, Alive
  <2>3. y.phase = "Running" /\ Succeeds(x, y)
    BY <1>1, <2>2 DEF AfterDispatch, ClientContext, ScheduleRetry, ArmRetryDelay,
                      ExhaustRetryBudget, FailTransaction, Succeeds
  <2> HIDE DEF y
  <2> QED  BY <1>6, <2>1, <2>2, <2>3 DEF y
<1>12. CASE OnSignal(c)
  <2> DEFINE y == [z EXCEPT !.signalled = FALSE, !.stopRequested = TRUE]
  <2>1. Alive(c) /\ x.phase = "Running" /\ UNCHANGED <<server, requests, executions>>
        /\ client' = [client EXCEPT ![c] = y]
    BY <1>12 DEF OnSignal, Dispatching, Alive
  <2>2. y.phase = "Running" /\ Succeeds(x, y)
    BY <1>1, <2>1 DEF AfterDispatch, ClientContext, Succeeds
  <2> HIDE DEF y
  <2> QED  BY <1>6, <2>1, <2>2
<1>13. CASE Exit(c)
  <2> DEFINE y == [x EXCEPT !.phase = "Exited", !.status = IF x.succeeded THEN 0 ELSE 2]
  <2>1. Alive(c) /\ UNCHANGED <<server, requests, executions>>
        /\ client' = [client EXCEPT ![c] = y]
    BY <1>13 DEF Exit
  <2>2. y.phase = "Exited" /\ Succeeds(x, y)
    BY <1>1 DEF ClientContext, Succeeds
  <2> HIDE DEF y
  <2> QED  BY <1>6, <2>1, <2>2
<1>14. CASE TimerExpires(c)
  <2> DEFINE y == [x EXCEPT !.timer = "Expired"]
  <2>1. Alive(c) /\ UNCHANGED <<server, requests, executions>>
        /\ client' = [client EXCEPT ![c] = y]
    BY <1>14 DEF TimerExpires
  <2>2. y.phase = "Running" /\ Succeeds(x, y)
    BY <1>1, <2>1 DEF ClientContext, Alive, Succeeds
  <2> HIDE DEF y
  <2> QED  BY <1>6, <2>1, <2>2
<1>15. CASE Signal(c)
  <2> DEFINE y == [x EXCEPT !.signalled = TRUE]
  <2>1. Alive(c) /\ UNCHANGED <<server, requests, executions>>
        /\ client' = [client EXCEPT ![c] = y]
    BY <1>15 DEF Signal
  <2>2. y.phase = "Running" /\ Succeeds(x, y)
    BY <1>1, <2>1 DEF ClientContext, Alive, Succeeds
  <2> HIDE DEF y
  <2> QED  BY <1>6, <2>1, <2>2
<1> QED  BY <1>4, <1>5, <1>7, <1>8, <1>9, <1>10, <1>11, <1>12, <1>13, <1>14, <1>15
         DEF ClientStep

\* A client that is not over adds its request at the end, when all others that have
\* started are over.
LEMMA ActsKeepOnceInv ==
  ASSUME ClientInv, ClientInv', OnceInv, NEW c \in Clients, Acts(c)  PROVE OnceInv'
<1>0. PICK n \in Nat : n = Len(requests)
  BY DEF ClientInv, TypeOK
<1>1. /\ \A i \in 1..n : requests[i].from \in Clients
      /\ \A d \in Clients : client[d].phase \in {"NotStarted", "Running", "Exited"}
  <2>1. requests \in Seq(Request) /\ client \in [Clients -> ClientContext]
    BY DEF ClientInv, TypeOK
  <2>2. \A i \in 1..n : requests[i] \in Request
    BY <1>0, <2>1
  <2> QED  BY <2>1, <2>2 DEF Request, ClientContext
<1>2. PICK last \in {n, n + 1} :
      /\ Len(requests') = last
      /\ \A i \in 1..n : requests'[i] = requests[i]
      /\ \A i \in 1..last : i \in 1..n \/ (i = n + 1 /\ requests'[i] = RequestOf(c))
  <2>1. requests \in Seq(Request) /\ RequestOf(c) \in Request
    BY OptionsAssumption DEF ClientInv, TypeOK, Request, RequestOf
  <2>2. CASE requests' = requests
    BY <1>0, <2>2
  <2>3. CASE requests' = Append(requests, RequestOf(c))
    <3>1. /\ Len(requests') = n + 1 /\ \A i \in 1..n : requests'[i] = requests[i]
          /\ requests'[n + 1] = RequestOf(c)
      BY <1>0, <2>1, <2>3, AppendProperties
    <3>2. \A i \in 1..(n + 1) : i \in 1..n \/ i = n + 1
      BY <1>0
    <3> QED  BY <3>1, <3>2
  <2> QED  BY <2>2, <2>3 DEF Acts
<1>3. \A i \in 1..last : i \in 1..n \/ (i = n + 1 /\ requests'[i].from = c)
  BY <1>2 DEF RequestOf
<1>4. ASSUME NEW d \in Clients, NEW j \in Nat, Past(d, j)  PROVE Past(d, j)'
  <2>1. d # c /\ client'[d].phase = "Exited"
    BY <1>4 DEF Acts, Past
  <2>2. ASSUME NEW k \in 1..last, k >= j  PROVE requests'[k].from # d
    BY <1>0, <1>2, <1>3, <1>4, <2>1, <2>2 DEF Past
  <2> QED  BY <1>2, <2>1, <2>2 DEF Past
<1>5. ASSUME NEW d \in Clients, d # c, client[d].phase # "NotStarted"
      PROVE  Past(d, n + 1)'
  <2>1. client'[d].phase = "Exited"
    BY <1>1, <1>5 DEF Acts, Alive
  <2> QED  BY <1>1, <1>2, <1>3, <1>5, <2>1 DEF Past
<1>6. \A d \in Clients : client[d].phase # "NotStarted" => client'[d].phase # "NotStarted"
  BY DEF Acts
<1>7. InTurn'
  <2>1. ASSUME NEW d \in Clients, NEW i \in 1..last, NEW j \in 1..last, i < j,
               requests'[i].from = d, requests'[j].from # d
        PROVE  Past(d, j)'
    <3>1. i \in 1..n /\ requests'[i] = requests[i]
      BY <1>2, <2>1
    <3>2. CASE j \in 1..n
      <4>1. Past(d, j)
        BY <1>0, <1>2, <2>1, <3>1, <3>2 DEF OnceInv, InTurn
      <4> QED  BY <1>4, <4>1
    <3>3. CASE j = n + 1 /\ requests'[j].from = c
      <4>1. d # c /\ client[d].phase # "NotStarted"
        BY <1>0, <2>1, <3>1, <3>3 DEF OnceInv, SentByClients
      <4> QED  BY <1>5, <3>3, <4>1
    <3> QED  BY <1>3, <3>2, <3>3
  <2> QED  BY <1>2, <2>1 DEF InTurn
<1>8. MemoryInTurn'
  <2>1. ASSUME NEW d \in Clients, Remembered(d)'
        PROVE  /\ client'[d].phase # "NotStarted"
               /\ \A j \in 1..last : requests'[j].from # d => Past(d, j)'
    <3>1. Remembered(d)
      BY <2>1 DEF Remembered, Acts
    <3>2. /\ client[d].phase # "NotStarted"
          /\ \A j \in 1..n : requests[j].from # d => Past(d, j)
      BY <1>0, <3>1 DEF OnceInv, MemoryInTurn
    <3>3. ASSUME NEW j \in 1..last, requests'[j].from # d  PROVE Past(d, j)'
      <4>1. CASE j \in 1..n
        BY <1>2, <1>4, <3>2, <3>3, <4>1
      <4>2. CASE j = n + 1 /\ requests'[j].from = c
        BY <1>5, <3>2, <3>3, <4>2
      <4> QED  BY <1>3, <4>1, <4>2
    <3> QED  BY <1>6, <3>2, <3>3
  <2> QED  BY <1>2, <2>1 DEF MemoryInTurn
<1>9. SentByClients'
  <2>1. ASSUME NEW i \in 1..last
        PROVE  /\ requests'[i] = RequestOf(requests'[i].from)
               /\ client'[requests'[i].from].phase # "NotStarted"
    <3>1. CASE i \in 1..n
      BY <1>0, <1>1, <1>2, <1>6, <3>1 DEF OnceInv, SentByClients
    <3>2. CASE i = n + 1 /\ requests'[i] = RequestOf(c)
      BY <3>2 DEF Acts, RequestOf
    <3> QED  BY <1>2, <3>1, <3>2
  <2> QED  BY <1>2, <2>1 DEF SentByClients, RequestOf
<1>10. OneRuns'
  BY DEF Acts, OneRuns, Alive
<1>11. ExecutedOnce'
  <2>1. ASSUME NEW d \in Clients
        PROVE  /\ executions'[d] <= 1
               /\ executions'[d] > 0 => Remembered(d)' \/ Past(d, 1)'
    BY <1>4 DEF OnceInv, ExecutedOnce, Acts, Remembered
  <2> QED  BY <2>1 DEF ExecutedOnce
<1> QED  BY <1>7, <1>8, <1>9, <1>10, <1>11 DEF OnceInv

--------------------------------------------------------------------------------
(* The server and the network *)

\* A request that the server carries out is one it has not carried out before: if it
\* were, the server would remember it, or its client would be over for good.
LEMMA OnRequestKeepsOnceInv ==
  ASSUME ClientInv, AckInv, OnceInv, DistinctIds, InOrder, OnRequest
  PROVE  /\ OnceInv'
         /\ \A m \in Request : m = requests[1] /\ Execute(m) => executions[m.from] = 0
<1>1. PICK i \in 1..Len(requests) :
        /\ i = 1 /\ requests' = RemoveAt(requests, i)
        /\ \/ AnswerDuplicate(requests[i]) \/ RefuseBusy(requests[i])
           \/ RejectInterval(requests[i]) \/ Execute(requests[i])
  BY DEF OnRequest, InOrder
<1>0. PICK m : m = requests[1]
  OBVIOUS
<1>2. /\ TypeOK /\ UNCHANGED client /\ 1 \in 1..Len(requests) /\ m \in Request
      /\ m.from \in Clients /\ m.id = TxnId[m.from]
      /\ server \in ServerContext /\ executions \in [Clients -> Nat]
  <2>1. TypeOK /\ UNCHANGED client /\ 1 \in 1..Len(requests)
    BY <1>1 DEF ClientInv, OnRequest
  <2>2. m \in Request
    BY <1>0, <2>1 DEF TypeOK
  <2>3. m = RequestOf(m.from)
    BY <1>0, <2>1 DEF OnceInv, SentByClients
  <2> QED  BY <2>1, <2>2, <2>3 DEF TypeOK, Request, RequestOf
<1>3. /\ InTurn' /\ SentByClients' /\ OneRuns'
      /\ \A c \in Clients, j \in 1..Len(requests') : Past(c, j + 1) => Past(c, j)'
      /\ \A c \in Clients : Past(c, 1) => Past(c, 1)'
  <2>1. \A j \in 1..Len(requests') : Place(1, j) = j + 1
    BY <1>1, <1>2, RemovedRequest DEF Place
  <2> QED  BY <1>1, <1>2, <2>1, RemovalKeepsOrder DEF OnceInv
<1>4. /\ Len(requests') \in Nat /\ Len(requests') = Len(requests) - 1
      /\ \A j \in 1..Len(requests') : j + 1 \in 1..Len(requests) /\ requests'[j] = requests[j + 1]
  BY <1>1, <1>2, RemovedRequest DEF Place, TypeOK
<1>5. ASSUME NEW c \in Clients, Past(c, 1)  PROVE c # m.from
  BY <1>0, <1>2, <1>5 DEF Past
<1>6. CASE Execute(m)
  <2>1. /\ server'.hasCompleted /\ server'.completedId = m.id
        /\ ~Remembered(m.from)
        /\ \A c \in Clients : executions'[c] = IF c = m.from THEN executions[c] + 1 ELSE executions[c]
    BY <1>2, <1>6 DEF Execute, IsDuplicate, Remembered, ServerContext
  <2>2. executions[m.from] = 0
    BY <1>2, <1>5, <2>1 DEF OnceInv, ExecutedOnce
  <2>3. \A c \in Clients : Remembered(c)' <=> c = m.from
    BY <1>2, <2>1 DEF Remembered, DistinctIds
  <2>4. ASSUME NEW c \in Clients, executions[c] > 0  PROVE c # m.from /\ Past(c, 1)
    <3>1. c # m.from
      BY <2>2, <2>4
    <3>2. Remembered(c) => Past(c, 1)
      BY <1>0, <1>2, <3>1 DEF OnceInv, MemoryInTurn
    <3> QED  BY <2>4, <3>1, <3>2 DEF OnceInv, ExecutedOnce
  <2>5. MemoryInTurn'
    <3>1. client'[m.from].phase # "NotStarted"
      BY <1>0, <1>2 DEF OnceInv, SentByClients
    <3>2. ASSUME NEW j \in 1..Len(requests'), requests'[j].from # m.from
          PROVE  Past(m.from, j)'
      <4>1. Past(m.from, j + 1)
        BY <1>0, <1>2, <1>4, <3>2 DEF OnceInv, InTurn
      <4> QED  BY <1>2, <1>3, <4>1
    <3> QED  BY <2>3, <3>1, <3>2 DEF MemoryInTurn
  <2>6. ExecutedOnce'
    <3>1. ASSUME NEW c \in Clients
          PROVE  executions'[c] <= 1 /\ (executions'[c] > 0 => Remembered(c)' \/ Past(c, 1)')
      <4>1. CASE c = m.from
        BY <1>2, <2>1, <2>2, <2>3, <4>1
      <4>2. CASE c # m.from
        BY <1>2, <1>3, <2>1, <2>4, <4>2 DEF OnceInv, ExecutedOnce
      <4> QED  BY <4>1, <4>2
    <3> QED  BY <3>1 DEF ExecutedOnce
  <2> QED  BY <1>0, <1>3, <2>2, <2>5, <2>6 DEF OnceInv
<1>7. CASE ~Execute(m)
  <2>1. /\ UNCHANGED executions
        /\ server'.hasCompleted = server.hasCompleted /\ server'.completedId = server.completedId
    BY <1>0, <1>1, <1>2, <1>7 DEF AnswerDuplicate, RefuseBusy, RejectInterval, ServerContext
  <2>2. \A c \in Clients : Remembered(c)' <=> Remembered(c)
    BY <2>1 DEF Remembered
  <2>3. MemoryInTurn'
    <3>1. ASSUME NEW c \in Clients, Remembered(c)
          PROVE  /\ client'[c].phase # "NotStarted"
                 /\ \A j \in 1..Len(requests') : requests'[j].from # c => Past(c, j)'
      BY <1>2, <1>3, <1>4, <3>1 DEF OnceInv, MemoryInTurn
    <3> QED  BY <2>2, <3>1 DEF MemoryInTurn
  <2>4. ExecutedOnce'
    <3>1. ASSUME NEW c \in Clients
          PROVE  executions'[c] <= 1 /\ (executions'[c] > 0 => Remembered(c)' \/ Past(c, 1)')
      BY <1>3, <2>1, <2>2 DEF OnceInv, ExecutedOnce
    <3> QED  BY <3>1 DEF ExecutedOnce
  <2> QED  BY <1>0, <1>3, <1>7, <2>3, <2>4 DEF OnceInv
<1> QED  BY <1>6, <1>7

\* Losing a request keeps the order of the others; nothing is duplicated.
LEMMA NetworkKeepsOnceInv ==
  ASSUME ClientInv, OnceInv, InOrder, StopServer \/ Network  PROVE OnceInv'
<1>1. TypeOK /\ UNCHANGED <<client, executions>> /\ server \in ServerContext
  BY DEF ClientInv, TypeOK, StopServer, Network, LoseRequest, LoseResponse, DuplicateRequest,
         DuplicateResponse
<1>2. \A c \in Clients : Remembered(c)' <=> Remembered(c)
  BY <1>1 DEF Remembered, StopServer, Network, LoseRequest, LoseResponse, DuplicateRequest,
              DuplicateResponse, ServerContext
<1>3. CASE LoseRequest
  <2>1. PICK i \in 1..Len(requests) : requests' = RemoveAt(requests, i)
    BY <1>3 DEF LoseRequest
  <2>2. /\ InTurn' /\ SentByClients' /\ OneRuns'
        /\ \A c \in Clients, j \in 1..Len(requests') : Past(c, Place(i, j)) => Past(c, j)'
        /\ \A c \in Clients : Past(c, 1) => Past(c, 1)'
    BY <1>1, <2>1, RemovalKeepsOrder DEF OnceInv
  <2>3. \A j \in 1..Len(requests') :
          Place(i, j) \in 1..Len(requests) /\ requests'[j] = requests[Place(i, j)]
    BY <1>1, <2>1, RemovedRequest
  <2>4. MemoryInTurn'
    <3>1. ASSUME NEW c \in Clients, Remembered(c)
          PROVE  /\ client'[c].phase # "NotStarted"
                 /\ \A j \in 1..Len(requests') : requests'[j].from # c => Past(c, j)'
      BY <1>1, <2>2, <2>3, <3>1 DEF OnceInv, MemoryInTurn
    <3> QED  BY <1>2, <3>1 DEF MemoryInTurn
  <2>5. ExecutedOnce'
    <3>1. ASSUME NEW c \in Clients
          PROVE  executions'[c] <= 1 /\ (executions'[c] > 0 => Remembered(c)' \/ Past(c, 1)')
      BY <1>1, <1>2, <2>2 DEF OnceInv, ExecutedOnce
    <3> QED  BY <3>1 DEF ExecutedOnce
  <2> QED  BY <2>2, <2>4, <2>5 DEF OnceInv
<1>4. CASE UNCHANGED requests
  <2>1. \A c \in Clients : \A j \in Nat : Past(c, j) => Past(c, j)'
    BY <1>1, <1>4 DEF Past
  <2>2. Len(requests) \in Nat
    BY <1>1 DEF TypeOK
  <2>3. InTurn' /\ SentByClients' /\ OneRuns'
    BY <1>1, <1>4, <2>1, <2>2 DEF OnceInv, InTurn, SentByClients, OneRuns, Alive, RequestOf
  <2>4. MemoryInTurn'
    BY <1>1, <1>2, <1>4, <2>1, <2>2 DEF OnceInv, MemoryInTurn
  <2>5. ExecutedOnce'
    BY <1>1, <1>2, <2>1 DEF OnceInv, ExecutedOnce
  <2> QED  BY <2>3, <2>4, <2>5 DEF OnceInv
<1>5. ~DuplicateRequest
  BY <1>1 DEF DuplicateRequest, InOrder, TypeOK
<1> QED  BY <1>3, <1>4, <1>5 DEF StopServer, Network, LoseResponse, DuplicateResponse

\* Nothing is in transit and nothing remembered at first.
LEMMA InitOnceInv == Init => OnceInv
<1> SUFFICES ASSUME Init PROVE OnceInv
  OBVIOUS
<1>1. Len(requests) = 0 /\ ~server.hasCompleted
  BY DEF Init
<1>2. \A c \in Clients : client[c].phase = "NotStarted" /\ executions[c] = 0
  BY DEF Init, NewClient
<1> QED  BY <1>1, <1>2 DEF OnceInv, InTurn, MemoryInTurn, SentByClients, OneRuns, ExecutedOnce,
                           Remembered, Alive

\* Only a client changes what a client knows.
LEMMA OthersKeepClients ==
  ASSUME OnRequest \/ StopServer \/ Network \/ Finished \/ UNCHANGED vars
  PROVE  UNCHANGED client
BY DEF OnRequest, StopServer, Network, LoseRequest, LoseResponse, DuplicateRequest,
       DuplicateResponse, Finished, vars

\* The invariant is inductive.
LEMMA NextOnceInv ==
  ASSUME DistinctIds, InOrder, ClientInv, ClientInv', AckInv, OnceInv, [Next]_vars
  PROVE  OnceInv'
<1>1. ASSUME NEW c \in Clients, Start(c) \/ ClientStep(c) \/ TimerExpires(c) \/ Signal(c)
      PROVE  OnceInv'
  <2>1. Acts(c)
    BY <1>1, ClientActs DEF OnceInv
  <2> QED  BY <2>1, ActsKeepOnceInv
<1>2. CASE OnRequest
  BY <1>2, OnRequestKeepsOnceInv
<1>3. CASE StopServer \/ Network
  BY <1>3, NetworkKeepsOnceInv
<1>4. CASE Finished \/ UNCHANGED vars
  BY <1>4 DEF Finished, vars, OnceInv, InTurn, MemoryInTurn, SentByClients, OneRuns,
              ExecutedOnce, Remembered, Past, Alive, RequestOf
<1> QED  BY <1>1, <1>2, <1>3, <1>4 DEF Next

\* Success, once there, is kept by OutcomeIsFinal's argument.
LEMMA NextSuccessSettled ==
  ASSUME InOrder, ClientInv, OnceInv, SuccessSettled, [Next]_vars  PROVE SuccessSettled'
<1>1. ASSUME NEW c \in Clients, Start(c) \/ ClientStep(c) \/ TimerExpires(c) \/ Signal(c)
      PROVE  SuccessSettled'
  <2>1. Acts(c)
    BY <1>1, ClientActs DEF OnceInv
  <2>2. \A d \in Clients : Settled(client[d]) => SameOutcome(client[d], client'[d])
    BY <1>1, ClientStable
  <2> QED  BY <2>1, <2>2 DEF SuccessSettled, Settled, SameOutcome, Acts, Succeeds
<1>2. CASE OnRequest \/ StopServer \/ Network \/ Finished \/ UNCHANGED vars
  BY <1>2, OthersKeepClients DEF SuccessSettled
<1> QED  BY <1>1, <1>2 DEF Next

\* All that the theorems rest on.
LabInv == ClientInv /\ AckInv /\ OnceInv /\ SuccessSettled

LEMMA LabInvariant ==
  ASSUME DistinctIds, InOrder  PROVE Spec => []LabInv
<1>1. Init => LabInv
  <2>1. ASSUME Init  PROVE SuccessSettled
    <3>1. \A c \in Clients : ~client[c].succeeded
      BY <2>1 DEF Init, NewClient
    <3> QED  BY <3>1 DEF SuccessSettled
  <2> QED  BY <2>1, InitClientInv, InitAckInv, InitOnceInv DEF LabInv
<1>2. LabInv /\ [Next]_vars => LabInv'
  BY DistinctIds, InOrder, NextClientInv, NextAckInv, NextOnceInv, NextSuccessSettled DEF LabInv
<1> QED  BY <1>1, <1>2, PTL DEF Spec

--------------------------------------------------------------------------------
(* The theorems *)

\* The server carries out each transaction at most once, although a lost ACK makes the
\* client send it again and only the last one is remembered (retry_server.cpp:368-380),
\* if identifiers differ, clients run one after the other and the link keeps the order.
THEOREM CarriedOutOnce ==
  ASSUME DistinctIds, InOrder  PROVE Spec => []AtMostOnce
<1>1. LabInv => AtMostOnce
  BY DEF LabInv, OnceInv, ExecutedOnce, AtMostOnce
<1> QED  BY <1>1, LabInvariant, PTL

\* What a step of one client tells its user: at most one client changes its outcome,
\* from pending, and to success only if its request has been carried out.
LEMMA ClientReports ==
  ASSUME LabInv, LabInv', InOrder, NEW c \in Clients,
         Start(c) \/ ClientStep(c) \/ TimerExpires(c) \/ Signal(c)
  PROVE  [Promise!Next]_(Promise!vars)
<1> DEFINE outcome == [d \in Clients |-> OutcomeOf(d)]
<1>1. Acts(c)
  BY ClientActs DEF LabInv, OnceInv
<1>2. \A d \in Clients : Settled(client[d]) => SameOutcome(client[d], client'[d])
  BY ClientStable DEF LabInv
<1>3. \A d \in Clients \ {c} : OutcomeOf(d)' = OutcomeOf(d)
  BY <1>1 DEF Acts, OutcomeOf
<1>4. OutcomeOf(c)' = OutcomeOf(c)
      \/ (OutcomeOf(c) = "pending" /\ OutcomeOf(c)' = "failed")
      \/ (OutcomeOf(c) = "pending" /\ OutcomeOf(c)' = "succeeded" /\ executions[c] > 0)
  <2>1. CASE client[c].succeeded
    <3>1. client'[c].succeeded
      BY <1>2, <2>1 DEF LabInv, SuccessSettled, SameOutcome
    <3> QED  BY <2>1, <3>1 DEF OutcomeOf
  <2>2. CASE ~client[c].succeeded /\ client[c].state = "Failed"
    <3>1. ~client'[c].succeeded /\ client'[c].state = "Failed"
      BY <1>2, <2>2 DEF Settled, SameOutcome
    <3> QED  BY <2>2, <3>1 DEF OutcomeOf
  <2>3. CASE ~client[c].succeeded /\ client[c].state # "Failed"
    <3>1. OutcomeOf(c) = "pending"
      BY <1>1, <2>3 DEF OutcomeOf, Acts
    <3>2. client'[c].succeeded => executions[c] > 0
      BY <1>1 DEF LabInv, AckInv, SuccessGenuine, Acts
    <3> QED  BY <3>1, <3>2 DEF OutcomeOf
  <2> QED  BY <2>1, <2>2, <2>3
<1>5. UNCHANGED <<server.reportingInterval, [d \in Clients |-> executions[d] > 0]>>
  BY <1>1 DEF Acts
<1>6. CASE OutcomeOf(c)' = OutcomeOf(c)
  <2>1. outcome' = outcome
    BY <1>3, <1>6
  <2> QED  BY <1>5, <2>1 DEF Promise!vars
<1>7. outcome' = [outcome EXCEPT ![c] = OutcomeOf(c)']
  BY <1>3
<1>8. CASE OutcomeOf(c) = "pending" /\ OutcomeOf(c)' = "failed"
  <2>1. outcome[c] = "pending" /\ outcome' = [outcome EXCEPT ![c] = "failed"]
    BY <1>7, <1>8
  <2> QED  BY <1>5, <2>1 DEF Promise!Next, Promise!GiveUp
<1>9. CASE OutcomeOf(c) = "pending" /\ OutcomeOf(c)' = "succeeded" /\ executions[c] > 0
  <2>1. outcome[c] = "pending" /\ outcome' = [outcome EXCEPT ![c] = "succeeded"]
    BY <1>7, <1>9
  <2> QED  BY <1>5, <1>9, <2>1 DEF Promise!Next, Promise!Succeed
<1> QED  BY <1>4, <1>6, <1>8, <1>9

\* What a step of the server does for the clients: a request carried out is Apply,
\* every other answer changes nothing of the promise.
LEMMA ServerApplies ==
  ASSUME LabInv, DistinctIds, InOrder, OnRequest
  PROVE  [Promise!Next]_(Promise!vars)
<1> DEFINE outcome == [d \in Clients |-> OutcomeOf(d)]
           applied == [d \in Clients |-> executions[d] > 0]
<1>1. PICK m \in Request :
        /\ m = requests[1] /\ m.from \in Clients /\ m.interval = Interval[m.from]
        /\ AnswerDuplicate(m) \/ RefuseBusy(m) \/ RejectInterval(m) \/ Execute(m)
  <2>1. 1 \in 1..Len(requests) /\ requests \in Seq(Request)
        /\ \/ AnswerDuplicate(requests[1]) \/ RefuseBusy(requests[1])
           \/ RejectInterval(requests[1]) \/ Execute(requests[1])
    BY DEF OnRequest, InOrder, LabInv, ClientInv, TypeOK
  <2>2. requests[1] \in Request /\ requests[1] = RequestOf(requests[1].from)
    BY <2>1 DEF LabInv, OnceInv, SentByClients
  <2> QED  BY <2>1, <2>2 DEF Request, RequestOf
<1>2. outcome' = outcome
  BY OthersKeepClients DEF OutcomeOf
<1>3. server \in ServerContext /\ executions \in [Clients -> Nat]
  BY DEF LabInv, ClientInv, TypeOK
<1>4. CASE Execute(m)
  <2>1. executions[m.from] = 0
    BY <1>1, <1>4, OnRequestKeepsOnceInv DEF LabInv
  <2>2. server'.reportingInterval = Interval[m.from]
    BY <1>1, <1>3, <1>4 DEF Execute, ServerContext
  <2>3. \A d \in Clients : executions'[d] = IF d = m.from THEN executions[d] + 1 ELSE executions[d]
    BY <1>3, <1>4 DEF Execute
  <2>4. ~applied[m.from] /\ applied' = [applied EXCEPT ![m.from] = TRUE]
    <3>1. /\ executions'[m.from] > 0
          /\ \A d \in Clients : d # m.from => executions'[d] = executions[d]
      BY <1>1, <1>3, <2>1, <2>3
    <3>2. ~(executions[m.from] > 0)
      BY <2>1
    <3>3. ~applied[m.from] /\ applied'[m.from] = TRUE
      BY <1>1, <3>1, <3>2
    <3>4. \A d \in Clients : d # m.from => applied'[d] = applied[d]
      BY <3>1
    <3> QED  BY <1>1, <3>3, <3>4, ZenonT(30)
  <2> QED  BY <1>1, <1>2, <2>2, <2>4 DEF Promise!Next, Promise!Apply
<1>5. CASE AnswerDuplicate(m) \/ RefuseBusy(m) \/ RejectInterval(m)
  <2>1. UNCHANGED <<server.reportingInterval, executions>>
    BY <1>3, <1>5 DEF AnswerDuplicate, RefuseBusy, RejectInterval, ServerContext
  <2> QED  BY <1>2, <2>1 DEF Promise!vars
<1> QED  BY <1>1, <1>4, <1>5

\* Under the same assumptions the lab implements TransactionSpec: an interval that has
\* been replaced is never put back into force by a late retry, and a client that has
\* told its user of success or failure never says otherwise.
THEOREM PromiseKept ==
  ASSUME DistinctIds, InOrder  PROVE Spec => KeepsPromise
<1>1. Init => Promise!Init
  <2> SUFFICES ASSUME Init PROVE Promise!Init
    OBVIOUS
  <2>1. \A c \in Clients : executions[c] = 0 /\ client[c] = NewClient
    BY DEF Init
  <2>2. \A c \in Clients : OutcomeOf(c) = "pending" /\ (executions[c] > 0) = FALSE
    BY <2>1 DEF OutcomeOf, NewClient
  <2>3. [c \in Clients |-> executions[c] > 0] = [c \in Clients |-> FALSE]
    BY <2>2, Zenon
  <2>4. [c \in Clients |-> OutcomeOf(c)] = [c \in Clients |-> "pending"]
    BY <2>2
  <2>5. server.reportingInterval = InitialInterval
    BY DEF Init
  <2> QED  BY <2>3, <2>4, <2>5 DEF Promise!Init
<1>2. ASSUME LabInv, LabInv', [Next]_vars  PROVE [Promise!Next]_(Promise!vars)
  <2>1. ASSUME NEW c \in Clients, Start(c) \/ ClientStep(c) \/ TimerExpires(c) \/ Signal(c)
        PROVE  [Promise!Next]_(Promise!vars)
    BY <1>2, <2>1, InOrder, ClientReports
  <2>2. CASE OnRequest
    BY <1>2, <2>2, DistinctIds, InOrder, ServerApplies
  <2>3. CASE StopServer \/ Network \/ Finished \/ UNCHANGED vars
    <3>1. UNCHANGED <<client, executions, server.reportingInterval>>
      BY <1>2, <2>3 DEF StopServer, Network, LoseRequest, LoseResponse, DuplicateRequest,
          DuplicateResponse, Finished, vars, LabInv, ClientInv, TypeOK, ServerContext
    <3> QED  BY <3>1 DEF Promise!vars, OutcomeOf
  <2> QED  BY <1>2, <2>1, <2>2, <2>3 DEF Next
<1>3. LabInv /\ LabInv' /\ [Next]_vars => [Promise!Next]_(Promise!vars)
  BY <1>2
<1> QED  BY <1>1, <1>3, LabInvariant, PTL DEF Spec, KeepsPromise, Promise!Spec
================================================================================
