--------------------------- MODULE RetryTransaction ---------------------------
(****************************************************************************)
(* The retry, timeout and recovery lab of Chapter 12: client processes, one *)
(* transaction each, that ask one server over UDP to set its reporting      *)
(* interval, and retry under a budget until an answer arrives.              *)
(*                                                                          *)
(* A client is a single-threaded event loop (EpollReactor) over a UDP       *)
(* socket, a one-shot timer and a signal source.  epoll_wait returns a      *)
(* batch of ready sources; the loop looks at stopRequested only between two *)
(* batches, so a handler may run after another one has settled the          *)
(* transaction.  A source that is dispatched reads its descriptor again:    *)
(* a timer disarmed earlier in the batch finds nothing.                     *)
(****************************************************************************)
EXTENDS Integers, SequencesExt

CONSTANTS
    Clients,          \* client processes
    TxnId,            \* TxnId[c]: the --transaction option of c, never zero
    Interval,         \* Interval[c]: the --interval-ms option of c
    Port,             \* Port[c]: the ephemeral port c's socket is bound to
    MaxAttempts,      \* the --max-attempts option, never zero
    ServerModes,      \* the server modes that are tried
    Sequential,       \* a client starts only when the ones before have exited
    FifoLink,         \* datagrams are delivered in the order they were sent
    MaxDuplicates,    \* bound: datagrams the network duplicates
    LocalFaults       \* sendto and timerfd_settime may fail in a client

MinInterval == 100
MaxInterval == 60000
InitialInterval == 1000

ASSUME OptionsAssumption ==
    /\ TxnId \in [Clients -> Nat \ {0}]
    /\ Interval \in [Clients -> Nat \ {0}]
    /\ DOMAIN Port = Clients
    /\ MaxAttempts \in Nat \ {0}
ASSUME ModesAssumption ==
    ServerModes \subseteq {"Normal", "DropFirstAck", "BusyOnce", "Silent"}
ASSUME LinkAssumption ==
    /\ Sequential \in BOOLEAN /\ FifoLink \in BOOLEAN /\ LocalFaults \in BOOLEAN
    /\ MaxDuplicates \in Nat

Ports == {Port[c] : c \in Clients}

VARIABLES
    client,       \* client[c]: AppContext, timer and epoll batch of process c
    server,       \* AppContext of the server
    requests,     \* request datagrams in transit or in the server's socket
    responses,    \* responses[p]: response datagrams on their way to port p
    duplicates,   \* datagrams duplicated so far
    executions    \* history: how often the server carried out c's request

vars == <<client, server, requests, responses, duplicates, executions>>

TransactionState ==
    {"Idle", "WaitingForResponse", "WaitingToRetry", "Succeeded", "Failed"}
Waiting == {"WaitingForResponse", "WaitingToRetry"}
Sources == {"udp", "timer", "signal"}

ClientContext ==
    [phase : {"NotStarted", "Running", "Exited"},
     status : 0..2,                              \* exit status, once Exited
     state : TransactionState,
     attempts : 0..MaxAttempts,
     timer : {"Disarmed", "Armed", "Expired"},
     signalled : BOOLEAN,                        \* the signalfd is readable
     batch : Seq(Sources),                       \* ready sources to dispatch
     stopRequested : BOOLEAN,
     succeeded : BOOLEAN,
     serviceAvailable : BOOLEAN]

ServerContext ==
    [running : BOOLEAN,
     mode : ServerModes,
     reportingInterval : Nat,
     hasCompleted : BOOLEAN,
     completedId : Nat,
     firstAckDropped : BOOLEAN,
     busyNackSent : BOOLEAN]

Request == [id : Nat \ {0}, interval : Nat, from : Clients]
Response == [id : Nat \ {0}, type : {"Ack", "Busy", "InvalidValue"}]

TypeOK ==
    /\ client \in [Clients -> ClientContext]
    /\ server \in ServerContext
    /\ requests \in Seq(Request)
    /\ responses \in [Ports -> Seq(Response)]
    /\ duplicates \in 0..MaxDuplicates
    /\ executions \in [Clients -> Nat]

NewClient ==
    [phase |-> "NotStarted", status |-> 0, state |-> "Idle", attempts |-> 0,
     timer |-> "Disarmed", signalled |-> FALSE, batch |-> <<>>,
     stopRequested |-> FALSE, succeeded |-> FALSE, serviceAvailable |-> TRUE]

Init ==
    /\ client = [c \in Clients |-> NewClient]
    /\ \E m \in ServerModes :
         server = [running |-> TRUE, mode |-> m,
                   reportingInterval |-> InitialInterval,
                   hasCompleted |-> FALSE, completedId |-> 0,
                   firstAckDropped |-> FALSE, busyNackSent |-> FALSE]
    /\ requests = <<>>
    /\ responses = [p \in Ports |-> <<>>]
    /\ duplicates = 0
    /\ executions = [c \in Clients |-> 0]

--------------------------------------------------------------------------------
(* The client's handlers, as functions of its context x. *)

FailTransaction(x) ==
    [x EXCEPT !.timer = "Disarmed", !.state = "Failed",
              !.succeeded = FALSE, !.stopRequested = TRUE]

\* Mutant: giving up does not end the loop.
ExhaustRetryBudget_KeepsRunning(x) ==
    [x EXCEPT !.serviceAvailable = FALSE, !.state = "Failed", !.succeeded = FALSE]

ExhaustRetryBudget(x) ==
    [x EXCEPT !.serviceAvailable = FALSE, !.state = "Failed",
              !.succeeded = FALSE, !.stopRequested = TRUE]

\* timerOk: whether timerfd_settime works
ArmRetryDelay(x, timerOk) ==
    IF timerOk THEN [x EXCEPT !.state = "WaitingToRetry", !.timer = "Armed"]
    ELSE FailTransaction(x)

\* Mutant: the budget is taken for the number of retries, one attempt too few.
ScheduleRetry_GivesUpEarly(x, timerOk) ==
    IF x.attempts + 1 >= MaxAttempts THEN ExhaustRetryBudget(x) ELSE ArmRetryDelay(x, timerOk)

ScheduleRetry(x, timerOk) ==
    IF x.attempts >= MaxAttempts THEN ExhaustRetryBudget(x) ELSE ArmRetryDelay(x, timerOk)

Outcomes == IF LocalFaults THEN BOOLEAN ELSE {TRUE}

RequestOf(c) == [id |-> TxnId[c], interval |-> Interval[c], from |-> c]

\* send_attempt from context x: the datagram is sent or not, the response
\* timer armed or not.  It returns false exactly when the state is now Failed.
Attempted(x, ok) ==
    LET y == [x EXCEPT !.attempts = @ + 1]
    IN  IF ok THEN [y EXCEPT !.timer = "Armed", !.state = "WaitingForResponse"]
        ELSE FailTransaction(y)

SendAttempt(c, x, sendOk, timerOk) ==
    /\ requests' = IF sendOk THEN Append(requests, RequestOf(c)) ELSE requests
    /\ client' = [client EXCEPT ![c] = Attempted(x, sendOk /\ timerOk)]

\* Mutant: the timer is disarmed after the retry delay has been armed.
HandleAnswer_DisarmsLast(x, m, timerOk) ==
    CASE m.type = "Ack" -> [x EXCEPT !.timer = "Disarmed", !.state = "Succeeded",
                                     !.succeeded = TRUE, !.stopRequested = TRUE]
      [] m.type = "Busy" -> [ScheduleRetry(x, timerOk) EXCEPT !.timer = "Disarmed"]
      [] OTHER -> FailTransaction(x)

\* on_response, for an answer to the transaction in progress
HandleAnswer(x, m, timerOk) ==
    CASE m.type = "Ack" -> [x EXCEPT !.timer = "Disarmed", !.state = "Succeeded",
                                     !.succeeded = TRUE, !.stopRequested = TRUE]
      [] m.type = "Busy" -> ScheduleRetry([x EXCEPT !.timer = "Disarmed"], timerOk)
      [] OTHER -> FailTransaction(x)

\* Mutant: a response is handled whatever the state of the transaction.
OnResponse_Unguarded(c, x, m, timerOk) ==
    IF m.id # TxnId[c] THEN x ELSE HandleAnswer(x, m, timerOk)

\* on_response; a response for another transaction is ignored, and so is any
\* response once the transaction is settled.
OnResponse(c, x, m, timerOk) ==
    IF x.state \notin Waiting \/ m.id # TxnId[c] THEN x ELSE HandleAnswer(x, m, timerOk)

--------------------------------------------------------------------------------
(* The client process. *)

Alive(c) == client[c].phase = "Running"
Dispatching(c, source) ==
    Alive(c) /\ client[c].batch # <<>> /\ Head(client[c].batch) = source
AfterDispatch(c) == [client[c] EXCEPT !.batch = Tail(@)]

\* main up to and including the first send_attempt.  A later attempt that fails
\* leaves through the loop; this one makes main return 1.
Start(c) ==
    /\ client[c].phase = "NotStarted"
    /\ \A d \in Clients \ {c} :
         (Sequential \/ Port[d] = Port[c]) => ~Alive(d)
    /\ \E sendOk, timerOk \in Outcomes :
         SendAttempt(c, [client[c] EXCEPT
                           !.phase = IF sendOk /\ timerOk THEN "Running" ELSE "Exited",
                           !.status = IF sendOk /\ timerOk THEN 0 ELSE 1],
                     sendOk, timerOk)
    /\ UNCHANGED <<server, responses, duplicates, executions>>

ReadySources(c) ==
    {s \in Sources : \/ s = "udp" /\ responses[Port[c]] # <<>>
                     \/ s = "timer" /\ client[c].timer = "Expired"
                     \/ s = "signal" /\ client[c].signalled}

\* epoll_wait: what is ready, in whatever order the kernel lists it
PollOnce(c) ==
    /\ Alive(c) /\ client[c].batch = <<>> /\ ~client[c].stopRequested
    /\ ReadySources(c) # {}
    /\ \E b \in SetToSeqs(ReadySources(c)) :
         client' = [client EXCEPT ![c].batch = b]
    /\ UNCHANGED <<server, requests, responses, duplicates, executions>>

\* UdpDatagramReceiver::on_readable hands over one datagram after the other ...
HandleResponse(c) ==
    /\ Dispatching(c, "udp")
    /\ \E i \in 1..Len(responses[Port[c]]), timerOk \in Outcomes :
         /\ FifoLink => i = 1
         /\ client' = [client EXCEPT
              ![c] = OnResponse(c, @, responses[Port[c]][i], timerOk)]
         /\ responses' = [responses EXCEPT ![Port[c]] = RemoveAt(@, i)]
    /\ UNCHANGED <<server, requests, duplicates, executions>>

\* ... until recvfrom finds the socket empty: what is left is still in transit
SocketDrained(c) ==
    /\ Dispatching(c, "udp")
    /\ client' = [client EXCEPT ![c] = AfterDispatch(c)]
    /\ UNCHANGED <<server, requests, responses, duplicates, executions>>

\* TimerFdSource::on_readable with nothing to read, or a timer that finds the
\* transaction settled
IdleTimer(c) ==
    /\ Dispatching(c, "timer")
    /\ client[c].timer = "Expired" => client[c].state \notin Waiting
    /\ client' = [client EXCEPT ![c] = [AfterDispatch(c) EXCEPT
         !.timer = IF @ = "Expired" THEN "Disarmed" ELSE @]]
    /\ UNCHANGED <<server, requests, responses, duplicates, executions>>

\* on_transaction_timer while waiting for a response
ResponseTimeout(c) ==
    /\ Dispatching(c, "timer") /\ client[c].timer = "Expired"
    /\ client[c].state = "WaitingForResponse"
    /\ \E timerOk \in Outcomes :
         client' = [client EXCEPT ![c] =
           ScheduleRetry([AfterDispatch(c) EXCEPT !.timer = "Disarmed"], timerOk)]
    /\ UNCHANGED <<server, requests, responses, duplicates, executions>>

\* on_transaction_timer at the end of a retry delay
RetryNow(c) ==
    /\ Dispatching(c, "timer") /\ client[c].timer = "Expired"
    /\ client[c].state = "WaitingToRetry"
    /\ \E sendOk, timerOk \in Outcomes :
         SendAttempt(c, [AfterDispatch(c) EXCEPT !.timer = "Disarmed"], sendOk, timerOk)
    /\ UNCHANGED <<server, responses, duplicates, executions>>

OnSignal(c) ==
    /\ Dispatching(c, "signal")
    /\ client' = [client EXCEPT ![c] = [AfterDispatch(c) EXCEPT
                    !.signalled = FALSE, !.stopRequested = TRUE]]
    /\ UNCHANGED <<server, requests, responses, duplicates, executions>>

\* the loop ends between two batches, and main returns
Exit(c) ==
    /\ Alive(c) /\ client[c].batch = <<>> /\ client[c].stopRequested
    /\ client' = [client EXCEPT ![c] = [@ EXCEPT
                    !.phase = "Exited", !.status = IF client[c].succeeded THEN 0 ELSE 2]]
    /\ UNCHANGED <<server, requests, responses, duplicates, executions>>

ClientStep(c) ==
    \/ PollOnce(c) \/ HandleResponse(c) \/ SocketDrained(c)
    \/ IdleTimer(c) \/ ResponseTimeout(c) \/ RetryNow(c) \/ OnSignal(c) \/ Exit(c)

--------------------------------------------------------------------------------
(* The server: on_request, one disjunct for each way out of the handler. *)

\* sendto, to the port the request came from
Reply(m, type) ==
    responses' = [responses EXCEPT
                    ![Port[m.from]] = Append(@, [id |-> m.id, type |-> type])]

\* Mutant: every request after a completed one is taken for its retry.
IsDuplicate_AnyId(m) == server.hasCompleted

IsDuplicate(m) == server.hasCompleted /\ m.id = server.completedId

AnswerDuplicate(m) ==
    /\ IsDuplicate(m)
    /\ IF server.mode = "Silent" THEN UNCHANGED responses ELSE Reply(m, "Ack")
    /\ UNCHANGED <<server, executions>>

MustRefuse == server.mode = "BusyOnce" /\ ~server.busyNackSent

RefuseBusy(m) ==
    /\ ~IsDuplicate(m) /\ MustRefuse
    /\ server' = [server EXCEPT !.busyNackSent = TRUE]
    /\ Reply(m, "Busy")
    /\ UNCHANGED executions

InRange(interval) == MinInterval <= interval /\ interval <= MaxInterval

RejectInterval(m) ==
    /\ ~IsDuplicate(m) /\ ~MustRefuse /\ ~InRange(m.interval)
    /\ Reply(m, "InvalidValue")
    /\ UNCHANGED <<server, executions>>

\* Mutant: a transaction is remembered only once its ACK has gone out.
Execute_RemembersOnAck(m) ==
    LET dropAck == server.mode = "DropFirstAck" /\ ~server.firstAckDropped IN
    /\ ~IsDuplicate(m) /\ ~MustRefuse /\ InRange(m.interval)
    /\ server' = IF dropAck
         THEN [server EXCEPT !.reportingInterval = m.interval, !.firstAckDropped = TRUE]
         ELSE [server EXCEPT !.reportingInterval = m.interval,
                             !.hasCompleted = TRUE, !.completedId = m.id]
    /\ executions' = [executions EXCEPT ![m.from] = @ + 1]
    /\ IF dropAck \/ server.mode = "Silent" THEN UNCHANGED responses ELSE Reply(m, "Ack")

Execute(m) ==
    LET dropAck == server.mode = "DropFirstAck" /\ ~server.firstAckDropped IN
    /\ ~IsDuplicate(m) /\ ~MustRefuse /\ InRange(m.interval)
    /\ server' = [server EXCEPT
         !.reportingInterval = m.interval,
         !.hasCompleted = TRUE, !.completedId = m.id,
         !.firstAckDropped = @ \/ dropAck]
    /\ executions' = [executions EXCEPT ![m.from] = @ + 1]
    /\ IF dropAck \/ server.mode = "Silent" THEN UNCHANGED responses ELSE Reply(m, "Ack")

OnRequest ==
    /\ server.running
    /\ \E i \in 1..Len(requests) :
         /\ FifoLink => i = 1
         /\ \/ AnswerDuplicate(requests[i])
            \/ RefuseBusy(requests[i])
            \/ RejectInterval(requests[i])
            \/ Execute(requests[i])
         /\ requests' = RemoveAt(requests, i)
    /\ UNCHANGED <<client, duplicates>>

StopServer ==
    /\ server.running
    /\ server' = [server EXCEPT !.running = FALSE]
    /\ UNCHANGED <<client, requests, responses, duplicates, executions>>

--------------------------------------------------------------------------------
(* The environment: time, signals and UDP. *)

TimerExpires(c) ==
    /\ Alive(c) /\ client[c].timer = "Armed"
    /\ client' = [client EXCEPT ![c].timer = "Expired"]
    /\ UNCHANGED <<server, requests, responses, duplicates, executions>>

Signal(c) ==
    /\ Alive(c) /\ ~client[c].signalled /\ ~client[c].stopRequested
    /\ client' = [client EXCEPT ![c].signalled = TRUE]
    /\ UNCHANGED <<server, requests, responses, duplicates, executions>>

LoseRequest ==
    /\ \E i \in 1..Len(requests) : requests' = RemoveAt(requests, i)
    /\ UNCHANGED <<client, server, responses, duplicates, executions>>

LoseResponse ==
    /\ \E p \in Ports : \E i \in 1..Len(responses[p]) :
         responses' = [responses EXCEPT ![p] = RemoveAt(@, i)]
    /\ UNCHANGED <<client, server, requests, duplicates, executions>>

DuplicateRequest ==
    /\ duplicates < MaxDuplicates
    /\ \E i \in 1..Len(requests) : requests' = Append(requests, requests[i])
    /\ duplicates' = duplicates + 1
    /\ UNCHANGED <<client, server, responses, executions>>

DuplicateResponse ==
    /\ duplicates < MaxDuplicates
    /\ \E p \in Ports : \E i \in 1..Len(responses[p]) :
         responses' = [responses EXCEPT ![p] = Append(@, @[i])]
    /\ duplicates' = duplicates + 1
    /\ UNCHANGED <<client, server, requests, executions>>

Network == LoseRequest \/ LoseResponse \/ DuplicateRequest \/ DuplicateResponse

\* every client has exited: the lab is over
Finished == (\A c \in Clients : client[c].phase = "Exited") /\ UNCHANGED vars

Next ==
    \/ \E c \in Clients : Start(c) \/ ClientStep(c) \/ TimerExpires(c) \/ Signal(c)
    \/ OnRequest \/ StopServer \/ Network \/ Finished

Fairness == \A c \in Clients : WF_vars(ClientStep(c)) /\ WF_vars(TimerExpires(c))

Spec == Init /\ [][Next]_vars /\ Fairness

--------------------------------------------------------------------------------
(* Properties. *)

\* No client waits for something that cannot happen: whenever it waits for a
\* response or for the end of a retry delay, its timer is armed or has expired.
\* (on_response disarms the timer before schedule_retry arms it again.)
TimerGuardsWait ==
    \A c \in Clients :
      Alive(c) /\ client[c].state \in Waiting => client[c].timer # "Disarmed"

\* The retry budget counts the first attempt too (README "maximum attempts"): a
\* client never sits through a delay after which it may not send, and gives the
\* service up as unavailable only when every permitted attempt has been made.
RetryWithinBudget ==
    \A c \in Clients :
      /\ client[c].state = "WaitingToRetry" => client[c].attempts < MaxAttempts
      /\ ~client[c].serviceAvailable =>
           client[c].attempts = MaxAttempts /\ client[c].state = "Failed"

\* A settled transaction stays settled, whatever is still in the socket, in the
\* batch or on its way: a late ACK does not turn a failure into a success, and
\* a late NACK or timeout does not undo a success.
OutcomeStable ==
    [][\A c \in Clients :
         client[c].state \in {"Succeeded", "Failed"} =>
           /\ client'[c].state = client[c].state
           /\ client'[c].succeeded = client[c].succeeded
           /\ client'[c].attempts = client[c].attempts]_vars

\* A client that reports success, or exits with status 0, had its own request
\* carried out: an ACK for an earlier client of the same port does not count.
SuccessMeansApplied ==
    \A c \in Clients :
      client[c].succeeded \/ (client[c].phase = "Exited" /\ client[c].status = 0)
        => executions[c] > 0

\* The server carries out a transaction at most once, however often it is
\* retried or duplicated (duplicate detection in on_request).
AtMostOnce == \A c \in Clients : executions[c] <= 1

\* Every client process ends: the timer bounds every wait, and the budget
\* bounds the attempts, even when no response ever arrives.
EveryClientExits == \A c \in Clients : Alive(c) ~> client[c].phase = "Exited"

OutcomeOf(c) == CASE client[c].succeeded -> "succeeded"
                  [] client[c].state = "Failed" -> "failed"
                  [] client[c].phase = "Exited" /\ ~client[c].succeeded -> "failed"
                  [] OTHER -> "pending"

Promise == INSTANCE TransactionSpec WITH
    applied <- [c \in Clients |-> executions[c] > 0],
    outcome <- [c \in Clients |-> OutcomeOf(c)],
    interval <- server.reportingInterval

\* The lab keeps the promise of TransactionSpec; in particular a late retry of
\* an earlier transaction never puts its interval back into force.
KeepsPromise == Promise!Spec
================================================================================
