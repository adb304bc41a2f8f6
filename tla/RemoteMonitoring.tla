--------------------------- MODULE RemoteMonitoring ---------------------------
(****************************************************************************)
(* Chapter 15's monitoring lab: the Weather Device, which keeps a table of  *)
(* subscriptions and sends reports when they are due, and Remote Monitors   *)
(* that run the demonstration: subscribe to some reports, wait, and         *)
(* unsubscribe from the first of them, each with up to MaxAttempts          *)
(* datagrams and an acknowledgement.                                        *)
(*                                                                          *)
(* The device is one thread: a turn of its loop handles at most one request *)
(* and then sends the reports that are due.  The link is UDP: a datagram    *)
(* may be lost and, if Reordering, overtaken.  Time is what a tick takes    *)
(* off the time left to each deadline; a tick between the steps of a turn   *)
(* makes the device late.  A monitor's timeouts may come at any moment, as  *)
(* they may if the device or the link is slow.                              *)
(****************************************************************************)
EXTENDS Integers, FiniteSets, SequencesExt

CONSTANTS
    Monitors,           \* processes that run the demonstration, each on a port of its own
    Stranger,           \* any other endpoint that talks to the device
    Demo,               \* the demonstration: a sequence of [report, interval]
    ReportType,
    BadReport,          \* the code of no report type
    MaxSubscriptions,   \* subscriptions_.size()
    MinInterval, MaxInterval,
    MaxAttempts,
    Reordering,         \* BOOLEAN: whether datagrams may overtake each other
    StrangerRequests,   \* what the stranger sends
    MaxInFlight,        \* bound: datagrams in a socket's buffer; more are dropped
    MaxLate             \* bound: how late, in ticks, the device can be

ASSUME DemoAssumption ==
    /\ Demo \in Seq([report : ReportType, interval : MinInterval..MaxInterval])
    /\ Len(Demo) > 0
ASSUME BoundsAssumption ==
    /\ MinInterval \in Nat \ {0} /\ MaxInterval \in Nat
    /\ MaxSubscriptions \in Nat /\ MaxAttempts \in Nat \ {0}
    /\ MaxInFlight \in Nat \ {0} /\ MaxLate \in Nat
    /\ Reordering \in BOOLEAN
ASSUME NamesAssumption == Stranger \notin Monitors /\ BadReport \notin ReportType

Endpoint == Monitors \cup {Stranger}

\* "Malformed" stands for every request the device drops without an answer: a
\* bad frame or checksum, an unknown identifier, a wrong number of fields, or a
\* field that is not a number.
Request == [from : Endpoint, kind : {"WXSUB", "WXUSB", "Malformed"}, txn : Nat,
            report : ReportType \cup {BadReport}, interval : Nat]

ASSUME StrangerAssumption ==
    StrangerRequests \subseteq {r \in [from : {Stranger},
                                       kind : {"WXSUB", "WXUSB", "Malformed"}, txn : {0},
                                       report : ReportType \cup {BadReport},
                                       interval : 0..(MaxInterval + 1)] : TRUE}

Result == {"OK", "BUSY", "INVALID_PARAM"}
Message == [kind : {"WXACK"}, txn : Nat, result : Result]
              \cup [kind : {"Report"}, report : ReportType]

Interval == MinInterval..MaxInterval
Free == [active |-> FALSE]

\* dueIn is nextDue - now.  since is a history variable: the time since the
\* subscription was made or renewed, modulo its interval.
Slot == {Free} \cup
        [active : {TRUE}, endpoint : Endpoint, report : ReportType, interval : Interval,
         dueIn : (-MaxLate)..MaxInterval, since : 0..MaxInterval]

VARIABLES
    subscriptions,            \* the device's table
    activeSubscriptions, subscriptionHighWater,
    turn,                     \* where the device is in its loop
    toDevice,                 \* the device's socket
    toMonitor,                \* toMonitor[m]: m's socket
    monitor                   \* monitor[m]: the state of process m

table == <<subscriptions, activeSubscriptions, subscriptionHighWater>>
device == <<table, turn>>
vars == <<subscriptions, activeSubscriptions, subscriptionHighWater, turn,
          toDevice, toMonitor, monitor>>

Slots == 1..MaxSubscriptions

TypeOK ==
    /\ subscriptions \in [Slots -> Slot]
    /\ activeSubscriptions \in 0..MaxSubscriptions
    /\ subscriptionHighWater \in 0..MaxSubscriptions
    /\ turn \in {"poll", "reports"}
    /\ toDevice \in Seq(Request)
    /\ toMonitor \in [Monitors -> Seq(Message)]
    /\ monitor \in [Monitors -> [phase : {"sending", "waiting", "receiving", "exited"},
                                 step : 1..(Len(Demo) + 2), attempt : 1..MaxAttempts]]

Init ==
    /\ subscriptions = [k \in Slots |-> Free]
    /\ activeSubscriptions = 0 /\ subscriptionHighWater = 0
    /\ turn = "poll"
    /\ toDevice = <<>>
    /\ toMonitor = [m \in Monitors |-> <<>>]
    /\ monitor = [m \in Monitors |-> [phase |-> "sending", step |-> 1, attempt |-> 1]]

--------------------------------------------------------------------------------
(* The link *)

\* A datagram that finds the buffer full, or nobody at its port, is dropped.
Delivered(socket, datagrams) ==
    IF Len(socket) + Len(datagrams) <= MaxInFlight THEN socket \o datagrams ELSE socket

ToEndpoint(e, datagrams) ==
    IF e \in Monitors /\ monitor[e].phase # "exited"
      THEN [toMonitor EXCEPT ![e] = Delivered(@, datagrams)]
      ELSE toMonitor

\* the datagrams a receiver may find first
Arriving(socket) == IF Reordering THEN DOMAIN socket ELSE DOMAIN socket \cap {1}

Lose ==
    /\ \/ \E i \in DOMAIN toDevice :
            toDevice' = RemoveAt(toDevice, i) /\ UNCHANGED toMonitor
       \/ \E m \in Monitors : \E i \in DOMAIN toMonitor[m] :
            /\ toMonitor' = [toMonitor EXCEPT ![m] = RemoveAt(@, i)]
            /\ UNCHANGED toDevice
    /\ UNCHANGED <<device, monitor>>

\* Requests of the stranger's: it is not bound by the demonstration.
StrangerSends ==
    /\ \E r \in StrangerRequests : toDevice' = Delivered(toDevice, <<r>>)
    /\ UNCHANGED <<device, toMonitor, monitor>>

--------------------------------------------------------------------------------
(* The Weather Device *)

Matches(k, e, r) ==
    /\ subscriptions[k].active
    /\ subscriptions[k].endpoint = e /\ subscriptions[k].report = r

Matching(e, r) == {k \in Slots : Matches(k, e, r)}
FreeSlots == {k \in Slots : ~subscriptions[k].active}
First(S) == CHOOSE k \in S : \A j \in S : k <= j

Subscribed(q) == [active |-> TRUE, endpoint |-> q.from, report |-> q.report,
                  interval |-> q.interval, dueIn |-> q.interval, since |-> 0]

\* Mutant: a renewed subscription takes another slot.
upsertSubscription_NoSearch(q) ==
    IF FreeSlots # {} THEN
      /\ subscriptions' = [subscriptions EXCEPT ![First(FreeSlots)] = Subscribed(q)]
      /\ activeSubscriptions' = activeSubscriptions + 1
      /\ subscriptionHighWater' = activeSubscriptions + 1
    ELSE UNCHANGED table

\* Mutant: when the table is full the first slot is given away.
upsertSubscription_Evicts(q) ==
    LET old == Matching(q.from, q.report)
    IN  IF old # {} THEN
          /\ subscriptions' = [subscriptions EXCEPT ![First(old)] = Subscribed(q)]
          /\ UNCHANGED <<activeSubscriptions, subscriptionHighWater>>
        ELSE IF FreeSlots # {} THEN
          /\ subscriptions' = [subscriptions EXCEPT ![First(FreeSlots)] = Subscribed(q)]
          /\ activeSubscriptions' = activeSubscriptions + 1
          /\ subscriptionHighWater' =
               IF activeSubscriptions + 1 > subscriptionHighWater
                 THEN activeSubscriptions + 1 ELSE subscriptionHighWater
        ELSE
          /\ subscriptions' = [subscriptions EXCEPT ![1] = Subscribed(q)]
          /\ UNCHANGED <<activeSubscriptions, subscriptionHighWater>>

\* Renew the subscription there is, or take the first free slot, if any.
upsertSubscription(q) ==
    LET old == Matching(q.from, q.report)
    IN  IF old # {} THEN
          /\ subscriptions' = [subscriptions EXCEPT ![First(old)] = Subscribed(q)]
          /\ UNCHANGED <<activeSubscriptions, subscriptionHighWater>>
        ELSE IF FreeSlots # {} THEN
          /\ subscriptions' = [subscriptions EXCEPT ![First(FreeSlots)] = Subscribed(q)]
          /\ activeSubscriptions' = activeSubscriptions + 1
          /\ subscriptionHighWater' =
               IF activeSubscriptions + 1 > subscriptionHighWater
                 THEN activeSubscriptions + 1 ELSE subscriptionHighWater
        ELSE UNCHANGED table

\* Mutant: the endpoint is not compared.
removeSubscription_AnyEndpoint(q) ==
    LET old == {k \in Slots : subscriptions[k].active /\ subscriptions[k].report = q.report}
    IN  IF old # {} THEN
          /\ subscriptions' = [subscriptions EXCEPT ![First(old)] = Free]
          /\ activeSubscriptions' = activeSubscriptions - 1
          /\ UNCHANGED subscriptionHighWater
        ELSE UNCHANGED table

\* Removing what is not there is a success too.
removeSubscription(q) ==
    LET old == Matching(q.from, q.report)
    IN  IF old # {} THEN
          /\ subscriptions' = [subscriptions EXCEPT ![First(old)] = Free]
          /\ activeSubscriptions' = IF activeSubscriptions > 0 THEN activeSubscriptions - 1 ELSE 0
          /\ UNCHANGED subscriptionHighWater
        ELSE UNCHANGED table

sendAck(q, result) ==
    toMonitor' = ToEndpoint(q.from, <<[kind |-> "WXACK", txn |-> q.txn, result |-> result]>>)

processSubscribe(q) ==
    IF q.report = BadReport \/ q.interval \notin Interval THEN
      sendAck(q, "INVALID_PARAM") /\ UNCHANGED table
    ELSE
      /\ upsertSubscription(q)
      /\ sendAck(q, IF Matching(q.from, q.report) \cup FreeSlots # {} THEN "OK" ELSE "BUSY")

\* Mutant: an unsubscription is acknowledged and forgotten.
processUnsubscribe_AckOnly(q) ==
    /\ sendAck(q, IF q.report = BadReport THEN "INVALID_PARAM" ELSE "OK")
    /\ UNCHANGED table

processUnsubscribe(q) ==
    IF q.report = BadReport THEN
      sendAck(q, "INVALID_PARAM") /\ UNCHANGED table
    ELSE
      removeSubscription(q) /\ sendAck(q, "OK")

\* the turn's request, when poll says there is one
receiveRequest ==
    /\ turn = "poll"
    /\ \E i \in Arriving(toDevice) :
         LET q == toDevice[i]
         IN  /\ toDevice' = RemoveAt(toDevice, i)
             /\ CASE q.kind = "WXSUB" -> processSubscribe(q)
                  [] q.kind = "WXUSB" -> processUnsubscribe(q)
                  [] OTHER -> UNCHANGED <<table, toMonitor>>
    /\ turn' = "reports"
    /\ UNCHANGED monitor

\* nothing has arrived yet of what is on its way
pollTimesOut ==
    /\ turn = "poll"
    /\ turn' = "reports"
    /\ UNCHANGED <<table, toDevice, toMonitor, monitor>>

\* Mutant: the next deadline is counted from now.
NextDue_FromNow(s) == s.interval

\* Mutant: the deadline is advanced once, however late the device is.
NextDue_Once(s) == s.dueIn + s.interval

\* nextDue advanced by whole intervals until it lies ahead
NextDue(s) == CHOOSE d \in 1..s.interval : (d - s.dueIn) % s.interval = 0

Due == {k \in Slots : subscriptions[k].active /\ subscriptions[k].dueIn <= 0}

InTableOrder(s) == \A i, j \in DOMAIN s : i < j => s[i] < s[j]

\* What may be sent to e, in the order of the table; sendto may fail for some.
ReportsTo(e) ==
    LET due == {k \in Due : subscriptions[k].endpoint = e}
        slots == {s \in UNION {SetToSeqs(sent) : sent \in SUBSET due} : InTableOrder(s)}
    IN  {[i \in DOMAIN s |-> [kind |-> "Report", report |-> subscriptions[s[i]].report]] :
           s \in slots}

\* Mutant: while requests wait, the reports do.
sendDueReports_RequestsFirst ==
    /\ turn = "reports"
    /\ IF toDevice # <<>> THEN UNCHANGED <<subscriptions, toMonitor>>
       ELSE /\ subscriptions' = [k \in Slots |->
                 IF k \in Due THEN [subscriptions[k] EXCEPT !.dueIn = NextDue(subscriptions[k])]
                 ELSE subscriptions[k]]
            /\ UNCHANGED toMonitor
    /\ turn' = "poll"
    /\ UNCHANGED <<activeSubscriptions, subscriptionHighWater, toDevice, monitor>>

sendDueReports ==
    /\ turn = "reports"
    /\ subscriptions' = [k \in Slots |->
         IF k \in Due THEN [subscriptions[k] EXCEPT !.dueIn = NextDue(subscriptions[k])]
         ELSE subscriptions[k]]
    /\ \E reports \in [Monitors -> UNION {ReportsTo(m) : m \in Monitors}] :
         /\ \A m \in Monitors : reports[m] \in ReportsTo(m)
         /\ toMonitor' = [m \in Monitors |-> ToEndpoint(m, reports[m])[m]]
    /\ turn' = "poll"
    /\ UNCHANGED <<activeSubscriptions, subscriptionHighWater, toDevice, monitor>>

Tick ==
    /\ \A k \in Slots : subscriptions[k].active => subscriptions[k].dueIn > -MaxLate
    /\ \E k \in Slots : subscriptions[k].active
    /\ subscriptions' = [k \in Slots |->
         LET s == subscriptions[k]
         IN  IF s.active THEN [s EXCEPT !.dueIn = @ - 1, !.since = (@ + 1) % s.interval] ELSE s]
    /\ UNCHANGED <<activeSubscriptions, subscriptionHighWater, turn, toDevice, toMonitor, monitor>>

--------------------------------------------------------------------------------
(* A Remote Monitor.  Step k is the transaction that subscribes to Demo[k];    *)
(* step Len(Demo) + 1 unsubscribes from Demo[1], and the step after it is to   *)
(* receive until the end.  The identifier of a step's transaction is its       *)
(* number.                                                                     *)

Unsubscribing == Len(Demo) + 1
Unsubscribed == Len(Demo) + 2

RequestOf(m) ==
    LET step == monitor[m].step
        item == Demo[IF step = Unsubscribing THEN 1 ELSE step]
    IN  [from |-> m, kind |-> IF step = Unsubscribing THEN "WXUSB" ELSE "WXSUB",
         txn |-> step, report |-> item.report, interval |-> item.interval]

\* the next attempt of the loop in transact, or the end of it and of the program
NextAttempt(x) ==
    IF x.attempt < MaxAttempts
      THEN [x EXCEPT !.phase = "sending", !.attempt = @ + 1]
      ELSE [x EXCEPT !.phase = "exited"]

\* transact returns true
Confirmed(x) ==
    [x EXCEPT !.step = @ + 1, !.attempt = 1,
              !.phase = IF x.step < Len(Demo) THEN "sending" ELSE "receiving"]

Becomes(m, x) == monitor' = [monitor EXCEPT ![m] = x]

sendAttempt(m) ==
    /\ monitor[m].phase = "sending"
    /\ \/ /\ toDevice' = Delivered(toDevice, <<RequestOf(m)>>)
          /\ Becomes(m, [monitor[m] EXCEPT !.phase = "waiting"])
       \/ UNCHANGED toDevice /\ Becomes(m, NextAttempt(monitor[m]))   \* sendto fails
    /\ UNCHANGED <<device, toMonitor>>

AckTimeout(m) ==
    /\ monitor[m].phase = "waiting"
    /\ Becomes(m, NextAttempt(monitor[m]))
    /\ UNCHANGED <<device, toDevice, toMonitor>>

\* Mutant: any acknowledgement will do.
IsAckFor_Any(msg, x) == x.phase = "waiting" /\ msg.kind = "WXACK"

IsAckFor(msg, x) == x.phase = "waiting" /\ msg.kind = "WXACK" /\ msg.txn = x.step

receiveOne(m) ==
    /\ monitor[m].phase \in {"waiting", "receiving"}
    /\ \E i \in Arriving(toMonitor[m]) :
         LET msg == toMonitor[m][i]
             x == monitor[m]
         IN  /\ toMonitor' = [toMonitor EXCEPT ![m] = RemoveAt(@, i)]
             /\ Becomes(m, IF ~IsAckFor(msg, x) THEN x
                           ELSE IF msg.result = "OK" THEN Confirmed(x)
                           ELSE [x EXCEPT !.phase = "exited"])
    /\ UNCHANGED <<device, toDevice>>

\* the ten seconds are over
unsubscribeAt(m) ==
    /\ monitor[m].phase = "receiving" /\ monitor[m].step = Unsubscribing
    /\ Becomes(m, [monitor[m] EXCEPT !.phase = "sending"])
    /\ UNCHANGED <<device, toDevice, toMonitor>>

\* SIGINT or SIGTERM; the port is closed and what it holds is gone
Stop(m) ==
    /\ monitor[m].phase # "exited"
    /\ Becomes(m, [monitor[m] EXCEPT !.phase = "exited"])
    /\ toMonitor' = [toMonitor EXCEPT ![m] = <<>>]
    /\ UNCHANGED <<device, toDevice>>

--------------------------------------------------------------------------------
DeviceTurn == receiveRequest \/ pollTimesOut \/ sendDueReports

Transact(m) == sendAttempt(m) \/ AckTimeout(m)

Next ==
    \/ DeviceTurn \/ Tick \/ Lose \/ StrangerSends
    \/ \E m \in Monitors : Transact(m) \/ receiveOne(m) \/ unsubscribeAt(m) \/ Stop(m)

\* The device's loop goes round at least every poll period, and a monitor that
\* waits for an acknowledgement is waked by its deadline at the latest.
Fairness == WF_vars(DeviceTurn) /\ \A m \in Monitors : WF_vars(Transact(m))

Spec == Init /\ [][Next]_vars /\ Fairness

--------------------------------------------------------------------------------
(* Properties. *)

\* The table keeps its books, in a well-typed state: no endpoint has two
\* subscriptions for one report, the counter is the number of those in force,
\* and the mark that DIA reports is never below it.
CountersAgree ==
    /\ TypeOK
    /\ activeSubscriptions = Cardinality({k \in Slots : subscriptions[k].active})
    /\ \A e \in Endpoint, r \in ReportType : Cardinality(Matching(e, r)) <= 1
    /\ subscriptionHighWater >= activeSubscriptions

\* The first subscription is wanted until the monitor asks for the end of it,
\* the ten seconds in which it only receives included; the others to the end.
Wanted(m, k) ==
    \/ k # 1
    \/ monitor[m].step < Unsubscribing
    \/ monitor[m].step = Unsubscribing /\ monitor[m].phase = "receiving"

\* What a monitor was told it had subscribed to, it has: with the interval it
\* asked for, until it asks for the end of it, whatever was lost or repeated.
ConfirmedMeansSubscribed ==
    \A m \in Monitors : monitor[m].phase # "exited" =>
      \A k \in 1..Len(Demo) :
        k < monitor[m].step /\ Wanted(m, k) =>
          \E j \in Matching(m, Demo[k].report) :
            subscriptions[j].interval = Demo[k].interval

\* "Temperature reports stopped": once a monitor was told that it has
\* unsubscribed, no such report is sent to it or still on its way.
ReportsStopped ==
    \A m \in Monitors : monitor[m].step = Unsubscribed /\ monitor[m].phase # "exited" =>
      /\ Matching(m, Demo[1].report) = {}
      /\ \A i \in DOMAIN toMonitor[m] :
           toMonitor[m][i] # [kind |-> "Report", report |-> Demo[1].report]

\* Reports do not drift and do not pile up: however late the device is, a
\* deadline stays whole intervals from the moment of the subscription and never
\* more than one of them away; and when a turn's reports are sent every deadline
\* lies ahead, however many of them were missed.
OnItsGrid(s) == s.dueIn <= s.interval /\ (s.dueIn + s.since) % s.interval = 0

NothingOverdue == \A k \in Slots : subscriptions[k].active => subscriptions[k].dueIn > 0

NoDrift ==
    /\ [](\A k \in Slots : subscriptions[k].active => OnItsGrid(subscriptions[k]))
    /\ [][turn = "reports" /\ turn' = "poll" => NothingOverdue']_vars

\* A report that is due is sent, however many requests keep arriving; and the
\* transactions of a monitor end, although nobody may answer: it comes to the
\* point where it receives, or exits.
NobodyWaitsForever ==
    /\ \A m \in Monitors : <>(monitor[m].phase \in {"receiving", "exited"})
    /\ \A k \in Slots : (subscriptions[k].active /\ subscriptions[k].dueIn <= 0)
                          ~> (~subscriptions[k].active \/ subscriptions[k].dueIn > 0)

\* The table with its slots is the registry of SubscriptionSpec.
Registry == {[endpoint |-> subscriptions[k].endpoint, report |-> subscriptions[k].report,
              interval |-> subscriptions[k].interval] : k \in Slots \ FreeSlots}
Abstract == INSTANCE SubscriptionSpec
              WITH registry <- Registry, Capacity <- MaxSubscriptions
IsARegistry == Abstract!Spec
===============================================================================
