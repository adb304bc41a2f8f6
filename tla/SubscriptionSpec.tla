--------------------------- MODULE SubscriptionSpec ---------------------------
(****************************************************************************)
(* What the Weather Device of Chapter 15 promises about subscriptions: it   *)
(* keeps at most one for each endpoint and report, at most Capacity in all, *)
(* and a subscription changes only by a request for it.                     *)
(****************************************************************************)
EXTENDS Naturals, FiniteSets

CONSTANTS Endpoint, ReportType, Interval, Capacity

VARIABLE registry        \* the subscriptions in force

Subscription == [endpoint : Endpoint, report : ReportType, interval : Interval]

For(e, r) == {s \in registry : s.endpoint = e /\ s.report = r}

TypeOK ==
    /\ registry \subseteq Subscription
    /\ Cardinality(registry) <= Capacity
    /\ \A e \in Endpoint, r \in ReportType : Cardinality(For(e, r)) <= 1

Init == registry = {}

\* A new subscription, or another interval for one there is.
Subscribe(s) ==
    LET old == For(s.endpoint, s.report)
    IN  /\ old # {} \/ Cardinality(registry) < Capacity
        /\ registry' = (registry \ old) \cup {s}

Unsubscribe(e, r) == registry' = registry \ For(e, r)

Next ==
    \/ \E s \in Subscription : Subscribe(s)
    \/ \E e \in Endpoint, r \in ReportType : Unsubscribe(e, r)

Spec == Init /\ [][Next]_registry
===============================================================================
