---------------------------- MODULE TransactionSpec ----------------------------
(****************************************************************************)
(* What the retry lab of Chapter 12 promises to whoever starts a client:    *)
(* the server carries out each transaction at most once, and a client       *)
(* reports success only for a transaction the server has carried out.  A    *)
(* client may give up at any time, and the server may still carry out the   *)
(* transaction afterwards.                                                  *)
(****************************************************************************)
CONSTANTS Clients,          \* one client process, and so one transaction, each
          Interval,         \* the reporting interval each client asks for
          InitialInterval   \* the interval a fresh server reports at

VARIABLES applied,   \* applied[c]: the server has carried out c's transaction
          outcome,   \* what c has told its user
          interval   \* the reporting interval in force

vars == <<applied, outcome, interval>>

Init == /\ applied = [c \in Clients |-> FALSE]
        /\ outcome = [c \in Clients |-> "pending"]
        /\ interval = InitialInterval

Apply(c) == /\ ~applied[c]
            /\ applied' = [applied EXCEPT ![c] = TRUE]
            /\ interval' = Interval[c]
            /\ UNCHANGED outcome

Succeed(c) == /\ outcome[c] = "pending" /\ applied[c]
              /\ outcome' = [outcome EXCEPT ![c] = "succeeded"]
              /\ UNCHANGED <<applied, interval>>

GiveUp(c) == /\ outcome[c] = "pending"
             /\ outcome' = [outcome EXCEPT ![c] = "failed"]
             /\ UNCHANGED <<applied, interval>>

Next == \E c \in Clients : Apply(c) \/ Succeed(c) \/ GiveUp(c)

Spec == Init /\ [][Next]_vars
================================================================================
