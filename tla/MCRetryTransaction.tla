-------------------------- MODULE MCRetryTransaction --------------------------
(* Instances of RetryTransaction: one client on any network, and two clients *)
(* one after the other on the same port.                                     *)
EXTENDS RetryTransaction

CONSTANTS c1, c2

OneTxn == [c \in Clients |-> 42]
DistinctTxns == [c \in Clients |-> IF c = c1 THEN 42 ELSE 43]
DistinctIntervals == [c \in Clients |-> IF c = c1 THEN 5000 ELSE 2000]
SamePort == [c \in Clients |-> 1]
================================================================================
