-------------------------- MODULE MCRemoteMonitoring --------------------------
(* An instance of RemoteMonitoring: the demonstration with two reports, and a  *)
(* stranger that competes for the slots, asks for the same report at another   *)
(* interval, and sends requests that are refused or dropped.                   *)
EXTENDS RemoteMonitoring

MCDemo == <<[report |-> "TMP", interval |-> 1], [report |-> "PRS", interval |-> 2]>>

FromStranger(kind, report, interval) ==
    [from |-> Stranger, kind |-> kind, txn |-> 0, report |-> report, interval |-> interval]

MCStrangerRequests ==
    {FromStranger("WXSUB", "TMP", 2), FromStranger("WXUSB", "TMP", 0), FromStranger("Malformed", "TMP", 0),
     FromStranger("WXSUB", "BOGUS", 3), FromStranger("WXUSB", "BOGUS", 0)}
===============================================================================
