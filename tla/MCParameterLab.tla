--------------------------- MODULE MCParameterLab ---------------------------
(* ParameterLab with the lab's own script, and with every script of at most *)
(* three requests from a few that cover each way set can answer.            *)
EXTENDS ParameterLab

Number(n) == [fits |-> TRUE, parsed |-> TRUE, value |-> n]
NotANumber == [fits |-> TRUE, parsed |-> FALSE, value |-> 0]
TooLong == [fits |-> FALSE, parsed |-> TRUE, value |-> 2000]

Ask(id, text, source) == [id |-> id, text |-> text, source |-> source]
Interval(text, source) == Ask("ReportingInterval", text, source)

LabScript == <<
    Interval(Number(1500), "PersistentStorage"),
    Interval(Number(2000), "ConfigurationFile"),
    Interval(Number(3000), "CommandLine"),
    Interval(Number(2500), "ConfigurationFile"),
    Interval(Number(5000), "Runtime"),
    Interval(Number(50), "Runtime"),
    Ask("TemperatureLimit", Number(30), "Runtime"),
    Ask("OperatingMode", Number(1), "Runtime") >>

SomeRequests == {
    Interval(Number(100), "ConfigurationFile"),
    Interval(Number(60000), "CommandLine"),
    Interval(Number(60001), "Runtime"),
    Interval(NotANumber, "Runtime"),
    Interval(TooLong, "Runtime"),
    Interval(Number(5000), "Runtime"),
    Ask("TemperatureLimit", Number(30), "Runtime"),
    Ask("TemperatureLimit", Number(-40), "PersistentStorage"),
    Ask("OperatingMode", Number(2), "Runtime") }

LabAndShortScripts == {LabScript} \cup UNION {[1..n -> SomeRequests] : n \in 0..3}
================================================================================
