-------------------------- MODULE MCParameterDevice --------------------------
(* ParameterDevice with a few texts for each option.                        *)
EXTENDS ParameterDevice

Read(n) == [parsed |-> TRUE, value |-> n]
Unreadable == [parsed |-> FALSE, value |-> 0]

SomeTexts == [ReportingInterval |-> {None, Read(2500), Read(99)},
              TemperatureLimit |-> {None, Read(-40)},
              OperatingMode |-> {None, Read(1), Unreadable}]
================================================================================
