--------------------------- MODULE MCWeatherDevice ---------------------------
(* One sensor, one client, one change of each kind. *)
EXTENDS WeatherDevice

MCAllowed == [ReportingInterval |-> {1, 2}, TemperatureLimit |-> {2, 3, 4}, StaleTimeout |-> {1, 2}]
\* 3 stands for a limit with more decimals than are printed
MCPrintedLimit == [limit \in {2, 3, 4} |-> IF limit = 3 THEN 2 ELSE limit]
MCDefaults == [ReportingInterval |-> 1, TemperatureLimit |-> 4, StaleTimeout |-> 2]

\* no options, an override, one that is refused
MCOverrides == {<<>>, <<<<"TemperatureLimit", 3>>>>, <<<<"StaleTimeout", 9>>>>}

Request(op, name, value) == [op |-> op, name |-> name, value |-> value]
MCRequests ==
    {Request("STATUS", "", 0), 
     Request("SET", "StaleTimeout", 1), Request("SET", "TemperatureLimit", 9),
     Request("SET", "ReportingInterval", 2), Request("SAVE", "", 0)}
================================================================================
