SPECIFICATION Spec
CONSTANT Programs = {"demo", "nmea", "fusionDevice", "filter", "anomaly", "oven", "streams", "framing", "sentences",
                     "refused"}
INVARIANTS
    Conservation PrintsWhatCameIn FusionFaithful FilteringFaithful AnomaliesAreTold
    RampsAsPlanned WireIsFaithful
PROPERTY EveryProgramEnds
CHECK_DEADLOCK FALSE
