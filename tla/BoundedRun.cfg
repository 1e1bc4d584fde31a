SPECIFICATION FairRunSpec
CONSTANTS
    Cap = 3
    MaxTotal = 5
INVARIANTS
    RunTypeOK
    NoPartialConfig
PROPERTIES
    GroupKillEndsCall
