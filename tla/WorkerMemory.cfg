SPECIFICATION Spec
CONSTANTS
    Pids = {2, 3, 4, 5}
    Reaper = 1
    Gone = 0
    MaxDepth = 2
    MaxEvents = 2
CHECK_DEADLOCK FALSE
INVARIANTS
    TypeOK
    WalkIsExact
    OnlyItsOwn
    NothingMissed
PROPERTIES
    RoundEnds
