SPECIFICATION Spec
CONSTANTS
    N = 3
    Nodes <- MCNodes
CHECK_DEADLOCK FALSE
INVARIANTS
    TypeOK
    RunsWhatItChecked
