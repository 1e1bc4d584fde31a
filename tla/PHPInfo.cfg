SPECIFICATION FairSpec
CONSTANTS
    Callers = {c1, c2}
    Binaries = {b1, b2}
    NoBinary = NoBinary
    Calls = {k1, k2}
    NoCall = NoCall
INVARIANTS
    TypeOK
    OneFork
    AnswerForBinary
PROPERTIES
    WaiterKeepsOwnDeadline
    WaitersReleased
