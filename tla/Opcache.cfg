SPECIFICATION Spec
CONSTANTS
    Probers = {c1, c2, c3}
    Names = {n1, n2, n3, n4}
    NoName = NoName
SYMMETRY Symmetry
INVARIANTS
    TypeOK
    ScriptAtHand
    NoOrphans
