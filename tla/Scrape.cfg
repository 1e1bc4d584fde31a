SPECIFICATION FairSpec
CONSTANTS
    N = 3
    MinSlots = 2
    NumCPU = 1
    Names <- MCNames
    NoName = ""
    Fold <- MCFold
    Asked <- MCAsked
    Confs <- MCConfs
INVARIANTS
    TypeOK
    OneOutcomeEach
    ErrorOnlyWhenNothing
    InFlightBounded
    SettingsOfItsOwn
PROPERTIES
    BatchReturns
    BatchKept
