SPECIFICATION FairSpec
CONSTANTS
    Pids = {p1, p2}
    NoPid = NoPid
    Configs = {"/etc/a", "/etc/../etc/a", "/etc/b"}
    Clean <- MCClean
    Titles = {"/etc/a", "/etc/b"}
    Other = "other"
    Targets <- MCTargets
    NoConfig = ""
    Starts = {s1, s2}
INVARIANTS
    TypeOK
    SuccessIsTheSame
    NoFalseDead
PROPERTIES
    FollowsOurs
    CancelReturns
    SettleReturns
