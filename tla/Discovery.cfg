SPECIFICATION Spec
CONSTANTS
    Pids = {1, 2}
    Pools = {"www", "api"}
    Keys = {"listen", "pm.status_path", "pm.status_listen"}
    Values = {"/run/www.sock", "undefined", "9001", "10.0.0.1:9000", "socket", "/status", "/s", ""}
    NoPool = NoPool
    PathValues = {"/run/www.sock", "/status", "/s"}
    ColonValues = {"10.0.0.1:9000"}
    PortValues = {"9001"}
    Lines <- MCLines
    MaxLines <- MCMaxLines
    NoPid = NoPid
CHECK_DEADLOCK FALSE
INVARIANTS
    TypeOK
    PoolsAsReported
    ScrapedWhereServed
    NoMasterMissed
