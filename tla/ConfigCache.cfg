SPECIFICATION Spec
CONSTANTS
    Callers = {c1, c2}
    Names = {"", ".", "/bin/fpm", "fpm", "/etc/a", "/etc/../etc/a", "/etc/b"}
    Binaries = {"/bin/fpm", "fpm"}
    Abs = {"/bin/fpm"}
    Configs = {"/etc/a", "/etc/../etc/a", "/etc/b"}
    Empty = ""
    Clean <- MCClean
    Obj = {o1, o2, o3, o4}
    NoObj = NoObj
    MaxVersion = 1
    MaxEpoch = 2
SYMMETRY Symmetry
VIEW View
INVARIANTS
    TypeOK
    ForgottenStaysForgotten
PROPERTIES
    AnswerNotStale
    AnswerIsAsParsed
    PromiseKept
