------------------------------ MODULE Discovery ------------------------------
(***************************************************************************)
(* Discover, UnstatusedPools and DiscoverMasters (discover.go): one pass   *)
(* over the process table, which changes meanwhile, and over the report of *)
(* each php-fpm master in it.                                              *)
(*                                                                         *)
(* A process is a trusted master or it is not: masterIdentity turns down   *)
(* what is not php-fpm, is no master, names no configuration, cannot be    *)
(* read, or has paths trustedPath refuses.  Of a pool's settings only      *)
(* those that decide where it is reported are kept; its size, process      *)
(* manager and workload hint are copied along with them.                   *)
(***************************************************************************)
EXTENDS ConfigReport, Functions

CONSTANTS
    Pids,         \* the pids in play
    NoPid,
    Lines,        \* [Pids -> set of lines]: what a report of each may hold
    MaxLines,     \* bound: the lines of each report
    PathValues,   \* values that begin with a /
    ColonValues,  \* values with a : and no leading /
    PortValues    \* values that are a number

Addresses == PathValues \cup ColonValues \cup PortValues

ASSUME DiscoveryAssumption ==
    /\ NoPid \notin Pids
    /\ Lines \in [Pids -> SUBSET Line] /\ MaxLines \in [Pids -> Nat]
    /\ {"listen", "pm.status_path", "pm.status_listen"} \subseteq Keys
    /\ PathValues \cap ColonValues = {} /\ PathValues \cap PortValues = {}
    /\ ColonValues \cap PortValues = {}
    /\ {"", "undefined", "unix://", "tcp://"} \cap PathValues = {}
    /\ {"", "undefined"} \cap Addresses = {}

VARIABLES
    via,        \* the entry point: "pools", or "masters" for DiscoverMasters
    ident,      \* the process table: "master", "other", or "gone"
    pc,         \* where the pass is
    queue,      \* processes listed and still to be looked at, in any order
    p,          \* the one being looked at
    parsed,     \* its effective configuration
    names,      \* pools of it still to be looked at
    masters,    \* DiscoverMasters' result
    found,      \* discoverContext's results
    unstatused,
    steady,     \* history: trusted masters from the listing to their turn
    said        \* history: the lines read of the report of each that was parsed

results == <<masters, found, unstatused>>
history == <<steady, said>>
vars == <<via, ident, pc, queue, p, parsed, names, results, history>>

Init ==
    /\ via \in {"pools", "masters"}
    /\ ident \in [Pids -> {"master", "other", "gone"}]
    /\ pc = "list"
    /\ queue = {} /\ p = NoPid
    /\ parsed = nothingRead /\ names = {}
    /\ masters = <<>> /\ found = <<>> /\ unstatused = <<>>
    /\ steady = {} /\ said = <<>>

-----------------------------------------------------------------------------

\* process.Processes
List ==
    /\ pc = "list"
    /\ queue' = {q \in Pids : ident[q] # "gone"}
    /\ steady' = {q \in Pids : ident[q] = "master"}
    /\ pc' = "next"
    /\ UNCHANGED <<via, ident, p, parsed, names, results, said>>

ListFails ==
    /\ pc = "list"
    /\ pc' = "error"
    /\ UNCHANGED <<via, ident, queue, p, parsed, names, results, history>>

masterIdentity(q) == ident[q] = "master"

\* The turn of a process has come.
Look(q) ==
    /\ pc = "next" /\ q \in queue
    /\ queue' = queue \ {q}
    /\ UNCHANGED <<via, ident, names, found, unstatused, steady>>

\* It is no master, and passed over.
PassOver(q) ==
    /\ Look(q)
    /\ ~masterIdentity(q)
    /\ UNCHANGED <<p, pc, parsed, masters, said>>

\* DiscoverMasters takes it down.
Name(q) ==
    /\ Look(q)
    /\ masterIdentity(q) /\ via = "masters"
    /\ masters' = Append(masters, q)
    /\ UNCHANGED <<p, pc, parsed, said>>

\* discoverContext calls ParseConfigContext for it.
Parse(q) ==
    /\ Look(q)
    /\ masterIdentity(q) /\ via = "pools"
    /\ p' = q /\ pc' = "parse"
    /\ parsed' = nothingRead
    /\ said' = [r \in DOMAIN said \cup {q} |-> IF r = q THEN <<>> ELSE said[r]]
    /\ UNCHANGED masters

\* One turn of parseFPMConfigOutput's loop, on whatever line comes next.
Scan(line) ==
    /\ pc = "parse"
    /\ Len(said[p]) < MaxLines[p]
    /\ parsed' = readLine(parsed, line)
    /\ said' = [said EXCEPT ![p] = Append(said[p], line)]
    /\ UNCHANGED <<via, ident, pc, queue, p, names, results, steady>>

\* The report has ended, and ParseConfigContext returns what was read.
Parsed ==
    /\ pc = "parse"
    /\ names' = {s \in Pools : parsed.pools[s] # NoPool}
    /\ pc' = "pools"
    /\ UNCHANGED <<via, ident, queue, p, parsed, results, history>>

\* The master is skipped.
Skip ==
    /\ pc = "parse"
    /\ pc' = "next"
    /\ steady' = steady \ {p}
    /\ said' = [r \in DOMAIN said \ {p} |-> said[r]]
    /\ UNCHANGED <<via, ident, p, parsed, names, results>>

\* An error of one master ends the pass.
ParseFailsAll == Skip /\ queue' = {}

\* ParseConfigContext returns an error: the configuration is broken, the scanner
\* met a line it could not read, or the context has ended.
ParseFails == Skip /\ UNCHANGED queue

\* A listen address as the package writes it, "" if it is none.
parseSocket(v) ==
    CASE v \in PathValues -> <<"unix://", v>>
      [] v \in ColonValues -> <<"tcp://", v>>
      [] v \in PortValues -> <<"tcp://", "127.0.0.1:", v>>
      [] OTHER -> <<>>

\* Where the status page is served: a socket of its own, or the pool's.
statusSocket(settings) ==
    IF parseSocket(settings["pm.status_listen"]) # <<>>
    THEN parseSocket(settings["pm.status_listen"])
    ELSE parseSocket(settings["listen"])

\* The pool's own status path, or the one the global section gives.
statusPath(settings) ==
    IF settings["pm.status_path"] # "" THEN settings["pm.status_path"]
    ELSE parsed.global["pm.status_path"]

\* Reports a pool without a status path among the others as well.
PoolInBoth(s) ==
    LET settings == parsed.pools[s]
        pool == [pid |-> p, name |-> s, socket |-> parseSocket(settings["listen"])]
        status == statusPath(settings)
    IN  /\ pc = "pools" /\ s \in names
        /\ names' = names \ {s}
        /\ unstatused' = IF pool.socket # <<>> /\ status = ""
                         THEN Append(unstatused, pool) ELSE unstatused
        /\ found' = IF pool.socket # <<>>
                    THEN Append(found, [pool |-> pool, path |-> status,
                                        at |-> statusSocket(settings)])
                    ELSE found
        /\ UNCHANGED <<via, ident, pc, queue, p, parsed, masters, history>>

\* One pool, in whatever order the map gives them: without a usable address it
\* is left out, without a status path it is unstatused, else it is found.
Pool(s) ==
    LET settings == parsed.pools[s]
        pool == [pid |-> p, name |-> s, socket |-> parseSocket(settings["listen"])]
        status == statusPath(settings)
    IN  /\ pc = "pools" /\ s \in names
        /\ names' = names \ {s}
        /\ unstatused' = IF pool.socket # <<>> /\ status = ""
                         THEN Append(unstatused, pool) ELSE unstatused
        /\ found' = IF pool.socket # <<>> /\ status # ""
                    THEN Append(found, [pool |-> pool, path |-> status,
                                        at |-> statusSocket(settings)])
                    ELSE found
        /\ UNCHANGED <<via, ident, pc, queue, p, parsed, masters, history>>

\* On to the next process.
MasterDone ==
    /\ pc = "pools" /\ names = {}
    /\ pc' = "next"
    /\ UNCHANGED <<via, ident, queue, p, parsed, names, results, history>>

Finish ==
    /\ pc = "next" /\ queue = {}
    /\ pc' = "done"
    /\ UNCHANGED <<via, ident, queue, p, parsed, names, results, history>>

-----------------------------------------------------------------------------
(* What becomes of a pool that was found: a target, and the address dialled *)

\* The fields of a Target that say where its pool is.
TargetFromDiscovered(d) == [Socket |-> d.pool.socket, StatusSocket |-> d.at]

\* Always the socket that takes the requests.
statusAddressSocket(t) == t.Socket

\* StatusSocket, if there is one.
statusAddress(t) == IF t.StatusSocket # <<>> THEN t.StatusSocket ELSE t.Socket

\* The network and the address of a written address, which may be a bare path.
ParseAddress(addr) ==
    CASE addr # <<>> /\ addr[1] = "unix://" -> <<"unix", Tail(addr)>>
      [] addr # <<>> /\ addr[1] = "tcp://" -> <<"tcp", Tail(addr)>>
      [] addr # <<>> /\ addr[1] \in PathValues -> <<"unix", addr>>
      [] OTHER -> <<"unsupported", <<>>>>

-----------------------------------------------------------------------------

\* A process exits, or another takes its pid, before its turn.
Change(q, id) ==
    /\ pc = "next"
    /\ ident[q] # id
    /\ q \in queue
    /\ ident' = [ident EXCEPT ![q] = id]
    /\ steady' = steady \ {q}
    /\ UNCHANGED <<via, pc, queue, p, parsed, names, results, said>>

Next ==
    \/ List \/ ListFails
    \/ \E q \in Pids : PassOver(q) \/ Name(q) \/ Parse(q)
    \/ pc = "parse" /\ \E line \in Lines[p] : Scan(line)
    \/ Parsed \/ ParseFails
    \/ \E s \in Pools : Pool(s)
    \/ MasterDone \/ Finish
    \/ \E q \in Pids, id \in {"master", "other", "gone"} : Change(q, id)

Spec == Init /\ [][Next]_vars

-----------------------------------------------------------------------------
(* Properties *)

Socket == {parseSocket(v) : v \in Values} \ {<<>>}
PoolId == [pid : Pids, name : Pools, socket : Socket]

\* Every variable has its type; nothing is reported without an address to find
\* it at, and nothing is found without a status page to read.
TypeOK ==
    /\ via \in {"pools", "masters"}
    /\ ident \in [Pids -> {"master", "other", "gone"}]
    /\ pc \in {"list", "next", "parse", "pools", "done", "error"}
    /\ queue \subseteq Pids /\ p \in Pids \cup {NoPid}
    /\ parsed \in Config
    /\ names \subseteq {s \in Pools : parsed.pools[s] # NoPool}
    /\ masters \in Seq(Pids)
    /\ unstatused \in Seq(PoolId)
    /\ found \in Seq([pool : PoolId, path : Values \ {""}, at : Socket])
    /\ steady \subseteq Pids
    /\ DOMAIN said \subseteq Pids /\ \A q \in DOMAIN said : said[q] \in Seq(Line)

\* What a report says of a pool, by the lines and not by the parser.
Tells(lines, q, s) ==
    LET socket(k) == parseSocket(Says(lines, s, k))
        path(t) == Says(lines, t, "pm.status_path")
    IN  [pool |-> [pid |-> q, name |-> s, socket |-> socket("listen")],
         path |-> IF path(s) # "" THEN path(s) ELSE path("global"),
         at |-> IF socket("pm.status_listen") # <<>> THEN socket("pm.status_listen")
                ELSE socket("listen")]

\* The pools a report declares, with an address.
ToldIn(lines, q) ==
    {t \in {Tells(lines, q, s) : s \in Pools \cap Declared(lines)} : t.pool.socket # <<>>}

\* Those of all the masters that were parsed.
Told == UNION {ToldIn(said[q], q) : q \in DOMAIN said}

\* A sequence lists a set: all of it, and nothing twice.
Lists(seq, set) == Range(seq) = set /\ IsInjective(seq)

\* Every pool of every master that could be parsed is reported once, found if it
\* has a status path and unstatused if not, at the addresses its own section of
\* its own master's report gives, whatever order sections, settings and repeated
\* headers came in.  This is parser and pass together.
PoolsAsReported ==
    pc = "done" =>
        /\ Lists(found, {t \in Told : t.path # ""})
        /\ Lists(unstatused, {t.pool : t \in {u \in Told : u.path = ""}})

\* What php-fpm listens on for a value of listen or pm.status_listen.
Listens(v) ==
    CASE v \in PathValues -> <<"unix", <<v>>>>
      [] v \in ColonValues -> <<"tcp", <<v>>>>
      [] OTHER -> <<"tcp", <<"127.0.0.1:", v>>>>

\* A pool that is found is scraped where its master serves the status page: the
\* address discovery writes into a Target, read back when the target is dialled,
\* is the one the pool's section gives, and a path means the same written bare.
\* The section's status_listen counts if it is an address at all.
ScrapedWhereServed ==
    pc = "done" => \A i \in DOMAIN found :
        LET d == found[i]
            told(key) == Says(said[d.pool.pid], d.pool.name, key)
            dialled == ParseAddress(statusAddress(TargetFromDiscovered(d)))
        IN  /\ dialled = Listens(IF parseSocket(told("pm.status_listen")) # <<>>
                                 THEN told("pm.status_listen") ELSE told("listen"))
            /\ d.pool.socket[1] = "unix://" =>
                   ParseAddress(Tail(d.pool.socket)) = ParseAddress(d.pool.socket)

\* No master that stood from the listing to its turn is missed for what another
\* one did: its pools were read, unless its own configuration could not be, and
\* DiscoverMasters names it even then.
NoMasterMissed ==
    pc = "done" => \A q \in steady :
        IF via = "masters" THEN q \in Range(masters) ELSE q \in DOMAIN said

=============================================================================
