---------------------------- MODULE WorkerMemory ----------------------------
(***************************************************************************)
(* The memory of a pool's workers and of what they spawned (rss.go).       *)
(*                                                                         *)
(* snapshotProcesses lists the process table once per round and then reads *)
(* each parent link by itself; the status page names the workers later,    *)
(* and enrichWorkerRSS reads every process's memory later still.  Forks,   *)
(* exits, orphans given to init and pids given out again come between any  *)
(* two of these reads.                                                     *)
(*                                                                         *)
(* An amount of memory is abstracted to the processes it was read from: a  *)
(* worker's SubtreeRSS is the set of the pids charged to it.               *)
(* A process that lives can be read: those the kernel hides from this user *)
(* are outside the model.                                                  *)
(***************************************************************************)
EXTENDS Naturals, FiniteSets

CONSTANTS
    Pids,      \* the pids in play, init's not among them
    Reaper,    \* init, which inherits orphans
    Gone,      \* the parent of a pid no process has, and of one not read
    MaxDepth,  \* the bound on the walk, 64 in the code
    MaxEvents  \* bound: forks and exits while a round lasts

ASSUME PidsAssumption == Reaper \notin Pids /\ Gone \notin Pids /\ Reaper # Gone

ASSUME BoundAssumption == MaxDepth \in Nat /\ MaxEvents \in Nat

VARIABLES
    parent,   \* the host: the parent of each process, Gone if there is none
    anc,      \* history: the processes each one was forked from, at any remove
    events,   \* forks and exits so far
    pc,       \* where the round is
    hasSnap,  \* the table could be listed
    listed,   \* the snapshot's byPID
    unread,   \* processes listed whose link is still to be read
    link,     \* the snapshot's children, by child
    workers,  \* pids of pool.Processes still to be measured
    w,        \* the one being measured
    agenda,   \* calls of subtreeRSSBounded to be made: a pid and a depth
    seen,     \* the map passed along them
    charged,  \* history: processes whose memory has been added to the sum
    again,    \* history: those added more than once
    report,   \* SubtreeRSS of each worker measured
    reused,   \* history: a pid the round knows was given to another process
    exited    \* history: a process exited since the table was listed

host == <<parent, anc, events>>
snapshot == <<hasSnap, listed, unread, link>>
walk == <<w, agenda, seen, charged, again>>
vars == <<host, pc, snapshot, workers, walk, report, reused, exited>>

Alive == {p \in Pids : parent[p] # Gone}

\* Tables as forks and exits make them: no process descends from itself.
Forests ==
    {f \in [Pids -> Pids \cup {Reaper, Gone}] :
        /\ \A p \in Pids : f[p] \in Pids => f[p] < p /\ f[f[p]] # Gone}

\* Everything each process was forked from, while nobody has exited: whatever is
\* in every set that holds its parent and the parents of its members.
Ancestors(f) ==
    [p \in Pids |->
        {a \in Pids : \A S \in SUBSET Pids :
            (\A q \in S \cup {p} : f[q] \in Pids => f[q] \in S) => a \in S}]

Init ==
    /\ parent \in Forests
    /\ anc = Ancestors(parent)
    /\ events = 0
    /\ pc = "list"
    /\ hasSnap = FALSE /\ listed = {} /\ unread = {}
    /\ link = [p \in Pids |-> Gone]
    /\ workers = {} /\ w = Reaper
    /\ agenda = {} /\ seen = {} /\ charged = {} /\ again = {}
    /\ report = [p \in Pids |-> {}]
    /\ reused = FALSE /\ exited = FALSE

-----------------------------------------------------------------------------
(* snapshotProcesses *)

List ==
    /\ pc = "list"
    /\ hasSnap' = TRUE /\ listed' = Alive /\ unread' = Alive
    /\ pc' = "links"
    /\ UNCHANGED <<host, link, workers, walk, report, reused, exited>>

\* No snapshot: every subtree will be left out.
ListFails ==
    /\ pc = "list"
    /\ pc' = "status"
    /\ UNCHANGED <<host, snapshot, workers, walk, report, reused, exited>>

\* A process that cannot be read is filed under the parent read before it.
ReadLinkCarriesOver(p) ==
    /\ pc = "links" /\ p \in unread
    /\ unread' = unread \ {p}
    /\ \E q \in {link[r] : r \in Pids} :
         link' = [link EXCEPT ![p] = IF p \in Alive THEN parent[p] ELSE q]
    /\ UNCHANGED <<host, pc, hasSnap, listed, workers, walk, report, reused, exited>>

\* One read of /proc/<pid>/stat; a process that is gone by now is skipped.
ReadLink(p) ==
    /\ pc = "links" /\ p \in unread
    /\ unread' = unread \ {p}
    /\ link' = [link EXCEPT ![p] = parent[p]]
    /\ UNCHANGED <<host, pc, hasSnap, listed, workers, walk, report, reused, exited>>

SnapshotTaken ==
    /\ pc = "links" /\ unread = {}
    /\ pc' = "status"
    /\ UNCHANGED <<host, snapshot, workers, walk, report, reused, exited>>

-----------------------------------------------------------------------------
(* enrichWorkerRSS *)

\* The status page names the pool's workers, as they are now.
Status ==
    /\ pc = "status"
    /\ workers' \in SUBSET Alive
    /\ pc' = "worker"
    /\ UNCHANGED <<host, snapshot, walk, report, reused, exited>>

\* One map and one sum for the workers of a pool.
OwnKeepsSeen(p) ==
    /\ pc = "worker" /\ p \in workers \cap Alive
    /\ workers' = workers \ {p}
    /\ IF hasSnap THEN /\ pc' = "walk" /\ w' = p
                       /\ agenda' = {<<p, 0>>}
                       /\ seen' = UNION {report[v] : v \in Pids}
                       /\ charged' = seen'
                       /\ UNCHANGED again
                  ELSE UNCHANGED <<pc, walk>>
    /\ UNCHANGED <<host, snapshot, report, reused, exited>>

\* The worker's own memory can be read; its subtree is walked if there is a
\* snapshot, with a map of its own (empty between walks).
Own(p) ==
    /\ pc = "worker" /\ p \in workers \cap Alive
    /\ workers' = workers \ {p}
    /\ IF hasSnap THEN /\ pc' = "walk" /\ w' = p
                       /\ agenda' = {<<p, 0>>}
                       /\ UNCHANGED <<seen, charged, again>>
                  ELSE UNCHANGED <<pc, walk>>
    /\ UNCHANGED <<host, snapshot, report, reused, exited>>

\* It cannot: the worker is left as the status page gave it.
OwnMissing(p) ==
    /\ pc = "worker" /\ p \in workers
    /\ workers' = workers \ {p}
    /\ UNCHANGED <<host, pc, snapshot, walk, report, reused, exited>>

Children(p) == {q \in Pids : link[q] = p}

\* rssOf adds what it can read, which is nothing for a pid not in the snapshot.
Charge(p) ==
    LET read == {p} \cap listed \cap Alive
    IN  /\ charged' = charged \cup read
        /\ again' = again \cup (read \cap charged)

\* Goes down the links unguarded.
VisitUnguarded(p, d) ==
    /\ pc = "walk" /\ <<p, d>> \in agenda
    /\ seen' = seen \cup {p}
    /\ Charge(p)
    /\ agenda' = (agenda \ {<<p, d>>}) \cup {<<q, d>> : q \in Children(p)}
    /\ UNCHANGED <<host, pc, snapshot, workers, w, report, reused, exited>>

\* Stops at the bound and not at what was seen.
VisitUnseen(p, d) ==
    /\ pc = "walk" /\ <<p, d>> \in agenda
    /\ IF d > MaxDepth
       THEN /\ agenda' = agenda \ {<<p, d>>}
            /\ UNCHANGED <<seen, charged, again>>
       ELSE /\ seen' = seen \cup {p}
            /\ Charge(p)
            /\ agenda' = (agenda \ {<<p, d>>}) \cup {<<q, d + 1>> : q \in Children(p)}
    /\ UNCHANGED <<host, pc, snapshot, workers, w, report, reused, exited>>

\* Takes the bound for the number of levels.
VisitShort(p, d) ==
    /\ pc = "walk" /\ <<p, d>> \in agenda
    /\ IF p \in seen \/ d >= MaxDepth
       THEN /\ agenda' = agenda \ {<<p, d>>}
            /\ UNCHANGED <<seen, charged, again>>
       ELSE /\ seen' = seen \cup {p}
            /\ Charge(p)
            /\ agenda' = (agenda \ {<<p, d>>}) \cup {<<q, d + 1>> : q \in Children(p)}
    /\ UNCHANGED <<host, pc, snapshot, workers, w, report, reused, exited>>

\* One call of subtreeRSSBounded.  The calls are made in any order here; the
\* code's, depth first, is one of them.
subtreeRSSBounded(p, d) ==
    /\ pc = "walk" /\ <<p, d>> \in agenda
    /\ IF p \in seen \/ d > MaxDepth
       THEN /\ agenda' = agenda \ {<<p, d>>}
            /\ UNCHANGED <<seen, charged, again>>
       ELSE /\ seen' = seen \cup {p}
            /\ Charge(p)
            /\ agenda' = (agenda \ {<<p, d>>}) \cup {<<q, d + 1>> : q \in Children(p)}
    /\ UNCHANGED <<host, pc, snapshot, workers, w, report, reused, exited>>

\* The larger of the sum and of what the worker itself was read to have.
Measured ==
    /\ pc = "walk" /\ agenda = {}
    /\ \E larger \in {charged, {w}} : report' = [report EXCEPT ![w] = larger]
    /\ pc' = "worker"
    /\ w' = Reaper /\ seen' = {} /\ charged' = {} /\ again' = {}
    /\ UNCHANGED <<host, snapshot, workers, agenda, reused, exited>>

PoolDone ==
    /\ pc = "worker" /\ workers = {}
    /\ pc' = "done"
    /\ UNCHANGED <<host, snapshot, workers, walk, report, reused, exited>>

-----------------------------------------------------------------------------
(* The host *)

\* The processes the round knows by pid.
Known == listed \cup workers \cup {w}

Fork(p, q) ==
    /\ q \in Pids \ Alive
    /\ parent' = [parent EXCEPT ![q] = p]
    /\ anc' = [anc EXCEPT ![q] = IF p = Reaper THEN {} ELSE anc[p] \cup {p}]
    /\ reused' = (reused \/ q \in Known)
    /\ events' = events + 1
    /\ UNCHANGED <<pc, snapshot, workers, walk, report, exited>>

Exit(p) ==
    /\ p \in Alive
    /\ parent' = [q \in Pids |-> IF q = p THEN Gone
                                 ELSE IF parent[q] = p THEN Reaper ELSE parent[q]]
    /\ exited' = TRUE
    /\ events' = events + 1
    /\ UNCHANGED <<anc, pc, snapshot, workers, walk, report, reused>>

Round ==
    \/ List \/ ListFails \/ SnapshotTaken \/ Status \/ Measured \/ PoolDone
    \/ \E p \in Pids : ReadLink(p) \/ Own(p) \/ OwnMissing(p)
    \/ \E call \in agenda : subtreeRSSBounded(call[1], call[2])

Next ==
    \/ Round
    \/ /\ pc \notin {"list", "done"}  \* Init is any table
       /\ events < MaxEvents
       /\ \/ \E p \in Alive \cup {Reaper}, q \in Pids : Fork(p, q)
          \/ \E p \in Pids : Exit(p)

\* The goroutine is scheduled; nothing is assumed of the host.
Spec == Init /\ [][Next]_vars /\ WF_vars(Round)

-----------------------------------------------------------------------------
(* Properties *)

\* Every variable has its type; what is walked, charged and reported are pids
\* the snapshot or the status page named.
TypeOK ==
    /\ parent \in [Pids -> Pids \cup {Reaper, Gone}]
    /\ anc \in [Pids -> SUBSET Pids] /\ events \in 0 .. MaxEvents
    /\ pc \in {"list", "links", "status", "worker", "walk", "done"}
    /\ hasSnap \in BOOLEAN /\ reused \in BOOLEAN /\ exited \in BOOLEAN
    /\ listed \subseteq Pids /\ unread \subseteq listed
    /\ link \in [Pids -> Pids \cup {Reaper, Gone}]
    /\ \A p \in Pids : link[p] # Gone => p \in listed
    /\ workers \subseteq Pids /\ w \in Pids \cup {Reaper}
    /\ agenda \subseteq (Pids \X (0 .. MaxDepth + 1))
    /\ charged \subseteq seen \cap listed /\ again \subseteq charged
    /\ seen \subseteq listed \cup {w}
    /\ report \in [Pids -> SUBSET Pids]

WalkOver == pc = "walk" /\ agenda = {}

\* The processes at most n links below top, by a table of parents.
Below(table, top) ==
    LET f[n \in Nat] == IF n = 0 THEN {top}
                        ELSE f[n - 1] \cup {q \in Pids : table[q] \in f[n - 1]}
    IN  f

\* The walk visits exactly what the snapshot's links lead to within the bound,
\* and adds nobody's memory twice, in a table that is a tree and in one whose
\* links, read while pids changed hands, run in a circle.
WalkIsExact == WalkOver => seen = Below(link, w)[MaxDepth] /\ again = {}

\* No worker is charged for a process it did not spawn, at any remove: not for
\* one of its neighbours', nor for one that was orphaned and inherited between
\* the reads.  Only a pid that was given out again since the listing can be.
OnlyItsOwn ==
    ~reused => \A v \in Pids : \A p \in report[v] \ {v} : v \in anc[p]

\* What a worker spawned before the round is charged to it in full, however
\* many processes are forked while it is measured, unless one exits meanwhile.
NothingMissed ==
    WalkOver /\ ~exited => Below(parent, w)[MaxDepth] \cap listed \subseteq charged

\* The round ends, whatever the links look like and whatever the host does.
RoundEnds == <>(pc = "done")

=============================================================================
