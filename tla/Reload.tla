-------------------------------- MODULE Reload --------------------------------
(***************************************************************************)
(* ReloadAndWait (control.go): verify a php-fpm master, signal it, and     *)
(* watch until the settle window is over whether it, or the successor it   *)
(* re-executed into, is serving.                                           *)
(*                                                                         *)
(* One goroutine runs the call, reading the process table one system call  *)
(* at a time; between two reads the host does what it likes: processes     *)
(* exit, become zombies, are reaped, have their pid reused, change their   *)
(* title as a re-exec does, and pid files are rewritten or left stale.     *)
(* Any read may fail although the process is there: under another user, in *)
(* a hidden /proc, out of file descriptors.  The pid file is no part of    *)
(* the state: it has one reader and may be written just before each read,  *)
(* so what a read of it finds is anything at all.                          *)
(*                                                                         *)
(* An identity is what masterIdentity would report: the configuration in   *)
(* the title of a trusted master, or Other for a worker, an unrelated      *)
(* program, or a process whose paths are not trusted.  Time is the one     *)
(* fact the code asks of it, whether the deadline has passed.              *)
(***************************************************************************)
EXTENDS Naturals, FiniteSets

CONSTANTS
    Pids,        \* the pids in play, all positive
    NoPid,       \* no pid: a pid file that is missing or holds no number
    Configs,     \* spellings of configuration paths
    Clean,       \* filepath.Clean, as a function on Configs
    Titles,      \* the spellings masters on this host were started with
    Other,       \* identity of whatever is not a trusted master
    Targets,     \* the ReloadTargets to call with: a configuration path, and
                 \* whether there is a pid file
    NoConfig,    \* the empty string
    Starts       \* start times; distinct holders of a pid have distinct ones

ASSUME ReloadAssumption ==
    /\ NoPid \notin Pids
    /\ Clean \in [Configs -> Configs] /\ \A f \in Configs : Clean[Clean[f]] = Clean[f]
    /\ Other \notin Configs /\ NoConfig \notin Configs
    /\ Titles \subseteq Configs
    /\ Targets \subseteq [configPath : Configs \cup {NoConfig}, pidFile : BOOLEAN]
    /\ 0 \notin Starts /\ \E s, t \in Starts : s # t

VARIABLES
    procs,     \* the process table
    want,      \* target.ConfigPath
    useFile,   \* target.PIDFile != ""
    pid,       \* target.PID, which moves to a successor
    started,   \* start time of the process being watched, 0 when unknown
    expired,   \* time.Now().After(deadline)
    cancelled, \* ctx.Err() != nil
    pc,        \* where the call is
    listed,    \* pids of the scan still to be looked at
    found,     \* successors to choose from
    result,    \* what the call returned
    up,        \* history: masters that served throughout this turn of the loop,
               \* without those the scan could not identify
    glimpsed,  \* history: masters that served at some moment of this search for
               \* a successor, under another pid than the one watched
    reborn,    \* history: the watched pid changed hands in this turn ("now") or
               \* before it, since it is watched
    missed     \* history: the reads that failed in this turn, of the table, of
               \* the watched pid's liveness ("signal") or start time

target == <<want, useFile>>
history == <<up, glimpsed, reborn, missed>>
vars == <<procs, target, pid, started, expired, cancelled, pc, listed, found,
          result, history>>

-----------------------------------------------------------------------------
(* The process table, and what the code can read of it. *)

NoProc == [st |-> "gone", id |-> Other, start |-> 0]

\* A master in "exec" has not set its title yet and is not recognised as one.
Living == [st : {"run"}, id : Titles \cup {Other}, start : Starts]
            \cup [st : {"exec"}, id : Titles, start : Starts]

Proc == Living \cup [st : {"zombie"}, id : {Other}, start : Starts] \cup {NoProc}

\* Signal 0 answered, and the process is not known to be a zombie.  The signal
\* may be "refused", and a stat file that is "unread" speaks of no zombie.
processAlive(p, how) ==
    /\ how # "refused" /\ procs[p] # NoProc
    /\ how = "read" => procs[p].st # "zombie"

\* Zero also when the process is there and its stat file cannot be read.
processStartedAt(p, readable) == IF readable THEN procs[p].start ELSE 0

\* The watched pid itself: any process holding it will do.
sameAnyway(p, s, readable) == TRUE

sameProcess(p, s, readable) == s = 0 \/ processStartedAt(p, readable) = s

\* A running trusted master; for the configuration asked for, if one was.  This
\* is what verifyMaster finds when it can read the process.
verifyMaster(p, configPath) ==
    /\ procs[p].st = "run"
    /\ procs[p].id # Other
    /\ configPath # NoConfig => Clean[procs[p].id] = Clean[configPath]

\* The masters a reload of this target is about, as a fact about the host.
Serving == {p \in Pids : verifyMaster(p, want)}

\* Those the call can find again, having a configuration to match on.
Awaited == IF want = NoConfig THEN {} ELSE Serving

\* Where the call is inside successor().
Searching == {"pidfile", "pidverify", "list", "scan", "pick"}

-----------------------------------------------------------------------------
(* The host *)

\* Bookkeeping of the histories in every step of the host.
HostStep(p, proc) ==
    /\ pc \notin {"verify", "done"}  \* Init is any table
    /\ procs' = [procs EXCEPT ![p] = proc]
    /\ UNCHANGED <<target, pid, started, expired, cancelled, pc, listed, found,
                   result, missed>>
    /\ up' = up \cap Awaited'
    /\ glimpsed' = IF pc \in Searching THEN glimpsed \cup (Serving' \ {pid}) ELSE {}

\* A process exits: its parent collects it, or it stays behind as a zombie.
Exit(p) ==
    /\ procs[p] \in Living
    /\ \E proc \in {NoProc, [procs[p] EXCEPT !.st = "zombie", !.id = Other]} :
         HostStep(p, proc)
    /\ UNCHANGED reborn

Reap(p) ==
    /\ procs[p].st = "zombie"
    /\ HostStep(p, NoProc)
    /\ UNCHANGED reborn

\* A new process gets a free pid: a re-executed master, a worker, anything.  A
\* start time is only ever compared with the one being watched, which no later
\* process shares.
Spawn(p, proc) ==
    /\ procs[p] = NoProc
    /\ proc.start # started
    /\ HostStep(p, proc)
    /\ reborn' = IF p = pid /\ reborn = "no" THEN "now" ELSE reborn

\* A reloading master keeps its pid and start time: exec clears its title ...
Reexec(p) ==
    /\ procs[p].st = "run" /\ procs[p].id # Other
    /\ HostStep(p, [procs[p] EXCEPT !.st = "exec"])
    /\ UNCHANGED reborn

\* ... which it sets again once it has read its configuration.
Ready(p) ==
    /\ procs[p].st = "exec"
    /\ HostStep(p, [procs[p] EXCEPT !.st = "run"])
    /\ UNCHANGED reborn

DeadlinePasses ==
    /\ pc \notin {"verify", "signal", "anchor", "done"}
    /\ ~expired
    /\ expired' = TRUE
    /\ UNCHANGED <<procs, target, pid, started, cancelled, pc, listed, found,
                   result, history>>

Cancel ==
    /\ pc # "done"
    /\ ~cancelled
    /\ cancelled' = TRUE
    /\ UNCHANGED <<procs, target, pid, started, expired, pc, listed, found,
                   result, history>>

-----------------------------------------------------------------------------
(* The call *)

Init ==
    /\ procs \in [Pids -> Living \cup {NoProc}]
    /\ \E t \in Targets : want = t.configPath /\ useFile = t.pidFile
    /\ pid \in Pids
    /\ started = 0
    /\ expired = FALSE
    /\ cancelled = FALSE
    /\ pc = "verify"
    /\ listed = {} /\ found = {}
    /\ result = "none"
    /\ up = {} /\ glimpsed = {} /\ reborn = "no" /\ missed = {}

\* Move to another statement, or return, changing nothing else.
Goto(l) == pc' = l /\ UNCHANGED result
Return(r) == pc' = "done" /\ result' = r

\* reload(): the identity check right before the signal.
Verify ==
    /\ pc = "verify"
    /\ \E seen \in BOOLEAN :
         IF seen /\ verifyMaster(pid, want) THEN Goto("signal") ELSE Return("refused")
    /\ UNCHANGED <<procs, target, pid, started, expired, cancelled, listed, found,
                   history>>

\* FindProcess and SIGUSR2.  It goes to whatever holds the pid now; what that
\* process does with it is a step of the host.
Signal ==
    /\ pc = "signal"
    /\ procs[pid] # NoProc
    /\ Goto("anchor")
    /\ UNCHANGED <<procs, target, pid, started, expired, cancelled, listed, found,
                   history>>

\* No such process, or no permission to signal it.
SignalFails ==
    /\ pc = "signal"
    /\ Return("nosignal")
    /\ UNCHANGED <<procs, target, pid, started, expired, cancelled, listed, found,
                   history>>

\* The start time is read, and the deadline set, once the signal is out.
Anchor ==
    /\ pc = "anchor"
    /\ \E readable \in BOOLEAN : started' = processStartedAt(pid, readable)
    /\ reborn' = "no"
    /\ Goto("top")
    /\ UNCHANGED <<procs, target, pid, expired, cancelled, listed, found,
                   up, glimpsed, missed>>

\* For the histories: a search begins if the next statement is successor() ...
SearchBegins == glimpsed' = IF pc' = "pidfile" THEN Serving \ {pid} ELSE {}

\* ... and a turn of the loop.
TurnBegins(how) ==
    /\ up' = Awaited
    /\ missed' = IF how = "refused" THEN {"signal"} ELSE {}
    /\ reborn' = IF reborn = "no" THEN "no" ELSE "before"

\* The loop without the check of the context at its head.
TopUnchecked ==
    /\ pc = "top"
    /\ \E how \in {"read", "unread", "refused"} :
         /\ TurnBegins(how)
         /\ Goto(IF processAlive(pid, how) THEN "same" ELSE "pidfile")
    /\ SearchBegins
    /\ UNCHANGED <<procs, target, pid, started, expired, cancelled, listed, found>>

\* The head of the loop: the context, then whether the pid is alive.
Top ==
    /\ pc = "top"
    /\ \E how \in {"read", "unread", "refused"} :
         /\ TurnBegins(how)
         /\ IF cancelled
            THEN Return("cancelled")
            ELSE Goto(IF processAlive(pid, how) THEN "same" ELSE "pidfile")
    /\ SearchBegins
    /\ UNCHANGED <<procs, target, pid, started, expired, cancelled, listed, found>>

Same ==
    /\ pc = "same"
    /\ \E readable \in BOOLEAN :
         /\ Goto(IF sameProcess(pid, started, readable) THEN "confirm" ELSE "pidfile")
         /\ missed' = IF readable THEN missed ELSE missed \cup {"start"}
    /\ SearchBegins
    /\ UNCHANGED <<procs, target, pid, started, expired, cancelled, listed, found,
                   up, reborn>>

\* A process that is not identified when the window is over is watched on.
ConfirmAgain ==
    /\ pc = "confirm"
    /\ IF ~expired
       THEN Goto("sleep")
       ELSE \E seen \in BOOLEAN :
              IF seen /\ verifyMaster(pid, want) THEN Return("ok") ELSE Goto("sleep")
    /\ UNCHANGED <<procs, target, pid, started, expired, cancelled, listed, found,
                   history>>

\* The same process: watched until the deadline, then identified once more.
Confirm ==
    /\ pc = "confirm"
    /\ IF ~expired
       THEN Goto("sleep")
       ELSE \E seen \in BOOLEAN :
              Return(IF seen /\ verifyMaster(pid, want) THEN "ok" ELSE "unverified")
    /\ UNCHANGED <<procs, target, pid, started, expired, cancelled, listed, found,
                   history>>

-----------------------------------------------------------------------------
(* successor(): the pid file first, then the process table. *)

\* What reading the pid file may find: its master, another, a number that is no
\* master's or no process's any more, or no number.
PidFile == IF useFile THEN Pids \cup {NoPid} ELSE {NoPid}

\* The pid is used whether or not the file could be read.
SuccReadFileAnyway ==
    /\ pc = "pidfile"
    /\ \E v \in PidFile :
         /\ found' = {v} \ {pid}
         /\ Goto(IF found' = {} THEN "list" ELSE "pidverify")
    /\ UNCHANGED <<procs, target, pid, started, expired, cancelled, listed,
                   history>>

\* MasterPID reads the file ...
SuccReadFile ==
    /\ pc = "pidfile"
    /\ \E v \in PidFile :
         /\ found' = {v} \ {NoPid, pid}
         /\ Goto(IF found' = {} THEN "list" ELSE "pidverify")
    /\ UNCHANGED <<procs, target, pid, started, expired, cancelled, listed,
                   history>>

\* ... and what it names is identified as a master, of whatever configuration.
SuccVerifyFileLoosely ==
    /\ pc = "pidverify"
    /\ \E q \in found, seen \in BOOLEAN :
         IF seen /\ verifyMaster(q, NoConfig)
         THEN Goto("pick") /\ UNCHANGED found
         ELSE Goto("list") /\ found' = {}
    /\ UNCHANGED <<procs, target, pid, started, expired, cancelled, listed,
                   history>>

\* ... and what it names is identified: as a master, and as ours.
SuccVerifyFile ==
    /\ pc = "pidverify"
    /\ \E q \in found, seen \in BOOLEAN :
         IF seen /\ verifyMaster(q, NoConfig) /\ verifyMaster(q, want)
         THEN Goto("pick") /\ UNCHANGED found
         ELSE Goto("list") /\ found' = {}
    /\ UNCHANGED <<procs, target, pid, started, expired, cancelled, listed,
                   history>>

\* DiscoverMasters lists the pids, if there is a configuration to match on.
SuccList ==
    /\ pc = "list"
    /\ listed' = IF want = NoConfig THEN {} ELSE {p \in Pids : procs[p] # NoProc}
    /\ Goto(IF listed' = {} THEN "pick" ELSE "scan")
    /\ UNCHANGED <<procs, target, pid, started, expired, cancelled, found,
                   history>>

SuccListFails ==
    /\ pc = "list"
    /\ want # NoConfig
    /\ Goto("pick")
    /\ missed' = missed \cup {"table"}
    /\ UNCHANGED <<procs, target, pid, started, expired, cancelled, listed, found,
                   up, glimpsed, reborn>>

\* masterIdentity of one listed process; the matches are chosen from when every
\* process has been looked at.
SuccScan(q) ==
    /\ pc = "scan"
    /\ q \in listed
    /\ listed' = listed \ {q}
    /\ \E seen \in BOOLEAN :
         /\ found' = IF seen /\ verifyMaster(q, want) /\ q # pid
                     THEN found \cup {q} ELSE found
         /\ up' = IF seen THEN up ELSE up \ {q}
    /\ Goto(IF listed' = {} THEN "pick" ELSE "scan")
    /\ UNCHANGED <<procs, target, pid, started, expired, cancelled, glimpsed,
                   reborn, missed>>

\* The pid moves and the identity anchor stays with the dead master.
FollowUnanchored(q) ==
    /\ pc = "pick"
    /\ q \in found
    /\ pid' = q
    /\ found' = {}
    /\ reborn' = "no" /\ glimpsed' = {}
    /\ Goto("top")
    /\ UNCHANGED <<procs, target, started, expired, cancelled, listed, up, missed>>

\* A successor is watched for the rest of the window, its start time the anchor.
Follow(q) ==
    /\ pc = "pick"
    /\ q \in found
    /\ pid' = q
    /\ \E readable \in BOOLEAN : started' = processStartedAt(q, readable)
    /\ found' = {}
    /\ reborn' = "no" /\ glimpsed' = {}
    /\ Goto("top")
    /\ UNCHANGED <<procs, target, expired, cancelled, listed, up, missed>>

\* Nothing found: the master is dead if the window is over.
Nobody ==
    /\ pc = "pick"
    /\ found = {}
    /\ IF expired THEN Return("dead") ELSE Goto("sleep")
    /\ glimpsed' = {}
    /\ UNCHANGED <<procs, target, pid, started, expired, cancelled, listed, found,
                   up, reborn, missed>>

\* The select between two turns: the context is done, or the timer fires.
SleepCancelled ==
    /\ pc = "sleep"
    /\ cancelled
    /\ Return("cancelled")
    /\ UNCHANGED <<procs, target, pid, started, expired, cancelled, listed, found,
                   history>>

SleepOver ==
    /\ pc = "sleep"
    /\ Goto("top")
    /\ UNCHANGED <<procs, target, pid, started, expired, cancelled, listed, found,
                   history>>

Call ==
    \/ Verify \/ Signal \/ SignalFails \/ Anchor \/ Top \/ Same \/ Confirm
    \/ SuccReadFile \/ SuccVerifyFile \/ SuccList \/ SuccListFails
    \/ \E q \in Pids : SuccScan(q) \/ Follow(q)
    \/ Nobody \/ SleepCancelled \/ SleepOver

Births == \E p \in Pids, proc \in Living : Spawn(p, proc)

Host ==
    \/ Births
    \/ \E p \in Pids : Exit(p) \/ Reap(p) \/ Reexec(p) \/ Ready(p)

\* The call has returned.
Returned == pc = "done" /\ UNCHANGED vars

Next == Call \/ Host \/ DeadlinePasses \/ Cancel \/ Returned

Spec == Init /\ [][Next]_vars

\* The goroutine is scheduled and time passes; nothing is assumed of the host
\* or of the context.
FairSpec == Spec /\ WF_vars(Call) /\ WF_vars(DeadlinePasses)

-----------------------------------------------------------------------------
(* Properties *)

\* Every variable has its type, and the call watches and lists real pids.
TypeOK ==
    /\ procs \in [Pids -> Proc]
    /\ [configPath |-> want, pidFile |-> useFile] \in Targets
    /\ pid \in Pids
    /\ started \in Starts \cup {0}
    /\ expired \in BOOLEAN /\ cancelled \in BOOLEAN
    /\ pc \in {"verify", "signal", "anchor", "top", "same", "confirm", "pidfile",
               "pidverify", "list", "scan", "pick", "sleep", "done"}
    /\ listed \subseteq Pids /\ found \subseteq Pids
    /\ result \in {"none", "refused", "nosignal", "cancelled", "ok",
                   "unverified", "dead"}
    /\ (result = "none") = (pc # "done")
    /\ up \subseteq Awaited /\ glimpsed \subseteq Pids
    /\ reborn \in {"no", "now", "before"}
    /\ missed \subseteq {"table", "signal", "start"}

\* ReloadAndWait never reports success for a pid that changed hands before its
\* last look at the pid began: the process it returns is the one whose start time
\* was taken after the signal, or for the successor it chose, and not one that was
\* given the number when that died.  A start time that could not be read then
\* leaves the pid unguarded; between the last look and the return it may be reused.
SuccessIsTheSame == (result = "ok" /\ started # 0) => reborn # "before"

\* The watch moves only to a master of the wanted configuration, as it was at some
\* moment of this very search for a successor: a stale pid file, or another master that
\* was given the number in it, is not taken for the successor.
FollowsOurs == [][pid' # pid => pid' \in glimpsed]_vars

\* "No master took its place" is never said of a host on which a master for the
\* configuration served throughout the last turn of the loop, as long as the
\* process table could be listed and the master be identified in it.  The one
\* exception is a master under the very pid being watched, which successor()
\* passes over: one that was given the number after its predecessor left it, or
\* one that could not be signalled or have its start time read in this turn.
NoFalseDead ==
    (result = "dead" /\ "table" \notin missed) =>
        up \subseteq (IF reborn # "no" \/ missed # {} THEN {pid} ELSE {})

\* A cancelled context ends ReloadAndWait, even on a host where successors keep
\* appearing and dying so that the loop never reaches its sleep.
CancelReturns == cancelled ~> (pc = "done")

\* Once no more processes are born, and the watched pid can be signalled and read,
\* ReloadAndWait returns of itself: the settle window bounds it without any help
\* from the context.  (A pid that is given up for an unread start time while it
\* serves can be found again as its successor's successor, and a turn that finds
\* a successor does not look at the deadline.)
SettleReturns ==
    /\ <>[][~Births]_vars
    /\ <>[](missed \cap {"signal", "start"} = {})
    => <>(pc = "done")

===============================================================================
