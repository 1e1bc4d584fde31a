----------------------------- MODULE ReloadProofs ----------------------------
(***************************************************************************)
(* For any host, ReloadAndWait reports success only of the process it      *)
(* watches, moves its watch only to a master of the wanted configuration,  *)
(* and reports a dead master only when the last turn of its loop left      *)
(* nobody out that it could read.                                          *)
(*                                                                         *)
(* The verdict "dead" comes at the end of a turn in which the host never   *)
(* stood still.  The invariant carries, through the turn's reads, what has *)
(* become of each master that served since its beginning: it is still to   *)
(* be scanned, it has been found, or it has the watched pid, and then only *)
(* because the pid changed hands or could not be read.  For success it     *)
(* carries what a start time tells: a pid that changed hands has not the   *)
(* start time of the anchor.                                               *)
(***************************************************************************)
EXTENDS Reload, TLAPS

Watching == pc \notin {"verify", "signal", "anchor", "done"}

\* The start time anchors the watched pid's holder until the pid is reused, and
\* tells it from every later holder.
Anchored ==
    Watching /\ started # 0 =>
        IF reborn = "no" THEN procs[pid] = NoProc \/ procs[pid].start = started
                         ELSE procs[pid].start # started

\* Only the anchored process is about to be confirmed.
Confirmed == pc = "confirm" /\ started # 0 => reborn # "before"

\* The successor is looked for only if the watched pid does not serve, is
\* somebody else's by now, or could not be read.
Deposed == pc \in Searching => (pid \in up => reborn # "no" \/ missed # {})

\* While the table is scanned nobody is lost.
Scanned ==
    /\ pc = "scan" => \A p \in up : p = pid \/ p \in listed \/ p \in found
    /\ pc = "pick" => "table" \in missed \/ found # {} \/ up \subseteq {pid}

\* Whoever else serves during the search is known to, and only such are found; the
\* pid file names one process, and not the watched one.
Glimpsed ==
    /\ pc \in Searching => Serving \subseteq glimpsed \cup {pid}
    /\ pc = "pidverify" => \A p, q \in found : p = q /\ p # pid
    /\ pc \in {"list", "scan", "pick"} => found \subseteq glimpsed

\* The parts of the invariant a turn of the loop carries along.
Turn == /\ Anchored /\ Confirmed /\ Deposed /\ Scanned /\ Glimpsed
        /\ NoFalseDead /\ SuccessIsTheSame

IInv == TypeOK /\ Turn

USE DEF target, history, Watching, Searching

\* Who serves is a fact about the process table and the configuration wanted.
LEMMA ServingStays ==
    ASSUME UNCHANGED <<procs, want>> PROVE Serving' = Serving /\ Awaited' = Awaited
BY DEF Serving, Awaited, verifyMaster

\* Who is awaited has the title of a master, and is alive.
LEMMA AwaitedRun ==
    ASSUME NEW p \in Awaited
    PROVE  /\ p \in Pids /\ want # NoConfig /\ verifyMaster(p, want)
           /\ procs[p].st = "run" /\ procs[p] # NoProc
BY DEF Awaited, Serving, verifyMaster, NoProc

LEMMA InitIInv == Init => IInv
<1> SUFFICES ASSUME Init PROVE IInv
  OBVIOUS
<1>1. expired \in BOOLEAN /\ cancelled \in BOOLEAN /\ (result = "none") = (pc # "done")
  BY Zenon DEF Init
<1>3. procs \in [Pids -> Proc]
  BY DEF Init, Proc
<1>6. [configPath |-> want, pidFile |-> useFile] \in Targets
  BY ReloadAssumption DEF Init
<1>7. up \subseteq Awaited /\ glimpsed \subseteq Pids /\ reborn \in {"no", "now", "before"}
      /\ missed \subseteq {"table", "signal", "start"}
  BY DEF Init
<1>4. TypeOK
  BY <1>1, <1>3, <1>6, <1>7 DEF Init, TypeOK
<1>5. Turn
  BY DEF Init, Turn, Anchored, Confirmed, Deposed, Scanned, Glimpsed, NoFalseDead,
         SuccessIsTheSame
<1> QED BY <1>4, <1>5 DEF IInv

-----------------------------------------------------------------------------
(* The host *)

\* What the host does to one process neither hides a master from the call nor
\* moves the anchor, as long as a pid given out again is known to be.
LEMMA HostStepIInv ==
    ASSUME IInv, NEW p \in Pids, NEW proc \in Proc, HostStep(p, proc),
           \/ reborn' = reborn
           \/ reborn = "no" /\ reborn' = "now" /\ p = pid,
           \/ reborn' = reborn /\ proc = NoProc
           \/ reborn' = reborn /\ procs[p] # NoProc /\ proc.start = procs[p].start
           \/ proc.start # started /\ (p = pid => reborn' # "no")
    PROVE  IInv'
<1> USE DEF IInv, Turn
<1>0. /\ pc \notin {"verify", "done"}
      /\ procs' = [procs EXCEPT ![p] = proc]
      /\ UNCHANGED <<want, useFile, pid, started, expired, cancelled, pc, listed, found,
                     result, missed>>
      /\ up' = up \cap Awaited'
      /\ glimpsed' = IF pc \in Searching THEN glimpsed \cup (Serving' \ {pid}) ELSE {}
  BY DEF HostStep
<1>1. TypeOK'
  <2>1. Serving' \subseteq Pids
    BY DEF Serving
  <2>2. glimpsed' \subseteq Pids /\ reborn' \in {"no", "now", "before"}
    BY <1>0, <2>1 DEF TypeOK
  <2>3. procs' \in [Pids -> Proc]
    BY <1>0 DEF TypeOK
  <2> QED BY <1>0, <2>2, <2>3 DEF TypeOK
<1>2. Anchored'
  BY <1>0, ReloadAssumption DEF TypeOK, Anchored, NoProc
<1>3. Confirmed'
  BY <1>0 DEF Confirmed
<1>4. Deposed' /\ Scanned'
  BY <1>0 DEF TypeOK, Deposed, Scanned
<1>5. Glimpsed'
  BY <1>0 DEF Glimpsed
<1>6. NoFalseDead' /\ SuccessIsTheSame'
  BY <1>0 DEF TypeOK, NoFalseDead, SuccessIsTheSame
<1> QED BY <1>1, <1>2, <1>3, <1>4, <1>5, <1>6

LEMMA HostIInv == ASSUME IInv, Host PROVE IInv'
<1> USE DEF IInv, Turn
<1>1. ASSUME NEW p \in Pids, NEW proc \in Living, Spawn(p, proc) PROVE IInv'
  <2>1. /\ HostStep(p, proc) /\ proc.start # started /\ proc \in Proc
        /\ reborn' = IF p = pid /\ reborn = "no" THEN "now" ELSE reborn
    BY <1>1 DEF Spawn, Proc
  <2>2. \/ reborn' = reborn
        \/ reborn = "no" /\ reborn' = "now" /\ p = pid
    BY <2>1
  <2>3. p = pid => reborn' # "no"
    BY <2>1
  <2> QED BY <2>1, <2>2, <2>3, HostStepIInv
<1>2. ASSUME NEW p \in Pids, Exit(p) PROVE IInv'
  <2>1. PICK proc \in {NoProc, [procs[p] EXCEPT !.st = "zombie", !.id = Other]} :
           HostStep(p, proc)
    BY <1>2 DEF Exit
  <2>2. procs[p] \in Living /\ reborn' = reborn
    BY <1>2 DEF Exit
  <2>3. procs[p] # NoProc
    BY <2>2 DEF Living, NoProc
  <2>4. proc \in Proc /\ (proc = NoProc \/ proc.start = procs[p].start)
    BY <2>1, <2>2 DEF Proc, Living
  <2> QED BY <2>1, <2>2, <2>3, <2>4, HostStepIInv
<1>3. ASSUME NEW p \in Pids, Reap(p) PROVE IInv'
  <2>1. HostStep(p, NoProc) /\ reborn' = reborn /\ NoProc \in Proc
    BY <1>3 DEF Reap, Proc
  <2> QED BY <2>1, HostStepIInv
<1>4. ASSUME NEW p \in Pids, Reexec(p) PROVE IInv'
  <2> DEFINE proc == [procs[p] EXCEPT !.st = "exec"]
  <2>1. HostStep(p, proc) /\ procs[p].st = "run" /\ procs[p].id # Other /\ reborn' = reborn
    BY <1>4 DEF Reexec
  <2>2. procs[p] \in [st : {"run"}, id : Titles \cup {Other}, start : Starts]
    BY <2>1 DEF TypeOK, Proc, Living, NoProc
  <2>3. proc \in Proc /\ procs[p] # NoProc /\ proc.start = procs[p].start
    BY <2>1, <2>2 DEF Proc, Living, NoProc
  <2> HIDE DEF proc
  <2> QED BY <2>1, <2>3, HostStepIInv
<1>5. ASSUME NEW p \in Pids, Ready(p) PROVE IInv'
  <2> DEFINE proc == [procs[p] EXCEPT !.st = "run"]
  <2>1. HostStep(p, proc) /\ procs[p].st = "exec" /\ reborn' = reborn
    BY <1>5 DEF Ready
  <2>2. procs[p] \in [st : {"exec"}, id : Titles, start : Starts]
    BY <2>1 DEF TypeOK, Proc, Living, NoProc
  <2>3. proc \in Proc /\ procs[p] # NoProc /\ proc.start = procs[p].start
    BY <2>1, <2>2 DEF Proc, Living, NoProc
  <2> HIDE DEF proc
  <2> QED BY <2>1, <2>3, HostStepIInv
<1> QED BY <1>1, <1>2, <1>3, <1>4, <1>5 DEF Host, Births

\* Time passes, or the caller gives up.
LEMMA ClockIInv == ASSUME IInv, DeadlinePasses \/ Cancel PROVE IInv'
<1>1. /\ UNCHANGED <<procs, want, useFile, pid, started, pc, listed, found,
                     result, up, glimpsed, reborn, missed>>
  BY DEF DeadlinePasses, Cancel
<1>2. expired' \in BOOLEAN /\ cancelled' \in BOOLEAN
  <2>1. expired \in BOOLEAN /\ cancelled \in BOOLEAN
    BY DEF IInv, TypeOK
  <2> QED BY <2>1, Zenon DEF DeadlinePasses, Cancel
<1> QED BY <1>1, <1>2, ServingStays
        DEF IInv, Turn, TypeOK, Anchored, Confirmed, Deposed, Scanned, Glimpsed,
       NoFalseDead, SuccessIsTheSame

-----------------------------------------------------------------------------
(* The call *)

\* No step of the call touches the host, and it returns once.
LEMMA CallFrame ==
    ASSUME Call
    PROVE  /\ UNCHANGED <<procs, want, useFile, expired, cancelled>>
           /\ pc # "done"
           /\ \/ pc' # "done" /\ result' = result
              \/ pc' = "done" /\ result' # "none"
           /\ Serving' = Serving /\ Awaited' = Awaited
<1>1. UNCHANGED <<procs, want, useFile, expired, cancelled>>
  BY DEF Call, Verify, Signal, SignalFails, Anchor, Top, TurnBegins, SearchBegins, Same,
         Confirm, SuccReadFile, SuccVerifyFile, SuccList, SuccListFails, SuccScan, Follow,
         Nobody, SleepCancelled, SleepOver
<1>2. /\ pc # "done"
      /\ \/ pc' # "done" /\ result' = result
         \/ pc' = "done" /\ result' # "none"
  BY DEF Call, Verify, Signal, SignalFails, Anchor, Top, TurnBegins, SearchBegins, Same,
         Confirm, SuccReadFile, SuccVerifyFile, SuccList, SuccListFails, SuccScan, Follow,
         Nobody, SleepCancelled, SleepOver, Goto, Return
<1> QED BY <1>1, <1>2, ServingStays

LEMMA CallType == ASSUME TypeOK, Call PROVE TypeOK'
<1> USE DEF TypeOK
<1>1. (result' = "none") = (pc' # "done")
  BY CallFrame
<1>2. pid' \in Pids /\ started' \in Starts \cup {0}
  <2>1. \A p \in Pids, readable \in BOOLEAN :
           processStartedAt(p, readable) \in Starts \cup {0}
    BY DEF Proc, Living, NoProc, processStartedAt
  <2> QED BY <2>1 DEF Call, Verify, Signal, SignalFails, Anchor, Top, TurnBegins, SearchBegins, Same,
         Confirm, SuccReadFile, SuccVerifyFile, SuccList, SuccListFails, SuccScan, Follow,
         Nobody, SleepCancelled, SleepOver
<1>3. /\ pc' \in {"verify", "signal", "anchor", "top", "same", "confirm", "pidfile",
                  "pidverify", "list", "scan", "pick", "sleep", "done"}
      /\ result' \in {"none", "refused", "nosignal", "cancelled", "ok",
                      "unverified", "dead"}
  BY DEF Call, Verify, Signal, SignalFails, Anchor, Top, TurnBegins, SearchBegins, Same,
         Confirm, SuccReadFile, SuccVerifyFile, SuccList, SuccListFails, SuccScan, Follow,
         Nobody, SleepCancelled, SleepOver, Goto, Return
<1>4. listed' \subseteq Pids /\ found' \subseteq Pids
  BY DEF Call, Verify, Signal, SignalFails, Anchor, Top, TurnBegins, SearchBegins, Same,
         Confirm, SuccReadFile, PidFile, SuccVerifyFile, SuccList, SuccListFails, SuccScan, Follow,
         Nobody, SleepCancelled, SleepOver
<1>5. up' \subseteq Awaited'
  <2>1. up' \subseteq up \/ up' = Awaited
    BY DEF Call, Verify, Signal, SignalFails, Anchor, Top, TurnBegins, SearchBegins, Same,
         Confirm, SuccReadFile, SuccVerifyFile, SuccList, SuccListFails, SuccScan, Follow,
         Nobody, SleepCancelled, SleepOver
  <2> QED BY <2>1, CallFrame
<1>6. glimpsed' \subseteq Pids
  <2>1. glimpsed' \in {glimpsed, Serving \ {pid}, {}}
    BY DEF Call, Verify, Signal, SignalFails, Anchor, Top, TurnBegins, SearchBegins, Same,
         Confirm, SuccReadFile, SuccVerifyFile, SuccList, SuccListFails, SuccScan, Follow,
         Nobody, SleepCancelled, SleepOver
  <2> QED BY <2>1 DEF Serving
<1>7. reborn' \in {"no", "now", "before"}
  BY DEF Call, Verify, Signal, SignalFails, Anchor, Top, TurnBegins, SearchBegins, Same,
         Confirm, SuccReadFile, SuccVerifyFile, SuccList, SuccListFails, SuccScan, Follow,
         Nobody, SleepCancelled, SleepOver
<1>8. missed' \subseteq {"table", "signal", "start"}
  BY DEF Call, Verify, Signal, SignalFails, Anchor, Top, TurnBegins, SearchBegins, Same,
         Confirm, SuccReadFile, SuccVerifyFile, SuccList, SuccListFails, SuccScan, Follow,
         Nobody, SleepCancelled, SleepOver
<1> QED BY <1>1, <1>2, <1>3, <1>4, <1>5, <1>6, <1>7, <1>8, CallFrame

\* Steps that leave the loop, stay outside successor() or have not entered the loop.
LEMMA OutsideTurn ==
    ASSUME IInv, Verify \/ Signal \/ SignalFails \/ Confirm \/ SleepCancelled \/ SleepOver
    PROVE  Turn'
<1>1. /\ UNCHANGED <<procs, pid, started, up, glimpsed, reborn, missed>>
      /\ \/ pc' \in {"signal", "anchor"} /\ UNCHANGED result
         \/ pc' \in {"sleep", "top"} /\ pc \in {"confirm", "sleep"} /\ UNCHANGED result
         \/ pc' = "done" /\ result' \notin {"dead", "ok"}
         \/ pc' = "done" /\ result' # "dead" /\ pc = "confirm"
  BY DEF Verify, Signal, SignalFails, Confirm, SleepCancelled, SleepOver, Goto, Return
<1> QED BY <1>1 DEF IInv, Turn, TypeOK, Anchored, Confirmed, Deposed, Scanned, Glimpsed,
       NoFalseDead, SuccessIsTheSame

\* The anchor is taken from whoever holds the pid once the signal is out.
LEMMA AnchorTurn == ASSUME IInv, Anchor PROVE Turn'
BY DEF IInv, Anchor, Goto, processStartedAt, Turn, TypeOK, Anchored, Confirmed, Deposed, Scanned, Glimpsed,
       NoFalseDead, SuccessIsTheSame

\* A turn begins: whoever serves now is in up, and if the watched pid does it is
\* alive, and the successor is asked for only if the signal was refused.
LEMMA TopTurn == ASSUME IInv, Top PROVE Turn'
<1>1. PICK how \in {"read", "unread", "refused"} :
         /\ TurnBegins(how)
         /\ IF cancelled
            THEN Return("cancelled")
            ELSE Goto(IF processAlive(pid, how) THEN "same" ELSE "pidfile")
  BY DEF Top
<1>2. /\ pc = "top" /\ up' = Awaited
      /\ UNCHANGED <<procs, want, pid, started>>
      /\ reborn' = IF reborn = "no" THEN "no" ELSE "before"
      /\ \/ pc' = "done" /\ result' = "cancelled"
         \/ pc' = "same" /\ UNCHANGED result
         \/ pc' = "pidfile" /\ UNCHANGED result /\ ~processAlive(pid, how)
      /\ glimpsed' = IF pc' = "pidfile" THEN Serving \ {pid} ELSE {}
      /\ how = "refused" => missed' # {}
  BY <1>1 DEF Top, TurnBegins, SearchBegins, Goto, Return
<1>3. pc' = "pidfile" => pid \notin Awaited \/ missed' # {}
  BY <1>2, AwaitedRun DEF processAlive
<1>4. Serving' = Serving
  BY <1>2, ServingStays
<1> QED BY <1>2, <1>3, <1>4 DEF IInv, Turn, TypeOK, Anchored, Confirmed, Deposed, Scanned, Glimpsed,
       NoFalseDead, SuccessIsTheSame

\* The watched pid is given up as another process only if it was given out again
\* or could not be read, and is taken for the same only if it is.
LEMMA SameTurn == ASSUME IInv, Same PROVE Turn'
<1>1. PICK readable \in BOOLEAN :
         /\ Goto(IF sameProcess(pid, started, readable) THEN "confirm" ELSE "pidfile")
         /\ missed' = IF readable THEN missed ELSE missed \cup {"start"}
  BY DEF Same
<1>2. /\ pc = "same" /\ UNCHANGED <<procs, want, pid, started, up, reborn, result>>
      /\ glimpsed' = IF pc' = "pidfile" THEN Serving \ {pid} ELSE {}
      /\ \/ pc' = "confirm" /\ (started # 0 => procs[pid].start = started)
         \/ /\ pc' = "pidfile" /\ started # 0
            /\ procs[pid].start # started \/ missed' # {}
  BY <1>1 DEF Same, SearchBegins, Goto, sameProcess, processStartedAt
<1>3. pid \in up => procs[pid] # NoProc
  BY AwaitedRun DEF IInv, TypeOK
<1>4. Serving' = Serving
  BY <1>2, ServingStays
<1>5. pc' = "confirm" /\ started # 0 => reborn = "no"
  BY <1>2 DEF IInv, Turn, Anchored
<1>6. pc' = "pidfile" => (pid \in up => reborn # "no" \/ missed' # {})
  BY <1>2, <1>3 DEF IInv, Turn, Anchored
<1> QED BY <1>2, <1>4, <1>5, <1>6 DEF IInv, Turn, TypeOK, Anchored, Confirmed, Deposed, Scanned, Glimpsed,
       NoFalseDead, SuccessIsTheSame

\* The pid file.
LEMMA FileTurn == ASSUME IInv, SuccReadFile \/ SuccVerifyFile PROVE Turn'
<1>1. /\ pc \in {"pidfile", "pidverify"}
      /\ UNCHANGED <<procs, want, pid, started, up, glimpsed, reborn, missed, result>>
      /\ pc' \in {"pidverify", "list", "pick"}
      /\ pc' = "list" => found' = {}
      /\ pc' = "pidverify" => \A p, q \in found' : p = q /\ p # pid
      /\ pc' = "pick" => found' = found /\ \E q \in found : verifyMaster(q, want)
  BY DEF SuccReadFile, SuccVerifyFile, Goto
<1>2. Serving' = Serving
  BY <1>1, ServingStays
<1>3. pc' = "pick" => found' # {} /\ found' \subseteq glimpsed
  <2> SUFFICES ASSUME pc' = "pick" PROVE found # {} /\ found \subseteq glimpsed
    BY <1>1
  <2>1. pc = "pidverify"
    BY DEF SuccReadFile, SuccVerifyFile, Goto
  <2>2. PICK q \in found : verifyMaster(q, want)
    BY <1>1
  <2>3. q \in Serving
    BY <2>2 DEF Serving, IInv, TypeOK
  <2> QED BY <2>1, <2>2, <2>3 DEF IInv, Turn, Glimpsed
<1> QED BY <1>1, <1>2, <1>3 DEF IInv, Turn, TypeOK, Anchored, Confirmed, Deposed, Scanned, Glimpsed,
       NoFalseDead, SuccessIsTheSame

\* The listing takes in whoever serves.
LEMMA ListTurn == ASSUME IInv, SuccList PROVE Turn'
<1>1. /\ pc = "list"
      /\ UNCHANGED <<procs, want, pid, started, up, glimpsed, reborn, missed, result, found>>
      /\ listed' = IF want = NoConfig THEN {} ELSE {p \in Pids : procs[p] # NoProc}
      /\ pc' = IF listed' = {} THEN "pick" ELSE "scan"
  BY DEF SuccList, Goto
<1>2. up \subseteq listed'
  <2>1. \A p \in Awaited : p \in Pids /\ want # NoConfig /\ procs[p] # NoProc
    BY AwaitedRun
  <2> QED BY <1>1, <2>1 DEF IInv, TypeOK
<1>3. Serving' = Serving
  BY <1>1, ServingStays
<1> QED BY <1>1, <1>2, <1>3 DEF IInv, Turn, TypeOK, Anchored, Confirmed, Deposed, Scanned, Glimpsed,
       NoFalseDead, SuccessIsTheSame

LEMMA ListFailsTurn == ASSUME IInv, SuccListFails PROVE Turn'
<1>1. /\ pc = "list" /\ pc' = "pick" /\ missed' = missed \cup {"table"}
      /\ UNCHANGED <<procs, want, pid, started, up, glimpsed, reborn, result, found>>
  BY DEF SuccListFails, Goto
<1>2. Serving' = Serving
  BY <1>1, ServingStays
<1> QED BY <1>1, <1>2 DEF IInv, Turn, TypeOK, Anchored, Confirmed, Deposed, Scanned, Glimpsed,
       NoFalseDead, SuccessIsTheSame

\* Whoever has served up to the moment it is looked at is found, if it is read.
LEMMA ScanTurn == ASSUME IInv, NEW q \in Pids, SuccScan(q) PROVE Turn'
<1>1. PICK seen \in BOOLEAN :
         /\ found' = IF seen /\ verifyMaster(q, want) /\ q # pid
                     THEN found \cup {q} ELSE found
         /\ up' = IF seen THEN up ELSE up \ {q}
  BY DEF SuccScan
<1>2. /\ pc = "scan" /\ q \in listed
      /\ UNCHANGED <<procs, want, pid, started, glimpsed, reborn, missed, result>>
      /\ listed' = listed \ {q}
      /\ pc' = IF listed' = {} THEN "pick" ELSE "scan"
  BY DEF SuccScan, Goto
<1>3. q \in up => verifyMaster(q, want)
  BY AwaitedRun DEF IInv, TypeOK
<1>4. \A p \in up' : p \in up /\ (p = pid \/ p \in listed' \/ p \in found')
  BY <1>1, <1>2, <1>3 DEF IInv, Turn, Scanned
<1>5. found' \subseteq glimpsed
  BY <1>1, <1>2 DEF IInv, Turn, Glimpsed, Serving
<1>6. Serving' = Serving
  BY <1>2, ServingStays
<1> QED BY <1>2, <1>4, <1>5, <1>6 DEF IInv, Turn, TypeOK, Anchored, Confirmed, Deposed, Scanned, Glimpsed,
       NoFalseDead, SuccessIsTheSame

LEMMA FollowTurn == ASSUME IInv, NEW q \in Pids, Follow(q) PROVE Turn'
BY DEF IInv, Follow, Goto, processStartedAt, Turn, TypeOK, Anchored, Confirmed, Deposed, Scanned, Glimpsed,
       NoFalseDead, SuccessIsTheSame

\* The verdict: nobody was found, and so nobody served but the watched pid's holder.
LEMMA NobodyTurn == ASSUME IInv, Nobody PROVE Turn'
<1>1. /\ pc = "pick" /\ found = {}
      /\ UNCHANGED <<procs, pid, started, up, reborn, missed>>
      /\ \/ pc' = "sleep" /\ UNCHANGED result
         \/ pc' = "done" /\ result' = "dead"
  BY DEF Nobody, Goto, Return
<1>2. "table" \notin missed =>
         up \subseteq (IF reborn # "no" \/ missed # {} THEN {pid} ELSE {})
  BY <1>1 DEF IInv, Turn, Deposed, Scanned
<1> QED BY <1>1, <1>2 DEF IInv, Turn, TypeOK, Anchored, Confirmed, Deposed, Scanned, Glimpsed,
       NoFalseDead, SuccessIsTheSame

LEMMA StepIInv == ASSUME IInv, [Next]_vars PROVE IInv'
<1>1. CASE Call
  <2>1. TypeOK'
    BY <1>1, CallType DEF IInv
  <2>2. Turn'
    BY <1>1, OutsideTurn, AnchorTurn, TopTurn, SameTurn, FileTurn, ListTurn,
       ListFailsTurn, ScanTurn, FollowTurn, NobodyTurn DEF Call
  <2> QED BY <2>1, <2>2 DEF IInv
<1>2. CASE Host \/ DeadlinePasses \/ Cancel
  BY <1>2, HostIInv, ClockIInv
<1>3. CASE UNCHANGED vars
  BY <1>3, ServingStays
     DEF vars, IInv, Turn, TypeOK, Anchored, Confirmed, Deposed, Scanned, Glimpsed,
       NoFalseDead, SuccessIsTheSame
<1> QED BY <1>1, <1>2, <1>3 DEF Next, Returned

-----------------------------------------------------------------------------

\* The invariant of a turn of ReloadAndWait's loop, whatever the host does
\* between its reads of the process table and whichever of them fail.
THEOREM Invariance == Spec => []IInv
BY InitIInv, StepIInv, PTL DEF Spec

\* The variables of ReloadAndWait keep their types: it watches and lists real
\* pids, and has a result exactly when it has returned.
THEOREM TypeCorrect == Spec => []TypeOK
<1>1. IInv => TypeOK
  BY DEF IInv
<1> QED BY <1>1, Invariance, PTL

\* ReloadAndWait says that no master took the dead one's place only if none that
\* it could read served throughout its last look, other than under the pid it
\* watches: not through successor()'s pid file, which may be stale, nor by
\* scanning a table that changes under it.
THEOREM NoFalseDeadHolds == Spec => []NoFalseDead
<1>1. IInv => NoFalseDead
  BY DEF IInv, Turn
<1> QED BY <1>1, Invariance, PTL

\* The process ReloadAndWait returns success for had not lost the pid to another
\* before the last turn of the loop began, if its start time was ever known.
THEOREM SuccessIsTheSameHolds == Spec => []SuccessIsTheSame
<1>1. IInv => SuccessIsTheSame
  BY DEF IInv, Turn
<1> QED BY <1>1, Invariance, PTL

\* Whatever successor() returns served the wanted configuration while it searched.
THEOREM FollowsOursHolds == Spec => FollowsOurs
<1>1. ASSUME IInv, [Next]_vars PROVE [pid' # pid => pid' \in glimpsed]_vars
  <2> SUFFICES ASSUME pid' # pid PROVE pid' \in glimpsed
    OBVIOUS
  <2>1. Call
    BY <1>1 DEF Next, Host, Births, Spawn, Exit, Reap, Reexec, Ready, HostStep,
                DeadlinePasses, Cancel, Returned, vars
  <2>2. PICK q \in Pids : Follow(q)
    BY <2>1
       DEF Call, Verify, Signal, SignalFails, Anchor, Top, TurnBegins, SearchBegins, Same,
         Confirm, SuccReadFile, SuccVerifyFile, SuccList, SuccListFails, SuccScan, Follow,
         Nobody, SleepCancelled, SleepOver
  <2>3. pc = "pick" /\ q \in found /\ pid' = q
    BY <2>2 DEF Follow
  <2> QED BY <1>1, <2>3 DEF IInv, Turn, Glimpsed
<1> QED BY <1>1, Invariance, PTL DEF Spec, FollowsOurs

=============================================================================
