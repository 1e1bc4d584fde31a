------------------------------ MODULE BoundedRun ------------------------------
(***************************************************************************)
(* Running php-fpm with bounds on time and output: the body that runBounded *)
(* (run.go) and ParseConfigContext (config.go) share, and how Validate and  *)
(* ParseConfigContext read its outcome.                                     *)
(*                                                                          *)
(* The actors are the caller in cmd.Run, os/exec's watcher goroutine (armed *)
(* until the caller, having reaped the child, takes it back), its copy      *)
(* goroutine (pipe to limitedWriter), the child, and one descendant of the  *)
(* child that inherited the pipe and may have left the process group.       *)
(* Output is counted in units; its content does not matter here.            *)
(***************************************************************************)
EXTENDS Naturals

CONSTANTS
    Cap,       \* maxParseOutput, maxCapturedOutput
    MaxTotal   \* bound: units the child and its descendant write

ASSUME CapAssumption == Cap \in Nat \ {0} /\ MaxTotal \in Nat

VARIABLES
    via,        \* "parse" (ParseConfigContext) or "validate" (Validate)
    phase,      \* where cmd.Run is
    ctxDone,    \* ctx.Err() != nil
    child,      \* the php-fpm process
    desc,       \* its descendant
    watcher,    \* os/exec's watchCtx goroutine
    pipe,       \* units written and not yet read
    total,      \* units written
    captured,   \* len(captured)
    remaining,  \* limitedWriter.remaining
    truncated,  \* limitedWriter.truncated
    copy,       \* os/exec's copy goroutine
    result      \* what the call returned

procs == <<child, desc>>
writer == <<captured, remaining, truncated>>
runVars == <<via, phase, ctxDone, procs, watcher, pipe, total, writer, copy, result>>

RunInit ==
    /\ via \in {"parse", "validate"}
    /\ phase = "new"
    /\ ctxDone = FALSE
    /\ child = "none" /\ desc = "none"
    /\ watcher = "none"
    /\ pipe = 0 /\ total = 0
    /\ captured = 0 /\ remaining = Cap /\ truncated = FALSE
    /\ copy = "none"
    /\ result = "none"

-----------------------------------------------------------------------------
(* The caller *)

Return(r) == phase' = "done" /\ result' = r

\* Refused before anything is run: an untrusted or relative binary.
Refuse ==
    /\ phase = "new"
    /\ Return("refused")
    /\ UNCHANGED <<via, ctxDone, procs, watcher, pipe, total, writer, copy>>

\* cmd.Start: nothing is started when the context is already done, and the
\* fork itself may fail.
StartFails ==
    /\ phase = "new"
    /\ Return(IF ctxDone THEN "timeout" ELSE "failed")
    /\ UNCHANGED <<via, ctxDone, procs, watcher, pipe, total, writer, copy>>

Start ==
    /\ phase = "new"
    /\ ~ctxDone
    /\ phase' = "running"
    /\ child' = "running" /\ watcher' = "armed" /\ copy' = "copying"
    /\ UNCHANGED <<via, ctxDone, desc, pipe, total, writer, result>>

\* cmd.Wait has reaped the child and takes the watcher back: from here on the
\* context has no effect, and with no WaitDelay the wait for the copy goroutine
\* has no bound.
Reap ==
    /\ phase = "running"
    /\ child # "running"
    /\ phase' = "draining"
    /\ watcher' = "released"
    /\ UNCHANGED <<via, ctxDone, procs, pipe, total, writer, copy, result>>

\* cmd.Run's error: the child's, else the copy's.  The watcher adds none,
\* because cmd.Cancel returns os.ErrProcessDone.
RunFailed == child # "exited" \/ copy = "short"

\* The copy goroutine has ended and the outcome is read: by ParseConfigContext,
\* for which a truncated report is an error of its own, or by Validate.
Finish ==
    /\ phase = "draining"
    /\ copy # "copying"
    /\ Return(CASE RunFailed /\ ctxDone -> "timeout"
                [] RunFailed /\ ~ctxDone -> "failed"
                [] ~RunFailed /\ via = "parse" /\ truncated -> "truncated"
                [] OTHER -> "ok")
    /\ UNCHANGED <<via, ctxDone, procs, watcher, pipe, total, writer, copy>>

\* The report was complete and could not be scanned.
FinishUnscanned ==
    /\ phase = "draining"
    /\ copy # "copying"
    /\ via = "parse" /\ ~RunFailed /\ ~truncated
    /\ Return("failed")
    /\ UNCHANGED <<via, ctxDone, procs, watcher, pipe, total, writer, copy>>

-----------------------------------------------------------------------------
(* os/exec's goroutines *)

\* Kill the child and leave what it started.
CancelChildOnly ==
    /\ watcher = "armed"
    /\ ctxDone
    /\ watcher' = "fired"
    /\ child' = IF child = "running" THEN "killed" ELSE child
    /\ UNCHANGED <<via, phase, ctxDone, desc, pipe, total, writer, copy, result>>

\* cmd.Cancel: SIGKILL to the group.
Cancel ==
    /\ watcher = "armed"
    /\ ctxDone
    /\ watcher' = "fired"
    /\ child' = IF child = "running" THEN "killed" ELSE child
    /\ desc' = IF desc = "group" THEN "killed" ELSE desc
    /\ UNCHANGED <<via, phase, ctxDone, pipe, total, writer, copy, result>>

\* Discards what is over and does not remember that it did.
WriteForgets(n) ==
    /\ captured' = captured + IF n > remaining THEN remaining ELSE n
    /\ remaining' = remaining - IF n > remaining THEN remaining ELSE n
    /\ truncated' = (truncated \/ (remaining > 0 /\ n > remaining))
    /\ copy' = IF remaining > 0 /\ n > remaining THEN "short" ELSE copy

\* Takes the whole chunk that crosses the cap.
WriteWhole(n) ==
    /\ captured' = captured + IF remaining = 0 THEN 0 ELSE n
    /\ remaining' = IF n > remaining THEN 0 ELSE remaining - n
    /\ truncated' = (truncated \/ n > remaining)
    /\ copy' = copy

\* limitedWriter.Write: a full writer discards and says it wrote; a chunk that
\* crosses the cap is cut, and the count returned is that of the cut chunk,
\* which io.Copy takes for a short write and ends with.
Write(n) ==
    LET took == IF n > remaining THEN remaining ELSE n
    IN  /\ captured' = captured + took
        /\ remaining' = remaining - took
        /\ truncated' = IF n > remaining THEN TRUE ELSE truncated
        /\ copy' = IF remaining > 0 /\ n > remaining THEN "short" ELSE copy

\* One turn of io.Copy; when it ends with an error the pipe is closed.
CopyChunk(n) ==
    /\ copy = "copying"
    /\ n <= pipe
    /\ Write(n)
    /\ pipe' = IF copy' = "short" THEN 0 ELSE pipe - n
    /\ UNCHANGED <<via, phase, ctxDone, procs, watcher, total, result>>

\* End of file: every process that held the pipe is gone.
HoldsPipe == child = "running" \/ desc \in {"group", "escaped"}

CopyEOF ==
    /\ copy = "copying"
    /\ pipe = 0
    /\ ~HoldsPipe
    /\ copy' = "eof"
    /\ UNCHANGED <<via, phase, ctxDone, procs, watcher, pipe, total, writer, result>>

-----------------------------------------------------------------------------
(* The processes, and the context *)

Output(n) ==
    /\ HoldsPipe
    /\ copy = "copying"
    /\ total + n <= MaxTotal
    /\ total' = total + n /\ pipe' = pipe + n
    /\ UNCHANGED <<via, phase, ctxDone, procs, watcher, writer, copy, result>>

\* The child starts something that inherits the pipe: in its group, or outside
\* it as a daemon is.
ChildForks(where) ==
    /\ child = "running"
    /\ desc = "none"
    /\ desc' = where
    /\ UNCHANGED <<via, phase, ctxDone, child, watcher, pipe, total, writer, copy, result>>

ChildExits(how) ==
    /\ child = "running"
    /\ child' = how
    /\ UNCHANGED <<via, phase, ctxDone, desc, watcher, pipe, total, writer, copy, result>>

DescExits ==
    /\ desc \in {"group", "escaped"}
    /\ desc' = "exited"
    /\ UNCHANGED <<via, phase, ctxDone, child, watcher, pipe, total, writer, copy, result>>

ContextEnds ==
    /\ phase # "done"
    /\ ~ctxDone
    /\ ctxDone' = TRUE
    /\ UNCHANGED <<via, phase, procs, watcher, pipe, total, writer, copy, result>>

Returned == phase = "done" /\ UNCHANGED runVars

Caller == Refuse \/ StartFails \/ Start \/ Reap \/ Finish \/ FinishUnscanned

Copier == (\E n \in 1..MaxTotal : CopyChunk(n)) \/ CopyEOF

Processes ==
    \/ \E n \in 1..MaxTotal : Output(n)
    \/ \E where \in {"group", "escaped"} : ChildForks(where)
    \/ \E how \in {"exited", "failed"} : ChildExits(how)
    \/ DescExits

RunNext == Caller \/ Cancel \/ Copier \/ Processes \/ ContextEnds \/ Returned

RunSpec == RunInit /\ [][RunNext]_runVars

\* The goroutines are scheduled; the processes owe nothing, and may neither
\* write nor exit.
FairRunSpec == RunSpec /\ WF_runVars(Caller) /\ WF_runVars(Cancel) /\ WF_runVars(Copier)

-----------------------------------------------------------------------------
(* Properties *)

\* Every variable has its type, and what limitedWriter holds and what it would
\* still take always add up to its cap: memory is bounded whatever is written.
RunTypeOK ==
    /\ via \in {"parse", "validate"}
    /\ phase \in {"new", "running", "draining", "done"}
    /\ ctxDone \in BOOLEAN
    /\ child \in {"none", "running", "exited", "failed", "killed"}
    /\ desc \in {"none", "group", "escaped", "exited", "killed"}
    /\ watcher \in {"none", "armed", "fired", "released"}
    /\ pipe \in Nat /\ total \in Nat
    /\ captured \in Nat /\ remaining \in Nat /\ captured + remaining = Cap
    /\ truncated \in BOOLEAN
    /\ copy \in {"none", "copying", "eof", "short"}
    /\ result \in {"none", "refused", "timeout", "failed", "truncated", "ok"}

\* ParseConfigContext accepts a report only if it captured every unit that was
\* written, a report of exactly the cap included.
NoPartialConfig == (via = "parse" /\ result = "ok") => captured = total

\* Once cancellation has killed the group, the call returns, unless a descendant
\* left the group: nothing else is left to hold the pipe open.
GroupKillEndsCall ==
    (watcher = "fired" /\ desc # "escaped") ~> (phase = "done")

\* The claim made for the context: once it is done the call returns.
DeadlineEndsCall == ctxDone ~> (phase = "done")

\* The claim made for ParseConfigContext: a configuration whose report was cut
\* short by the cancellation is not accepted as one.
NoCutReport == (via = "parse" /\ result = "ok") => desc # "killed"

===============================================================================
