------------------------------- MODULE Scrape --------------------------------
(***************************************************************************)
(* ScrapeAll and scrape (metrics.go), with readStatus (status.go) and the  *)
(* Target they work on: one goroutine per target, a bounded number of them *)
(* at work at a time, each writing one PoolOutcome by its index.           *)
(*                                                                         *)
(* A pool is abstracted to its name and a configuration to the names of    *)
(* its pool sections; what a status page counts, the worker memory and     *)
(* what PHP says of itself are left out, and so is the process snapshot.   *)
(* A target's index stands for its address.                                *)
(***************************************************************************)
EXTENDS Integers, FiniteSets, FiniteSetsExt

CONSTANTS
    N,         \* len(targets)
    MinSlots,  \* what max() compares with NumCPU: 4 in the code
    NumCPU,
    Names,     \* pool and section names
    NoName,    \* ""
    Fold,      \* the spelling strings.EqualFold compares
    Asked,     \* target.Name
    Confs      \* the sets of sections a configuration may have

Targets == 1..N

ASSUME ScrapeAssumption ==
    /\ N \in Nat /\ MinSlots \in Nat \ {0} /\ NumCPU \in Nat \ {0}
    /\ NoName \notin Names
    /\ DOMAIN Fold = Names
    /\ Asked \in [Targets -> Names \cup {NoName}]
    /\ Confs \subseteq SUBSET Names /\ \A conf \in Confs : IsFiniteSet(conf)

VARIABLES
    next,       \* the target ScrapeAll's loop is at
    wg,         \* the wait group's count
    used,       \* slots taken
    pc,         \* where each target's goroutine is
    out,        \* the outcome each goroutine is building
    outcomes,   \* the slice shared by all
    timedOut,   \* the target's own timeout has passed, during its scrape
    cancelled,  \* the caller's context is done
    stray,      \* a process its command left behind holds the pipe
    answer      \* what ScrapeAll returned

vars == <<next, wg, used, pc, out, outcomes, timedOut, cancelled, stray, answer>>

Slots == Min({N, Max({MinSlots, NumCPU})})

\* pool is the key of Result.Pools, NoName while Result is nil; an unnamed
\* target is labelled by its socket.
PoolOutcome ==
    [socket : 0..N, name : Names \cup {NoName}, err : BOOLEAN,
     pool : Names \cup {NoName},
     sections : SUBSET Names, config : Names \cup {NoName}]

Zero == [socket |-> 0, name |-> NoName, err |-> FALSE, pool |-> NoName,
         sections |-> {}, config |-> NoName]

\* Where a goroutine is inside scrape, under the target's context.
Scraping == {"status", "config", "info", "opcache"}
HoldsSlot == Scraping \cup {"record", "release"}

Init ==
    /\ next = 1
    /\ wg = 0
    /\ used = 0
    /\ pc = [i \in Targets |-> "unborn"]
    /\ out = [i \in Targets |-> Zero]
    /\ outcomes = [i \in Targets |-> Zero]
    /\ timedOut = [i \in Targets |-> FALSE]
    /\ cancelled = FALSE
    /\ stray = [i \in Targets |-> FALSE]
    /\ answer = "none"

ctxDone(i) == cancelled \/ timedOut[i]

Go(i, from, to) ==
    /\ pc[i] = from
    /\ pc' = [pc EXCEPT ![i] = to]

-----------------------------------------------------------------------------
(* ScrapeAll *)

\* Starts the goroutine and leaves it to count itself in.
SpawnUncounted ==
    /\ next <= N
    /\ next' = next + 1
    /\ Go(next, "unborn", "waiting")
    /\ UNCHANGED <<wg, used, out, outcomes, timedOut, cancelled, stray, answer>>

\* One turn of the loop: wg.Add, go.
Spawn ==
    /\ next <= N
    /\ next' = next + 1
    /\ wg' = wg + 1
    /\ Go(next, "unborn", "waiting")
    /\ UNCHANGED <<used, out, outcomes, timedOut, cancelled, stray, answer>>

\* wg.Wait and the return.
Wait ==
    /\ next > N
    /\ wg = 0
    /\ answer = "none"
    /\ answer' = IF N > 0 /\ \A i \in Targets : outcomes[i].err
                 THEN "error" ELSE "ok"
    /\ UNCHANGED <<next, wg, used, pc, out, outcomes, timedOut, cancelled, stray>>

-----------------------------------------------------------------------------
(* A target's goroutine *)

\* The outcome scrape begins with.
Labelled(i) == [Zero EXCEPT !.socket = i, !.name = Asked[i]]

\* The channel has room for one more than it should.
TakeSlotOverfull(i) ==
    /\ used <= Slots
    /\ used' = used + 1
    /\ Go(i, "waiting", "status")
    /\ out' = [out EXCEPT ![i] = Labelled(i)]
    /\ UNCHANGED <<next, wg, outcomes, timedOut, cancelled, stray, answer>>

\* The slot is taken, and scrape begins: the outcome is labelled and the
\* target's timeout starts.  The caller's context does not end this wait.
TakeSlot(i) ==
    /\ used < Slots
    /\ used' = used + 1
    /\ Go(i, "waiting", "status")
    /\ out' = [out EXCEPT ![i] = Labelled(i)]
    /\ UNCHANGED <<next, wg, outcomes, timedOut, cancelled, stray, answer>>

\* A stage of scrape ends; the target's context ends with the last.
Stage(i, from, to) ==
    /\ Go(i, from, to)
    /\ timedOut' = [timedOut EXCEPT ![i] = timedOut[i] /\ to # "record"]
    /\ stray' = [stray EXCEPT ![i] = FALSE]
    /\ UNCHANGED <<next, wg, used, outcomes, cancelled, answer>>

\* A page without a pool name, or with another pool's, is refused.
checkIsStatusFor(reported, asked) ==
    /\ reported # NoName
    /\ asked # NoName => (asked = reported \/ Fold[asked] = Fold[reported])

\* Gives the slot back by itself; the deferred release gives it back again.
StatusFailsReleases(i) ==
    /\ Go(i, "status", "record")
    /\ out' = [out EXCEPT ![i].err = TRUE]
    /\ used' = used - 1
    /\ timedOut' = [timedOut EXCEPT ![i] = FALSE]
    /\ UNCHANGED <<next, wg, outcomes, cancelled, stray, answer>>

\* readStatus: the address, the dial, the request, the page or the context.
StatusFails(i) ==
    /\ Stage(i, "status", "record")
    /\ out' = [out EXCEPT ![i].err = TRUE]

\* readStatus: a page arrives that names pool r.
StatusArrives(i, r) ==
    \/ /\ checkIsStatusFor(r, Asked[i])
       /\ Stage(i, "status", "config")
       /\ out' = [out EXCEPT ![i].pool = r]
    \/ /\ ~checkIsStatusFor(r, Asked[i])
       /\ Stage(i, "status", "record")
       /\ out' = [out EXCEPT ![i].err = TRUE]

\* Any section of that spelling will do.
MatchAnyCase(pool, sections) ==
    LET same == {s \in sections : Fold[s] = Fold[pool]}
    IN  IF same = {} THEN {NoName} ELSE same

\* The section whose settings the pool is given: its own, or else the only one
\* that differs in case alone.
Match(pool, sections) ==
    LET same == {s \in sections : Fold[s] = Fold[pool]}
    IN  IF pool \in sections THEN {pool}
        ELSE IF Cardinality(same) = 1 THEN same ELSE {NoName}

\* ParseConfigContext answers; the match, the worker memory and the recount.
ConfigRead(i, sections) ==
    /\ Stage(i, "config", "info")
    /\ \E s \in Match(out[i].pool, sections) :
         out' = [out EXCEPT ![i].sections = sections, ![i].config = s]

\* ParseConfigContext fails, by itself or cut short by the target's context;
\* the scrape goes on without a configuration.
ConfigFails(i) ==
    /\ Stage(i, "config", "info")
    /\ UNCHANGED out

\* GetPHPStats; an error is logged and dropped.
PHPStats(i) ==
    /\ Stage(i, "info", "opcache")
    /\ UNCHANGED out

\* GetOpcacheStatus, whose error is dropped too, and the end of scrape: an
\* unnamed target takes the name the pool reported.
Opcache(i) ==
    /\ Stage(i, "opcache", "record")
    /\ out' = [out EXCEPT ![i].name =
                   IF Asked[i] = NoName THEN out[i].pool ELSE Asked[i]]

\* Appends, so that the results are in the order they arrived.
RecordAppends(i) ==
    /\ Go(i, "record", "release")
    /\ outcomes' =
         [outcomes EXCEPT ![1 + Cardinality({j \in Targets : outcomes[j] # Zero})] =
                              out[i]]
    /\ UNCHANGED <<next, wg, used, out, timedOut, cancelled, stray, answer>>

Record(i) ==
    /\ Go(i, "record", "release")
    /\ outcomes' = [outcomes EXCEPT ![i] = out[i]]
    /\ UNCHANGED <<next, wg, used, out, timedOut, cancelled, stray, answer>>

\* Gives the slot back only after a scrape that went well.
ReleaseOnSuccess(i) ==
    /\ Go(i, "release", "finishing")
    /\ used' = IF out[i].err THEN used ELSE used - 1
    /\ UNCHANGED <<next, wg, out, outcomes, timedOut, cancelled, stray, answer>>

\* The deferred calls, last in first out: the slot,
Release(i) ==
    /\ Go(i, "release", "finishing")
    /\ used' = used - 1
    /\ UNCHANGED <<next, wg, out, outcomes, timedOut, cancelled, stray, answer>>

\* and the wait group.
Done(i) ==
    /\ Go(i, "finishing", "over")
    /\ wg' = wg - 1
    /\ UNCHANGED <<next, used, out, outcomes, timedOut, cancelled, stray, answer>>

-----------------------------------------------------------------------------
(* The environment *)

\* The timeout of context.WithTimeout(ctx, target.dialTimeout()).
TimeOut(i) ==
    /\ pc[i] \in Scraping
    /\ ~timedOut[i]
    /\ timedOut' = [timedOut EXCEPT ![i] = TRUE]
    /\ UNCHANGED <<next, wg, used, pc, out, outcomes, cancelled, stray, answer>>

Cancel ==
    /\ ~cancelled
    /\ answer = "none"
    /\ cancelled' = TRUE
    /\ UNCHANGED <<next, wg, used, pc, out, outcomes, timedOut, stray, answer>>

\* The command of this stage leaves a process on its pipe (see BoundedRun).
LeaveStray(i) ==
    /\ pc[i] \in {"config", "info"}
    /\ ~stray[i]
    /\ stray' = [stray EXCEPT ![i] = TRUE]
    /\ UNCHANGED <<next, wg, used, pc, out, outcomes, timedOut, cancelled, answer>>

\* ScrapeAll has returned.
Returned == answer # "none" /\ UNCHANGED vars

-----------------------------------------------------------------------------

StageEnds(i) ==
    \/ StatusFails(i)
    \/ \E r \in Names \cup {NoName} : StatusArrives(i, r)
    \/ \E s \in Confs : ConfigRead(i, s)
    \/ ConfigFails(i)
    \/ PHPStats(i)
    \/ Opcache(i)

Next ==
    \/ Spawn
    \/ Wait
    \/ \E i \in Targets :
         \/ TakeSlot(i)
         \/ StageEnds(i)
         \/ Record(i)
         \/ Release(i)
         \/ Done(i)
         \/ TimeOut(i)
         \/ LeaveStray(i)
    \/ Cancel
    \/ Returned

Spec == Init /\ [][Next]_vars

\* Goroutines are scheduled, timers fire, and a call into the network or a
\* command ends once its context is done, unless a stray process holds it; a
\* call whose context is not done may last.
Fairness ==
    /\ WF_vars(Spawn)
    /\ WF_vars(Wait)
    /\ \A i \in Targets :
         /\ WF_vars(TakeSlot(i))
         /\ WF_vars(ctxDone(i) /\ ~stray[i] /\ StageEnds(i))
         /\ WF_vars(Record(i))
         /\ WF_vars(Release(i))
         /\ WF_vars(Done(i))
         /\ WF_vars(TimeOut(i))

FairSpec == Spec /\ Fairness

-----------------------------------------------------------------------------

(* Properties *)

\* Every variable has its type, the slots taken never exceed the channel and
\* neither they nor the wait group's count go below zero.
TypeOK ==
    /\ next \in 1..(N + 1)
    /\ wg \in 0..N
    /\ used \in 0..Slots
    /\ pc \in [Targets -> {"unborn", "waiting", "finishing", "over"} \cup HoldsSlot]
    /\ out \in [Targets -> PoolOutcome]
    /\ outcomes \in [Targets -> PoolOutcome]
    /\ timedOut \in [Targets -> BOOLEAN]
    /\ cancelled \in BOOLEAN
    /\ stray \in [Targets -> BOOLEAN]
    /\ answer \in {"none", "ok", "error"}

\* ScrapeAll returns one outcome per target, in the order given: whatever order
\* the scrapes end in, the i-th is about the i-th target, under the name
\* configured for it, and has either a result or an error.
OneOutcomeEach ==
    answer # "none" =>
        \A i \in Targets :
            /\ outcomes[i].socket = i
            /\ Asked[i] # NoName => outcomes[i].name = Asked[i]
            /\ outcomes[i].err <=> outcomes[i].pool = NoName

\* ScrapeAll fails only when nothing at all could be collected, and nothing
\* that was still being collected is lost: when it returns no goroutine of its
\* batch has anything left to write.
ErrorOnlyWhenNothing ==
    answer # "none" =>
        /\ \A i \in Targets : pc[i] = "over"
        /\ answer = "error" <=> (N > 0 /\ \A i \in Targets : out[i].err)

\* No more scrapes are in flight than there are slots.
InFlightBounded ==
    Cardinality({i \in Targets : pc[i] \in HoldsSlot}) <= Slots

\* The settings a pool is reported with are not a matter of chance: it has those
\* of its own section when there is one, and two scrapes that saw the same pool
\* and the same configuration report the same settings.
SettingsOfItsOwn ==
    \A i, j \in Targets :
        /\ out[i].pool \in out[i].sections => out[i].config = out[i].pool
        /\ (out[i].pool = out[j].pool /\ out[i].sections = out[j].sections) =>
              out[i].config = out[j].config

\* How far a target is, as the caller of ScrapeAll sees it.
progress ==
    [i \in Targets |->
        IF pc[i] \in {"unborn", "waiting"} THEN "todo"
        ELSE IF pc[i] \in HoldsSlot THEN "working"
        ELSE IF outcomes[i].err THEN "failed" ELSE "collected"]

Batch == INSTANCE BatchPromise WITH
    Capacity <- Slots, state <- progress, verdict <- answer

\* ScrapeAll keeps the promise made for it: each target is scraped once and
\* under the capacity, what its scrape came to is never changed afterwards, not
\* by another goroutine either, and the verdict is given once, on all of them.
BatchKept == Batch!Spec

\* The batch ends, however many pools hang: each gives its slot to one that
\* waits.  Only a process left on a command's pipe can hold it up.
BatchReturns ==
    (\A i \in Targets : []<>~stray[i]) => <>(answer # "none")

=============================================================================
