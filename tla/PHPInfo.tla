------------------------------- MODULE PHPInfo -------------------------------
(***************************************************************************)
(* GetPHPStats (info.go): what `php -v` and `php -m` say of a binary,      *)
(* cached per binary, with concurrent callers coalesced onto one fork.     *)
(*                                                                         *)
(* phpInfoMu guards the cache and the table of lookups in flight; the fork *)
(* and the wait for someone else's fork happen outside it.  A result is    *)
(* abstracted to the binary it is about and how it came out: "info", an    *)
(* "error" of the binary's own, or "cut" when the context of the caller    *)
(* that forked ran out.  An entry past its expiresAt is no entry.          *)
(***************************************************************************)
EXTENDS Naturals, FiniteSets

CONSTANTS
    Callers,   \* goroutines that scrape
    Binaries,  \* php binaries
    NoBinary,  \* of a result not yet there
    Calls,     \* addresses of phpInfoCall values
    NoCall     \* nil

ASSUME PHPInfoAssumption ==
    /\ NoBinary \notin Binaries /\ NoCall \notin Calls
    /\ IsFiniteSet(Callers) /\ IsFiniteSet(Calls)
    /\ Cardinality(Calls) >= Cardinality(Callers)

VARIABLES
    cache,     \* phpInfoCache, expired entries left out
    inFlight,  \* phpInfoInFlight
    calls,     \* what each phpInfoCall holds, and whether done is closed
    pc,        \* where each caller is
    asked,     \* target.Binary
    mine,      \* the call it leads or waits for
    ctxDone,   \* its context is done
    answer     \* what it was last told

vars == <<cache, inFlight, calls, pc, asked, mine, ctxDone, answer>>

Result == [bin : Binaries, kind : {"info", "error", "cut"}]
Unset == [bin |-> NoBinary, kind |-> "unset"]
OwnDeadline == [bin |-> NoBinary, kind |-> "deadline"]

Init ==
    /\ cache = [b \in Binaries |-> Unset]
    /\ inFlight = [b \in Binaries |-> NoCall]
    /\ calls = [k \in Calls |-> [res |-> Unset, done |-> FALSE]]
    /\ pc = [c \in Callers |-> "idle"]
    /\ asked = [c \in Callers |-> NoBinary]
    /\ mine = [c \in Callers |-> NoCall]
    /\ ctxDone = [c \in Callers |-> FALSE]
    /\ answer = [c \in Callers |-> Unset]

\* The caller starts afresh, with a context of its own.
Begin(c, b) ==
    /\ pc[c] = "idle"
    /\ asked' = [asked EXCEPT ![c] = b]
    /\ ctxDone' = [ctxDone EXCEPT ![c] = FALSE]

\* Return r; a call nobody refers to any more is reset by the collector.
Answer(c, r) ==
    /\ answer' = [answer EXCEPT ![c] = r]
    /\ pc' = [pc EXCEPT ![c] = "idle"]
    /\ mine' = [mine EXCEPT ![c] = NoCall]
    /\ calls' = IF \A d \in Callers \ {c} : mine[d] # mine[c]
                THEN [k \in Calls |-> IF k = mine[c]
                                      THEN [res |-> Unset, done |-> FALSE]
                                      ELSE calls[k]]
                ELSE calls

-----------------------------------------------------------------------------
(* The first critical section has three outcomes. *)

\* One cached answer for every binary.
HitUnkeyed(c, b) ==
    /\ Begin(c, b)
    /\ \E x \in Binaries : cache[x] # Unset /\ Answer(c, cache[x])
    /\ UNCHANGED <<cache, inFlight>>

Hit(c, b) ==
    /\ Begin(c, b)
    /\ cache[b] # Unset
    /\ Answer(c, cache[b])
    /\ UNCHANGED <<cache, inFlight>>

Join(c, b) ==
    /\ Begin(c, b)
    /\ cache[b] = Unset
    /\ inFlight[b] # NoCall
    /\ pc' = [pc EXCEPT ![c] = "waiting"]
    /\ mine' = [mine EXCEPT ![c] = inFlight[b]]
    /\ answer' = [answer EXCEPT ![c] = Unset]
    /\ UNCHANGED <<cache, inFlight, calls>>

\* Forks for every caller that misses the cache.
LeadAlways(c, b) ==
    /\ Begin(c, b)
    /\ cache[b] = Unset
    /\ \E k \in Calls :
         /\ \A d \in Callers : mine[d] # k
         /\ inFlight' = [inFlight EXCEPT ![b] = k]
         /\ mine' = [mine EXCEPT ![c] = k]
    /\ pc' = [pc EXCEPT ![c] = "forking"]
    /\ answer' = [answer EXCEPT ![c] = Unset]
    /\ UNCHANGED <<cache, calls>>

Lead(c, b) ==
    /\ Begin(c, b)
    /\ cache[b] = Unset
    /\ inFlight[b] = NoCall
    /\ \E k \in Calls :
         /\ \A d \in Callers : mine[d] # k
         /\ inFlight' = [inFlight EXCEPT ![b] = k]
         /\ mine' = [mine EXCEPT ![c] = k]
    /\ pc' = [pc EXCEPT ![c] = "forking"]
    /\ answer' = [answer EXCEPT ![c] = Unset]
    /\ UNCHANGED <<cache, calls>>

-----------------------------------------------------------------------------
(* The leader *)

\* readPHPInfo, through runBounded under the leader's own context.
Read(c, kind) ==
    /\ pc[c] = "forking"
    /\ kind = "cut" => ctxDone[c]
    /\ calls' = [calls EXCEPT ![mine[c]].res = [bin |-> asked[c], kind |-> kind]]
    /\ pc' = [pc EXCEPT ![c] = "publish"]
    /\ UNCHANGED <<cache, inFlight, asked, mine, ctxDone, answer>>

\* Caches the result and leaves the lookup in the table.
PublishLeavesInFlight(c) ==
    /\ pc[c] = "publish"
    /\ cache' = [cache EXCEPT ![asked[c]] = calls[mine[c]].res]
    /\ pc' = [pc EXCEPT ![c] = "closing"]
    /\ UNCHANGED <<inFlight, calls, asked, mine, ctxDone, answer>>

\* The second critical section: the result is cached, an error too, and the
\* lookup is no longer in flight.
Publish(c) ==
    /\ pc[c] = "publish"
    /\ cache' = [cache EXCEPT ![asked[c]] = calls[mine[c]].res]
    /\ inFlight' = [inFlight EXCEPT ![asked[c]] = NoCall]
    /\ pc' = [pc EXCEPT ![c] = "closing"]
    /\ UNCHANGED <<calls, asked, mine, ctxDone, answer>>

\* Returns an error without closing the channel.
CloseOnlyOnSuccess(c) ==
    /\ pc[c] = "closing"
    /\ IF calls[mine[c]].res.kind = "info"
       THEN /\ calls' = [calls EXCEPT ![mine[c]].done = TRUE]
            /\ pc' = [pc EXCEPT ![c] = "closed"]
            /\ UNCHANGED <<mine, answer>>
       ELSE Answer(c, calls[mine[c]].res)
    /\ UNCHANGED <<cache, inFlight, asked, ctxDone>>

\* close(call.done), whatever the outcome.
Close(c) ==
    /\ pc[c] = "closing"
    /\ calls' = [calls EXCEPT ![mine[c]].done = TRUE]
    /\ pc' = [pc EXCEPT ![c] = "closed"]
    /\ UNCHANGED <<cache, inFlight, asked, mine, ctxDone, answer>>

LeadReturns(c) ==
    /\ pc[c] = "closed"
    /\ Answer(c, calls[mine[c]].res)
    /\ UNCHANGED <<cache, inFlight, asked, ctxDone>>

-----------------------------------------------------------------------------
(* The waiters' select *)

WaitDone(c) ==
    /\ pc[c] = "waiting"
    /\ calls[mine[c]].done
    /\ Answer(c, calls[mine[c]].res)
    /\ UNCHANGED <<cache, inFlight, asked, ctxDone>>

\* Waits for the leader whatever the caller's own context says.
WaitCtxIgnored(c) ==
    /\ pc[c] = "waiting"
    /\ ctxDone[c]
    /\ calls[mine[c]].done
    /\ Answer(c, OwnDeadline)
    /\ UNCHANGED <<cache, inFlight, asked, ctxDone>>

WaitCtx(c) ==
    /\ pc[c] = "waiting"
    /\ ctxDone[c]
    /\ Answer(c, OwnDeadline)
    /\ UNCHANGED <<cache, inFlight, asked, ctxDone>>

-----------------------------------------------------------------------------

\* A context runs out.
CtxEnds(c) ==
    /\ pc[c] # "idle"
    /\ ~ctxDone[c]
    /\ ctxDone' = [ctxDone EXCEPT ![c] = TRUE]
    /\ UNCHANGED <<cache, inFlight, calls, pc, asked, mine, answer>>

\* The hour, or the minute of a failure, is over.
Expire(b) ==
    /\ cache[b] # Unset
    /\ cache' = [cache EXCEPT ![b] = Unset]
    /\ UNCHANGED <<inFlight, calls, pc, asked, mine, ctxDone, answer>>

Finishes(c) == Publish(c) \/ Close(c) \/ LeadReturns(c)
Waits(c) == WaitDone(c) \/ WaitCtx(c)

Next ==
    \/ \E c \in Callers :
         \/ \E b \in Binaries : Hit(c, b) \/ Join(c, b) \/ Lead(c, b)
         \/ \E kind \in {"info", "error", "cut"} : Read(c, kind)
         \/ Finishes(c) \/ Waits(c) \/ CtxEnds(c)
    \/ \E b \in Binaries : Expire(b)

Spec == Init /\ [][Next]_vars

\* Goroutines are scheduled.  Nothing is assumed of the binary, which may hang
\* for as long as the leader's context lets it.
FairSpec == Spec /\ \A c \in Callers : WF_vars(Finishes(c)) /\ WF_vars(Waits(c))

-----------------------------------------------------------------------------
(* Properties *)

\* Every variable has its type, and a lookup in flight is one some caller leads.
TypeOK ==
    /\ cache \in [Binaries -> Result \cup {Unset}]
    /\ inFlight \in [Binaries -> Calls \cup {NoCall}]
    /\ calls \in [Calls -> [res : Result \cup {Unset}, done : BOOLEAN]]
    /\ pc \in [Callers -> {"idle", "waiting", "forking", "publish", "closing", "closed"}]
    /\ asked \in [Callers -> Binaries \cup {NoBinary}]
    /\ mine \in [Callers -> Calls \cup {NoCall}]
    /\ ctxDone \in [Callers -> BOOLEAN]
    /\ answer \in [Callers -> Result \cup {Unset, OwnDeadline}]
    /\ \A b \in Binaries : inFlight[b] # NoCall =>
         \E c \in Callers : /\ mine[c] = inFlight[b] /\ asked[c] = b
                            /\ pc[c] \in {"forking", "publish"}

\* However many callers miss the cache at once, one of them forks a binary.
OneFork ==
    \A c, d \in Callers :
        (pc[c] = "forking" /\ pc[d] = "forking" /\ asked[c] = asked[d]) => c = d

\* GetPHPStats answers about the binary it was asked for: never with another
\* binary's result, and never with one a leader has not filled in yet.
AnswerForBinary ==
    \A c \in Callers :
        (pc[c] = "idle" /\ asked[c] # NoBinary) =>
            answer[c] = OwnDeadline \/ answer[c].bin = asked[c]

\* A waiter's own deadline ends its wait, however long the leader's fork hangs.
WaiterKeepsOwnDeadline ==
    \A c \in Callers : (pc[c] = "waiting" /\ ctxDone[c]) ~> (pc[c] # "waiting")

\* Once the leader has its result, good or bad, every waiter is released: the
\* lookup is taken out of flight before the channel is closed, and whoever found
\* it in between is still told.
WaitersReleased ==
    \A c \in Callers :
        (pc[c] = "waiting" /\ calls[mine[c]].res # Unset) ~> (pc[c] # "waiting")

\* The claim made for coalescing: a caller that waits for another's fork does
\* not inherit the other's patience.
NoInheritedImpatience ==
    [][\A c \in Callers :
         (pc[c] = "waiting" /\ pc'[c] = "idle" /\ answer'[c].kind = "cut") =>
             ctxDone[c]]_vars

=============================================================================
