---------------------------- MODULE ConfigPromise ----------------------------
(***************************************************************************)
(* What a caller of ParseConfigContext and InvalidateConfigCache is        *)
(* promised, with no cache in it: an answer is the document asked for, in  *)
(* some version it had between the last invalidation before the question   *)
(* and the answer, and it belongs to the caller alone.  ConfigCache is     *)
(* shown to implement it.                                                  *)
(***************************************************************************)
EXTENDS Naturals

CONSTANTS
    Callers,
    Docs       \* a binary and a configuration file, however spelled

VARIABLES
    version,    \* what each document says now
    forgotten,  \* what it said when it was last invalidated
    ask,        \* the question each caller has open
    answer      \* what it was last told

vars == <<version, forgotten, ask, answer>>

NoQuestion == [open |-> FALSE]
NoAnswer == [given |-> FALSE]

Question(d, floor) == [open |-> TRUE, doc |-> d, floor |-> floor]
Given(d, v, edited) == [given |-> TRUE, doc |-> d, ver |-> v, edited |-> edited]

Init ==
    /\ version = [d \in Docs |-> 0]
    /\ forgotten = [d \in Docs |-> 0]
    /\ ask = [c \in Callers |-> NoQuestion]
    /\ answer = [c \in Callers |-> NoAnswer]

Ask(c, d) ==
    /\ ~ask[c].open
    /\ ask' = [ask EXCEPT ![c] = Question(d, forgotten[d])]
    /\ answer' = [answer EXCEPT ![c] = NoAnswer]
    /\ UNCHANGED <<version, forgotten>>

Tell(c) ==
    /\ ask[c].open
    /\ \E v \in ask[c].floor .. version[ask[c].doc] :
         answer' = [answer EXCEPT ![c] = Given(ask[c].doc, v, FALSE)]
    /\ ask' = [ask EXCEPT ![c] = NoQuestion]
    /\ UNCHANGED <<version, forgotten>>

\* An error, for a question or instead of one.
Fail(c) ==
    /\ ask' = [ask EXCEPT ![c] = NoQuestion]
    /\ answer' = [answer EXCEPT ![c] = NoAnswer]
    /\ UNCHANGED <<version, forgotten>>

Edit(c) ==
    /\ answer[c].given
    /\ answer' = [answer EXCEPT ![c] = Given(answer[c].doc, answer[c].ver, TRUE)]
    /\ UNCHANGED <<version, forgotten, ask>>

Invalidate(S) ==
    /\ forgotten' = [d \in Docs |-> IF d \in S THEN version[d] ELSE forgotten[d]]
    /\ UNCHANGED <<version, ask, answer>>

\* A file is rewritten, and every document read from it.
Rewrite ==
    /\ version' \in [Docs -> Nat]
    /\ \A d \in Docs : version[d] <= version'[d]
    /\ UNCHANGED <<forgotten, ask, answer>>

Next ==
    \/ \E c \in Callers :
         (\E d \in Docs : Ask(c, d)) \/ Tell(c) \/ Fail(c) \/ Edit(c)
    \/ \E S \in SUBSET Docs : Invalidate(S)
    \/ Rewrite

Spec == Init /\ [][Next]_vars

=============================================================================
