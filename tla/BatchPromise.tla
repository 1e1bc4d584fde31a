---------------------------- MODULE BatchPromise -----------------------------
(***************************************************************************)
(* What a caller of ScrapeAll is promised, with no goroutines, semaphore,  *)
(* stages or timeouts in it: every target is scraped once, no more of them *)
(* at a time than the capacity, what came of one is settled when its       *)
(* scrape ends, and the batch returns when all are settled, as a failure   *)
(* exactly if there were targets and every one failed.  Scrape is shown to *)
(* implement it.                                                           *)
(***************************************************************************)
EXTENDS Integers, FiniteSets

CONSTANTS
    Targets,
    Capacity  \* scrapes in flight at a time

VARIABLES
    state,    \* how far each target is
    verdict   \* what the batch returned

vars == <<state, verdict>>

Working == {i \in Targets : state[i] = "working"}

Init ==
    /\ state = [i \in Targets |-> "todo"]
    /\ verdict = "none"

Begin(i) ==
    /\ state[i] = "todo"
    /\ Cardinality(Working) < Capacity
    /\ state' = [state EXCEPT ![i] = "working"]
    /\ UNCHANGED verdict

End(i) ==
    /\ state[i] = "working"
    /\ \E r \in {"failed", "collected"} : state' = [state EXCEPT ![i] = r]
    /\ UNCHANGED verdict

Return ==
    /\ verdict = "none"
    /\ \A i \in Targets : state[i] \in {"failed", "collected"}
    /\ verdict' = IF Targets # {} /\ \A i \in Targets : state[i] = "failed"
                  THEN "error" ELSE "ok"
    /\ UNCHANGED state

Next ==
    \/ \E i \in Targets : Begin(i) \/ End(i)
    \/ Return

Spec == Init /\ [][Next]_vars

=============================================================================
