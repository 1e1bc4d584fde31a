---------------------------- MODULE PHPInfoProofs ----------------------------
(***************************************************************************)
(* For any number of callers and binaries, one caller forks a binary at a  *)
(* time and every caller is answered about the binary it asked for.        *)
(*                                                                         *)
(* Neither property is inductive: both rest on who holds which phpInfoCall.*)
(* The callers that hold one call all asked for the same binary, one of    *)
(* them at most leads it, the table of lookups in flight names the call of *)
(* whoever is forking, and a call nobody holds is as good as new.          *)
(***************************************************************************)
EXTENDS PHPInfo, TLAPS

Leading(c) == pc[c] \in {"forking", "publish", "closing", "closed"}

\* A caller has a call exactly while it is inside GetPHPStats.
Holding ==
    \A c \in Callers : /\ pc[c] = "idle" <=> mine[c] = NoCall
                       /\ pc[c] # "idle" => asked[c] \in Binaries

\* Those who hold one call asked for one binary, and one of them leads.
Shared ==
    \A c, d \in Callers : (mine[c] # NoCall /\ mine[c] = mine[d]) =>
        /\ asked[c] = asked[d]
        /\ (Leading(c) /\ Leading(d)) => c = d

\* Until its result is published, a leader's call is the one in the table.
InTable ==
    \A c \in Callers : pc[c] \in {"forking", "publish"} => inFlight[asked[c]] = mine[c]

\* A call is filled in before it is published and closed, with a result about
\* the binary its holders asked for.
Filled ==
    /\ \A c \in Callers : pc[c] # "idle" /\ calls[mine[c]].res # Unset =>
                              calls[mine[c]].res.bin = asked[c]
    /\ \A c \in Callers : pc[c] \in {"publish", "closing", "closed"} =>
                              calls[mine[c]].res # Unset
    /\ \A k \in Calls : calls[k].done => calls[k].res # Unset

\* A call nobody holds is new.
Fresh ==
    \A k \in Calls : (\A c \in Callers : mine[c] # k) =>
                         calls[k].res = Unset /\ ~calls[k].done

CacheRight == \A b \in Binaries : cache[b] # Unset => cache[b].bin = b

IInv == TypeOK /\ Holding /\ Shared /\ InTable /\ Filled /\ Fresh /\ CacheRight
          /\ AnswerForBinary

USE DEF Leading

LEMMA InitIInv == Init => IInv
<1> SUFFICES ASSUME Init PROVE IInv
  OBVIOUS
<1>1. ctxDone \in [Callers -> BOOLEAN]
  BY Zenon DEF Init
<1>2. calls \in [Calls -> [res : Result \cup {Unset}, done : BOOLEAN]]
  <2>1. [res |-> Unset, done |-> FALSE] \in [res : Result \cup {Unset}, done : BOOLEAN]
    BY Zenon
  <2> QED BY <2>1, Zenon DEF Init
<1>3. TypeOK
  BY <1>1, <1>2 DEF Init, TypeOK, Unset, OwnDeadline
<1>4. Holding /\ Shared /\ InTable /\ Filled /\ Fresh /\ CacheRight /\ AnswerForBinary
  BY DEF Init, Holding, Shared, InTable, Filled, Fresh, CacheRight, AnswerForBinary
<1> QED BY <1>3, <1>4 DEF IInv

-----------------------------------------------------------------------------

\* Returning from GetPHPStats, by whatever way, with an answer about the binary
\* asked for: the call it held is dropped, and reset if it was the last to hold it.
LEMMA AnswerIInv ==
    ASSUME IInv, NEW c \in Callers, NEW b \in Binaries,
           NEW r \in Result \cup {OwnDeadline},
           r = OwnDeadline \/ r.bin = b,
           pc[c] \in {"idle", "waiting", "closed"},
           Answer(c, r),
           asked' = [asked EXCEPT ![c] = b],
           ctxDone' \in [Callers -> BOOLEAN],
           UNCHANGED <<cache, inFlight>>
    PROVE  IInv'
<1> USE DEF IInv
<1>0. /\ answer' = [answer EXCEPT ![c] = r]
      /\ pc' = [pc EXCEPT ![c] = "idle"]
      /\ mine' = [mine EXCEPT ![c] = NoCall]
  BY DEF Answer
<1>1. \A k \in Calls : \/ calls'[k] = calls[k]
                       \/ /\ k = mine[c] /\ \A d \in Callers \ {c} : mine[d] # k
                          /\ calls'[k] = [res |-> Unset, done |-> FALSE]
  BY DEF Answer
<1>2. \A k \in Calls : (\A d \in Callers \ {c} : mine[d] # k) /\ k = mine[c] =>
                          calls'[k] = [res |-> Unset, done |-> FALSE]
  BY DEF Answer
<1>3. calls' \in [Calls -> [res : Result \cup {Unset}, done : BOOLEAN]]
  <2>1. [res |-> Unset, done |-> FALSE] \in [res : Result \cup {Unset}, done : BOOLEAN]
    BY Zenon
  <2>2. \A k \in Calls : calls'[k] \in [res : Result \cup {Unset}, done : BOOLEAN]
    <3> DEFINE Call == [res : Result \cup {Unset}, done : BOOLEAN]
               new == [res |-> Unset, done |-> FALSE]
    <3>1. new \in Call /\ calls \in [Calls -> Call]
      BY <2>1 DEF TypeOK
    <3>2. \A k \in Calls : calls'[k] \in {calls[k], new}
      BY <1>1
    <3> HIDE DEF Call, new
    <3>3. \A k \in Calls : calls'[k] \in Call
      BY <3>1, <3>2
    <3> QED BY <3>3 DEF Call
  <2>3. calls' = [k \in Calls |-> calls'[k]]
    BY DEF Answer, TypeOK
  <2> QED BY <2>2, <2>3, Zenon
<1>4. TypeOK'
  BY <1>0, <1>3, PHPInfoAssumption DEF TypeOK
<1>5. Holding'
  BY <1>0, PHPInfoAssumption DEF TypeOK, Holding
<1>6. Shared'
  BY <1>0, PHPInfoAssumption DEF TypeOK, Shared
<1>7. InTable'
  BY <1>0, PHPInfoAssumption DEF TypeOK, InTable
<1>8. Filled'
  BY <1>0, <1>1, PHPInfoAssumption DEF TypeOK, Filled, Holding
<1>9. Fresh'
  BY <1>0, <1>1, <1>2, PHPInfoAssumption DEF TypeOK, Fresh, Holding
<1>10. CacheRight'
  BY <1>0 DEF CacheRight
<1>11. AnswerForBinary'
  BY <1>0 DEF TypeOK, AnswerForBinary
<1> QED BY <1>4, <1>5, <1>6, <1>7, <1>8, <1>9, <1>10, <1>11

LEMMA HitIInv ==
    ASSUME IInv, NEW c \in Callers, NEW b \in Binaries, Hit(c, b)
    PROVE  IInv'
<1>1. cache[b] \in Result /\ cache[b].bin = b
  BY DEF IInv, TypeOK, CacheRight, Hit
<1>2. ctxDone' \in [Callers -> BOOLEAN]
  <2>1. ctxDone' = [ctxDone EXCEPT ![c] = FALSE] /\ ctxDone \in [Callers -> BOOLEAN]
    BY DEF IInv, TypeOK, Hit, Begin
  <2> QED BY <2>1, Zenon
<1>3. /\ pc[c] = "idle" /\ Answer(c, cache[b])
      /\ asked' = [asked EXCEPT ![c] = b] /\ UNCHANGED <<cache, inFlight>>
  BY DEF Hit, Begin
<1> QED BY <1>1, <1>2, <1>3, AnswerIInv

\* What a caller that was in a call already does next leaves asked alone.
LEMMA AskedStays ==
    ASSUME IInv, NEW c \in Callers, pc[c] # "idle", UNCHANGED <<asked, ctxDone>>
    PROVE  /\ asked[c] \in Binaries
           /\ asked' = [asked EXCEPT ![c] = asked[c]]
           /\ ctxDone' \in [Callers -> BOOLEAN]
BY DEF IInv, TypeOK, Holding

LEMMA LeadReturnsIInv == ASSUME IInv, NEW c \in Callers, LeadReturns(c) PROVE IInv'
<1>1. /\ pc[c] = "closed" /\ Answer(c, calls[mine[c]].res)
      /\ UNCHANGED <<cache, inFlight, asked, ctxDone>>
  BY DEF LeadReturns
<1>2. calls[mine[c]].res \in Result /\ calls[mine[c]].res.bin = asked[c]
  BY <1>1, PHPInfoAssumption DEF IInv, TypeOK, Filled, Holding
<1> QED BY <1>1, <1>2, AskedStays, AnswerIInv

LEMMA WaitDoneIInv == ASSUME IInv, NEW c \in Callers, WaitDone(c) PROVE IInv'
<1>1. /\ pc[c] = "waiting" /\ calls[mine[c]].done /\ Answer(c, calls[mine[c]].res)
      /\ UNCHANGED <<cache, inFlight, asked, ctxDone>>
  BY DEF WaitDone
<1>2. calls[mine[c]].res \in Result /\ calls[mine[c]].res.bin = asked[c]
  BY <1>1, PHPInfoAssumption DEF IInv, TypeOK, Filled, Holding
<1> QED BY <1>1, <1>2, AskedStays, AnswerIInv

LEMMA WaitCtxIInv == ASSUME IInv, NEW c \in Callers, WaitCtx(c) PROVE IInv'
<1>1. /\ pc[c] = "waiting" /\ Answer(c, OwnDeadline)
      /\ UNCHANGED <<cache, inFlight, asked, ctxDone>>
  BY DEF WaitCtx
<1> QED BY <1>1, AskedStays, AnswerIInv

-----------------------------------------------------------------------------

\* A caller that joins holds the call of a leader that asked for the same binary.
LEMMA JoinIInv ==
    ASSUME IInv, NEW c \in Callers, NEW b \in Binaries, Join(c, b)
    PROVE  IInv'
<1> USE DEF IInv
<1>0. /\ pc[c] = "idle" /\ inFlight[b] # NoCall
      /\ asked' = [asked EXCEPT ![c] = b]
      /\ pc' = [pc EXCEPT ![c] = "waiting"]
      /\ mine' = [mine EXCEPT ![c] = inFlight[b]]
      /\ answer' = [answer EXCEPT ![c] = Unset]
      /\ UNCHANGED <<cache, inFlight, calls>>
  BY DEF Join, Begin
<1>1. ctxDone' \in [Callers -> BOOLEAN]
  <2>1. ctxDone' = [ctxDone EXCEPT ![c] = FALSE] /\ ctxDone \in [Callers -> BOOLEAN]
    BY DEF TypeOK, Join, Begin
  <2> QED BY <2>1, Zenon
<1>2. PICK e \in Callers : /\ mine[e] = inFlight[b] /\ asked[e] = b
                           /\ pc[e] \in {"forking", "publish"}
  BY <1>0 DEF TypeOK
<1>3. e # c /\ inFlight[b] \in Calls
  BY <1>0, <1>2 DEF TypeOK
<1>4. \A d \in Callers : mine[d] = inFlight[b] => asked[d] = b
  BY <1>0, <1>2 DEF Shared
<1>5. TypeOK'
  BY <1>0, <1>1, <1>3 DEF TypeOK
<1>6. Holding'
  BY <1>0, <1>3, PHPInfoAssumption DEF TypeOK, Holding
<1>7. Shared'
  BY <1>0, <1>3, <1>4, PHPInfoAssumption DEF TypeOK, Shared
<1>8. InTable'
  BY <1>0 DEF TypeOK, InTable
<1>9. Filled'
  BY <1>0, <1>2, PHPInfoAssumption DEF TypeOK, Filled, Holding
<1>10. Fresh'
  <2>1. mine[c] = NoCall
    BY <1>0 DEF Holding
  <2> QED BY <1>0, <2>1, PHPInfoAssumption DEF TypeOK, Fresh
<1>11. CacheRight'
  BY <1>0 DEF CacheRight
<1>12. AnswerForBinary'
  BY <1>0 DEF TypeOK, AnswerForBinary
<1> QED BY <1>5, <1>6, <1>7, <1>8, <1>9, <1>10, <1>11, <1>12

\* A caller that leads holds a call nobody else does.
LEMMA LeadIInv ==
    ASSUME IInv, NEW c \in Callers, NEW b \in Binaries, Lead(c, b)
    PROVE  IInv'
<1> USE DEF IInv
<1>0. PICK k \in Calls :
         /\ \A d \in Callers : mine[d] # k
         /\ pc[c] = "idle" /\ inFlight[b] = NoCall
         /\ inFlight' = [inFlight EXCEPT ![b] = k]
         /\ mine' = [mine EXCEPT ![c] = k]
         /\ asked' = [asked EXCEPT ![c] = b]
         /\ pc' = [pc EXCEPT ![c] = "forking"]
         /\ answer' = [answer EXCEPT ![c] = Unset]
         /\ UNCHANGED <<cache, calls>>
  BY DEF Lead, Begin
<1>1. ctxDone' \in [Callers -> BOOLEAN]
  <2>1. ctxDone' = [ctxDone EXCEPT ![c] = FALSE] /\ ctxDone \in [Callers -> BOOLEAN]
    BY DEF TypeOK, Lead, Begin
  <2> QED BY <2>1, Zenon
<1>2. k # NoCall /\ mine[c] = NoCall /\ calls[k].res = Unset
  BY <1>0, PHPInfoAssumption DEF Holding, Fresh
<1>3. TypeOK'
  <2>1. ASSUME NEW x \in Binaries, inFlight'[x] # NoCall
        PROVE  \E e \in Callers : /\ mine'[e] = inFlight'[x] /\ asked'[e] = x
                                  /\ pc'[e] \in {"forking", "publish"}
    <3>1. CASE x = b
      BY <1>0, <3>1 DEF TypeOK
    <3>2. CASE x # b
      BY <1>0, <2>1, <3>2 DEF TypeOK
    <3> QED BY <3>1, <3>2
  <2>2. /\ inFlight' \in [Binaries -> Calls \cup {NoCall}]
        /\ pc' \in [Callers -> {"idle", "waiting", "forking", "publish",
                                "closing", "closed"}]
        /\ asked' \in [Callers -> Binaries \cup {NoBinary}]
        /\ mine' \in [Callers -> Calls \cup {NoCall}]
        /\ answer' \in [Callers -> Result \cup {Unset, OwnDeadline}]
    BY <1>0 DEF TypeOK
  <2> QED BY <1>0, <1>1, <2>1, <2>2 DEF TypeOK
<1>4. Holding'
  BY <1>0, <1>2 DEF TypeOK, Holding
<1>5. Shared'
  BY <1>0, <1>2 DEF TypeOK, Shared
<1>6. InTable'
  <2>1. \A d \in Callers : pc[d] \in {"forking", "publish"} =>
            asked[d] # b /\ asked[d] \in Binaries /\ inFlight[asked[d]] = mine[d]
    BY <1>0 DEF TypeOK, InTable, Holding
  <2> QED BY <1>0, <2>1 DEF TypeOK, InTable
<1>7. Filled'
  BY <1>0, <1>2 DEF TypeOK, Filled
<1>8. Fresh'
  BY <1>0, <1>2, PHPInfoAssumption DEF TypeOK, Fresh
<1>9. CacheRight'
  BY <1>0 DEF CacheRight
<1>10. AnswerForBinary'
  BY <1>0 DEF TypeOK, AnswerForBinary
<1> QED BY <1>3, <1>4, <1>5, <1>6, <1>7, <1>8, <1>9, <1>10

-----------------------------------------------------------------------------

\* A leader's call: whoever else holds it waits, for the same binary.
LEMMA LeadersCall ==
    ASSUME IInv, NEW c \in Callers, Leading(c)
    PROVE  /\ mine[c] \in Calls /\ asked[c] \in Binaries
           /\ \A d \in Callers : mine[d] = mine[c] =>
                 asked[d] = asked[c] /\ (d # c => pc[d] = "waiting")
<1>1. mine[c] \in Calls /\ asked[c] \in Binaries
  BY DEF IInv, TypeOK, Holding
<1>2. ASSUME NEW d \in Callers, mine[d] = mine[c]
      PROVE  asked[d] = asked[c] /\ (d # c => pc[d] = "waiting")
  BY <1>1, <1>2, PHPInfoAssumption DEF IInv, TypeOK, Holding, Shared
<1> QED BY <1>1, <1>2

LEMMA ReadIInv ==
    ASSUME IInv, NEW c \in Callers, NEW kind \in {"info", "error", "cut"}, Read(c, kind)
    PROVE  IInv'
<1> USE DEF IInv
<1> DEFINE r == [bin |-> asked[c], kind |-> kind]
<1>0. /\ pc[c] = "forking" /\ pc' = [pc EXCEPT ![c] = "publish"]
      /\ calls' = [calls EXCEPT ![mine[c]].res = r]
      /\ UNCHANGED <<cache, inFlight, asked, mine, ctxDone, answer>>
  BY DEF Read
<1>1. /\ mine[c] \in Calls /\ asked[c] \in Binaries
      /\ \A d \in Callers : mine[d] = mine[c] =>
            asked[d] = asked[c] /\ (d # c => pc[d] = "waiting")
  BY <1>0, LeadersCall
<1>2. r \in Result /\ r # Unset /\ r.bin = asked[c]
  BY <1>1, PHPInfoAssumption DEF Result, Unset
<1> HIDE DEF r
<1>3. /\ calls' \in [Calls -> [res : Result \cup {Unset}, done : BOOLEAN]]
      /\ calls'[mine[c]].res = r
      /\ \A k \in Calls : calls'[k].done = calls[k].done
      /\ \A k \in Calls : k # mine[c] => calls'[k] = calls[k]
  BY <1>0, <1>1, <1>2 DEF TypeOK
<1>4. TypeOK'
  BY <1>0, <1>3 DEF TypeOK
<1>5. Holding' /\ Shared' /\ InTable'
  BY <1>0 DEF TypeOK, Holding, Shared, InTable
<1>6. Filled'
  BY <1>0, <1>1, <1>2, <1>3, PHPInfoAssumption DEF TypeOK, Filled, Holding
<1>7. Fresh'
  BY <1>0, <1>3 DEF Fresh
<1>8. CacheRight' /\ AnswerForBinary'
  BY <1>0 DEF TypeOK, CacheRight, AnswerForBinary
<1> QED BY <1>4, <1>5, <1>6, <1>7, <1>8

LEMMA PublishIInv == ASSUME IInv, NEW c \in Callers, Publish(c) PROVE IInv'
<1> USE DEF IInv
<1>0. /\ pc[c] = "publish" /\ pc' = [pc EXCEPT ![c] = "closing"]
      /\ cache' = [cache EXCEPT ![asked[c]] = calls[mine[c]].res]
      /\ inFlight' = [inFlight EXCEPT ![asked[c]] = NoCall]
      /\ UNCHANGED <<calls, asked, mine, ctxDone, answer>>
  BY DEF Publish
<1>1. /\ mine[c] \in Calls /\ asked[c] \in Binaries
      /\ \A d \in Callers : mine[d] = mine[c] =>
            asked[d] = asked[c] /\ (d # c => pc[d] = "waiting")
  BY <1>0, LeadersCall
<1>2. calls[mine[c]].res \in Result /\ calls[mine[c]].res.bin = asked[c]
  BY <1>0, <1>1 DEF TypeOK, Filled
<1>3. \A d \in Callers : d # c /\ pc[d] \in {"forking", "publish"} => asked[d] # asked[c]
  BY <1>0, <1>1 DEF InTable
<1>4. TypeOK'
  BY <1>0, <1>1, <1>2, <1>3 DEF TypeOK
<1>5. Holding' /\ Shared'
  BY <1>0 DEF TypeOK, Holding, Shared
<1>6. InTable'
  <2>1. \A d \in Callers : d # c /\ pc[d] \in {"forking", "publish"} =>
            asked[d] \in Binaries
    BY DEF Holding
  <2> QED BY <1>0, <1>3, <2>1 DEF TypeOK, InTable
<1>7. Filled' /\ Fresh'
  BY <1>0 DEF TypeOK, Filled, Fresh
<1>8. CacheRight'
  BY <1>0, <1>1, <1>2 DEF TypeOK, CacheRight
<1>9. AnswerForBinary'
  BY <1>0 DEF TypeOK, AnswerForBinary
<1> QED BY <1>4, <1>5, <1>6, <1>7, <1>8, <1>9

LEMMA CloseIInv == ASSUME IInv, NEW c \in Callers, Close(c) PROVE IInv'
<1> USE DEF IInv
<1>0. /\ pc[c] = "closing" /\ pc' = [pc EXCEPT ![c] = "closed"]
      /\ calls' = [calls EXCEPT ![mine[c]].done = TRUE]
      /\ UNCHANGED <<cache, inFlight, asked, mine, ctxDone, answer>>
  BY DEF Close
<1>1. mine[c] \in Calls
  BY <1>0, LeadersCall
<1>2. calls' \in [Calls -> [res : Result \cup {Unset}, done : BOOLEAN]]
  <2>1. /\ calls' = [calls EXCEPT ![mine[c]].done = TRUE]
        /\ calls \in [Calls -> [res : Result \cup {Unset}, done : BOOLEAN]]
    BY <1>0 DEF TypeOK
  <2> QED BY <1>1, <2>1
<1>3. /\ \A k \in Calls : calls'[k].res = calls[k].res
      /\ \A k \in Calls : k # mine[c] => calls'[k] = calls[k]
  BY <1>0, <1>1 DEF TypeOK
<1>4. TypeOK'
  BY <1>0, <1>2 DEF TypeOK
<1>5. Holding' /\ Shared' /\ InTable'
  BY <1>0 DEF TypeOK, Holding, Shared, InTable
<1>6. Filled'
  BY <1>0, <1>1, <1>3, PHPInfoAssumption DEF TypeOK, Filled, Holding
<1>7. Fresh'
  BY <1>0, <1>3 DEF Fresh
<1>8. CacheRight' /\ AnswerForBinary'
  BY <1>0 DEF TypeOK, CacheRight, AnswerForBinary
<1> QED BY <1>4, <1>5, <1>6, <1>7, <1>8

-----------------------------------------------------------------------------

LEMMA CtxEndsIInv == ASSUME IInv, NEW c \in Callers, CtxEnds(c) PROVE IInv'
<1>1. ctxDone' \in [Callers -> BOOLEAN]
  <2>1. ctxDone' = [ctxDone EXCEPT ![c] = TRUE] /\ ctxDone \in [Callers -> BOOLEAN]
    BY DEF IInv, TypeOK, CtxEnds
  <2> QED BY <2>1, Zenon
<1> QED BY <1>1 DEF IInv, CtxEnds, TypeOK, Holding, Shared, InTable, Filled,
                    Fresh, CacheRight, AnswerForBinary

LEMMA ExpireIInv == ASSUME IInv, NEW b \in Binaries, Expire(b) PROVE IInv'
BY DEF IInv, Expire, TypeOK, Holding, Shared, InTable, Filled, Fresh,
       CacheRight, AnswerForBinary

LEMMA StepIInv == ASSUME IInv, [Next]_vars PROVE IInv'
<1>1. ASSUME NEW c \in Callers, NEW b \in Binaries,
             Hit(c, b) \/ Join(c, b) \/ Lead(c, b)
      PROVE  IInv'
  BY <1>1, HitIInv, JoinIInv, LeadIInv
<1>2. ASSUME NEW c \in Callers, NEW kind \in {"info", "error", "cut"}, Read(c, kind)
      PROVE  IInv'
  BY <1>2, ReadIInv
<1>3. ASSUME NEW c \in Callers, Finishes(c) \/ Waits(c) \/ CtxEnds(c) PROVE IInv'
  BY <1>3, PublishIInv, CloseIInv, LeadReturnsIInv, WaitDoneIInv, WaitCtxIInv,
     CtxEndsIInv DEF Finishes, Waits
<1>4. ASSUME NEW b \in Binaries, Expire(b) PROVE IInv'
  BY <1>4, ExpireIInv
<1>5. CASE UNCHANGED vars
  BY <1>5 DEF vars, IInv, TypeOK, Holding, Shared, InTable, Filled, Fresh,
              CacheRight, AnswerForBinary
<1> QED BY <1>1, <1>2, <1>3, <1>4, <1>5 DEF Next

\* The invariant behind the two properties: every phpInfoCall of info.go has one
\* leader and is about one binary, from the moment it is in the table until the
\* last caller has let go of it.
THEOREM Coalesced == Spec => []IInv
BY InitIInv, StepIInv, PTL DEF Spec

\* The variables of GetPHPStats keep their types, and no lookup stays in
\* phpInfoInFlight without a caller that is forking for it.
THEOREM TypeCorrect == Spec => []TypeOK
<1>1. IInv => TypeOK
  BY DEF IInv
<1> QED BY <1>1, Coalesced, PTL

\* Whatever callers miss the cache in the same instant, phpInfoInFlight lets one
\* of them fork a binary: there are never two readPHPInfo of it.
THEOREM OneForkHolds == Spec => []OneFork
<1>1. IInv => OneFork
  <2> SUFFICES ASSUME IInv, NEW c \in Callers, NEW d \in Callers,
                      pc[c] = "forking", pc[d] = "forking", asked[c] = asked[d]
               PROVE  c = d
    BY DEF OneFork
  <2>1. mine[c] = mine[d] /\ mine[c] # NoCall
    BY DEF IInv, InTable, Holding
  <2> QED BY <2>1 DEF IInv, Shared
<1> QED BY <1>1, Coalesced, PTL

\* GetPHPStats tells nobody about another binary, nor hands out a result before
\* its leader has filled it in, though waiters read the call without the lock.
THEOREM AnswerForBinaryHolds == Spec => []AnswerForBinary
<1>1. IInv => AnswerForBinary
  BY DEF IInv
<1> QED BY <1>1, Coalesced, PTL

=============================================================================
