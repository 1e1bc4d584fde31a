----------------------------- MODULE ScrapeProofs ----------------------------
(***************************************************************************)
(* For any number of targets, slots and processors, ScrapeAll's semaphore  *)
(* and wait group count what they are there to count, and the batch that   *)
(* is returned has one whole outcome per target.                           *)
(*                                                                         *)
(* The properties speak of the returned batch; the invariant says what is  *)
(* true of a goroutine at every stage of its scrape.  Counted is the heart *)
(* of it: used and wg are the sizes of two sets of goroutines, so that     *)
(* wg.Wait returning means that every one of them is over.                 *)
(***************************************************************************)
EXTENDS Scrape, FiniteSetTheorems, TLAPS

AtWork == {i \in Targets : pc[i] \in HoldsSlot}
Started == {i \in Targets : pc[i] \notin {"unborn", "over"}}

Counted == used = Cardinality(AtWork) /\ wg = Cardinality(Started)

Spawned == \A i \in Targets : pc[i] = "unborn" <=> i >= next

Ended == {"record", "release", "finishing", "over"}

\* An outcome is labelled as soon as the scrape begins, has a pool from the
\* status page on, and an error exactly if it ended without one.
Shaped ==
    \A i \in Targets :
        /\ pc[i] \notin {"unborn", "waiting"} =>
              /\ out[i].socket = i
              /\ Asked[i] # NoName => out[i].name = Asked[i]
        /\ pc[i] \in {"unborn", "waiting", "status"} =>
              ~out[i].err /\ out[i].pool = NoName
        /\ pc[i] \in {"config", "info", "opcache"} =>
              ~out[i].err /\ out[i].pool # NoName
        /\ pc[i] \in Ended => (out[i].err <=> out[i].pool = NoName)

\* The settings are what matching made of the pool and the sections, and there
\* are none before the configuration was read.
Settled ==
    \A i \in Targets :
        /\ IsFiniteSet(out[i].sections)
        /\ out[i].config \in Match(out[i].pool, out[i].sections)
        /\ pc[i] \in {"unborn", "waiting", "status", "config"} => out[i].sections = {}

Written ==
    \A i \in Targets : pc[i] \in {"release", "finishing", "over"} => outcomes[i] = out[i]

Answered ==
    answer # "none" =>
        /\ \A i \in Targets : pc[i] = "over"
        /\ answer = "error" <=> (N > 0 /\ \A i \in Targets : outcomes[i].err)

IInv == TypeOK /\ Counted /\ Spawned /\ Shaped /\ Settled /\ Written /\ Answered

-----------------------------------------------------------------------------
(* Facts about the operators *)

\* The channel's capacity is a number, and none of it is needed without targets.
LEMMA SlotsType == Slots \in Nat
<1> DEFINE m == Max({MinSlots, NumCPU})
<1>1. m \in Nat
  <2>1. \E x \in {MinSlots, NumCPU} : \A y \in {MinSlots, NumCPU} : x >= y
    BY ScrapeAssumption
  <2>2. m \in {MinSlots, NumCPU}
    BY <2>1 DEF Max
  <2> QED BY <2>2, ScrapeAssumption
<1> HIDE DEF m
<1>2. \E x \in {N, m} : \A y \in {N, m} : x =< y
  BY <1>1, ScrapeAssumption
<1>3. Min({N, m}) \in {N, m}
  BY <1>2 DEF Min
<1>4. Min({N, m}) \in Nat
  BY <1>1, <1>3, ScrapeAssumption
<1> QED BY <1>4 DEF Slots, m

\* Matching a reported pool with a configuration's sections is a function: the
\* choice it leaves is a choice of one.
LEMMA MatchOne ==
    ASSUME NEW pool, NEW sections, IsFiniteSet(sections)
    PROVE  /\ \A x, y \in Match(pool, sections) : x = y
           /\ pool \in sections => Match(pool, sections) = {pool}
           /\ sections = {} => Match(pool, sections) = {NoName}
           /\ Match(pool, sections) \subseteq sections \cup {NoName}
<1> DEFINE same == {s \in sections : Fold[s] = Fold[pool]}
<1>1. IsFiniteSet(same)
  BY FS_Subset
<1>2. CASE pool \in sections
  BY <1>2 DEF Match
<1>3. CASE pool \notin sections /\ Cardinality(same) = 1
  <2>1. Match(pool, sections) = same
    BY <1>3 DEF Match
  <2>2. PICK x : same = {x}
    BY <1>1, <1>3, FS_Singleton
  <2> QED BY <1>3, <2>1, <2>2
<1>4. CASE pool \notin sections /\ Cardinality(same) # 1
  BY <1>4 DEF Match
<1> QED BY <1>2, <1>3, <1>4

LEMMA TargetsFinite ==
    ASSUME NEW S \in SUBSET Targets
    PROVE  IsFiniteSet(S) /\ Cardinality(S) \in Nat /\ Cardinality(S) <= N
<1>1. IsFiniteSet(Targets) /\ Cardinality(Targets) = N
  BY FS_Interval, ScrapeAssumption DEF Targets
<1>2. IsFiniteSet(S) /\ Cardinality(S) <= N
  BY <1>1, FS_Subset
<1> QED BY <1>2, FS_CardinalityType

-----------------------------------------------------------------------------
(* How the counts follow a goroutine that goes from one place to the next *)

LEMMA AtWorkMoves ==
    ASSUME TypeOK, NEW i \in Targets, NEW to, pc' = [pc EXCEPT ![i] = to]
    PROVE  /\ to \in HoldsSlot => AtWork' = AtWork \cup {i}
           /\ to \notin HoldsSlot => AtWork' = AtWork \ {i}
           /\ to \notin {"unborn", "over"} => Started' = Started \cup {i}
           /\ to \in {"unborn", "over"} => Started' = Started \ {i}
BY DEF TypeOK, AtWork, Started

LEMMA CountsStay ==
    ASSUME TypeOK, Counted, NEW i \in Targets, NEW to, pc' = [pc EXCEPT ![i] = to],
           pc[i] \in HoldsSlot <=> to \in HoldsSlot,
           pc[i] \notin {"unborn", "over"} <=> to \notin {"unborn", "over"},
           UNCHANGED <<used, wg>>
    PROVE  Counted'
<1>1. AtWork' = AtWork /\ Started' = Started
  BY AtWorkMoves DEF AtWork, Started
<1> QED BY <1>1 DEF Counted

-----------------------------------------------------------------------------

LEMMA ZeroType == Zero \in PoolOutcome
<1>1. FALSE \in BOOLEAN
  BY Zenon
<1> QED BY <1>1, ScrapeAssumption DEF Zero, PoolOutcome

LEMMA InitIInv == Init => IInv
<1> SUFFICES ASSUME Init PROVE IInv
  OBVIOUS
<1>1. timedOut \in [Targets -> BOOLEAN] /\ stray \in [Targets -> BOOLEAN]
      /\ cancelled \in BOOLEAN
  BY Zenon DEF Init
<1>2. next \in 1..(N + 1) /\ wg \in 0..N /\ used \in 0..Slots
  BY SlotsType, ScrapeAssumption DEF Init
<1>3. TypeOK
  BY <1>1, <1>2, ZeroType DEF Init, TypeOK
<1>4. Counted
  <2>1. AtWork = {} /\ Started = {}
    BY DEF Init, AtWork, Started, HoldsSlot, Scraping
  <2> QED BY <2>1, FS_EmptySet DEF Init, Counted
<1>5. Spawned
  BY ScrapeAssumption DEF Init, Spawned, Targets
<1>6. Shaped
  BY DEF Init, Shaped, Zero, Ended
<1>7. Settled
  <2>1. IsFiniteSet({}) /\ Match(NoName, {}) = {NoName}
    BY MatchOne, FS_EmptySet
  <2> QED BY <2>1 DEF Init, Settled, Zero
<1>8. Written /\ Answered
  BY DEF Init, Written, Answered
<1> QED BY <1>3, <1>4, <1>5, <1>6, <1>7, <1>8 DEF IInv

LEMMA SpawnIInv == ASSUME IInv, Spawn PROVE IInv'
<1> USE DEF IInv
<1>0. /\ next \in Targets /\ next' = next + 1 /\ wg' = wg + 1
      /\ pc[next] = "unborn" /\ pc' = [pc EXCEPT ![next] = "waiting"]
      /\ UNCHANGED <<used, out, outcomes, timedOut, cancelled, stray, answer>>
  BY ScrapeAssumption DEF Spawn, Go, TypeOK, Targets
<1>1. Counted'
  <2>0. "waiting" \notin HoldsSlot /\ "waiting" \notin {"unborn", "over"}
    BY DEF HoldsSlot, Scraping
  <2>1. AtWork' = AtWork \ {next} /\ Started' = Started \cup {next}
    BY <1>0, <2>0, AtWorkMoves
  <2>2. next \notin AtWork /\ next \notin Started
    BY <1>0 DEF AtWork, Started, HoldsSlot, Scraping
  <2>3. IsFiniteSet(Started)
    BY TargetsFinite DEF Started
  <2>4. Cardinality(Started \cup {next}) = Cardinality(Started) + 1
    BY <2>2, <2>3, FS_AddElement
  <2>5. AtWork' = AtWork
    BY <2>1, <2>2
  <2> QED BY <1>0, <2>1, <2>4, <2>5 DEF Counted
<1>2. wg' \in 0..N
  BY <1>1, TargetsFinite, ScrapeAssumption DEF Counted, Started
<1>3. TypeOK'
  BY <1>0, <1>2, ScrapeAssumption DEF TypeOK, Targets
<1>4. Spawned'
  <2>1. \A i \in Targets : i \in Int
    BY DEF Targets
  <2>2. next \in Int
    BY <1>0, <2>1
  <2>3. \A i \in Targets : i >= next + 1 <=> i >= next /\ i # next
    BY <2>1, <2>2
  <2> QED BY <1>0, <2>3 DEF TypeOK, Spawned
<1>5. Shaped' /\ Settled' /\ Written'
  BY <1>0 DEF TypeOK, Shaped, Settled, Written, Ended
<1>6. Answered'
  BY <1>0 DEF Answered
<1> QED BY <1>1, <1>3, <1>4, <1>5, <1>6

\* wg.Wait returns only when every target was given a goroutine and all are over.
LEMMA WaitIInv == ASSUME IInv, Wait PROVE IInv'
<1> USE DEF IInv
<1>0. /\ next > N /\ wg = 0
      /\ answer' = IF N > 0 /\ \A i \in Targets : outcomes[i].err THEN "error" ELSE "ok"
      /\ UNCHANGED <<next, wg, used, pc, out, outcomes, timedOut, cancelled, stray>>
  BY DEF Wait
<1>1. \A i \in Targets : pc[i] = "over"
  <2>1. Started = {}
    BY <1>0, TargetsFinite, FS_EmptySet DEF Counted, Started
  <2>2. \A i \in Targets : ~(i >= next)
    BY <1>0, ScrapeAssumption DEF TypeOK, Targets
  <2> QED BY <2>1, <2>2 DEF Started, Spawned
<1>2. TypeOK' /\ Spawned' /\ Shaped' /\ Settled' /\ Written'
  BY <1>0 DEF TypeOK, Spawned, Shaped, Settled, Written
<1>3. Counted'
  BY <1>0 DEF Counted, AtWork, Started
<1>4. Answered'
  BY <1>0, <1>1 DEF Answered
<1> QED BY <1>2, <1>3, <1>4

\* A goroutine has not ended while ScrapeAll has not returned.
LEMMA StillRunning ==
    ASSUME IInv, NEW i \in Targets, pc[i] # "over" PROVE answer = "none"
BY DEF IInv, Answered

LEMMA TakeSlotIInv == ASSUME IInv, NEW i \in Targets, TakeSlot(i) PROVE IInv'
<1> USE DEF IInv
<1> DEFINE o == [Zero EXCEPT !.socket = i, !.name = Asked[i]]
<1>0. /\ used < Slots /\ used' = used + 1
      /\ pc[i] = "waiting" /\ pc' = [pc EXCEPT ![i] = "status"]
      /\ out' = [out EXCEPT ![i] = o]
      /\ UNCHANGED <<next, wg, outcomes, timedOut, cancelled, stray, answer>>
  BY DEF TakeSlot, Labelled, Go
<1>1. /\ o \in PoolOutcome
      /\ o.socket = i /\ o.name = Asked[i] /\ o.err = FALSE /\ o.pool = NoName
      /\ o.sections = {} /\ o.config = NoName
  <2>1. i \in 0..N /\ Asked[i] \in Names \cup {NoName}
    BY ScrapeAssumption DEF Targets
  <2>2. /\ o \in PoolOutcome /\ o.socket = i /\ o.name = Asked[i] /\ o.err = Zero.err
        /\ o.pool = Zero.pool /\ o.sections = Zero.sections /\ o.config = Zero.config
    BY <2>1, ZeroType DEF PoolOutcome
  <2>3. Zero.err = FALSE
    BY Zenon DEF Zero
  <2>4. Zero.pool = NoName /\ Zero.sections = {} /\ Zero.config = NoName
    BY DEF Zero
  <2> QED BY <2>2, <2>3, <2>4
<1> HIDE DEF o
<1>2. Counted'
  <2>0. "status" \in HoldsSlot /\ "status" \notin {"unborn", "over"}
    BY DEF HoldsSlot, Scraping
  <2>1. AtWork' = AtWork \cup {i} /\ Started' = Started \cup {i}
    BY <1>0, <2>0, AtWorkMoves
  <2>2. i \notin AtWork /\ i \in Started
    BY <1>0 DEF AtWork, Started, HoldsSlot, Scraping
  <2>3. IsFiniteSet(AtWork)
    BY TargetsFinite DEF AtWork
  <2>4. Cardinality(AtWork \cup {i}) = Cardinality(AtWork) + 1
    BY <2>2, <2>3, FS_AddElement
  <2>5. Started' = Started
    BY <2>1, <2>2
  <2> QED BY <1>0, <2>1, <2>4, <2>5 DEF Counted
<1>3. TypeOK'
  <2>1. used' \in 0..Slots
    BY <1>0, SlotsType DEF TypeOK
  <2> QED BY <1>0, <1>1, <2>1 DEF TypeOK, HoldsSlot, Scraping
<1>4. Spawned' /\ Written'
  BY <1>0 DEF TypeOK, Spawned, Written
<1>5. Shaped'
  BY <1>0, <1>1 DEF TypeOK, Shaped, Ended
<1>6. Settled'
  <2>1. IsFiniteSet({}) /\ Match(NoName, {}) = {NoName}
    BY MatchOne, FS_EmptySet
  <2> QED BY <1>0, <1>1, <2>1 DEF TypeOK, Settled
<1>7. Answered'
  BY <1>0, StillRunning DEF Answered
<1> QED BY <1>2, <1>3, <1>4, <1>5, <1>6, <1>7

-----------------------------------------------------------------------------
(* Inside scrape *)

\* An outcome fit for the stage a goroutine goes to.
Fit(i, o, to) ==
    /\ o \in PoolOutcome
    /\ o.socket = i
    /\ Asked[i] # NoName => o.name = Asked[i]
    /\ to # "record" => ~o.err /\ o.pool # NoName
    /\ to = "record" => (o.err <=> o.pool = NoName)
    /\ IsFiniteSet(o.sections)
    /\ o.config \in Match(o.pool, o.sections)
    /\ to = "config" => o.sections = {}

\* A stage that leaves behind an outcome fit for the next keeps the invariant.
LEMMA StageIInv ==
    ASSUME IInv, NEW i \in Targets, NEW from \in Scraping,
           NEW to \in {"config", "info", "opcache", "record"}, Stage(i, from, to),
           NEW o, Fit(i, o, to), out' = [out EXCEPT ![i] = o]
    PROVE  IInv'
<1> USE DEF IInv, Fit
<1>0. /\ pc[i] = from /\ pc' = [pc EXCEPT ![i] = to]
      /\ timedOut' = [timedOut EXCEPT ![i] = timedOut[i] /\ to # "record"]
      /\ stray' = [stray EXCEPT ![i] = FALSE]
      /\ UNCHANGED <<next, wg, used, outcomes, cancelled, answer>>
  BY DEF Stage, Go
<1>1. timedOut' \in [Targets -> BOOLEAN] /\ stray' \in [Targets -> BOOLEAN]
  <2>1. timedOut \in [Targets -> BOOLEAN] /\ stray \in [Targets -> BOOLEAN]
    BY DEF TypeOK
  <2> QED BY <1>0, <2>1, Zenon
<1>2. TypeOK'
  <2>1. to \in HoldsSlot
    BY DEF HoldsSlot, Scraping
  <2> QED BY <1>0, <1>1, <2>1 DEF TypeOK
<1>3. Counted'
  <2>1. pc[i] \in HoldsSlot /\ to \in HoldsSlot
    BY <1>0 DEF HoldsSlot, Scraping
  <2>2. pc[i] \notin {"unborn", "over"} /\ to \notin {"unborn", "over"}
    BY <1>0 DEF Scraping
  <2> QED BY <1>0, <2>1, <2>2, CountsStay
<1>4. Spawned'
  BY <1>0 DEF TypeOK, Spawned, Scraping
<1>5. Shaped'
  BY <1>0 DEF TypeOK, Shaped, Ended
<1>6. Settled'
  BY <1>0 DEF TypeOK, Settled
<1>7. Written'
  BY <1>0 DEF TypeOK, Written
<1>8. Answered'
  BY <1>0, StillRunning DEF Answered, Scraping
<1> QED BY <1>2, <1>3, <1>4, <1>5, <1>6, <1>7, <1>8

\* What is known of the outcome a goroutine inside scrape is building.
LEMMA OutcomeSoFar ==
    ASSUME IInv, NEW i \in Targets, pc[i] \in Scraping
    PROVE  /\ out[i] \in PoolOutcome /\ out \in [Targets -> PoolOutcome]
           /\ out[i].socket = i /\ (Asked[i] # NoName => out[i].name = Asked[i])
           /\ ~out[i].err
           /\ out[i].pool = NoName <=> pc[i] = "status"
           /\ IsFiniteSet(out[i].sections)
           /\ out[i].config \in Match(out[i].pool, out[i].sections)
           /\ pc[i] \in {"status", "config"} =>
                 out[i].sections = {} /\ out[i].config = NoName
<1>1. out \in [Targets -> PoolOutcome] /\ out[i] \in PoolOutcome
  BY DEF IInv, TypeOK
<1>2. /\ out[i].socket = i /\ (Asked[i] # NoName => out[i].name = Asked[i])
      /\ ~out[i].err /\ (out[i].pool = NoName <=> pc[i] = "status")
  BY DEF IInv, Shaped, Scraping
<1>3. /\ IsFiniteSet(out[i].sections)
      /\ out[i].config \in Match(out[i].pool, out[i].sections)
      /\ pc[i] \in {"status", "config"} => out[i].sections = {}
  BY DEF IInv, Settled
<1> QED BY <1>1, <1>2, <1>3, MatchOne

\* readStatus fails, or brings a page of another pool: an error and no pool.
LEMMA StatusErrIInv ==
    ASSUME IInv, NEW i \in Targets, Stage(i, "status", "record"),
           out' = [out EXCEPT ![i].err = TRUE]
    PROVE  IInv'
<1> DEFINE o == [out[i] EXCEPT !.err = TRUE]
<1>0. "status" \in Scraping /\ pc[i] = "status"
  BY DEF Stage, Go, Scraping
<1>1. /\ o \in PoolOutcome /\ o.err
      /\ o.socket = out[i].socket /\ o.name = out[i].name /\ o.pool = out[i].pool
      /\ o.sections = out[i].sections /\ o.config = out[i].config
  <2>1. out[i] \in PoolOutcome
    BY <1>0, OutcomeSoFar
  <2>2. o.err
    BY <2>1, Zenon DEF PoolOutcome
  <2> QED BY <2>1, <2>2 DEF PoolOutcome
<1>2. out' = [out EXCEPT ![i] = o]
  OBVIOUS
<1> HIDE DEF o
<1>3. Fit(i, o, "record")
  BY <1>0, <1>1, OutcomeSoFar DEF Fit
<1> QED BY <1>0, <1>2, <1>3, StageIInv

LEMMA StatusArrivesIInv ==
    ASSUME IInv, NEW i \in Targets, NEW r \in Names \cup {NoName}, StatusArrives(i, r)
    PROVE  IInv'
<1>1. CASE /\ checkIsStatusFor(r, Asked[i])
           /\ Stage(i, "status", "config")
           /\ out' = [out EXCEPT ![i].pool = r]
  <2> DEFINE o == [out[i] EXCEPT !.pool = r]
  <2>0. "status" \in Scraping /\ pc[i] = "status" /\ r # NoName
    BY <1>1 DEF Stage, Go, Scraping, checkIsStatusFor
  <2>1. /\ o \in PoolOutcome /\ o.pool = r
        /\ o.socket = out[i].socket /\ o.name = out[i].name /\ o.err = out[i].err
        /\ o.sections = out[i].sections /\ o.config = out[i].config
    BY <2>0, OutcomeSoFar DEF PoolOutcome
  <2>2. out' = [out EXCEPT ![i] = o]
    BY <1>1
  <2> HIDE DEF o
  <2>3. IsFiniteSet({}) /\ Match(r, {}) = {NoName}
    BY FS_EmptySet, MatchOne
  <2>4. Fit(i, o, "config")
    BY <2>0, <2>1, <2>3, OutcomeSoFar DEF Fit
  <2> QED BY <1>1, <2>0, <2>2, <2>4, StageIInv
<1>2. CASE /\ Stage(i, "status", "record")
           /\ out' = [out EXCEPT ![i].err = TRUE]
  BY <1>2, StatusErrIInv
<1> QED BY <1>1, <1>2 DEF StatusArrives

LEMMA ConfigReadIInv ==
    ASSUME IInv, NEW i \in Targets, NEW sections \in Confs, ConfigRead(i, sections)
    PROVE  IInv'
<1>0. PICK s \in Match(out[i].pool, sections) :
         out' = [out EXCEPT ![i].sections = sections, ![i].config = s]
  BY DEF ConfigRead
<1>1. Stage(i, "config", "info") /\ "config" \in Scraping /\ pc[i] = "config"
  BY DEF ConfigRead, Stage, Go, Scraping
<1>2. sections \in SUBSET Names /\ IsFiniteSet(sections)
  BY ScrapeAssumption
<1>3. s \in Names \cup {NoName}
  BY <1>2, MatchOne
<1> DEFINE o == [out[i] EXCEPT !.sections = sections, !.config = s]
<1>4. /\ o \in PoolOutcome /\ o.sections = sections /\ o.config = s
      /\ o.socket = out[i].socket /\ o.name = out[i].name /\ o.err = out[i].err
      /\ o.pool = out[i].pool
  <2>1. out[i] \in PoolOutcome
    BY <1>1, OutcomeSoFar
  <2> QED BY <1>2, <1>3, <2>1 DEF PoolOutcome
<1>5. out' = [out EXCEPT ![i] = o]
  BY <1>0, <1>1, OutcomeSoFar
<1> HIDE DEF o
<1>6. Fit(i, o, "info")
  BY <1>0, <1>1, <1>2, <1>4, OutcomeSoFar DEF Fit
<1> QED BY <1>1, <1>5, <1>6, StageIInv

\* ConfigFails and PHPStats: a stage that leaves the outcome as it is.
LEMMA QuietStageIInv ==
    ASSUME IInv, NEW i \in Targets, ConfigFails(i) \/ PHPStats(i)
    PROVE  IInv'
<1>1. ASSUME NEW from \in {"config", "info"}, NEW to \in {"info", "opcache"},
             Stage(i, from, to), UNCHANGED out
      PROVE  IInv'
  <2>1. from \in Scraping /\ pc[i] = from
    BY <1>1 DEF Stage, Go, Scraping
  <2>2. out' = [out EXCEPT ![i] = out[i]]
    BY <1>1, <2>1, OutcomeSoFar
  <2>3. Fit(i, out[i], to)
    BY <2>1, OutcomeSoFar DEF Fit
  <2> QED BY <1>1, <2>1, <2>2, <2>3, StageIInv
<1> QED BY <1>1 DEF ConfigFails, PHPStats

LEMMA OpcacheIInv == ASSUME IInv, NEW i \in Targets, Opcache(i) PROVE IInv'
<1> DEFINE n == IF Asked[i] = NoName THEN out[i].pool ELSE Asked[i]
           o == [out[i] EXCEPT !.name = n]
<1>0. Stage(i, "opcache", "record") /\ "opcache" \in Scraping /\ pc[i] = "opcache"
  BY DEF Opcache, Stage, Go, Scraping
<1>1. n \in Names \cup {NoName} /\ (Asked[i] # NoName => n = Asked[i])
  BY <1>0, OutcomeSoFar, ScrapeAssumption DEF PoolOutcome
<1>2. out' = [out EXCEPT ![i] = o]
  BY DEF Opcache
<1> HIDE DEF n
<1>3. /\ o \in PoolOutcome /\ o.name = n
      /\ o.socket = out[i].socket /\ o.err = out[i].err /\ o.pool = out[i].pool
      /\ o.sections = out[i].sections /\ o.config = out[i].config
  BY <1>0, <1>1, OutcomeSoFar DEF PoolOutcome
<1> HIDE DEF o
<1>4. Fit(i, o, "record")
  BY <1>0, <1>1, <1>3, OutcomeSoFar DEF Fit
<1> QED BY <1>0, <1>2, <1>4, StageIInv

LEMMA StageEndsIInv == ASSUME IInv, NEW i \in Targets, StageEnds(i) PROVE IInv'
<1>1. CASE StatusFails(i)
  BY <1>1, StatusErrIInv DEF StatusFails
<1>2. ASSUME NEW r \in Names \cup {NoName}, StatusArrives(i, r) PROVE IInv'
  BY <1>2, StatusArrivesIInv
<1>3. ASSUME NEW s \in Confs, ConfigRead(i, s) PROVE IInv'
  BY <1>3, ConfigReadIInv
<1> QED BY <1>1, <1>2, <1>3, QuietStageIInv, OpcacheIInv DEF StageEnds

-----------------------------------------------------------------------------
(* The end of a goroutine *)

LEMMA RecordIInv == ASSUME IInv, NEW i \in Targets, Record(i) PROVE IInv'
<1> USE DEF IInv
<1>0. /\ pc[i] = "record" /\ pc' = [pc EXCEPT ![i] = "release"]
      /\ outcomes' = [outcomes EXCEPT ![i] = out[i]]
      /\ UNCHANGED <<next, wg, used, out, timedOut, cancelled, stray, answer>>
  BY DEF Record, Go
<1>1. TypeOK'
  BY <1>0 DEF TypeOK, HoldsSlot
<1>2. Counted'
  <2>1. "record" \in HoldsSlot /\ "release" \in HoldsSlot
    BY DEF HoldsSlot
  <2> QED BY <1>0, <2>1, CountsStay
<1>3. Spawned' /\ Shaped' /\ Settled' /\ Written'
  BY <1>0 DEF TypeOK, Spawned, Shaped, Settled, Written, Ended
<1>4. Answered'
  BY <1>0, StillRunning DEF Answered
<1> QED BY <1>1, <1>2, <1>3, <1>4

LEMMA ReleaseIInv == ASSUME IInv, NEW i \in Targets, Release(i) PROVE IInv'
<1> USE DEF IInv
<1>0. /\ pc[i] = "release" /\ pc' = [pc EXCEPT ![i] = "finishing"]
      /\ used' = used - 1
      /\ UNCHANGED <<next, wg, out, outcomes, timedOut, cancelled, stray, answer>>
  BY DEF Release, Go
<1>1. Counted'
  <2>0. "finishing" \notin HoldsSlot /\ "finishing" \notin {"unborn", "over"}
    BY DEF HoldsSlot, Scraping
  <2>1. AtWork' = AtWork \ {i} /\ Started' = Started \cup {i}
    BY <1>0, <2>0, AtWorkMoves
  <2>2. i \in AtWork /\ i \in Started
    BY <1>0 DEF AtWork, Started, HoldsSlot
  <2>3. IsFiniteSet(AtWork)
    BY TargetsFinite DEF AtWork
  <2>4. Cardinality(AtWork \ {i}) = Cardinality(AtWork) - 1
    BY <2>2, <2>3, FS_RemoveElement
  <2>5. Started' = Started
    BY <2>1, <2>2
  <2> QED BY <1>0, <2>1, <2>4, <2>5 DEF Counted
<1>2. used' \in 0..Slots
  <2>1. used' \in Nat
    BY <1>1, TargetsFinite DEF Counted, AtWork
  <2> QED BY <1>0, <2>1, SlotsType DEF TypeOK
<1>3. TypeOK'
  BY <1>0, <1>2 DEF TypeOK
<1>4. Spawned' /\ Shaped' /\ Settled' /\ Written'
  BY <1>0 DEF TypeOK, Spawned, Shaped, Settled, Written, Ended
<1>5. Answered'
  BY <1>0, StillRunning DEF Answered
<1> QED BY <1>1, <1>3, <1>4, <1>5

LEMMA DoneIInv == ASSUME IInv, NEW i \in Targets, Done(i) PROVE IInv'
<1> USE DEF IInv
<1>0. /\ pc[i] = "finishing" /\ pc' = [pc EXCEPT ![i] = "over"]
      /\ wg' = wg - 1
      /\ UNCHANGED <<next, used, out, outcomes, timedOut, cancelled, stray, answer>>
  BY DEF Done, Go
<1>1. Counted'
  <2>0. "over" \notin HoldsSlot /\ "finishing" \notin HoldsSlot
    BY DEF HoldsSlot, Scraping
  <2>1. AtWork' = AtWork \ {i} /\ Started' = Started \ {i}
    BY <1>0, <2>0, AtWorkMoves
  <2>2. i \notin AtWork /\ i \in Started
    BY <1>0, <2>0 DEF AtWork, Started
  <2>3. IsFiniteSet(Started)
    BY TargetsFinite DEF Started
  <2>4. Cardinality(Started \ {i}) = Cardinality(Started) - 1
    BY <2>2, <2>3, FS_RemoveElement
  <2>5. AtWork' = AtWork
    BY <2>1, <2>2
  <2> QED BY <1>0, <2>1, <2>4, <2>5 DEF Counted
<1>2. wg' \in 0..N
  BY <1>1, TargetsFinite, ScrapeAssumption DEF Counted, Started
<1>3. TypeOK'
  BY <1>0, <1>2 DEF TypeOK
<1>4. Spawned' /\ Shaped' /\ Settled' /\ Written'
  BY <1>0 DEF TypeOK, Spawned, Shaped, Settled, Written, Ended
<1>5. Answered'
  BY <1>0, StillRunning DEF Answered
<1> QED BY <1>1, <1>3, <1>4, <1>5

\* Timeouts, cancellation and stray processes disturb the types at most.
LEMMA EnvironmentIInv ==
    ASSUME IInv, Cancel \/ \E i \in Targets : TimeOut(i) \/ LeaveStray(i)
    PROVE  IInv'
<1>1. UNCHANGED <<next, wg, used, pc, out, outcomes, answer>>
  BY DEF Cancel, TimeOut, LeaveStray
<1>2. /\ timedOut' \in [Targets -> BOOLEAN] /\ stray' \in [Targets -> BOOLEAN]
      /\ cancelled' \in BOOLEAN
  <2>1. /\ timedOut \in [Targets -> BOOLEAN] /\ stray \in [Targets -> BOOLEAN]
        /\ cancelled \in BOOLEAN
    BY DEF IInv, TypeOK
  <2>2. CASE Cancel
    BY <2>1, <2>2, Zenon DEF Cancel
  <2>3. ASSUME NEW i \in Targets, TimeOut(i)
        PROVE  /\ timedOut' \in [Targets -> BOOLEAN] /\ stray' \in [Targets -> BOOLEAN]
               /\ cancelled' \in BOOLEAN
    <3>1. /\ timedOut' = [timedOut EXCEPT ![i] = TRUE] /\ stray' = stray
          /\ cancelled' = cancelled
      BY <2>3 DEF TimeOut
    <3> QED BY <2>1, <3>1, Zenon
  <2>4. ASSUME NEW i \in Targets, LeaveStray(i)
        PROVE  /\ timedOut' \in [Targets -> BOOLEAN] /\ stray' \in [Targets -> BOOLEAN]
               /\ cancelled' \in BOOLEAN
    <3>1. /\ stray' = [stray EXCEPT ![i] = TRUE] /\ timedOut' = timedOut
          /\ cancelled' = cancelled
      BY <2>4 DEF LeaveStray
    <3> QED BY <2>1, <3>1, Zenon
  <2> QED BY <2>2, <2>3, <2>4
<1>3. TypeOK'
  BY <1>1, <1>2 DEF IInv, TypeOK
<1> QED BY <1>1, <1>3 DEF IInv, Counted, AtWork, Started, Spawned, Shaped, Settled,
                          Written, Answered

LEMMA StepIInv == ASSUME IInv, [Next]_vars PROVE IInv'
<1>1. CASE Spawn \/ Wait
  BY <1>1, SpawnIInv, WaitIInv
<1>2. ASSUME NEW i \in Targets,
             \/ TakeSlot(i) \/ StageEnds(i) \/ Record(i) \/ Release(i) \/ Done(i)
      PROVE  IInv'
  BY <1>2, TakeSlotIInv, StageEndsIInv, RecordIInv, ReleaseIInv, DoneIInv
<1>3. CASE Cancel \/ \E i \in Targets : TimeOut(i) \/ LeaveStray(i)
  BY <1>3, EnvironmentIInv
<1>4. CASE UNCHANGED vars
  BY <1>4 DEF vars, IInv, TypeOK, Counted, AtWork, Started, Spawned, Shaped,
              Settled, Written, Answered
<1> QED BY <1>1, <1>2, <1>3, <1>4 DEF Next, Returned

-----------------------------------------------------------------------------

\* The invariant of a batch: at every moment ScrapeAll's semaphore and wait
\* group count the goroutines that hold a slot and those that are not over, and
\* every outcome is in the shape its stage of scrape calls for.
THEOREM Invariance == Spec => []IInv
BY InitIInv, StepIInv, PTL DEF Spec

\* The variables of ScrapeAll keep their types; in particular neither the
\* semaphore nor the wait group is released more often than it was taken.
THEOREM TypeCorrect == Spec => []TypeOK
<1>1. IInv => TypeOK
  BY DEF IInv
<1> QED BY <1>1, Invariance, PTL

\* Whatever order goroutines start, fail and end in, no more of them are past
\* the semaphore of ScrapeAll than it has slots.
THEOREM InFlightBoundedHolds == Spec => []InFlightBounded
<1>1. IInv => InFlightBounded
  BY SlotsType DEF IInv, TypeOK, Counted, AtWork, InFlightBounded
<1> QED BY <1>1, Invariance, PTL

\* The slice ScrapeAll returns has, at each target's index, that target's own
\* outcome, whole: with a result or with an error, and never with both or none.
THEOREM OneOutcomeEachHolds == Spec => []OneOutcomeEach
<1>1. IInv => OneOutcomeEach
  <2> SUFFICES ASSUME IInv, answer # "none", NEW i \in Targets
               PROVE  /\ outcomes[i].socket = i
                      /\ Asked[i] # NoName => outcomes[i].name = Asked[i]
                      /\ outcomes[i].err <=> outcomes[i].pool = NoName
    BY DEF OneOutcomeEach
  <2>1. pc[i] = "over" /\ outcomes[i] = out[i]
    BY DEF IInv, Answered, Written
  <2> QED BY <2>1 DEF IInv, Shaped, Ended
<1> QED BY <1>1, Invariance, PTL

\* ScrapeAll waits for every goroutine it started, and fails exactly when each
\* of them has failed.
THEOREM ErrorOnlyWhenNothingHolds == Spec => []ErrorOnlyWhenNothing
<1>1. IInv => ErrorOnlyWhenNothing
  <2> SUFFICES ASSUME IInv, answer # "none"
               PROVE  /\ \A i \in Targets : pc[i] = "over"
                      /\ answer = "error" <=> (N > 0 /\ \A i \in Targets : out[i].err)
    BY DEF ErrorOnlyWhenNothing
  <2>1. /\ \A i \in Targets : pc[i] = "over"
        /\ answer = "error" <=> (N > 0 /\ \A i \in Targets : outcomes[i].err)
    BY DEF IInv, Answered
  <2>2. \A i \in Targets : outcomes[i] = out[i]
    BY <2>1 DEF IInv, Written
  <2> QED BY <2>1, <2>2
<1> QED BY <1>1, Invariance, PTL

\* The section scrape takes a pool's settings from depends on the pool and on
\* the configuration alone: Go's random map order has no say in it.
THEOREM SettingsOfItsOwnHolds == Spec => []SettingsOfItsOwn
<1>1. IInv => SettingsOfItsOwn
  <2> SUFFICES ASSUME IInv, NEW i \in Targets, NEW j \in Targets
               PROVE  /\ out[i].pool \in out[i].sections => out[i].config = out[i].pool
                      /\ (out[i].pool = out[j].pool /\ out[i].sections = out[j].sections) =>
                            out[i].config = out[j].config
    BY DEF SettingsOfItsOwn
  <2>1. \A k \in {i, j} : /\ IsFiniteSet(out[k].sections)
                          /\ out[k].config \in Match(out[k].pool, out[k].sections)
    BY DEF IInv, Settled
  <2> QED BY <2>1, MatchOne
<1> QED BY <1>1, Invariance, PTL

-----------------------------------------------------------------------------
(* ScrapeAll keeps its promise *)

LEMMA InitBatch == Init => Batch!Init
BY DEF Init, Batch!Init, progress

\* A goroutine that moves on changes at most its own target's progress.
LEMMA ProgressMoves ==
    ASSUME TypeOK, NEW i \in Targets, NEW to, NEW p,
           pc' = [pc EXCEPT ![i] = to],
           \A j \in Targets : j # i => outcomes'[j] = outcomes[j],
           progress'[i] = p
    PROVE  progress' = [progress EXCEPT ![i] = p]
<1>1. \A j \in Targets : j # i => progress'[j] = progress[j]
  BY DEF TypeOK, progress
<1>2. \A j \in Targets : progress'[j] = [progress EXCEPT ![i] = p][j]
  BY <1>1 DEF progress
<1> QED BY <1>2, Zenon DEF progress

LEMMA TakeSlotBegins ==
    ASSUME IInv, NEW i \in Targets, TakeSlot(i) PROVE Batch!Begin(i)
<1> USE DEF IInv
<1>0. /\ used < Slots /\ pc[i] = "waiting" /\ pc' = [pc EXCEPT ![i] = "status"]
      /\ outcomes' = outcomes /\ answer' = answer
  BY DEF TakeSlot, Labelled, Go
<1>1. progress[i] = "todo" /\ progress'[i] = "working"
  BY <1>0 DEF TypeOK, progress, HoldsSlot, Scraping
<1>2. progress' = [progress EXCEPT ![i] = "working"]
  BY <1>0, <1>1, ProgressMoves
<1>3. Batch!Working = AtWork
  BY DEF Batch!Working, AtWork, progress, HoldsSlot, Scraping
<1>4. Batch!Cardinality(AtWork) = Cardinality(AtWork)
  BY DEF Batch!Cardinality, Cardinality
<1> QED BY <1>0, <1>1, <1>2, <1>3, <1>4 DEF Batch!Begin, Counted

LEMMA ReleaseEnds ==
    ASSUME IInv, NEW i \in Targets, Release(i) PROVE Batch!End(i)
<1> USE DEF IInv
<1>0. /\ pc[i] = "release" /\ pc' = [pc EXCEPT ![i] = "finishing"]
      /\ outcomes' = outcomes /\ answer' = answer
  BY DEF Release, Go
<1>1. progress[i] = "working"
  BY <1>0 DEF progress, HoldsSlot
<1>2. progress'[i] \in {"failed", "collected"}
  BY <1>0 DEF TypeOK, progress, HoldsSlot, Scraping
<1>3. progress' = [progress EXCEPT ![i] = progress'[i]]
  BY <1>0, ProgressMoves
<1> QED BY <1>0, <1>1, <1>2, <1>3 DEF Batch!End

LEMMA WaitReturns == ASSUME IInv, Wait PROVE Batch!Return
<1>0. /\ answer = "none" /\ answer' # "none" /\ UNCHANGED <<pc, outcomes>>
      /\ answer' = IF N > 0 /\ \A i \in Targets : outcomes[i].err THEN "error" ELSE "ok"
  BY DEF Wait
<1>1. \A i \in Targets : pc[i] = "over"
  BY <1>0, WaitIInv DEF IInv, Answered
<1>2. \A i \in Targets : progress[i] = IF outcomes[i].err THEN "failed" ELSE "collected"
  BY <1>1 DEF progress, HoldsSlot, Scraping
<1>3. Targets # {} <=> N > 0
  BY ScrapeAssumption DEF Targets
<1>4. progress' = progress
  BY <1>0 DEF progress
<1> QED BY <1>0, <1>2, <1>3, <1>4 DEF Batch!Return

\* What happens inside a scrape, before it and after it, the caller cannot see.
LEMMA InnerStutters ==
    ASSUME IInv, NEW i \in Targets,
           StageEnds(i) \/ Record(i) \/ Done(i) \/ TimeOut(i) \/ LeaveStray(i)
    PROVE  UNCHANGED Batch!vars
<1> USE DEF IInv
<1>1. CASE TimeOut(i) \/ LeaveStray(i)
  BY <1>1 DEF TimeOut, LeaveStray, Batch!vars, progress
<1>2. ASSUME NEW from \in HoldsSlot, NEW to \in HoldsSlot,
             pc[i] = from, pc' = [pc EXCEPT ![i] = to],
             \A j \in Targets : j # i => outcomes'[j] = outcomes[j]
      PROVE  progress' = progress
  <2>1. progress[i] = "working" /\ progress'[i] = "working"
    BY <1>2 DEF TypeOK, progress, HoldsSlot, Scraping
  <2>2. progress' = [progress EXCEPT ![i] = "working"]
    BY <1>2, <2>1, ProgressMoves
  <2> QED BY <2>1, <2>2 DEF progress
<1>3. CASE StageEnds(i)
  <2>1. PICK from \in Scraping, to \in HoldsSlot : Stage(i, from, to)
    BY <1>3 DEF StageEnds, StatusFails, StatusArrives, ConfigRead, ConfigFails,
                PHPStats, Opcache, HoldsSlot, Scraping
  <2>2. from \in HoldsSlot /\ pc[i] = from /\ pc' = [pc EXCEPT ![i] = to]
        /\ UNCHANGED <<outcomes, answer>>
    BY <2>1 DEF Stage, Go, HoldsSlot
  <2> QED BY <1>2, <2>2 DEF Batch!vars
<1>4. CASE Record(i)
  <2>1. /\ "record" \in HoldsSlot /\ "release" \in HoldsSlot /\ answer' = answer
        /\ pc[i] = "record" /\ pc' = [pc EXCEPT ![i] = "release"]
        /\ \A j \in Targets : j # i => outcomes'[j] = outcomes[j]
    BY <1>4 DEF Record, Go, HoldsSlot, TypeOK
  <2> QED BY <1>2, <2>1 DEF Batch!vars
<1>5. CASE Done(i)
  <2>1. /\ pc[i] = "finishing" /\ pc' = [pc EXCEPT ![i] = "over"]
        /\ outcomes' = outcomes /\ answer' = answer
    BY <1>5 DEF Done, Go
  <2>2. progress'[i] = progress[i]
    BY <2>1 DEF TypeOK, progress, HoldsSlot, Scraping
  <2>3. progress' = [progress EXCEPT ![i] = progress[i]]
    BY <2>1, <2>2, ProgressMoves
  <2> QED BY <2>1, <2>3 DEF Batch!vars, progress
<1> QED BY <1>1, <1>3, <1>4, <1>5

LEMMA SpawnStutters == ASSUME IInv, Spawn PROVE UNCHANGED Batch!vars
<1> USE DEF IInv
<1>1. /\ next \in Targets /\ pc[next] = "unborn"
      /\ pc' = [pc EXCEPT ![next] = "waiting"] /\ UNCHANGED <<outcomes, answer>>
  BY ScrapeAssumption DEF Spawn, Go, TypeOK, Targets
<1>2. progress[next] = "todo" /\ progress'[next] = "todo"
  BY <1>1 DEF TypeOK, progress
<1>3. progress' = [progress EXCEPT ![next] = "todo"]
  BY <1>1, <1>2, ProgressMoves
<1> QED BY <1>1, <1>2, <1>3 DEF Batch!vars, progress

LEMMA StepBatch == IInv /\ [Next]_vars => [Batch!Next]_(Batch!vars)
<1> SUFFICES ASSUME IInv, [Next]_vars PROVE Batch!Next \/ UNCHANGED Batch!vars
  OBVIOUS
<1>1. CASE Spawn
  BY <1>1, SpawnStutters
<1>2. CASE Wait
  BY <1>2, WaitReturns DEF Batch!Next
<1>3. ASSUME NEW i \in Targets, TakeSlot(i) \/ Release(i) PROVE Batch!Next
  BY <1>3, TakeSlotBegins, ReleaseEnds DEF Batch!Next
<1>4. ASSUME NEW i \in Targets,
             StageEnds(i) \/ Record(i) \/ Done(i) \/ TimeOut(i) \/ LeaveStray(i)
      PROVE  UNCHANGED Batch!vars
  BY <1>4, InnerStutters
<1>5. CASE Cancel
  BY <1>5 DEF Cancel, Batch!vars, progress
<1>6. CASE UNCHANGED vars
  BY <1>6 DEF vars, Batch!vars, progress
<1> QED BY <1>1, <1>2, <1>3, <1>4, <1>5, <1>6 DEF Next, Returned

\* For any number of targets, whatever order the goroutines of ScrapeAll run,
\* fail and are cut short in, the batch behaves as BatchPromise says.
THEOREM ImplementsBatch == Spec => BatchKept
BY InitBatch, StepBatch, Invariance, PTL DEF Spec, BatchKept, Batch!Spec

=============================================================================
