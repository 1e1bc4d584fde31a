-------------------------- MODULE WorkerMemoryProofs -------------------------
(***************************************************************************)
(* For any process table and any bound on the walk, subtreeRSS measures    *)
(* exactly the processes the snapshot puts below a worker, charges no      *)
(* worker for another's, and misses none of its own unless one exits.      *)
(*                                                                         *)
(* The walk is an iteration, so what it has left to do is an invariant     *)
(* about depths: every pid on the agenda is as deep as the agenda says and *)
(* no shallower, whatever order the calls are made in, because a process   *)
(* has one link.  What the reads of the snapshot are worth is a second     *)
(* invariant, about the host: pids the round knows keep their parents and  *)
(* their ancestry until one of them exits or is given out again.           *)
(***************************************************************************)
EXTENDS WorkerMemory, WellFoundedInduction, TLAPS

-----------------------------------------------------------------------------
(* Induction over the natural numbers, for sets *)

\* A set that holds 0 and, with a number, the next, holds every natural number.
LEMMA Induction ==
    ASSUME NEW S, 0 \in S, \A n \in Nat : n \in S => n + 1 \in S
    PROVE  Nat \subseteq S
<1> SUFFICES ASSUME Nat \ S # {} PROVE FALSE
  OBVIOUS
<1> DEFINE T == Nat \ S
<1>1. PICK m \in T : \A k \in T : ~(<<k, m>> \in OpToRel(<, Nat))
  BY NatLessThanWellFounded, WFMin
<1>2. \A k \in T : ~(k < m)
  BY <1>1 DEF OpToRel
<1>3. m # 0 /\ m - 1 \in Nat /\ m - 1 < m
  OBVIOUS
<1>4. m - 1 \in S
  BY <1>2, <1>3
<1>5. m \in S
  BY <1>3, <1>4
<1> QED BY <1>5

\* h is what comes of iterating F from x.
Iterates(h, D, F, x) ==
    h \in [Nat -> D] /\ h[0] = x /\ \A n \in Nat : h[n + 1] = F[h[n]]

\* A function can be iterated.
LEMMA Iteration ==
    ASSUME NEW D, NEW F \in [D -> D], NEW x \in D
    PROVE  \E h : Iterates(h, D, F, x)
<1> DEFINE Upto(g, n) == /\ g \in [0..n -> D] /\ g[0] = x
                         /\ \A i \in 0..n : i # 0 => g[i] = F[g[i - 1]]
<1>1. \A n \in Nat : \E g : Upto(g, n)
  <2> DEFINE S == {n \in Nat : \E g : Upto(g, n)}
  <2>1. 0 \in S
    <3>1. Upto([i \in 0..0 |-> x], 0)
      OBVIOUS
    <3> QED BY <3>1
  <2>2. ASSUME NEW n \in Nat, n \in S PROVE n + 1 \in S
    <3>1. PICK g : Upto(g, n)
      BY <2>2
    <3> DEFINE g1 == [i \in 0..(n + 1) |-> IF i <= n THEN g[i] ELSE F[g[n]]]
    <3>2. g1 \in [0..(n + 1) -> D] /\ g1[0] = x
      BY <3>1
    <3>3. ASSUME NEW i \in 0..(n + 1), i # 0 PROVE g1[i] = F[g1[i - 1]]
      BY <3>1, <3>3
    <3>4. Upto(g1, n + 1)
      BY <3>2, <3>3
    <3> QED BY <3>4
  <2> HIDE DEF S
  <2>3. Nat \subseteq S
    BY <2>1, <2>2, Induction
  <2> QED BY <2>3 DEF S
<1>2. ASSUME NEW n \in Nat, NEW m \in Nat, NEW g, NEW h, Upto(g, n), Upto(h, m),
             NEW i \in Nat, i <= n, i <= m
      PROVE  g[i] = h[i]
  <2> DEFINE S == {j \in Nat : j <= n /\ j <= m => g[j] = h[j]}
  <2>1. 0 \in S
    BY <1>2
  <2>2. ASSUME NEW j \in Nat, j \in S PROVE j + 1 \in S
    <3> SUFFICES ASSUME j + 1 <= n, j + 1 <= m PROVE g[j + 1] = h[j + 1]
      OBVIOUS
    <3>1. g[j] = h[j]
      BY <2>2
    <3>2. j + 1 \in 0..n /\ j + 1 \in 0..m /\ j + 1 # 0 /\ (j + 1) - 1 = j
      OBVIOUS
    <3>3. g[j + 1] = F[g[j]] /\ h[j + 1] = F[h[j]]
      BY <1>2, <3>2
    <3> QED BY <3>1, <3>3
  <2> HIDE DEF S
  <2>3. Nat \subseteq S
    BY <2>1, <2>2, Induction
  <2> QED BY <1>2, <2>3 DEF S
<1> DEFINE G(n) == CHOOSE g : Upto(g, n)
           h == [n \in Nat |-> G(n)[n]]
<1>3. \A n \in Nat : Upto(G(n), n)
  BY <1>1
<1> HIDE DEF G
<1>4. h \in [Nat -> D] /\ h[0] = x
  <2>1. \A n \in Nat : n \in 0..n
    OBVIOUS
  <2> QED BY <1>3, <2>1
<1>5. ASSUME NEW n \in Nat PROVE h[n + 1] = F[h[n]]
  <2>1. Upto(G(n), n) /\ Upto(G(n + 1), n + 1)
    BY <1>3
  <2>2. G(n + 1)[n + 1] = F[G(n + 1)[n]]
    <3>1. n + 1 \in 0..(n + 1) /\ n + 1 # 0 /\ (n + 1) - 1 = n
      OBVIOUS
    <3> QED BY <2>1, <3>1
  <2>3. G(n + 1)[n] = G(n)[n]
    <3>1. n + 1 \in Nat /\ n <= n /\ n <= n + 1
      OBVIOUS
    <3> HIDE DEF Upto
    <3> QED BY <1>2, <2>1, <3>1
  <2> QED BY <2>2, <2>3
<1> QED BY <1>4, <1>5 DEF Iterates

-----------------------------------------------------------------------------
(* The processes below another, by a table of parents *)

\* The recursion that defines Below has a solution, which Below is.
LEMMA BelowDef ==
    ASSUME NEW table, NEW top
    PROVE  /\ Below(table, top)[0] = {top}
           /\ \A n \in Nat : Below(table, top)[n + 1] =
                Below(table, top)[n] \cup {q \in Pids : table[q] \in Below(table, top)[n]}
           /\ \A n \in Nat : Below(table, top)[n] \subseteq Pids \cup {top}
<1> DEFINE D == SUBSET (Pids \cup {top})
           F == [X \in D |-> X \cup {q \in Pids : table[q] \in X}]
           Solves(f) == f = [n \in Nat |->
                               IF n = 0 THEN {top}
                               ELSE f[n - 1] \cup {q \in Pids : table[q] \in f[n - 1]}]
<1>1. PICK h \in [Nat -> D] : h[0] = {top} /\ \A n \in Nat : h[n + 1] = F[h[n]]
  <2> DEFINE x == {top}
  <2>1. F \in [D -> D] /\ x \in D
    OBVIOUS
  <2> HIDE DEF D, F, x
  <2>2. PICK h : Iterates(h, D, F, x)
    BY <2>1, Iteration
  <2> QED BY <2>2 DEF x, Iterates
<1>2. Solves(h)
  <2>1. \A n \in Nat : h[n] \in D
    OBVIOUS
  <2>2. ASSUME NEW n \in Nat
        PROVE  h[n] = IF n = 0 THEN {top}
                      ELSE h[n - 1] \cup {q \in Pids : table[q] \in h[n - 1]}
    <3>1. CASE n = 0
      BY <1>1, <3>1
    <3>2. CASE n # 0
      <4>1. n - 1 \in Nat /\ (n - 1) + 1 = n
        BY <3>2
      <4>2. h[n] = F[h[n - 1]] /\ h[n - 1] \in D
        BY <1>1, <2>1, <4>1
      <4> QED BY <3>2, <4>2
    <3> QED BY <3>1, <3>2
  <2>3. h = [n \in Nat |-> h[n]]
    OBVIOUS
  <2> HIDE DEF D
  <2> QED BY <2>2, <2>3
<1> DEFINE B == Below(table, top)
<1>3. Solves(B)
  <2>1. B = CHOOSE f : Solves(f)
    BY DEF Below
  <2> HIDE DEF Solves, B
  <2> QED BY <1>2, <2>1
<1>4. \A n \in Nat : B[n] = IF n = 0 THEN {top}
                            ELSE B[n - 1] \cup {q \in Pids : table[q] \in B[n - 1]}
  <2> HIDE DEF B
  <2> QED BY <1>3
<1> HIDE DEF B
<1>5. B[0] = {top}
  BY <1>4
<1>6. \A n \in Nat : B[n + 1] = B[n] \cup {q \in Pids : table[q] \in B[n]}
  <2> TAKE n \in Nat
  <2>1. n + 1 \in Nat /\ n + 1 # 0 /\ (n + 1) - 1 = n
    OBVIOUS
  <2> QED BY <1>4, <2>1
<1>7. \A n \in Nat : B[n] \subseteq Pids \cup {top}
  <2> DEFINE S == {n \in Nat : B[n] \subseteq Pids \cup {top}}
  <2>1. 0 \in S
    BY <1>5
  <2>2. \A n \in Nat : n \in S => n + 1 \in S
    BY <1>6
  <2> HIDE DEF S
  <2>3. Nat \subseteq S
    BY <2>1, <2>2, Induction
  <2> QED BY <2>3 DEF S
<1> QED BY <1>5, <1>6, <1>7 DEF B

\* More links lead further.
LEMMA BelowGrows ==
    ASSUME NEW table, NEW top, NEW m \in Nat, NEW n \in Nat, m <= n
    PROVE  Below(table, top)[m] \subseteq Below(table, top)[n]
<1> DEFINE B == Below(table, top)
           S == {k \in Nat : B[m] \subseteq B[m + k]}
<1>1. 0 \in S
  OBVIOUS
<1>2. ASSUME NEW k \in Nat, k \in S PROVE k + 1 \in S
  <2>1. B[m + k + 1] = B[m + k] \cup {q \in Pids : table[q] \in B[m + k]}
    BY BelowDef
  <2> HIDE DEF B
  <2> QED BY <1>2, <2>1
<1> HIDE DEF S
<1>3. Nat \subseteq S
  BY <1>1, <1>2, Induction
<1>4. n - m \in S /\ m + (n - m) = n
  BY <1>3
<1> QED BY <1>4 DEF S

\* Everything below the top but the top itself is there by its own link.
LEMMA BelowByLink ==
    ASSUME NEW table, NEW top, NEW n \in Nat, NEW q \in Below(table, top)[n], q # top
    PROVE  n # 0 /\ q \in Pids /\ table[q] \in Below(table, top)[n - 1]
<1> DEFINE B == Below(table, top)
           S == {k \in Nat : \A p \in B[k] : p # top =>
                               k # 0 /\ p \in Pids /\ table[p] \in B[k - 1]}
<1>0. /\ B[0] = {top}
      /\ \A k \in Nat : B[k + 1] = B[k] \cup {p \in Pids : table[p] \in B[k]}
  BY BelowDef
<1>1. \A k \in Nat : k # 0 => B[k - 1] \subseteq B[k]
  BY BelowGrows
<1> HIDE DEF B
<1>2. 0 \in S
  BY <1>0
<1>3. ASSUME NEW k \in Nat, k \in S PROVE k + 1 \in S
  <2> SUFFICES ASSUME NEW p \in B[k + 1], p # top
               PROVE  p \in Pids /\ table[p] \in B[k]
    OBVIOUS
  <2>1. p \in B[k] \/ (p \in Pids /\ table[p] \in B[k])
    BY <1>0
  <2> QED BY <1>1, <1>3, <2>1
<1> HIDE DEF S
<1>4. Nat \subseteq S
  BY <1>2, <1>3, Induction
<1> QED BY <1>4 DEF S, B

-----------------------------------------------------------------------------
(* The invariant *)

\* What each phase of a round leaves as it is.
Phases ==
    /\ pc = "list" => /\ listed = {} /\ \A v \in Pids : report[v] = {}
    /\ pc \notin {"list", "links"} => unread = {}
    /\ pc # "walk" => w = Reaper /\ agenda = {} /\ seen = {} /\ charged = {} /\ again = {}
    /\ pc = "walk" => w \in Pids
    /\ \A p \in unread : link[p] = Gone
    /\ \A call \in agenda : call[1] \in listed \cup {w}
    /\ \A v \in Pids : report[v] \ {v} \subseteq listed

\* The agenda has the depths right, and what is below the worker has been seen
\* or will be, down to the bound.
Walking ==
    pc = "walk" =>
        /\ again = {}
        /\ w \notin seen => agenda = {<<w, 0>>} /\ seen = {}
        /\ \A call \in agenda : call[1] \in Below(link, w)[call[2]]
        /\ \A call \in agenda : call[1] # w =>
              call[2] # 0 /\ call[1] \notin Below(link, w)[call[2] - 1]
        /\ seen \subseteq Below(link, w)[MaxDepth]
        /\ \A q \in Pids : (link[q] \in seen /\ q \in Below(link, w)[MaxDepth]) =>
              q \in seen \/ \E call \in agenda : call[1] = q

\* The host's table is in order: parents live, and descent goes with them.
Lineage ==
    \A p \in Pids : parent[p] \in Pids =>
        parent[p] \in Alive /\ {parent[p]} \cup anc[parent[p]] \subseteq anc[p]

\* As long as nobody exits, the snapshot is what the host still looks like.
Faithful ==
    ~exited =>
        /\ \A p \in listed : p \in Alive /\ (parent[p] \in Pids => parent[p] \in listed)
        /\ \A p \in listed \ unread : link[p] = parent[p]
        /\ seen \cap listed \subseteq charged

\* As long as no known pid is given out again, links go from child to parent.
Descent ==
    ~reused =>
        /\ \A p \in listed : parent[p] \in Pids => parent[p] \in listed
        /\ \A p \in listed : link[p] \in Pids =>
              link[p] \in listed /\ {link[p]} \cup anc[link[p]] \subseteq anc[p]
        /\ \A p \in seen \cup {call[1] : call \in agenda} : p # w => w \in anc[p]

IInv == TypeOK /\ Phases /\ Walking /\ Lineage /\ Faithful /\ Descent /\ OnlyItsOwn

USE DEF host, snapshot, walk

\* The ancestors of a process's parent are its own.
LEMMA AncestorsOf ==
    ASSUME NEW f, NEW p \in Pids, f[p] \in Pids
    PROVE  {f[p]} \cup Ancestors(f)[f[p]] \subseteq Ancestors(f)[p]
<1>1. f[p] \in Ancestors(f)[p]
  BY DEF Ancestors
<1>2. ASSUME NEW a \in Ancestors(f)[f[p]], NEW S \in SUBSET Pids,
             \A q \in S \cup {p} : f[q] \in Pids => f[q] \in S
      PROVE  a \in S
  <2>1. \A q \in S \cup {f[p]} : f[q] \in Pids => f[q] \in S
    BY <1>2
  <2> QED BY <1>2, <2>1 DEF Ancestors
<1> QED BY <1>1, <1>2 DEF Ancestors

LEMMA InitIInv == Init => IInv
<1> SUFFICES ASSUME Init PROVE IInv
  OBVIOUS
<1>1. hasSnap \in BOOLEAN /\ reused \in BOOLEAN /\ exited \in BOOLEAN
  BY Zenon DEF Init
<1>2. anc \in [Pids -> SUBSET Pids]
  BY DEF Init, Ancestors
<1>3. events \in 0 .. MaxEvents /\ agenda \subseteq (Pids \X (0 .. MaxDepth + 1))
  BY BoundAssumption DEF Init
<1>4. parent \in [Pids -> Pids \cup {Reaper, Gone}]
  BY DEF Init, Forests
<1>5. TypeOK
  BY <1>1, <1>2, <1>3, <1>4 DEF Init, TypeOK
<1>6. Lineage
  <2>1. ASSUME NEW p \in Pids, parent[p] \in Pids PROVE parent[p] \in Alive
    BY <2>1 DEF Init, Forests, Alive
  <2>2. ASSUME NEW p \in Pids, parent[p] \in Pids
        PROVE  {parent[p]} \cup anc[parent[p]] \subseteq anc[p]
    BY <2>2, AncestorsOf DEF Init
  <2> QED BY <2>1, <2>2 DEF Lineage
<1>7. Phases /\ Walking /\ Faithful /\ Descent /\ OnlyItsOwn
  BY DEF Init, Phases, Walking, Faithful, Descent, OnlyItsOwn
<1> QED BY <1>5, <1>6, <1>7 DEF IInv

-----------------------------------------------------------------------------
(* snapshotProcesses *)

LEMMA ListIInv == ASSUME IInv, List PROVE IInv'
<1> USE DEF IInv
<1>0. /\ pc = "list" /\ pc' = "links"
      /\ hasSnap' = TRUE /\ listed' = Alive /\ unread' = Alive
      /\ UNCHANGED <<parent, anc, events, link, workers, w, agenda, seen, charged, again,
                     report, reused, exited>>
  BY DEF List
<1>1. hasSnap' \in BOOLEAN
  BY <1>0, Zenon
<1>2. /\ \A p \in Pids : link[p] = Gone
      /\ \A v \in Pids : report[v] = {}
      /\ w = Reaper /\ agenda = {} /\ seen = {} /\ charged = {} /\ again = {}
  BY <1>0 DEF TypeOK, Phases
<1>3. TypeOK'
  BY <1>0, <1>1, <1>2 DEF TypeOK, Alive
<1>4. Phases' /\ Walking'
  BY <1>0, <1>2 DEF Phases, Walking, Alive
<1>5. Lineage'
  BY <1>0 DEF Lineage, Alive
<1>6. Faithful' /\ Descent'
  BY <1>0, <1>2, PidsAssumption DEF Faithful, Descent, Lineage, Alive
<1>7. OnlyItsOwn'
  BY <1>0 DEF OnlyItsOwn
<1> QED BY <1>3, <1>4, <1>5, <1>6, <1>7

LEMMA ReadLinkIInv == ASSUME IInv, NEW p \in Pids, ReadLink(p) PROVE IInv'
<1> USE DEF IInv
<1>0. /\ pc = "links" /\ p \in unread
      /\ unread' = unread \ {p}
      /\ link' = [link EXCEPT ![p] = parent[p]]
      /\ UNCHANGED <<parent, anc, events, pc, hasSnap, listed, workers, w, agenda, seen,
                     charged, again, report, reused, exited>>
  BY DEF ReadLink
<1>1. p \in listed /\ parent[p] \in Pids \cup {Reaper, Gone}
  BY <1>0 DEF TypeOK
<1>2. TypeOK'
  BY <1>0, <1>1 DEF TypeOK
<1>3. Phases' /\ Walking'
  BY <1>0 DEF TypeOK, Phases, Walking
<1>4. Lineage'
  BY <1>0 DEF Lineage, Alive
<1>5. Faithful'
  BY <1>0, <1>1 DEF TypeOK, Faithful, Alive
<1>6. Descent'
  BY <1>0, <1>1, <1>2 DEF TypeOK, Descent, Lineage
<1>7. OnlyItsOwn'
  BY <1>0 DEF OnlyItsOwn
<1> QED BY <1>2, <1>3, <1>4, <1>5, <1>6, <1>7

-----------------------------------------------------------------------------
(* Steps that neither read the host nor walk *)

LEMMA QuietIInv ==
    ASSUME IInv, \/ ListFails \/ SnapshotTaken \/ Status \/ PoolDone
                 \/ \E p \in Pids : OwnMissing(p)
    PROVE  IInv'
<1> USE DEF IInv
<1>0. /\ UNCHANGED <<parent, anc, events, hasSnap, listed, unread, link, w, agenda, seen,
                     charged, again, report, reused, exited>>
      /\ pc \in {"list", "links", "status", "worker"}
      /\ pc' \in {"status", "worker", "done"}
      /\ workers' \subseteq workers \cup Alive
      /\ pc = "links" => unread = {}
  BY DEF ListFails, SnapshotTaken, Status, PoolDone, OwnMissing
<1>1. unread = {}
  BY <1>0 DEF TypeOK, Phases
<1>2. TypeOK'
  BY <1>0 DEF TypeOK, Alive
<1>3. Phases' /\ Walking'
  BY <1>0, <1>1 DEF Phases, Walking
<1>4. Lineage' /\ Faithful' /\ Descent' /\ OnlyItsOwn'
  BY <1>0 DEF Lineage, Faithful, Descent, OnlyItsOwn, Alive
<1> QED BY <1>2, <1>3, <1>4

-----------------------------------------------------------------------------
(* enrichWorkerRSS *)

LEMMA OwnIInv == ASSUME IInv, NEW p \in Pids, Own(p) PROVE IInv'
<1> USE DEF IInv
<1>0. /\ pc = "worker" /\ workers' = workers \ {p}
      /\ UNCHANGED <<parent, anc, events, hasSnap, listed, unread, link, seen, charged, again,
                     report, reused, exited>>
      /\ \/ pc' = "walk" /\ w' = p /\ agenda' = {<<p, 0>>}
         \/ UNCHANGED <<pc, w, agenda>>
  BY DEF Own
<1>1. seen = {} /\ charged = {} /\ again = {} /\ unread = {}
  BY <1>0 DEF Phases
<1>2. CASE UNCHANGED <<pc, w, agenda>>
  <2>1. TypeOK'
    BY <1>0, <1>2 DEF TypeOK
  <2>2. Phases' /\ Walking' /\ Lineage' /\ Faithful' /\ Descent' /\ OnlyItsOwn'
    BY <1>0, <1>2 DEF Phases, Walking, Lineage, Faithful, Descent, OnlyItsOwn, Alive
  <2> QED BY <2>1, <2>2
<1>3. CASE pc' = "walk" /\ w' = p /\ agenda' = {<<p, 0>>}
  <2>1. TypeOK'
    <3>1. agenda' \subseteq (Pids \X (0 .. MaxDepth + 1))
      BY <1>3, BoundAssumption
    <3> QED BY <1>0, <1>1, <1>3, <3>1 DEF TypeOK
  <2>2. Phases'
    BY <1>0, <1>1, <1>3 DEF Phases
  <2>3. Walking'
    <3>1. Below(link', w')[0] = {p}
      BY <1>3, BelowDef
    <3>2. \A q \in Pids : link'[q] \notin seen'
      BY <1>0, <1>1
    <3> QED BY <1>0, <1>1, <1>3, <3>1, <3>2 DEF Walking
  <2>4. Lineage' /\ Faithful' /\ OnlyItsOwn'
    BY <1>0 DEF Lineage, Faithful, OnlyItsOwn, Alive
  <2>5. Descent'
    BY <1>0, <1>1, <1>3 DEF Descent
  <2> QED BY <2>1, <2>2, <2>3, <2>4, <2>5
<1> QED BY <1>0, <1>2, <1>3

\* A call that is dropped: its process was seen, or it is deeper than the bound.
LEMMA DropIInv ==
    ASSUME IInv, NEW call \in agenda, pc = "walk",
           call[1] \in seen \/ call[2] > MaxDepth,
           agenda' = agenda \ {call},
           UNCHANGED <<parent, anc, events, pc, hasSnap, listed, unread, link, workers, w,
                       seen, charged, again, report, reused, exited>>
    PROVE  IInv'
<1> USE DEF IInv
<1>1. call[1] \in Pids /\ call[2] \in 0 .. MaxDepth + 1
  BY DEF TypeOK
<1>2. w \in seen
  BY <1>1, BoundAssumption DEF Walking
<1>3. call[1] \in seen \/ call[1] \notin Below(link, w)[MaxDepth]
  <2>1. CASE call[1] \notin seen
    <3>1. call[2] - 1 = MaxDepth /\ call[1] # w
      BY <1>1, <1>2, <2>1, BoundAssumption
    <3> QED BY <3>1 DEF Walking
  <2> QED BY <2>1
<1>4. TypeOK' /\ Phases'
  BY DEF TypeOK, Phases
<1>5. Walking'
  <2>1. ASSUME NEW q \in Pids, link[q] \in seen, q \in Below(link, w)[MaxDepth],
               q \notin seen
        PROVE  \E c \in agenda' : c[1] = q
    <3>1. PICK c \in agenda : c[1] = q
      BY <2>1 DEF Walking
    <3> QED BY <1>3, <2>1, <3>1
  <2> QED BY <1>2, <2>1 DEF Walking
<1>6. Lineage' /\ Faithful' /\ Descent' /\ OnlyItsOwn'
  BY DEF Lineage, Faithful, Descent, OnlyItsOwn, Alive
<1> QED BY <1>4, <1>5, <1>6

\* A call that is made: the process is seen and charged, and its children are due.
LEMMA VisitIInv ==
    ASSUME IInv, NEW call \in agenda, pc = "walk",
           call[1] \notin seen, ~(call[2] > MaxDepth),
           Charge(call[1]),
           seen' = seen \cup {call[1]},
           agenda' = (agenda \ {call}) \cup {<<q, call[2] + 1>> : q \in Children(call[1])},
           UNCHANGED <<parent, anc, events, pc, hasSnap, listed, unread, link, workers, w,
                       report, reused, exited>>
    PROVE  IInv'
<1> USE DEF IInv
<1> DEFINE p == call[1]
           d == call[2]
           B == Below(link, w)
<1>1. /\ p \in Pids /\ d \in Nat /\ d <= MaxDepth /\ p \in listed \cup {w}
      /\ p \in B[d] /\ (p # w => d # 0 /\ p \notin B[d - 1])
      /\ p = w => d = 0
  <2>1. p \in Pids /\ d \in Nat /\ d <= MaxDepth /\ p \in listed \cup {w}
    BY BoundAssumption DEF TypeOK, Phases
  <2>2. p \in B[d] /\ (p # w => d # 0 /\ p \notin B[d - 1])
    BY DEF Walking
  <2>3. p = w => d = 0
    <3>1. p = w => call = <<w, 0>>
      BY DEF Walking
    <3> QED BY <3>1
  <2> QED BY <2>1, <2>2, <2>3
<1>2. \A q \in Children(p) : q \in Pids /\ link[q] = p /\ q \in listed
  BY <1>1, PidsAssumption DEF Children, TypeOK
<1>3. \A c \in agenda' : c \in agenda \/ (\E q \in Children(p) : c = <<q, d + 1>>)
  OBVIOUS
<1>4. /\ charged' = charged \cup ({p} \cap listed \cap Alive)
      /\ again' = again \cup (({p} \cap listed \cap Alive) \cap charged)
  BY DEF Charge
<1>5. again' = {}
  BY <1>4 DEF TypeOK, Walking
<1>6. w \in seen'
  BY DEF Walking
<1> HIDE DEF p, d, B
<1>7. seen' = seen \cup {p}
  BY DEF p
<1>8. TypeOK'
  <2>1. agenda' \subseteq (Pids \X (0 .. MaxDepth + 1))
    <3>1. d + 1 \in 0 .. MaxDepth + 1
      BY <1>1, BoundAssumption
    <3> QED BY <1>2, <1>3, <3>1 DEF TypeOK
  <2> QED BY <1>1, <1>4, <1>5, <1>7, <2>1 DEF TypeOK
<1>9. Phases'
  BY <1>2, <1>3 DEF Phases
<1>10. Walking'
  <2>0. Below(link', w') = B
    BY DEF B
  <2>1. \A c \in agenda' : c[1] \in B[c[2]]
    <3>1. \A q \in Children(p) : q \in B[d + 1]
      BY <1>1, <1>2, BelowDef DEF B
    <3>2. \A c \in agenda : c[1] \in B[c[2]]
      BY DEF Walking, B
    <3> QED BY <1>3, <3>1, <3>2
  <2>2. \A c \in agenda' : c[1] # w => c[2] # 0 /\ c[1] \notin B[c[2] - 1]
    <3>1. ASSUME NEW q \in Children(p), q # w PROVE d + 1 # 0 /\ q \notin B[(d + 1) - 1]
      <4>1. (d + 1) - 1 = d /\ d + 1 # 0
        BY <1>1
      <4>2. q \in B[d] => d # 0 /\ p \in B[d - 1]
        BY <1>1, <1>2, <3>1, BelowByLink DEF B
      <4> QED BY <1>1, <4>1, <4>2
    <3>2. \A c \in agenda : c[1] # w => c[2] # 0 /\ c[1] \notin B[c[2] - 1]
      BY DEF Walking, B
    <3> QED BY <1>3, <3>1, <3>2
  <2>3. seen' \subseteq B[MaxDepth]
    <3>1. B[d] \subseteq B[MaxDepth]
      BY <1>1, BelowGrows, BoundAssumption DEF B
    <3> QED BY <1>1, <1>7, <3>1 DEF Walking, B
  <2>4. ASSUME NEW q \in Pids, link[q] \in seen', q \in B[MaxDepth], q \notin seen'
        PROVE  \E c \in agenda' : c[1] = q
    <3>1. CASE link[q] = p
      <4>1. <<q, d + 1>> \in agenda'
        BY <3>1 DEF Children, p, d
      <4> QED BY <4>1
    <3>2. CASE link[q] # p
      <4>1. PICK c \in agenda : c[1] = q
        BY <1>7, <2>4, <3>2 DEF Walking, B
      <4>2. c \in agenda'
        BY <2>4, <4>1
      <4> QED BY <4>1, <4>2
    <3> QED BY <3>1, <3>2
  <2> QED BY <1>5, <1>6, <2>0, <2>1, <2>2, <2>3, <2>4 DEF Walking
<1>11. Lineage' /\ OnlyItsOwn'
  BY DEF Lineage, OnlyItsOwn, Alive
<1>12. Faithful'
  BY <1>4, <1>7 DEF Faithful, Alive
<1>13. Descent'
  <2> SUFFICES ASSUME ~reused
               PROVE  \A x \in seen' \cup {c[1] : c \in agenda'} : x # w => w \in anc[x]
    BY DEF Descent
  <2>1. p # w => w \in anc[p]
    BY DEF Descent, p
  <2>2. \A q \in Children(p) : q # w => w \in anc[q]
    BY <1>1, <1>2, <2>1 DEF Descent
  <2> QED BY <1>3, <1>7, <2>1, <2>2 DEF Descent
<1> QED BY <1>8, <1>9, <1>10, <1>11, <1>12, <1>13

LEMMA SubtreeIInv ==
    ASSUME IInv, NEW call \in agenda, subtreeRSSBounded(call[1], call[2])
    PROVE  IInv'
<1>1. <<call[1], call[2]>> = call
  BY DEF IInv, TypeOK
<1> QED BY <1>1, DropIInv, VisitIInv DEF subtreeRSSBounded

LEMMA MeasuredIInv == ASSUME IInv, Measured PROVE IInv'
<1> USE DEF IInv
<1>0. /\ pc = "walk" /\ pc' = "worker"
      /\ \E larger \in {charged, {w}} : report' = [report EXCEPT ![w] = larger]
      /\ w' = Reaper /\ seen' = {} /\ charged' = {} /\ again' = {} /\ agenda' = {}
      /\ UNCHANGED <<parent, anc, events, hasSnap, listed, unread, link, workers, reused, exited>>
  BY DEF Measured
<1>1. w \in Pids /\ charged \subseteq listed /\ charged \subseteq seen
  BY <1>0 DEF Phases, TypeOK
<1>2. TypeOK'
  BY <1>0, <1>1 DEF TypeOK
<1>3. Phases' /\ Walking'
  BY <1>0, <1>1 DEF TypeOK, Phases, Walking
<1>4. Lineage' /\ Faithful' /\ Descent'
  BY <1>0 DEF Lineage, Faithful, Descent, Alive
<1>5. OnlyItsOwn'
  BY <1>0, <1>1 DEF TypeOK, OnlyItsOwn, Descent
<1> QED BY <1>2, <1>3, <1>4, <1>5

-----------------------------------------------------------------------------
(* The host *)

LEMMA ForkIInv ==
    ASSUME IInv, NEW p \in Alive \cup {Reaper}, NEW q \in Pids, Fork(p, q),
           pc # "list", events < MaxEvents
    PROVE  IInv'
<1> USE DEF IInv
<1>0. /\ q \in Pids \ Alive
      /\ parent' = [parent EXCEPT ![q] = p]
      /\ anc' = [anc EXCEPT ![q] = IF p = Reaper THEN {} ELSE anc[p] \cup {p}]
      /\ reused' = (reused \/ q \in Known)
      /\ events' = events + 1
      /\ UNCHANGED <<pc, hasSnap, listed, unread, link, workers, w, agenda, seen, charged,
                     again, report, exited>>
  BY DEF Fork
<1>1. p # q /\ p # Gone /\ p \in Pids \cup {Reaper}
  BY <1>0, PidsAssumption DEF Alive
<1>2. Alive' = Alive \cup {q}
  BY <1>0, <1>1 DEF TypeOK, Alive
<1>3. \A r \in Pids : parent[r] # q
  BY <1>0 DEF Lineage
<1>4. /\ \A r \in Pids : r # q => parent'[r] = parent[r] /\ anc'[r] = anc[r]
      /\ parent'[q] = p /\ anc'[q] = IF p = Reaper THEN {} ELSE anc[p] \cup {p}
  BY <1>0 DEF TypeOK
<1>5. reused' \in BOOLEAN /\ (~reused' => ~reused /\ q \notin listed \cup {w})
  <2>1. reused' \in BOOLEAN
    BY <1>0, Zenon
  <2> QED BY <1>0, <2>1 DEF Known
<1>6. TypeOK'
  <2>1. events' \in 0 .. MaxEvents
    BY <1>0, BoundAssumption DEF TypeOK
  <2>2. parent' \in [Pids -> Pids \cup {Reaper, Gone}] /\ anc' \in [Pids -> SUBSET Pids]
    BY <1>0, <1>1 DEF TypeOK
  <2> QED BY <1>0, <1>5, <2>1, <2>2 DEF TypeOK
<1>7. Phases' /\ Walking'
  BY <1>0 DEF Phases, Walking
<1>8. Lineage'
  <2>1. ASSUME NEW r \in Pids, parent'[r] \in Pids
        PROVE  parent'[r] \in Alive' /\ {parent'[r]} \cup anc'[parent'[r]] \subseteq anc'[r]
    <3>1. CASE r = q
      BY <1>1, <1>2, <1>4, <2>1, <3>1, PidsAssumption
    <3>2. CASE r # q
      BY <1>2, <1>3, <1>4, <2>1, <3>2 DEF Lineage
    <3> QED BY <3>1, <3>2
  <2> QED BY <2>1 DEF Lineage
<1>9. Faithful'
  <2>1. ~exited => q \notin listed
    BY <1>0 DEF Faithful
  <2>2. listed \subseteq Pids
    BY DEF TypeOK
  <2> QED BY <1>0, <1>2, <1>4, <2>1, <2>2 DEF Faithful
<1>10. Descent'
  <2>1. /\ listed \subseteq Pids /\ seen \subseteq listed \cup {w}
        /\ \A c \in agenda : c[1] \in (listed \cup {w}) \cap Pids
    BY DEF TypeOK, Phases
  <2> QED BY <1>0, <1>4, <1>5, <2>1 DEF Descent
<1>11. OnlyItsOwn'
  <2>1. \A v \in Pids : \A x \in report[v] \ {v} : x \in listed /\ x \in Pids
    BY DEF TypeOK, Phases
  <2> QED BY <1>0, <1>4, <1>5, <2>1 DEF OnlyItsOwn
<1> QED BY <1>6, <1>7, <1>8, <1>9, <1>10, <1>11

LEMMA ExitIInv ==
    ASSUME IInv, NEW p \in Pids, Exit(p), events < MaxEvents PROVE IInv'
<1> USE DEF IInv
<1>0. /\ p \in Alive /\ exited' = TRUE /\ events' = events + 1
      /\ parent' = [q \in Pids |-> IF q = p THEN Gone
                                   ELSE IF parent[q] = p THEN Reaper ELSE parent[q]]
      /\ UNCHANGED <<anc, pc, hasSnap, listed, unread, link, workers, w, agenda, seen, charged,
                     again, report, reused>>
  BY DEF Exit
<1>1. \A q \in Pids : \/ q = p /\ parent'[q] = Gone
                      \/ q # p /\ parent[q] = p /\ parent'[q] = Reaper
                      \/ q # p /\ parent[q] # p /\ parent'[q] = parent[q]
  BY <1>0
<1>2. TypeOK'
  <2>1. events' \in 0 .. MaxEvents
    BY <1>0, BoundAssumption DEF TypeOK
  <2>2. parent' \in [Pids -> Pids \cup {Reaper, Gone}]
    <3>1. parent' = [q \in Pids |-> parent'[q]]
      BY <1>0
    <3>2. \A q \in Pids : parent'[q] \in Pids \cup {Reaper, Gone}
      BY <1>1 DEF TypeOK
    <3> QED BY <3>1, <3>2
  <2>3. exited' \in BOOLEAN
    BY <1>0, Zenon
  <2> QED BY <1>0, <2>1, <2>2, <2>3 DEF TypeOK
<1>3. Phases' /\ Walking'
  BY <1>0 DEF Phases, Walking
<1>4. Lineage'
  BY <1>0, <1>1, PidsAssumption DEF TypeOK, Lineage, Alive
<1>5. Faithful'
  BY <1>0 DEF Faithful
<1>6. Descent'
  <2>1. listed \subseteq Pids
    BY DEF TypeOK
  <2> QED BY <1>0, <1>1, <2>1, PidsAssumption DEF Descent
<1>7. OnlyItsOwn'
  BY <1>0 DEF OnlyItsOwn
<1> QED BY <1>2, <1>3, <1>4, <1>5, <1>6, <1>7

LEMMA StepIInv == ASSUME IInv, [Next]_vars PROVE IInv'
<1>1. CASE Round
  <2>1. ASSUME NEW p \in Pids, ReadLink(p) \/ Own(p) PROVE IInv'
    BY <2>1, ReadLinkIInv, OwnIInv
  <2>2. ASSUME NEW call \in agenda, subtreeRSSBounded(call[1], call[2]) PROVE IInv'
    BY <2>2, SubtreeIInv
  <2> QED BY <1>1, <2>1, <2>2, ListIInv, QuietIInv, MeasuredIInv DEF Round
<1>2. ASSUME pc \notin {"list", "done"}, events < MaxEvents,
             \/ \E p \in Alive \cup {Reaper}, q \in Pids : Fork(p, q)
             \/ \E p \in Pids : Exit(p)
      PROVE  IInv'
  BY <1>2, ForkIInv, ExitIInv
<1>3. CASE UNCHANGED vars
  BY <1>3 DEF vars, IInv, TypeOK, Phases, Walking, Lineage, Faithful, Descent,
              OnlyItsOwn, Alive
<1> QED BY <1>1, <1>2, <1>3 DEF Next

-----------------------------------------------------------------------------

\* The invariant of a round of snapshotProcesses and enrichWorkerRSS on a host
\* that forks, exits and reuses pids between any two of its reads.
THEOREM Invariance == Spec => []IInv
BY InitIInv, StepIInv, PTL DEF Spec

\* The variables of a round keep their types: what subtreeRSSBounded walks, adds
\* and reports are pids the snapshot listed, or the worker's own.
THEOREM TypeCorrect == Spec => []TypeOK
<1>1. IInv => TypeOK
  BY DEF IInv
<1> QED BY <1>1, Invariance, PTL

\* No worker's SubtreeRSS has memory of a process it did not spawn, unless a pid
\* the round knows was given out again.
THEOREM OnlyItsOwnHolds == Spec => []OnlyItsOwn
<1>1. IInv => OnlyItsOwn
  BY DEF IInv
<1> QED BY <1>1, Invariance, PTL

\* When nothing is on the agenda any more, nothing within the bound is unseen.
LEMMA WalkComplete ==
    ASSUME IInv, WalkOver PROVE seen = Below(link, w)[MaxDepth]
<1> DEFINE B == Below(link, w)
           S == {n \in Nat : n <= MaxDepth => B[n] \subseteq seen}
<1>1. /\ w \in seen /\ seen \subseteq B[MaxDepth]
      /\ \A q \in Pids : link[q] \in seen /\ q \in B[MaxDepth] => q \in seen
  BY DEF IInv, Walking, WalkOver
<1>2. /\ B[0] = {w}
      /\ \A n \in Nat : B[n + 1] = B[n] \cup {q \in Pids : link[q] \in B[n]}
  BY BelowDef
<1>3. \A n \in Nat : n <= MaxDepth => B[n] \subseteq B[MaxDepth]
  BY BelowGrows, BoundAssumption
<1> HIDE DEF B
<1>4. 0 \in S
  BY <1>1, <1>2
<1>5. ASSUME NEW n \in Nat, n \in S PROVE n + 1 \in S
  <2> SUFFICES ASSUME n + 1 <= MaxDepth, NEW q \in B[n + 1] PROVE q \in seen
    OBVIOUS
  <2>1. B[n] \subseteq seen
    BY <1>5, BoundAssumption
  <2>2. q \in B[MaxDepth]
    BY <1>3
  <2>3. q \in B[n] \/ (q \in Pids /\ link[q] \in B[n])
    BY <1>2
  <2> QED BY <1>1, <2>1, <2>2, <2>3
<1> HIDE DEF S
<1>6. Nat \subseteq S
  BY <1>4, <1>5, Induction
<1>7. B[MaxDepth] \subseteq seen
  BY <1>6, BoundAssumption DEF S
<1> QED BY <1>1, <1>7 DEF B

\* subtreeRSSBounded visits exactly the processes the snapshot's links put at
\* most MaxDepth below the worker, each once, on any table of links at all: the
\* depths are right whatever the order of the calls, and a circle ends.
THEOREM WalkIsExactHolds == Spec => []WalkIsExact
<1>1. IInv => WalkIsExact
  BY WalkComplete DEF IInv, Walking, WalkIsExact, WalkOver
<1> QED BY <1>1, Invariance, PTL

\* While nobody exits, enrichWorkerRSS charges a worker for everything it had
\* spawned, down to the bound, before the table was listed: the links, read one
\* by one while others fork, still put all of it below the worker.
THEOREM NothingMissedHolds == Spec => []NothingMissed
<1>1. IInv => NothingMissed
  <2> SUFFICES ASSUME IInv, WalkOver, ~exited
               PROVE  Below(parent, w)[MaxDepth] \cap listed \subseteq charged
    BY DEF NothingMissed
  <2> DEFINE F == Below(parent, w)
             B == Below(link, w)
             S == {n \in Nat : F[n] \cap listed \subseteq B[n]}
  <2>1. /\ w \in Pids /\ listed \subseteq Pids /\ seen \cap listed \subseteq charged
        /\ \A p \in listed : link[p] = parent[p]
        /\ \A p \in listed : parent[p] \in Pids => parent[p] \in listed
    BY DEF IInv, TypeOK, Phases, Faithful, WalkOver
  <2>2. /\ F[0] = {w} /\ B[0] = {w}
        /\ \A n \in Nat : F[n + 1] = F[n] \cup {q \in Pids : parent[q] \in F[n]}
        /\ \A n \in Nat : B[n + 1] = B[n] \cup {q \in Pids : link[q] \in B[n]}
        /\ \A n \in Nat : F[n] \subseteq Pids \cup {w}
    BY BelowDef
  <2>3. B[MaxDepth] = seen
    BY WalkComplete
  <2> HIDE DEF F, B
  <2>4. 0 \in S
    BY <2>2
  <2>5. ASSUME NEW n \in Nat, n \in S PROVE n + 1 \in S
    <3> SUFFICES ASSUME NEW q \in F[n + 1] \cap listed PROVE q \in B[n + 1]
      OBVIOUS
    <3>1. CASE q \in F[n]
      BY <2>2, <2>5, <3>1
    <3>2. CASE parent[q] \in F[n]
      <4>1. parent[q] \in listed
        BY <2>1, <2>2, <3>2
      <4>2. link[q] \in B[n]
        BY <2>1, <2>5, <3>2, <4>1
      <4> QED BY <2>1, <2>2, <4>2
    <3> QED BY <2>2, <3>1, <3>2
  <2> HIDE DEF S
  <2>6. Nat \subseteq S
    BY <2>4, <2>5, Induction
  <2>7. F[MaxDepth] \cap listed \subseteq B[MaxDepth]
    BY <2>6, BoundAssumption DEF S
  <2> QED BY <2>1, <2>3, <2>7 DEF F
<1> QED BY <1>1, Invariance, PTL

=============================================================================
