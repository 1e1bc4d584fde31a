--------------------------- MODULE PathTrustProofs ---------------------------
(***************************************************************************)
(* RunsWhatItChecked for a file at any depth.  The directories are read    *)
(* from the file upwards, so one that was accepted may have been exchanged *)
(* since.  What is inductive is weaker than its being as it was: whoever   *)
(* exchanged it had to go through a directory above it that will still be  *)
(* refused, or that is theirs (Vouched).  Once the root has been read      *)
(* nothing is left to be refused.  A directory that is not theirs, brought *)
(* into a sticky one, breaks the chain: it is accepted when it is read and *)
(* speaks for what was read through the one it took the place of.          *)
(***************************************************************************)
EXTENDS PathTrust, TLAPS

\* The path may still be turned down, or need not be promised, for directory k.
Doubtful(k) ==
    \/ k <= at /\ ~trustedDir(node[k])
    \/ ~strict /\ (node[k].kind # "dir" \/ node[k].owner = "them")

\* A directory that has been read is as the check wants it, unless one above it
\* is in doubt.
Vouched ==
    pc \in {"walk", "file"} /\ (strict \/ ~member) /\ ~brought =>
        \A j \in 0 .. N - 1 : at < j =>
            trustedDir(node[j]) \/ \E k \in 0 .. j : Doubtful(k)

\* Nobody else owns anything on a path that was accepted, or can write to it.
Sealed ==
    pc = "accepted" /\ (strict \/ clear) /\ ~brought =>
        /\ ~swapped
        /\ strict \/ ~member
        /\ trustedFile(node[N])
        /\ \A j \in 0 .. N - 1 : trustedDir(node[j]) /\ node[j].owner # "them"

\* Nothing counts as swapped before it was accepted.
Unswapped == swapped => pc = "accepted"

IInv == TypeOK /\ Vouched /\ Sealed /\ Unswapped

LEMMA InitInv == Init => IInv
<1> SUFFICES ASSUME Init PROVE IInv
  OBVIOUS
<1>1. TypeOK
  <2>1. /\ uid \in {"root", "us"} /\ member \in BOOLEAN
        /\ clear \in BOOLEAN /\ brought \in BOOLEAN /\ swapped \in BOOLEAN
    BY Zenon DEF Init
  <2>2. node \in Tails[0]
    BY DEF Init
  <2>3. pc = "walk" /\ at \in -1 .. N - 1 /\ at # -1
    BY PathAssumption DEF Init
  <2> QED
    BY <2>1, <2>2, <2>3 DEF TypeOK
<1>2. Vouched /\ Sealed /\ Unswapped
  BY PathAssumption DEF Init, Vouched, Sealed, Unswapped
<1> QED
  BY <1>1, <1>2 DEF IInv

LEMMA WalkInv == ASSUME IInv, Walk PROVE IInv'
<1> USE PathAssumption DEF Walk
<1>1. TypeOK'
  BY DEF IInv, TypeOK
<1>2. Vouched'
  <2> SUFFICES ASSUME pc' \in {"walk", "file"}, strict \/ ~member, ~brought,
                      NEW j \in 0 .. N - 1, at' < j
               PROVE  trustedDir(node[j]) \/ \E k \in 0 .. j : Doubtful(k)'
    BY DEF Vouched, strict, trustedDir
  <2>1. trustedDir(node[at]) /\ at' = at - 1 /\ at \in 0 .. N - 1
    BY DEF IInv, TypeOK
  <2>2. CASE j = at
    BY <2>1, <2>2
  <2>3. CASE at < j
    <3>1. trustedDir(node[j]) \/ \E k \in 0 .. j : Doubtful(k)
      BY <2>3 DEF IInv, Vouched
    <3>2. ASSUME NEW k \in 0 .. j, Doubtful(k) PROVE Doubtful(k)'
      <4>1. CASE k = at
        BY <2>1, <3>2, <4>1 DEF Doubtful, strict
      <4>2. CASE k # at
        BY <2>1, <3>2, <4>2 DEF Doubtful, strict, trustedDir
      <4> QED
        BY <4>1, <4>2
    <3> QED
      BY <3>1, <3>2
  <2> QED
    BY <2>1, <2>2, <2>3 DEF IInv, TypeOK
<1>3. Sealed' /\ Unswapped'
  BY DEF IInv, TypeOK, Sealed, Unswapped
<1> QED
  BY <1>1, <1>2, <1>3 DEF IInv

LEMMA FileInv == ASSUME IInv, File PROVE IInv'
<1> USE PathAssumption DEF File
<1>1. TypeOK'
  BY DEF IInv, TypeOK
<1>2. Vouched'
  BY DEF Vouched
<1>3. Sealed'
  <2> SUFFICES ASSUME pc' = "accepted", strict \/ clear', ~brought
               PROVE  /\ ~swapped
                      /\ strict \/ ~member
                      /\ trustedFile(node[N])
                      /\ \A j \in 0 .. N - 1 : /\ trustedDir(node[j])
                                               /\ node[j].owner # "them"
    BY DEF Sealed, strict, trustedFile, trustedDir
  <2>1. strict \/ (Clear /\ ~member)
    OBVIOUS
  <2>2. trustedFile(node[N])
    OBVIOUS
  <2>3. at = -1
    BY DEF IInv, TypeOK
  <2>4. ASSUME NEW j \in 0 .. N - 1
        PROVE  trustedDir(node[j]) /\ node[j].owner # "them"
    <3>1. trustedDir(node[j]) \/ \E k \in 0 .. j : Doubtful(k)
      BY <2>1, <2>3 DEF IInv, Vouched
    <3>2. \A k \in 0 .. j : ~Doubtful(k)
      BY <2>1, <2>3 DEF Doubtful, Clear
    <3>3. node[j].owner # "them"
      BY <2>1, <3>1, <3>2 DEF Clear, trustedDir
    <3> QED
      BY <3>1, <3>2, <3>3
  <2>5. ~swapped
    BY DEF IInv, Unswapped
  <2> QED
    BY <2>1, <2>2, <2>4, <2>5
<1>4. Unswapped'
  BY DEF IInv, Unswapped
<1> QED
  BY <1>1, <1>2, <1>3, <1>4 DEF IInv

-----------------------------------------------------------------------------

\* Whoever can write to a directory on the path meets its sticky bit, or a
\* directory at or above it is in doubt.
LEMMA Reach ==
    ASSUME IInv, pc \in {"walk", "file"}, strict \/ ~member, ~brought,
           NEW i \in 1 .. N, Writable(node[i - 1])
    PROVE  Guarded(i) \/ \E k \in 0 .. i - 1 : Doubtful(k)
<1> USE PathAssumption
<1> DEFINE h == i - 1
<1>0. h \in 0 .. N - 1 /\ at \in -1 .. N - 1
  BY DEF IInv, TypeOK
<1>1. CASE ~trustedDir(node[h])
  <2>1. CASE h <= at
    BY <1>0, <1>1, <2>1 DEF Doubtful
  <2>2. CASE at < h
    BY <1>0, <1>1, <2>2 DEF IInv, Vouched
  <2> QED
    BY <1>0, <2>1, <2>2
<1>2. CASE trustedDir(node[h]) /\ node[h].owner = "them"
  BY <1>0, <1>2 DEF trustedDir, Doubtful
<1>3. CASE trustedDir(node[h]) /\ node[h].owner # "them"
  BY <1>3 DEF trustedDir, Writable, Guarded
<1> QED
  BY <1>1, <1>2, <1>3

\* A path that was accepted is out of everybody else's reach.
LEMMA OutOfReach ==
    ASSUME TypeOK, Sealed, pc = "accepted", strict \/ clear, ~brought
    PROVE  /\ \A i \in 1 .. N : ~Movable(i)
           /\ \A i \in 0 .. N : node[i].owner # "them"
           /\ ~Writable(node[N])
<1> USE PathAssumption
<1>1. /\ strict \/ ~member
      /\ trustedFile(node[N])
      /\ \A j \in 0 .. N - 1 : trustedDir(node[j]) /\ node[j].owner # "them"
  BY DEF Sealed
<1>2. node[N].owner # "them" /\ node[N].kind = "file" /\ node[N].perm = "owner"
  BY <1>1 DEF trustedFile, TypeOK
<1>3. ASSUME NEW i \in 1 .. N PROVE ~Movable(i)
  <2>1. i - 1 \in 0 .. N - 1
    OBVIOUS
  <2>2. Writable(node[i - 1]) => Guarded(i)
    BY <1>1, <2>1 DEF trustedDir, Writable, Guarded
  <2>3. node[i].kind # "none" /\ node[i].owner # "them"
    BY <1>1, <1>2 DEF trustedDir
  <2> QED
    BY <2>2, <2>3 DEF Movable
<1>4. ASSUME NEW i \in 0 .. N PROVE node[i].owner # "them"
  BY <1>1, <1>2
<1> QED
  BY <1>2, <1>3, <1>4 DEF Writable

LEMMA ReplaceInv == ASSUME IInv, NEW i \in 1 .. N, Replace(i) PROVE IInv'
<1> USE PathAssumption
<1>1. PICK f \in Tails[i] :
          /\ node' = [k \in 0 .. N |-> IF k < i THEN node[k] ELSE f[k]]
          /\ brought' = (brought \/ (Guarded(i) /\ f[i].kind = "dir" /\ f[i].owner # "them"))
  BY DEF Replace
<1>2. /\ UNCHANGED <<uid, member, pc, at, clear>>
      /\ swapped' = (swapped \/ pc = "accepted")
      /\ Movable(i)
  BY DEF Replace
<1>3. \A k \in 0 .. N : k < i => node'[k] = node[k]
  BY <1>1
<1>4. TypeOK'
  <2>1. /\ \A k \in 0 .. N : k < i => node[k] \in Nodes /\ Fits(node[k], k)
        /\ \A k \in i .. N : f[k] \in Nodes /\ Fits(f[k], k)
    BY DEF IInv, TypeOK, Tails
  <2>2. \A k \in 0 .. N : node'[k] \in Nodes /\ Fits(node'[k], k)
    BY <1>1, <2>1
  <2>3. node' \in [0 .. N -> Nodes]
    BY <1>1, <2>2
  <2>4. node' \in Tails[0]
    BY <2>2, <2>3 DEF Tails
  <2>5. brought' \in BOOLEAN
    BY <1>1 DEF IInv, TypeOK
  <2> QED
    BY <1>2, <2>4, <2>5 DEF IInv, TypeOK
<1>5. Vouched'
  <2> SUFFICES ASSUME pc \in {"walk", "file"}, strict \/ ~member, ~brought',
                      NEW j \in 0 .. N - 1, at < j
               PROVE  trustedDir(node'[j]) \/ \E k \in 0 .. j : Doubtful(k)'
    BY <1>2 DEF Vouched, strict, trustedDir
  <2>0. /\ ~brought
        /\ Guarded(i) => f[i].kind # "dir" \/ f[i].owner = "them"
    BY <1>1
  <2>1. ASSUME NEW k \in 0 .. N, k < i, Doubtful(k) PROVE Doubtful(k)'
    BY <1>2, <1>3, <2>1 DEF Doubtful, trustedDir, strict
  <2>2. CASE j < i
    <3>1. trustedDir(node[j]) \/ \E k \in 0 .. j : Doubtful(k)
      BY <2>0 DEF IInv, Vouched
    <3> QED
      BY <1>3, <2>1, <2>2, <3>1
  <2>3. CASE i <= j /\ \E k \in 0 .. i - 1 : Doubtful(k)
    BY <2>1, <2>3
  <2>4. CASE i <= j /\ Guarded(i) /\ \A k \in 0 .. i - 1 : ~Doubtful(k)
    <3>1. node'[i].kind # "dir" \/ node'[i].owner = "them"
      BY <1>1, <2>0, <2>4
    <3>2. CASE ~strict
      BY <1>2, <2>4, <3>1, <3>2 DEF Doubtful, strict
    <3>3. CASE strict /\ i <= at
      <4>1. ~trustedDir(node'[i])
        <5>1. node'[i] \in Node /\ Fits(node'[i], i) /\ i # N
          BY <1>4, <2>4 DEF TypeOK, Tails
        <5>2. node'[i].owner = "them" \/ node'[i].kind = "none"
              \/ (node'[i].perm = "world" /\ ~node'[i].sticky)
          BY <3>1, <5>1 DEF Node, Fits
        <5> QED
          BY <3>3, <5>2 DEF trustedDir
      <4> QED
        BY <1>2, <2>4, <3>3, <4>1 DEF Doubtful, trustedDir, strict
    <3>4. CASE strict /\ at < i
      <4>1. trustedDir(node[i]) \/ \E k \in 0 .. i : Doubtful(k)
        BY <2>0, <2>4, <3>4 DEF IInv, Vouched
      <4>2. ~Doubtful(i)
        BY <3>4 DEF Doubtful, IInv, TypeOK
      <4>3. trustedDir(node[i])
        BY <2>4, <4>1, <4>2
      <4>4. node[i].kind = "none" \/ node[i].owner = "them"
        BY <1>2, <2>4 DEF Movable
      <4> QED
        BY <3>4, <4>3, <4>4 DEF trustedDir
    <3> QED
      BY <3>2, <3>3, <3>4 DEF IInv, TypeOK
  <2>5. Guarded(i) \/ \E k \in 0 .. i - 1 : Doubtful(k)
    BY <1>2, <2>0, Reach DEF Movable
  <2> QED
    BY <2>2, <2>3, <2>4, <2>5
<1>6. Sealed'
  <2>1. ~brought' => ~brought
    BY <1>1
  <2> QED
    BY <1>2, <2>1, OutOfReach DEF IInv, Sealed, strict
<1>7. Unswapped'
  BY <1>2 DEF IInv, Unswapped
<1> QED
  BY <1>4, <1>5, <1>6, <1>7 DEF IInv

LEMMA ChmodInv == ASSUME IInv, NEW i \in 0 .. N, Chmod(i) PROVE IInv'
<1> USE PathAssumption
<1>1. PICK n \in Nodes : /\ Fits(n, i) /\ n.owner = "them"
                         /\ node' = [node EXCEPT ![i] = n]
  BY DEF Chmod
<1>2. UNCHANGED <<uid, member, pc, at, clear, brought, swapped>> /\ node[i].owner = "them"
  BY DEF Chmod
<1>3. /\ \A k \in 0 .. N : k # i => node'[k] = node[k]
      /\ node'[i].owner = "them"
  BY <1>1 DEF IInv, TypeOK, Tails
<1>4. TypeOK'
  <2>1. node' \in Tails[0]
    BY <1>1 DEF IInv, TypeOK, Tails
  <2> QED
    BY <1>2, <2>1 DEF IInv, TypeOK
<1>5. Vouched'
  <2> SUFFICES ASSUME pc \in {"walk", "file"}, strict \/ ~member, ~brought,
                      NEW j \in 0 .. N - 1, at < j
               PROVE  trustedDir(node'[j]) \/ \E k \in 0 .. j : Doubtful(k)'
    BY <1>2 DEF Vouched, strict, trustedDir
  <2>1. ASSUME NEW k \in 0 .. N, k # i, Doubtful(k) PROVE Doubtful(k)'
    BY <1>2, <1>3, <2>1 DEF Doubtful, trustedDir, strict
  <2>2. trustedDir(node[j]) \/ \E k \in 0 .. j : Doubtful(k)
    BY DEF IInv, Vouched
  <2>3. CASE j < i
    BY <1>3, <2>1, <2>2, <2>3
  <2>4. CASE i <= j /\ ~strict
    BY <1>2, <1>3, <2>4 DEF Doubtful, strict
  <2>5. CASE i <= j /\ strict /\ i <= at
    BY <1>2, <1>3, <2>5 DEF Doubtful, strict, trustedDir
  <2>6. CASE i <= j /\ strict /\ at < i
    <3>1. \E k \in 0 .. i : Doubtful(k)
      BY <1>2, <2>6 DEF IInv, Vouched, trustedDir
    <3>2. ~Doubtful(i)
      BY <2>6 DEF Doubtful, IInv, TypeOK
    <3> QED
      BY <2>1, <2>6, <3>1, <3>2
  <2> QED
    BY <2>3, <2>4, <2>5, <2>6 DEF IInv, TypeOK
<1>6. Sealed'
  BY <1>2, OutOfReach DEF IInv, Sealed, strict
<1>7. Unswapped'
  BY <1>2 DEF IInv, Unswapped
<1> QED
  BY <1>4, <1>5, <1>6, <1>7 DEF IInv

LEMMA WriteInv == ASSUME IInv, Write PROVE IInv'
<1> USE PathAssumption DEF Write
<1>1. TypeOK'
  BY DEF IInv, TypeOK
<1>2. Vouched'
  BY DEF IInv, Vouched, Doubtful, strict, trustedDir
<1>3. Sealed'
  BY OutOfReach DEF IInv, Sealed, strict
<1>4. Unswapped'
  BY DEF Unswapped
<1> QED
  BY <1>1, <1>2, <1>3, <1>4 DEF IInv

LEMMA StepInv == IInv /\ [Next]_vars => IInv'
<1> SUFFICES ASSUME IInv, [Next]_vars PROVE IInv'
  OBVIOUS
<1>1. CASE UNCHANGED vars
  BY <1>1 DEF vars, IInv, TypeOK, Vouched, Doubtful, Sealed, Unswapped,
              strict, trustedDir, trustedFile
<1>2. CASE Walk
  BY <1>2, WalkInv
<1>3. CASE File
  BY <1>3, FileInv
<1>4. ASSUME NEW i \in 1 .. N, Replace(i) PROVE IInv'
  BY <1>4, ReplaceInv
<1>5. ASSUME NEW i \in 0 .. N, Chmod(i) PROVE IInv'
  BY <1>5, ChmodInv
<1>6. CASE Write
  BY <1>6, WriteInv
<1> QED
  BY <1>1, <1>2, <1>3, <1>4, <1>5, <1>6 DEF Next

LEMMA Invariance == Spec => []IInv
BY InitInv, StepInv, PTL DEF Spec

-----------------------------------------------------------------------------

\* For a file at any depth, the file itself is looked at only after trustedDir
\* held of every directory above it.
THEOREM TypeCorrect == Spec => []TypeOK
<1>1. IInv => TypeOK
  BY DEF IInv
<1> QED
  BY <1>1, Invariance, PTL

\* For a file at any depth: what trustedPath accepted for root stays what it
\* was, and so does what it accepted for another user where nobody else owns a
\* directory or has its group, unless a directory that was not theirs was moved
\* into a sticky one.
THEOREM Unexchanged == Spec => []RunsWhatItChecked
<1>1. IInv => RunsWhatItChecked
  BY DEF IInv, Sealed, RunsWhatItChecked
<1> QED
  BY <1>1, Invariance, PTL

=============================================================================
