---------------------------- MODULE OpcacheProofs ----------------------------
(***************************************************************************)
(* The opcache script for any number of probes and of names: the type,     *)
(* NoOrphans and ScriptAtHand are inductive together.  A script is created *)
(* only when none is seen at the path kept, so that what the new path      *)
(* takes the place of is nothing, or a script that Stat would not tell of. *)
(***************************************************************************)
EXTENDS Opcache, TLAPS

IInv == TypeOK /\ NoOrphans /\ ScriptAtHand

\* Every script at all has been refused something by then, if that at the path
\* has been overlooked.
LEMMA Forsaken ==
    ASSUME NoOrphans
    PROVE  disk \subseteq refused \cup Overlooked
BY DEF NoOrphans, Overlooked

LEMMA InitInv == Init => IInv
<1> SUFFICES ASSUME Init PROVE IInv
  OBVIOUS
<1> USE DEF Init
<1>1. TypeOK
  <2>1. pulled \in [Probers -> BOOLEAN]
    BY Zenon
  <2> QED
    BY <2>1 DEF TypeOK, Bodies
<1>2. NoOrphans /\ ScriptAtHand
  BY DEF NoOrphans, ScriptAtHand
<1> QED
  BY <1>1, <1>2 DEF IInv

LEMMA ReuseInv ==
    ASSUME IInv, NEW c \in Probers, Reuse(c)
    PROVE  IInv'
<1> USE DEF Reuse, Given, Exists
<1>1. TypeOK'
  BY DEF IInv, TypeOK
<1>2. NoOrphans'
  BY DEF IInv, NoOrphans
<1>3. ScriptAtHand'
  BY DEF IInv, TypeOK, ScriptAtHand
<1> QED
  BY <1>1, <1>2, <1>3 DEF IInv

LEMMA CreateInv ==
    ASSUME IInv, NEW c \in Probers, NEW answers \in BOOLEAN, NEW closes \in BOOLEAN,
           Create(c, answers, closes)
    PROVE  IInv'
<1> USE DEF Create, Given
<1>1. PICK n \in Unused : /\ disk' = disk \cup {n} /\ path' = n
                          /\ failure' = ~closes /\ Given(c, n, ~closes)
  OBVIOUS
<1>2. n \in Names /\ n # NoName
  BY NamesAssumption DEF Unused
<1>3. refused' = refused \cup Overlooked /\ Overlooked \subseteq disk
  BY DEF Overlooked
<1>4. TypeOK'
  BY <1>1, <1>2, <1>3 DEF IInv, TypeOK
<1>5. NoOrphans'
  BY <1>1, <1>3, Forsaken DEF IInv, NoOrphans
<1>6. ScriptAtHand'
  BY <1>1 DEF IInv, TypeOK, ScriptAtHand
<1> QED
  BY <1>4, <1>5, <1>6 DEF IInv

LEMMA CreateFailsInv ==
    ASSUME IInv, NEW c \in Probers, NEW answers \in BOOLEAN, NEW left,
           CreateFails(c, answers, left)
    PROVE  IInv'
<1> USE DEF CreateFails, Given
<1>1. left \subseteq Names /\ Overlooked \subseteq disk
  BY DEF Unused, Overlooked
<1>2. TypeOK'
  BY <1>1 DEF IInv, TypeOK
<1>3. NoOrphans'
  BY DEF IInv, NoOrphans
<1>4. ScriptAtHand'
  BY DEF IInv, TypeOK, ScriptAtHand
<1> QED
  BY <1>2, <1>3, <1>4 DEF IInv

\* The request, whichever way it ends, leaves the script alone.
LEMMA RequestInv ==
    ASSUME IInv, NEW c \in Probers, RequestFails(c) \/ Run(c) \/ Parse(c)
    PROVE  IInv'
<1> USE DEF RequestFails, Run, Parse, Returns
<1>1. TypeOK'
  BY DEF IInv, TypeOK, Bodies
<1>2. NoOrphans'
  BY DEF IInv, NoOrphans
<1>3. ScriptAtHand'
  BY DEF IInv, TypeOK, ScriptAtHand
<1> QED
  BY <1>1, <1>2, <1>3 DEF IInv

\* A script that is deleted is marked in every probe that was given it.
LEMMA DeleteInv ==
    ASSUME IInv, NEW n \in Names, Delete(n), path' \in {path, NoName},
           path' = path \/ n = path,
           UNCHANGED <<failure, pc, tmpPath, body, result>>
    PROVE  IInv'
<1> USE NamesAssumption DEF Delete
<1>1. TypeOK'
  BY DEF IInv, TypeOK
<1>2. NoOrphans'
  BY DEF IInv, TypeOK, NoOrphans
<1>3. ScriptAtHand'
  BY DEF IInv, TypeOK, ScriptAtHand
<1> QED
  BY <1>1, <1>2, <1>3 DEF IInv

\* A script whose path is forgotten is gone, or would not go.
LEMMA RemoveInv ==
    ASSUME IInv, RemoveOpcacheScript
    PROVE  IInv'
<1>1. path \in Names /\ path' = NoName
  BY DEF RemoveOpcacheScript, IInv, TypeOK
<1>2. UNCHANGED <<failure, pc, tmpPath, body, result>>
  BY DEF RemoveOpcacheScript
<1>3. CASE Delete(path)
  BY <1>1, <1>2, <1>3, DeleteInv
<1>4. CASE refused' = refused \cup (disk \cap {path}) /\ UNCHANGED <<disk, pulled>>
  <2>1. TypeOK'
    BY <1>1, <1>2, <1>4 DEF IInv, TypeOK
  <2>2. NoOrphans' /\ ScriptAtHand'
    BY <1>1, <1>2, <1>4 DEF IInv, NoOrphans, ScriptAtHand
  <2> QED
    BY <2>1, <2>2 DEF IInv
<1> QED
  BY <1>3, <1>4 DEF RemoveOpcacheScript

LEMMA StepInv == IInv /\ [Next]_vars => IInv'
<1> SUFFICES ASSUME IInv, [Next]_vars PROVE IInv'
  OBVIOUS
<1>1. CASE UNCHANGED vars
  BY <1>1 DEF vars, IInv, TypeOK, NoOrphans, ScriptAtHand
<1>2. ASSUME NEW c \in Probers, Reuse(c) PROVE IInv'
  BY <1>2, ReuseInv
<1>3. ASSUME NEW c \in Probers, NEW answers \in BOOLEAN, NEW closes \in BOOLEAN,
             Create(c, answers, closes)
      PROVE  IInv'
  BY <1>3, CreateInv
<1>4. ASSUME NEW c \in Probers, NEW answers \in BOOLEAN, NEW left,
             CreateFails(c, answers, left)
      PROVE  IInv'
  BY <1>4, CreateFailsInv
<1>5. ASSUME NEW c \in Probers, RequestFails(c) \/ Run(c) \/ Parse(c) PROVE IInv'
  BY <1>5, RequestInv
<1>6. CASE RemoveOpcacheScript
  BY <1>6, RemoveInv
<1>7. CASE Tidy
  <2>1. PICK n \in disk : Delete(n)
    BY <1>7 DEF Tidy
  <2>2. n \in Names
    BY DEF IInv, TypeOK
  <2>3. path' = path /\ path \in {path, NoName}
        /\ UNCHANGED <<failure, pc, tmpPath, body, result>>
    BY <1>7 DEF Tidy
  <2> QED
    BY <2>1, <2>2, <2>3, DeleteInv
<1> QED
  BY <1>1, <1>2, <1>3, <1>4, <1>5, <1>6, <1>7 DEF Next

LEMMA Invariance == Spec => []IInv
BY InitInv, StepInv, PTL DEF Spec

-----------------------------------------------------------------------------

\* Type correctness of the probe: an error of opcacheScript never goes on to
\* PHP-FPM with an empty path, whatever fails and however many probes overlap.
THEOREM TypeCorrect == Spec => []TypeOK
<1>1. IInv => TypeOK
  BY DEF IInv
<1> QED
  BY <1>1, Invariance, PTL

\* For any number of probes, a script RemoveOpcacheScript has no path of is one
\* the file system refused to delete or to Stat: no other failure of opcacheScript
\* leaves one behind.
THEOREM NoneLeftBehind == Spec => []NoOrphans
<1>1. IInv => NoOrphans
  BY DEF IInv
<1> QED
  BY <1>1, Invariance, PTL

\* For any number of probes, a script that PHP-FPM does not find was deleted
\* after this very probe was given its path.
THEOREM AtHand == Spec => []ScriptAtHand
<1>1. IInv => ScriptAtHand
  BY DEF IInv
<1> QED
  BY <1>1, Invariance, PTL

=============================================================================
