------------------------------ MODULE PathTrust ------------------------------
(***************************************************************************)
(* trustedPath (trust.go): whether a path may be executed, decided from    *)
(* the owners and modes of the file and of every directory above it.       *)
(*                                                                         *)
(* The path is its components: 0 is the root directory, N the file, and    *)
(* component i an entry of the directory i - 1.  The check reads them one  *)
(* lstat at a time, the directories from the file upwards, then the file,  *)
(* and what it accepted is executed later.  Other users work on the same   *)
(* file system throughout; they are one user here, "them", who can do      *)
(* what any of them can.  Root and the user running this are taken to mean *)
(* what they do, and change nothing while it runs.                         *)
(*                                                                         *)
(* Modes are Linux's: a symbolic link reads as writable by everyone.       *)
(***************************************************************************)
EXTENDS Integers

CONSTANTS
    N,        \* how deep the file lies
    Nodes     \* the files, directories and links there are on this host

Owners == {"root", "us", "them"}

\* Writable by the owner alone, by the group too, or by everyone.
Perms == {"owner", "group", "world"}

Node ==
    [kind : {"dir", "file"}, owner : Owners, perm : Perms, sticky : BOOLEAN]
      \cup [kind : {"link"}, owner : Owners, perm : {"world"}, sticky : {FALSE}]
      \cup [kind : {"none"}, owner : {"root"}, perm : {"owner"}, sticky : {FALSE}]

ASSUME PathAssumption == N \in Nat \ {0} /\ Nodes \subseteq Node

VARIABLES
    uid,      \* who runs the check
    member,   \* they belong to the group of the files on the path
    node,     \* what each component of the path is now
    pc,       \* where trustedPath is
    at,       \* the directory trustedAncestors looks at next, -1 after the root
    clear,    \* history: nobody else owned a directory when it was accepted
    brought,  \* history: a directory not theirs was moved into a sticky one
    swapped   \* history: what the path leads to changed since it was accepted

vars == <<uid, member, node, pc, at, clear, brought, swapped>>

\* What can stand at a component.
Fits(n, i) == IF i = N THEN n.kind # "dir" /\ ~n.sticky ELSE n.kind # "file"

\* What can stand at it and below it.
Tails == [i \in 0 .. N |->
            {f \in [i .. N -> Nodes] : \A k \in i .. N : Fits(f[k], k)}]

Init ==
    /\ uid \in {"root", "us"}
    /\ member \in BOOLEAN
    /\ node \in Tails[0]
    /\ pc = "walk"
    /\ at = N - 1
    /\ clear = FALSE
    /\ brought = FALSE
    /\ swapped = FALSE

-----------------------------------------------------------------------------
(* The check *)

\* os.Getuid() == 0
strict == uid = "root"

\* A directory as trustedAncestors judges it.
trustedDir(n) ==
    /\ n.kind # "none"
    /\ IF strict THEN n.owner = "root" /\ (n.perm = "owner" \/ n.sticky)
                 ELSE n.perm = "world" => n.sticky

\* The file as trustedPath judges it, once the directories have passed.
trustedFile(n) ==
    /\ n.kind = "file"
    /\ n.owner \in {"root", uid}
    /\ n.perm = "owner"

\* Looks at the directory the file is in, and no further up.
WalkOnce ==
    /\ pc = "walk"
    /\ IF trustedDir(node[at]) THEN pc' = "file" /\ at' = -1
                               ELSE pc' = "refused" /\ UNCHANGED at
    /\ UNCHANGED <<uid, member, node, clear, brought, swapped>>

\* Takes the root directory for granted.
WalkBelowRoot ==
    /\ pc = "walk"
    /\ IF trustedDir(node[at])
       THEN at' = at - 1 /\ pc' = (IF at <= 1 THEN "file" ELSE "walk")
       ELSE pc' = "refused" /\ UNCHANGED at
    /\ UNCHANGED <<uid, member, node, clear, brought, swapped>>

\* One turn of trustedAncestors: the directory, then the one above it.
Walk ==
    /\ pc = "walk"
    /\ IF trustedDir(node[at])
       THEN at' = at - 1 /\ pc' = (IF at = 0 THEN "file" ELSE "walk")
       ELSE pc' = "refused" /\ UNCHANGED at
    /\ UNCHANGED <<uid, member, node, clear, brought, swapped>>

\* The path leads through directories only, none of them somebody else's.
Clear == \A i \in 0 .. N - 1 : node[i].kind = "dir" /\ node[i].owner # "them"

\* Only the file itself is left to look at.
File ==
    /\ pc = "file"
    /\ pc' = IF trustedFile(node[N]) THEN "accepted" ELSE "refused"
    /\ clear' = (Clear /\ ~member)
    /\ UNCHANGED <<uid, member, node, at, brought, swapped>>

-----------------------------------------------------------------------------
(* The other users of the file system, until something has been swapped *)

\* They may write to it; an owner can always give himself the permission.
Writable(n) ==
    \/ n.owner = "them"
    \/ n.perm = "world"
    \/ n.perm = "group" /\ member

\* A sticky directory keeps its entries for their owners, and its own.
Guarded(i) == node[i - 1].sticky /\ node[i - 1].owner # "them"

\* They may put something else where component i is.
Movable(i) ==
    /\ Writable(node[i - 1])
    /\ Guarded(i) => node[i].kind = "none" \/ node[i].owner = "them"

\* Component i is replaced, by anything they have there or can make, and with a
\* directory everything below it.  Into a guarded directory they bring it from
\* elsewhere, and to give a directory another parent they need to be able to
\* write to it.
Replace(i) ==
    /\ pc # "refused" /\ ~swapped
    /\ Movable(i)
    /\ \E f \in Tails[i] :
         /\ Guarded(i) /\ f[i].kind = "dir" => Writable(f[i])
         /\ node' = [k \in 0 .. N |-> IF k < i THEN node[k] ELSE f[k]]
         /\ brought' = (brought \/ (Guarded(i) /\ f[i].kind = "dir" /\ f[i].owner # "them"))
    /\ swapped' = (swapped \/ pc = "accepted")
    /\ UNCHANGED <<uid, member, pc, at, clear>>

\* They change the mode of what is theirs.
Chmod(i) ==
    /\ pc # "refused" /\ ~swapped
    /\ node[i].owner = "them"
    /\ \E n \in Nodes :
         /\ Fits(n, i) /\ n.kind = node[i].kind /\ n.owner = "them"
         /\ node' = [node EXCEPT ![i] = n]
    /\ UNCHANGED <<uid, member, pc, at, clear, brought, swapped>>

\* They write to the file, which matters once it was accepted.
Write ==
    /\ pc # "refused" /\ ~swapped
    /\ node[N].kind = "file" /\ Writable(node[N])
    /\ swapped' = (pc = "accepted")
    /\ UNCHANGED <<uid, member, node, pc, at, clear, brought>>

Next ==
    \/ Walk \/ File
    \/ \E i \in 1 .. N : Replace(i)
    \/ \E i \in 0 .. N : Chmod(i)
    \/ Write

Spec == Init /\ [][Next]_vars

-----------------------------------------------------------------------------
(* Properties *)

\* Every variable has its type, and the file is looked at only after every
\* directory above it.
TypeOK ==
    /\ uid \in {"root", "us"} /\ member \in BOOLEAN
    /\ node \in Tails[0]
    /\ pc \in {"walk", "file", "accepted", "refused"}
    /\ at \in -1 .. N - 1
    /\ pc \in {"file", "accepted"} => at = -1
    /\ pc = "walk" => at # -1
    /\ clear \in BOOLEAN /\ brought \in BOOLEAN /\ swapped \in BOOLEAN

\* What is executed is what was checked: from the moment trustedPath accepts a
\* path nobody else can change what it leads to, although its directories were
\* read one after the other while others were at work on them.  This holds for a
\* check run as root, and for another user's where the path leads through
\* directories only, nobody else owns one and the group is not theirs.  The one
\* exception is a directory others can write to although it is not theirs, which
\* they moved into a sticky directory: it passes for one that was there before.
RunsWhatItChecked ==
    pc = "accepted" /\ (strict \/ clear) /\ ~brought => ~swapped

=============================================================================
