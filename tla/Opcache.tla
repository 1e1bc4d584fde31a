------------------------------- MODULE Opcache -------------------------------
(***************************************************************************)
(* The opcache probe (opcache.go): a status script written once under a    *)
(* random name, handed to PHP-FPM by path, and deleted at shutdown.        *)
(*                                                                         *)
(* opcacheScript and RemoveOpcacheScript run under opcacheScriptMu, each   *)
(* one step here.  Everything after it does not: PHP-FPM opens the file    *)
(* when the request reaches a worker, and by then RemoveOpcacheScript or   *)
(* whatever tidies the temporary directory may have deleted it.            *)
(*                                                                         *)
(* Every operation on the file may fail, the deletes and the Stat too: the *)
(* code ignores the error of a delete and takes any error of Stat for a    *)
(* file that is missing.                                                   *)
(***************************************************************************)
EXTENDS Naturals, FiniteSets

CONSTANTS
    Probers,   \* goroutines in GetOpcacheStatus
    Names,     \* names os.CreateTemp draws from
    NoName     \* the empty string

ASSUME NamesAssumption == NoName \notin Names

VARIABLES
    path,     \* opcacheScriptPath
    failure,  \* opcacheScriptErr # nil
    disk,     \* the scripts in the temporary directory
    pc,       \* where each prober is inside GetOpcacheStatus
    tmpPath,  \* its local of that name
    body,     \* what PHP-FPM answered it
    result,   \* what its last probe returned
    pulled,   \* history: its script was deleted after it was given the path
    refused   \* history: scripts on disk of which a delete or a Stat failed

vars == <<path, failure, disk, pc, tmpPath, body, result, pulled, refused>>

\* A body is the cache's state, JSON that states none (PHP's false and null
\* among it), or no JSON: what PHP-FPM says of a script it cannot find.
Bodies == {"state", "stateless", "text"}

Init ==
    /\ path = NoName /\ failure = FALSE
    /\ disk = {}
    /\ pc = [c \in Probers |-> "idle"]
    /\ tmpPath = [c \in Probers |-> NoName]
    /\ body = [c \in Probers |-> "text"]
    /\ result = [c \in Probers |-> "none"]
    /\ pulled = [c \in Probers |-> FALSE]
    /\ refused = {}

-----------------------------------------------------------------------------
(* opcacheScript, and the return of its error by GetOpcacheStatus *)

\* A random name: none that is on disk, or that anyone still refers to.
Unused == Names \ (disk \cup {path} \cup {tmpPath[c] : c \in Probers})

\* What os.Stat says of the path kept, if it can say.
Exists(answers) == path # NoName /\ path \in disk /\ answers

\* The caller gets path and error: with an error its probe is over.
Given(c, p, err) ==
    /\ tmpPath' = [tmpPath EXCEPT ![c] = IF err THEN NoName ELSE p]
    /\ pc' = [pc EXCEPT ![c] = IF err THEN "idle" ELSE "request"]
    /\ result' = [result EXCEPT ![c] = IF err THEN "error" ELSE "none"]
    /\ pulled' = [pulled EXCEPT ![c] = FALSE]
    /\ UNCHANGED body

\* Written exactly once: the path is never looked at again.
ReuseOnce(c) ==
    /\ pc[c] = "idle"
    /\ path # NoName
    /\ Given(c, path, FALSE)
    /\ UNCHANGED <<path, failure, disk, refused>>

\* The script is still there: its path, and no error.
Reuse(c) ==
    /\ pc[c] = "idle"
    /\ Exists(TRUE)
    /\ Given(c, path, FALSE)
    /\ UNCHANGED <<path, failure, disk, refused>>

\* No script is seen at the path: there is none, or Stat would not say.
Missing(c, answers) ==
    /\ pc[c] = "idle"
    /\ ~Exists(answers)

\* What Stat would not say of a script that is there.
Overlooked == disk \cap {path}

\* Takes the path only of a file it could close.
CreateThenTake(c, answers, closes) ==
    /\ Missing(c, answers)
    /\ \E n \in Unused :
         /\ disk' = disk \cup {n}
         /\ path' = IF closes THEN n ELSE path
         /\ failure' = ~closes
         /\ Given(c, n, ~closes)
    /\ refused' = refused \cup Overlooked

\* Created, written and made readable; its path is kept before it is closed,
\* so a close that fails costs this probe and not the file.
Create(c, answers, closes) ==
    /\ Missing(c, answers)
    /\ \E n \in Unused :
         /\ disk' = disk \cup {n}
         /\ path' = n
         /\ failure' = ~closes
         /\ Given(c, n, ~closes)
    /\ refused' = refused \cup Overlooked

\* The error is kept and not returned.
CreateFailsQuietly(c, answers, left) ==
    /\ Missing(c, answers)
    /\ failure' = TRUE
    /\ Given(c, path, FALSE)
    /\ UNCHANGED <<path, disk, refused>>

\* Creating, writing or chmod fails: what was created is deleted, unless that
\* fails too and it is left; the path stays what it was.
CreateFails(c, answers, left) ==
    /\ Missing(c, answers)
    /\ left \subseteq Unused
    /\ disk' = disk \cup left
    /\ refused' = refused \cup left \cup Overlooked
    /\ failure' = TRUE
    /\ Given(c, path, TRUE)
    /\ UNCHANGED path

-----------------------------------------------------------------------------
(* The rest of GetOpcacheStatus *)

Returns(c, r) ==
    /\ pc' = [pc EXCEPT ![c] = "idle"]
    /\ tmpPath' = [tmpPath EXCEPT ![c] = NoName]
    /\ result' = [result EXCEPT ![c] = r]

\* The address, the connection, the request or the read of its answer fails,
\* or the context ends one of them.
RequestFails(c) ==
    /\ pc[c] = "request"
    /\ Returns(c, "error")
    /\ UNCHANGED <<path, failure, disk, body, pulled, refused>>

\* A worker of the pool opens the script and runs it; opcache_get_status may
\* decline to say, and a script that is not there is a page that says so.
Run(c) ==
    /\ pc[c] = "request"
    /\ \E b \in Bodies :
         /\ b = "text" <=> tmpPath[c] \notin disk
         /\ body' = [body EXCEPT ![c] = b]
    /\ pc' = [pc EXCEPT ![c] = "parse"]
    /\ UNCHANGED <<path, failure, disk, tmpPath, result, pulled, refused>>

\* parseOpcacheStatus requires the state to be explicit.
Parse(c) ==
    /\ pc[c] = "parse"
    /\ Returns(c, IF body[c] = "state" THEN "status" ELSE "error")
    /\ UNCHANGED <<path, failure, disk, body, pulled, refused>>

-----------------------------------------------------------------------------

\* The script n is gone, and with it that of the probes that were given it.
Delete(n) ==
    /\ disk' = disk \ {n}
    /\ refused' = refused \ {n}
    /\ pulled' = [c \in Probers |-> pulled[c] \/ (n # NoName /\ tmpPath[c] = n)]

\* Deletes the script, or fails to, and forgets its path either way, so that the
\* next probe writes another.
RemoveOpcacheScript ==
    /\ path # NoName
    /\ \/ Delete(path)
       \/ refused' = refused \cup (disk \cap {path}) /\ UNCHANGED <<disk, pulled>>
    /\ path' = NoName
    /\ UNCHANGED <<failure, pc, tmpPath, body, result>>

\* Something else tidies the temporary directory.
Tidy ==
    /\ \E n \in disk : Delete(n)
    /\ UNCHANGED <<path, failure, pc, tmpPath, body, result>>

Next ==
    \/ \E c \in Probers :
         \/ Reuse(c)
         \/ \E answers, closes \in BOOLEAN : Create(c, answers, closes)
         \/ \E answers \in BOOLEAN, left \in {{}} \cup {{n} : n \in Names} :
              CreateFails(c, answers, left)
         \/ RequestFails(c)
         \/ Run(c)
         \/ Parse(c)
    \/ RemoveOpcacheScript
    \/ Tidy

Spec == Init /\ [][Next]_vars

-----------------------------------------------------------------------------
(* Properties *)

\* Every variable has its type, and a probe under way has a path to send: an
\* error of opcacheScript never goes on to PHP-FPM with an empty one.
TypeOK ==
    /\ path \in Names \cup {NoName}
    /\ failure \in BOOLEAN
    /\ disk \subseteq Names
    /\ pc \in [Probers -> {"idle", "request", "parse"}]
    /\ tmpPath \in [Probers -> Names \cup {NoName}]
    /\ body \in [Probers -> Bodies]
    /\ result \in [Probers -> {"none", "error", "status"}]
    /\ pulled \in [Probers -> BOOLEAN]
    /\ refused \subseteq disk
    /\ \A c \in Probers : pc[c] # "idle" => tmpPath[c] # NoName

\* PHP-FPM finds the script it is sent to, unless it was deleted after this
\* very probe was given its path: a RemoveOpcacheScript, or a tidied directory,
\* costs the probes in flight and never one that begins later.
ScriptAtHand ==
    \A c \in Probers :
        pc[c] = "request" /\ ~pulled[c] => tmpPath[c] \in disk

\* A script in the temporary directory is one whose path is kept, so that
\* RemoveOpcacheScript will delete it, or one the file system refused to delete or
\* to Stat.  A failure to create, write, chmod or close, however it overlaps
\* removals and other probes, leaves by itself no file that nothing will delete.
NoOrphans == disk \subseteq {path} \cup refused

=============================================================================
