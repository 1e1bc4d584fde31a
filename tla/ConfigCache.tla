----------------------------- MODULE ConfigCache -----------------------------
(***************************************************************************)
(* The process-wide cache of parsed php-fpm configurations (config.go).    *)
(*                                                                         *)
(* Any number of goroutines call ParseConfigContext and                    *)
(* InvalidateConfigCache.  The map and the epoch are guarded by            *)
(* fpmConfigCacheLock; the fork of `php-fpm -tt` and the copy handed to    *)
(* the caller are made outside it, so every critical section is one step   *)
(* here and everything between two of them interleaves.                    *)
(*                                                                         *)
(* A configuration is abstracted to the version of the file it was read    *)
(* from, and an *EffectiveConfig to an identity in a heap: what matters is *)
(* which version a pointer leads to, and who else holds that pointer.      *)
(***************************************************************************)
EXTENDS Naturals, FiniteSets

CONSTANTS
    Callers,     \* goroutines that call the package
    Names,       \* every path spelling in play
    Binaries,    \* spellings passed as the php-fpm binary
    Abs,         \* the binaries for which filepath.IsAbs holds
    Configs,     \* spellings passed as the configuration file
    Empty,       \* the empty string
    Clean,       \* filepath.Clean, as a function on Names
    Obj,         \* addresses of EffectiveConfig values
    NoObj,       \* nil
    MaxVersion,  \* bound: rewrites of one configuration file
    MaxEpoch     \* bound: invalidations (the code's counter is a uint64)

ASSUME NamesAssumption ==
    /\ Binaries \subseteq Names /\ Configs \subseteq Names /\ Empty \in Names
    /\ Abs \subseteq Binaries
    /\ Empty \notin Binaries /\ Empty \notin Configs

\* filepath.Clean is idempotent and never returns the empty string ("" cleans
\* to ".", which none of the configured paths does).
ASSUME CleanAssumption ==
    /\ Clean \in [Names -> Names]
    /\ \A n \in Names : Clean[Clean[n]] = Clean[n]
    /\ \A n \in Binaries \cup Configs : Clean[n] # Clean[Empty]

ASSUME ObjAssumption == NoObj \notin Obj

ASSUME BoundAssumption == MaxVersion \in Nat /\ MaxEpoch \in Nat

VARIABLES
    file,       \* [Names -> Nat]: version of the file a cleaned path names
    cache,      \* fpmConfigCache
    epoch,      \* fpmConfigEpoch
    heap,       \* what each EffectiveConfig holds
    pc,         \* where each caller is inside ParseConfigContext
    call,       \* its locals: what it asked for, key, epoch, object
    held,       \* the pointer a caller was last given, nil after an error and
                \* while it calls again (one that keeps more is several callers)
    forgotten   \* history: version of a document when last invalidated

vars == <<file, cache, epoch, heap, pc, call, held, forgotten>>

-----------------------------------------------------------------------------

\* The document a pair of spellings denotes: these files, however spelled.
\* A fact about the file system, which the code's cache key has to agree with.
Denotes(b, p) == <<Clean[b], Clean[p]>>

Docs == {Denotes(b, p) : b \in Abs, p \in Configs}

NoDoc == Denotes(Empty, Empty)

\* As the key was assembled before it was cleaned in one place.
cacheKeyAsSpelled(b, p) == <<b, p>>

cacheKey(binary, configPath) == <<Clean[binary], Clean[configPath]>>

\* The keys a parse can be stored under: only an absolute binary gets that far.
Keys == {cacheKey(b, p) : b \in Abs, p \in Configs}

Content == [doc : Docs \cup {NoDoc}, ver : Nat, edited : BOOLEAN]

NoCall == [doc |-> NoDoc, key |-> cacheKey(Empty, Empty),
           epoch |-> 0, obj |-> NoObj, floor |-> 0]

\* Addresses nothing refers to any more; the collector may hand them out again.
Free == Obj \ ({cache[k] : k \in Keys} \cup {held[c] : c \in Callers}
                 \cup {call[c].obj : c \in Callers})

Init ==
    /\ file = [n \in Names |-> 0]
    /\ cache = [k \in Keys |-> NoObj]
    /\ epoch = 0
    /\ heap = [o \in Obj |-> [doc |-> NoDoc, ver |-> 0, edited |-> FALSE]]
    /\ pc = [c \in Callers |-> "idle"]
    /\ call = [c \in Callers |-> NoCall]
    /\ held = [c \in Callers |-> NoObj]
    /\ forgotten = [d \in Docs |-> 0]

-----------------------------------------------------------------------------
(* ParseConfigContext, one action per stretch between two lock operations. *)

\* A relative binary is refused before anything is looked at.
RefuseRelative(c, b) ==
    /\ pc[c] = "idle"
    /\ b \notin Abs
    /\ held' = [held EXCEPT ![c] = NoObj]
    /\ UNCHANGED <<file, cache, epoch, heap, pc, call, forgotten>>

\* The first critical section: the cached entry and the epoch, read together.
Lookup(c, b, p) ==
    /\ pc[c] = "idle"
    /\ b \in Abs
    /\ LET cached == cache[cacheKey(b, p)]
       IN  /\ call' = [call EXCEPT ![c] =
                         [doc |-> Denotes(b, p), key |-> cacheKey(b, p),
                          epoch |-> epoch, obj |-> cached,
                          floor |-> forgotten[Denotes(b, p)]]]
           /\ pc' = [pc EXCEPT ![c] = IF cached = NoObj THEN "run" ELSE "clone"]
    /\ held' = [held EXCEPT ![c] = NoObj]
    /\ UNCHANGED <<file, cache, epoch, heap, forgotten>>

\* `php-fpm -tt` reads the file and its report is parsed into a new object.
Exec(c) ==
    /\ pc[c] = "run"
    /\ \E o \in Free :
         /\ heap' = [heap EXCEPT ![o] = [doc |-> call[c].doc,
                                         ver |-> file[call[c].doc[2]],
                                         edited |-> FALSE]]
         /\ call' = [call EXCEPT ![c].obj = o]
    /\ pc' = [pc EXCEPT ![c] = "store"]
    /\ UNCHANGED <<file, cache, epoch, held, forgotten>>

\* An error path that goes on to the store with what it has.
ExecFailsThrough(c) ==
    /\ pc[c] = "run"
    /\ pc' = [pc EXCEPT ![c] = "store"]
    /\ UNCHANGED <<file, cache, epoch, heap, call, held, forgotten>>

\* The command failed or was cut short by the context, its output was
\* truncated, or the report could not be scanned: every error path returns nil
\* and stores nothing.
ExecFails(c) ==
    /\ pc[c] = "run"
    /\ call' = [call EXCEPT ![c] = NoCall]
    /\ pc' = [pc EXCEPT ![c] = "idle"]
    /\ UNCHANGED <<file, cache, epoch, heap, held, forgotten>>

\* Store, without comparing the epochs.
StoreAnyway(c) ==
    /\ pc[c] = "store"
    /\ cache' = [cache EXCEPT ![call[c].key] = call[c].obj]
    /\ pc' = [pc EXCEPT ![c] = "clone"]
    /\ UNCHANGED <<file, epoch, heap, call, held, forgotten>>

\* The second critical section: kept only if nothing was invalidated since.
Store(c) ==
    /\ pc[c] = "store"
    /\ cache' = IF epoch = call[c].epoch
                THEN [cache EXCEPT ![call[c].key] = call[c].obj]
                ELSE cache
    /\ pc' = [pc EXCEPT ![c] = "clone"]
    /\ UNCHANGED <<file, epoch, heap, call, held, forgotten>>

\* Return the cached pointer itself.
CloneShares(c) ==
    /\ pc[c] = "clone"
    /\ held' = [held EXCEPT ![c] = call[c].obj]
    /\ call' = [call EXCEPT ![c] = NoCall]
    /\ pc' = [pc EXCEPT ![c] = "idle"]
    /\ UNCHANGED <<file, cache, epoch, heap, forgotten>>

\* Outside the lock, copy the object and return the copy.
Clone(c) ==
    /\ pc[c] = "clone"
    /\ \E o \in Free :
         /\ heap' = [heap EXCEPT ![o] = heap[call[c].obj]]
         /\ held' = [held EXCEPT ![c] = o]
    /\ call' = [call EXCEPT ![c] = NoCall]
    /\ pc' = [pc EXCEPT ![c] = "idle"]
    /\ UNCHANGED <<file, cache, epoch, forgotten>>

-----------------------------------------------------------------------------

\* The history of what has been forgotten, by document and not by key.
Forget(b, p) ==
    forgotten' = [d \in Docs |->
                    IF (b = Empty /\ p = Empty) \/ d = Denotes(b, p)
                    THEN file[d[2]] ELSE forgotten[d]]

\* Moves the epoch only when there was an entry to delete.
InvalidateQuietly(b, p) ==
    LET hit == {k \in Keys : (b = Empty /\ p = Empty) \/ k = cacheKey(b, p)}
    IN  /\ epoch < MaxEpoch
        /\ cache' = [k \in Keys |-> IF k \in hit THEN NoObj ELSE cache[k]]
        /\ epoch' = IF \E k \in hit : cache[k] # NoObj THEN epoch + 1 ELSE epoch
        /\ Forget(b, p)
        /\ UNCHANGED <<file, heap, pc, call, held>>

\* Every invalidation moves the epoch, whatever it found to delete.
InvalidateConfigCache(b, p) ==
    /\ epoch < MaxEpoch
    /\ cache' = [k \in Keys |->
                   IF (b = Empty /\ p = Empty) \/ k = cacheKey(b, p)
                   THEN NoObj ELSE cache[k]]
    /\ epoch' = epoch + 1
    /\ Forget(b, p)
    /\ UNCHANGED <<file, heap, pc, call, held>>

\* A caller changes the configuration it was given: it is the caller's to keep.
Edit(c) ==
    /\ held[c] # NoObj
    /\ ~heap[held[c]].edited
    /\ heap' = [heap EXCEPT ![held[c]].edited = TRUE]
    /\ UNCHANGED <<file, cache, epoch, pc, call, held, forgotten>>

\* Someone rewrites a configuration file.
WriteConfig(p) ==
    /\ file[Clean[p]] < MaxVersion
    /\ file' = [file EXCEPT ![Clean[p]] = @ + 1]
    /\ UNCHANGED <<cache, epoch, heap, pc, call, held, forgotten>>

Next ==
    \/ \E c \in Callers :
         \/ \E b \in Binaries : RefuseRelative(c, b)
         \/ \E b \in Binaries, p \in Configs : Lookup(c, b, p)
         \/ Exec(c)
         \/ ExecFails(c)
         \/ Store(c)
         \/ Clone(c)
         \/ Edit(c)
    \/ \E b \in Binaries \cup {Empty}, p \in Configs \cup {Empty} :
         InvalidateConfigCache(b, p)
    \/ \E p \in Configs : WriteConfig(p)

Spec == Init /\ [][Next]_vars

-----------------------------------------------------------------------------
(* Properties *)

\* Every variable has its type, and a call that is about to store or to copy a
\* configuration has one: no error path of ParseConfigContext reaches the store
\* or hands a nil configuration to clone.
TypeOK ==
    /\ file \in [Names -> Nat]
    /\ cache \in [Keys -> Obj \cup {NoObj}]
    /\ epoch \in Nat
    /\ heap \in [Obj -> Content]
    /\ pc \in [Callers -> {"idle", "run", "store", "clone"}]
    /\ call \in [Callers -> [doc : Docs \cup {NoDoc},
                             key : Keys \cup {cacheKey(Empty, Empty)}, epoch : Nat,
                             obj : Obj \cup {NoObj}, floor : Nat]]
    /\ held \in [Callers -> Obj \cup {NoObj}]
    /\ forgotten \in [Docs -> Nat]
    /\ \A c \in Callers :
         /\ pc[c] # "idle" => call[c].doc \in Docs /\ call[c].key \in Keys
         /\ pc[c] \in {"store", "clone"} => call[c].obj \in Obj

\* What InvalidateConfigCache forgot stays forgotten: no cached entry is older
\* than its document was when it was last invalidated, however the parse that
\* stored it overlapped the invalidation.
ForgottenStaysForgotten ==
    \A b \in Abs, p \in Configs :
        LET cached == cache[cacheKey(b, p)]
        IN  cached # NoObj => heap[cached].ver >= forgotten[Denotes(b, p)]

Returns(c) == pc[c] = "clone" /\ pc'[c] = "idle"

\* A ParseConfigContext that begins after an invalidation answers with the
\* requested document, in a version no older than it had at that invalidation,
\* whichever spelling of the paths was used for either.
AnswerNotStale ==
    [][\A c \in Callers :
         Returns(c) => /\ heap'[held'[c]].doc = call[c].doc
                       /\ heap'[held'[c]].ver >= call[c].floor]_vars

\* What ParseConfigContext returns is what php-fpm reported: an edit made by
\* any caller to any configuration it was given never reaches another answer.
AnswerIsAsParsed ==
    [][\A c \in Callers : Returns(c) => ~heap'[held'[c]].edited]_vars

\* What a caller sees of the cache: the versions of the files, the question it
\* has open and the answer it was given.
Version == [d \in Docs |-> file[d[2]]]

Asked == [c \in Callers |->
            IF pc[c] = "idle" THEN [open |-> FALSE]
            ELSE [open |-> TRUE, doc |-> call[c].doc, floor |-> call[c].floor]]

Told == [c \in Callers |->
           IF held[c] = NoObj THEN [given |-> FALSE]
           ELSE [given |-> TRUE, doc |-> heap[held[c]].doc,
                 ver |-> heap[held[c]].ver, edited |-> heap[held[c]].edited]]

Promise == INSTANCE ConfigPromise WITH
    version <- Version, ask <- Asked, answer <- Told

\* The cache, its epoch, its keys and its copies implement a service that has
\* none of them: whatever overlaps, ParseConfigContext answers as if it had read
\* the files itself, at some moment since they were last invalidated, for this
\* caller alone.
PromiseKept == Promise!Spec

=============================================================================
