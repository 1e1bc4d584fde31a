-------------------------- MODULE ConfigCacheProofs --------------------------
(***************************************************************************)
(* Proofs that the configuration cache keeps its promises for any number   *)
(* of callers, paths, addresses, rewrites and invalidations, and, in the   *)
(* second part, that the command behind a parse keeps its own.             *)
(*                                                                         *)
(* None of the properties is inductive.  IInv adds what relates a call in  *)
(* flight to the cache it is going to write: its epoch is not ahead of the *)
(* cache's, its object is as fresh as its epoch says (Timely), and no      *)
(* pointer a caller holds is one the package still uses (Private).         *)
(***************************************************************************)
EXTENDS ConfigCache, BoundedRun, TLAPS

\* The history never runs ahead of the file.
Past == \A d \in Docs : forgotten[d] <= file[d[2]]

\* A call in flight knows an epoch that has been, holds the key of its own
\* document, began after whatever its floor records, and has no answer yet.
InFlight ==
    \A c \in Callers :
        /\ call[c].epoch <= epoch
        /\ pc[c] # "idle" => call[c].key = call[c].doc /\ held[c] = NoObj
        /\ pc[c] \in {"idle", "run"} => call[c].obj = NoObj
        /\ pc[c] = "run" => call[c].floor <= file[call[c].doc[2]]

\* An object in a call's hands is the parse of its document, unedited, no older
\* than the call's floor and no newer than the file; and if nothing was invalidated since the call's epoch
\* it is no older than the last invalidation.
Timely ==
    \A c \in Callers :
        pc[c] \in {"store", "clone"} =>
            /\ heap[call[c].obj].doc = call[c].doc
            /\ ~heap[call[c].obj].edited
            /\ heap[call[c].obj].ver >= call[c].floor
            /\ heap[call[c].obj].ver <= file[call[c].doc[2]]
            /\ pc[c] = "store" /\ call[c].epoch = epoch =>
                 heap[call[c].obj].ver >= forgotten[call[c].doc]

\* The same of what is cached, with its key for the document.
Cached ==
    \A k \in Keys :
        cache[k] # NoObj =>
            /\ heap[cache[k]].doc = k
            /\ ~heap[cache[k]].edited
            /\ heap[cache[k]].ver >= forgotten[k]
            /\ heap[cache[k]].ver <= file[k[2]]

\* What one caller holds, nobody else can reach.
Private ==
    \A c \in Callers :
        held[c] # NoObj =>
            /\ \A k \in Keys : cache[k] # held[c]
            /\ \A d \in Callers : call[d].obj # held[c]
            /\ \A d \in Callers \ {c} : held[d] # held[c]

IInv == TypeOK /\ Past /\ InFlight /\ Timely /\ Cached /\ Private

-----------------------------------------------------------------------------

\* The code's key agrees with the document two spellings denote.
LEMMA KeyIsDoc ==
    /\ Keys = Docs
    /\ \A b, p : cacheKey(b, p) = Denotes(b, p)
    /\ \A d \in Docs : d[2] \in Names
    /\ NoDoc \notin Docs
<1>1. \A b, p : cacheKey(b, p) = Denotes(b, p)
  BY DEF cacheKey, Denotes
<1>2. Keys = Docs
  BY <1>1 DEF Keys, Docs
<1>3. \A d \in Docs : d[2] \in Names
  BY NamesAssumption, CleanAssumption DEF Docs, Denotes
<1>4. NoDoc \notin Docs
  BY NamesAssumption, CleanAssumption DEF Docs, NoDoc, Denotes
<1> QED BY <1>1, <1>2, <1>3, <1>4

\* An address taken from Free is one nothing refers to.
LEMMA FreeIsUnused ==
    ASSUME NEW o \in Free
    PROVE  /\ o \in Obj /\ o # NoObj
           /\ \A k \in Keys : cache[k] # o
           /\ \A c \in Callers : held[c] # o /\ call[c].obj # o
BY ObjAssumption DEF Free

LEMMA InitIInv == Init => IInv
<1> SUFFICES ASSUME Init PROVE IInv
  OBVIOUS
<1>1. TypeOK
  BY NamesAssumption, KeyIsDoc DEF Init, TypeOK, NoCall, Content, NoDoc
<1>2. Past /\ InFlight /\ Timely /\ Cached /\ Private
  BY KeyIsDoc DEF Init, Past, InFlight, Timely, Cached, Private, NoCall
<1> QED BY <1>1, <1>2 DEF IInv

-----------------------------------------------------------------------------

LEMMA RefuseRelativeIInv ==
    ASSUME IInv, NEW c \in Callers, NEW b \in Binaries, RefuseRelative(c, b)
    PROVE  IInv'
<1> USE DEF IInv, RefuseRelative
<1>1. TypeOK'
  BY DEF TypeOK
<1>2. (Past /\ InFlight /\ Timely /\ Cached)'
  BY DEF Past, InFlight, Timely, Cached
<1>3. Private'
  BY DEF Private, TypeOK
<1> QED BY <1>1, <1>2, <1>3

LEMMA LookupIInv ==
    ASSUME IInv, NEW c \in Callers, NEW b \in Binaries, NEW p \in Configs,
           Lookup(c, b, p)
    PROVE  IInv'
<1> DEFINE doc == Denotes(b, p)
           cached == cache[doc]
<1> USE DEF IInv
<1>a. doc \in Docs /\ doc \in Keys
  BY KeyIsDoc DEF Lookup, Docs
<1>b. cacheKey(b, p) = doc
  BY KeyIsDoc
<1>0. /\ doc \in Docs /\ doc \in Keys
      /\ call' = [call EXCEPT ![c] = [doc |-> doc, key |-> doc, epoch |-> epoch,
                                      obj |-> cached, floor |-> forgotten[doc]]]
      /\ pc' = [pc EXCEPT ![c] = IF cached = NoObj THEN "run" ELSE "clone"]
      /\ held' = [held EXCEPT ![c] = NoObj]
      /\ UNCHANGED <<file, cache, epoch, heap, forgotten>>
  BY <1>a, <1>b DEF Lookup
<1> HIDE DEF doc
<1>1. TypeOK'
  BY <1>0 DEF TypeOK
<1>2. Past' /\ Cached'
  BY <1>0 DEF Past, Cached
<1>3. InFlight'
  BY <1>0 DEF TypeOK, InFlight, Past
<1>4. Timely'
  BY <1>0 DEF TypeOK, Timely, Cached
<1>5. Private'
  BY <1>0 DEF TypeOK, Private
<1> QED BY <1>1, <1>2, <1>3, <1>4, <1>5

LEMMA ExecIInv ==
    ASSUME IInv, NEW c \in Callers, Exec(c)
    PROVE  IInv'
<1> USE DEF IInv
<1> PICK o \in Free :
       /\ heap' = [heap EXCEPT ![o] = [doc |-> call[c].doc,
                                       ver |-> file[call[c].doc[2]],
                                       edited |-> FALSE]]
       /\ call' = [call EXCEPT ![c].obj = o]
  BY DEF Exec
<1>0. /\ pc[c] = "run" /\ pc' = [pc EXCEPT ![c] = "store"]
      /\ UNCHANGED <<file, cache, epoch, held, forgotten>>
      /\ call[c].doc \in Docs /\ call[c].doc[2] \in Names
  BY KeyIsDoc DEF Exec, TypeOK
<1>1. TypeOK'
  BY <1>0, FreeIsUnused DEF TypeOK, Content
<1>2. Past'
  BY <1>0 DEF Past
<1>3. InFlight'
  BY <1>0 DEF TypeOK, InFlight
<1>4. Timely'
  BY <1>0, FreeIsUnused DEF TypeOK, Timely, InFlight, Past
<1>5. Cached'
  BY <1>0, FreeIsUnused DEF TypeOK, Cached
<1>6. Private'
  BY <1>0, FreeIsUnused DEF TypeOK, Private
<1> QED BY <1>1, <1>2, <1>3, <1>4, <1>5, <1>6

LEMMA ExecFailsIInv ==
    ASSUME IInv, NEW c \in Callers, ExecFails(c)
    PROVE  IInv'
<1> USE DEF IInv, ExecFails
<1>1. TypeOK'
  BY NamesAssumption DEF TypeOK, NoCall
<1>2. Past' /\ Cached'
  BY DEF Past, Cached
<1>3. InFlight' /\ Timely'
  BY DEF TypeOK, InFlight, Timely, NoCall
<1>4. Private'
  BY DEF TypeOK, Private, NoCall
<1> QED BY <1>1, <1>2, <1>3, <1>4

LEMMA StoreIInv ==
    ASSUME IInv, NEW c \in Callers, Store(c)
    PROVE  IInv'
<1> USE DEF IInv
<1>0. /\ pc[c] = "store" /\ pc' = [pc EXCEPT ![c] = "clone"]
      /\ UNCHANGED <<file, epoch, heap, call, held, forgotten>>
      /\ call[c].key = call[c].doc /\ call[c].key \in Keys
      /\ call[c].obj \in Obj /\ call[c].obj # NoObj
  BY ObjAssumption DEF Store, TypeOK, InFlight
<1>1. \/ cache' = cache
      \/ /\ epoch = call[c].epoch
         /\ cache' = [cache EXCEPT ![call[c].key] = call[c].obj]
  BY DEF Store
<1>2. TypeOK'
  BY <1>0, <1>1 DEF TypeOK
<1>3. Past' /\ InFlight' /\ Timely'
  BY <1>0 DEF TypeOK, Past, InFlight, Timely
<1>4. Cached'
  BY <1>0, <1>1 DEF TypeOK, Cached, Timely
<1>5. Private'
  BY <1>0, <1>1 DEF TypeOK, Private
<1> QED BY <1>2, <1>3, <1>4, <1>5

LEMMA CloneIInv ==
    ASSUME IInv, NEW c \in Callers, Clone(c)
    PROVE  IInv'
<1> USE DEF IInv
<1> PICK o \in Free :
       /\ heap' = [heap EXCEPT ![o] = heap[call[c].obj]]
       /\ held' = [held EXCEPT ![c] = o]
  BY DEF Clone
<1>0. /\ pc[c] = "clone" /\ pc' = [pc EXCEPT ![c] = "idle"]
      /\ call' = [call EXCEPT ![c] = NoCall]
      /\ UNCHANGED <<file, cache, epoch, forgotten>>
      /\ call[c].obj \in Obj
  BY DEF Clone, TypeOK
<1>1. TypeOK'
  BY <1>0, FreeIsUnused, NamesAssumption DEF TypeOK, NoCall
<1>2. Past'
  BY <1>0 DEF Past
<1>3. InFlight'
  BY <1>0 DEF TypeOK, InFlight, NoCall
<1>4. Timely'
  BY <1>0, FreeIsUnused DEF TypeOK, Timely, NoCall
<1>5. Cached'
  BY <1>0, FreeIsUnused DEF TypeOK, Cached
<1>6. Private'
  BY <1>0, FreeIsUnused DEF TypeOK, Private, NoCall
<1> QED BY <1>1, <1>2, <1>3, <1>4, <1>5, <1>6

LEMMA InvalidateIInv ==
    ASSUME IInv, NEW b \in Binaries \cup {Empty}, NEW p \in Configs \cup {Empty},
           InvalidateConfigCache(b, p)
    PROVE  IInv'
<1> USE DEF IInv
<1> DEFINE hit(d) == (b = Empty /\ p = Empty) \/ d = Denotes(b, p)
<1>0. /\ cache' = [k \in Keys |-> IF hit(k) THEN NoObj ELSE cache[k]]
      /\ forgotten' = [d \in Docs |-> IF hit(d) THEN file[d[2]] ELSE forgotten[d]]
      /\ epoch' = epoch + 1
      /\ UNCHANGED <<file, heap, pc, call, held>>
  BY KeyIsDoc DEF InvalidateConfigCache, Forget
<1> HIDE DEF hit
<1>1. TypeOK'
  BY <1>0, KeyIsDoc DEF TypeOK
<1>2. Past'
  BY <1>0, KeyIsDoc DEF TypeOK, Past
<1>3. InFlight'
  BY <1>0 DEF TypeOK, InFlight
<1>4. Timely'
  BY <1>0 DEF TypeOK, Timely, InFlight
<1>5. Cached'
  BY <1>0, KeyIsDoc DEF TypeOK, Cached
<1>6. Private'
  BY <1>0 DEF TypeOK, Private
<1> QED BY <1>1, <1>2, <1>3, <1>4, <1>5, <1>6

LEMMA EditIInv ==
    ASSUME IInv, NEW c \in Callers, Edit(c)
    PROVE  IInv'
<1> USE DEF IInv
<1>0. /\ held[c] \in Obj /\ held[c] # NoObj
      /\ heap' = [heap EXCEPT ![held[c]].edited = TRUE]
      /\ UNCHANGED <<file, cache, epoch, pc, call, held, forgotten>>
  BY DEF Edit, TypeOK
<1>1. TypeOK'
  BY <1>0 DEF TypeOK, Content
<1>2. Past' /\ InFlight' /\ Private'
  BY <1>0 DEF Past, InFlight, Private
<1>3. \A o \in Obj : o # held[c] => heap'[o] = heap[o]
  BY <1>0 DEF TypeOK
<1>4. Timely'
  BY <1>0, <1>3 DEF TypeOK, Timely, Private
<1>5. Cached'
  BY <1>0, <1>3 DEF TypeOK, Cached, Private
<1> QED BY <1>1, <1>2, <1>4, <1>5

LEMMA WriteConfigIInv ==
    ASSUME IInv, NEW p \in Configs, WriteConfig(p)
    PROVE  IInv'
<1> USE DEF IInv
<1>0. /\ file' = [file EXCEPT ![Clean[p]] = @ + 1]
      /\ UNCHANGED <<cache, epoch, heap, pc, call, held, forgotten>>
  BY DEF WriteConfig
<1>1. TypeOK'
  <2>1. Clean[p] \in Names
    BY NamesAssumption, CleanAssumption
  <2>2. file' \in [Names -> Nat]
    BY <1>0, <2>1 DEF TypeOK
  <2> QED BY <1>0, <2>2 DEF TypeOK
<1>2. \A n \in Names : file[n] \in Nat /\ file'[n] \in Nat /\ file[n] <= file'[n]
  BY <1>0 DEF TypeOK
<1>3. Past' /\ InFlight'
  BY <1>0, <1>2, KeyIsDoc DEF TypeOK, Past, InFlight
<1>4. Timely'
  BY <1>0, <1>2, KeyIsDoc DEF TypeOK, Content, Timely
<1>5. Cached'
  BY <1>0, <1>2, KeyIsDoc DEF TypeOK, Content, Cached
<1>6. Private'
  BY <1>0 DEF Private
<1> QED BY <1>1, <1>3, <1>4, <1>5, <1>6

LEMMA NextIInv == IInv /\ [Next]_vars => IInv'
<1> SUFFICES ASSUME IInv, [Next]_vars PROVE IInv'
  OBVIOUS
<1>1. CASE UNCHANGED vars
  BY <1>1 DEF vars, IInv, TypeOK, Past, InFlight, Timely, Cached, Private
<1>2. ASSUME NEW c \in Callers, NEW b \in Binaries, RefuseRelative(c, b)
      PROVE  IInv'
  BY <1>2, RefuseRelativeIInv
<1>3. ASSUME NEW c \in Callers, NEW b \in Binaries, NEW p \in Configs,
             Lookup(c, b, p)
      PROVE  IInv'
  BY <1>3, LookupIInv
<1>4. ASSUME NEW c \in Callers,
             Exec(c) \/ ExecFails(c) \/ Store(c) \/ Clone(c) \/ Edit(c)
      PROVE  IInv'
  BY <1>4, ExecIInv, ExecFailsIInv, StoreIInv, CloneIInv, EditIInv
<1>5. ASSUME NEW b \in Binaries \cup {Empty}, NEW p \in Configs \cup {Empty},
             InvalidateConfigCache(b, p)
      PROVE  IInv'
  BY <1>5, InvalidateIInv
<1>6. ASSUME NEW p \in Configs, WriteConfig(p)
      PROVE  IInv'
  BY <1>6, WriteConfigIInv
<1> QED BY <1>1, <1>2, <1>3, <1>4, <1>5, <1>6 DEF Next

\* The inductive invariant holds in every reachable state.
THEOREM Invariance == Spec => []IInv
BY InitIInv, NextIInv, PTL DEF Spec

-----------------------------------------------------------------------------

\* Type correctness of the cache, with no error path reaching the store.
THEOREM TypeCorrect == Spec => []TypeOK
<1>1. IInv => TypeOK
  BY DEF IInv
<1> QED BY <1>1, Invariance, PTL

\* However many calls and invalidations overlap, no cached entry is older than
\* its document was when it was last invalidated.
THEOREM ForgottenForGood == Spec => []ForgottenStaysForgotten
<1>1. IInv => ForgottenStaysForgotten
  <2> SUFFICES ASSUME IInv, NEW b \in Abs, NEW p \in Configs,
                      cache[Denotes(b, p)] # NoObj
               PROVE  heap[cache[Denotes(b, p)]].ver >= forgotten[Denotes(b, p)]
    BY KeyIsDoc DEF ForgottenStaysForgotten
  <2> Denotes(b, p) \in Keys
    BY KeyIsDoc DEF Docs
  <2> QED BY DEF IInv, Cached
<1> QED BY <1>1, Invariance, PTL

\* A call that begins after an invalidation answers with the document asked
\* for, no older than it was then.
THEOREM NoStaleAnswer == Spec => AnswerNotStale
<1>1. IInv /\ [Next]_vars =>
        [\A c \in Callers :
           Returns(c) => /\ heap'[held'[c]].doc = call[c].doc
                         /\ heap'[held'[c]].ver >= call[c].floor]_vars
  <2> SUFFICES ASSUME IInv, Next, NEW c \in Callers, Returns(c)
               PROVE  /\ heap'[held'[c]].doc = call[c].doc
                      /\ heap'[held'[c]].ver >= call[c].floor
    BY DEF vars, Returns
  <2>1. Clone(c)
    BY DEF Next, Returns, IInv, TypeOK, RefuseRelative, Lookup, Exec,
           ExecFails, Store, Clone, Edit, InvalidateConfigCache, WriteConfig
  <2>2. heap'[held'[c]] = heap[call[c].obj]
    BY <2>1, FreeIsUnused DEF Clone, IInv, TypeOK
  <2> QED BY <2>2 DEF IInv, Timely, Returns
<1> QED BY <1>1, Invariance, PTL DEF Spec, AnswerNotStale

\* What is returned has never been edited by any caller.
THEOREM AnswerUntouched == Spec => AnswerIsAsParsed
<1>1. IInv /\ [Next]_vars =>
        [\A c \in Callers : Returns(c) => ~heap'[held'[c]].edited]_vars
  <2> SUFFICES ASSUME IInv, Next, NEW c \in Callers, Returns(c)
               PROVE  ~heap'[held'[c]].edited
    BY DEF vars, Returns
  <2>1. Clone(c)
    BY DEF Next, Returns, IInv, TypeOK, RefuseRelative, Lookup, Exec,
           ExecFails, Store, Clone, Edit, InvalidateConfigCache, WriteConfig
  <2>2. heap'[held'[c]] = heap[call[c].obj]
    BY <2>1, FreeIsUnused DEF Clone, IInv, TypeOK
  <2> QED BY <2>2 DEF IInv, Timely, Returns
<1> QED BY <1>1, Invariance, PTL DEF Spec, AnswerIsAsParsed

-----------------------------------------------------------------------------
(* The cache implements the promise. *)

\* At the start nobody has asked or been told anything.
LEMMA InitPromise == Init => Promise!Init
<1> SUFFICES ASSUME Init PROVE Promise!Init
  OBVIOUS
<1>1. Version = [d \in Docs |-> 0]
  BY KeyIsDoc DEF Init, Version
<1>2. Asked = [c \in Callers |-> Promise!NoQuestion]
  BY DEF Init, Asked, Promise!NoQuestion
<1>3. Told = [c \in Callers |-> Promise!NoAnswer]
  BY DEF Init, Told, Promise!NoAnswer
<1> QED BY <1>1, <1>2, <1>3 DEF Init, Promise!Init

\* What the first critical section does is to take the question.
LEMMA LookupAsks ==
    ASSUME IInv, NEW c \in Callers, NEW b \in Binaries, NEW p \in Configs,
           Lookup(c, b, p)
    PROVE  Promise!Ask(c, Denotes(b, p)) /\ Denotes(b, p) \in Docs
<1> USE DEF IInv
<1>1. Denotes(b, p) \in Docs
  BY DEF Lookup, Docs
<1>2. ~Asked[c].open
  BY DEF Lookup, Asked
<1>3. Asked' = [Asked EXCEPT ![c] =
                  Promise!Question(Denotes(b, p), forgotten[Denotes(b, p)])]
  BY DEF Lookup, Asked, Promise!Question, TypeOK
<1>4. Told' = [Told EXCEPT ![c] = Promise!NoAnswer]
  BY DEF Lookup, Told, Promise!NoAnswer, TypeOK
<1>5. UNCHANGED <<Version, forgotten>>
  BY DEF Lookup, Version
<1> QED BY <1>1, <1>2, <1>3, <1>4, <1>5 DEF Promise!Ask

\* An error is an error, with a question open or before one was taken.
LEMMA ErrorFails ==
    ASSUME IInv, NEW c \in Callers,
           (\E b \in Binaries : RefuseRelative(c, b)) \/ ExecFails(c)
    PROVE  Promise!Fail(c)
<1> USE DEF IInv
<1>1. Asked' = [Asked EXCEPT ![c] = Promise!NoQuestion]
  BY DEF RefuseRelative, ExecFails, Asked, Promise!NoQuestion, TypeOK
<1>2. Told' = [Told EXCEPT ![c] = Promise!NoAnswer]
  BY DEF RefuseRelative, ExecFails, Told, Promise!NoAnswer, TypeOK, InFlight
<1>3. UNCHANGED <<Version, forgotten>>
  BY DEF RefuseRelative, ExecFails, Version
<1> QED BY <1>1, <1>2, <1>3 DEF Promise!Fail

\* The fork and the store are the cache's own business: nobody sees them.
LEMMA InnerStutters ==
    ASSUME IInv, NEW c \in Callers, Exec(c) \/ Store(c)
    PROVE  UNCHANGED Promise!vars
<1> USE DEF IInv
<1>1. CASE Store(c)
  <2>1. Asked' = Asked
    BY <1>1 DEF Store, Asked, TypeOK
  <2>2. UNCHANGED <<Version, Told, forgotten>>
    BY <1>1 DEF Store, Version, Told
  <2> QED BY <2>1, <2>2 DEF Promise!vars
<1>2. CASE Exec(c)
  <2> PICK o \in Free :
         /\ heap' = [heap EXCEPT ![o] = [doc |-> call[c].doc,
                                         ver |-> file[call[c].doc[2]],
                                         edited |-> FALSE]]
         /\ call' = [call EXCEPT ![c].obj = o]
    BY <1>2 DEF Exec
  <2>0. /\ pc[c] = "run" /\ pc' = [pc EXCEPT ![c] = "store"]
        /\ UNCHANGED <<file, held, forgotten>>
    BY <1>2 DEF Exec
  <2>1. Asked' = Asked
    BY <2>0 DEF Asked, TypeOK
  <2>2. Told' = Told
    BY <2>0, FreeIsUnused DEF Told, TypeOK
  <2>3. UNCHANGED <<Version, forgotten>>
    BY <2>0 DEF Version
  <2> QED BY <2>1, <2>2, <2>3 DEF Promise!vars
<1> QED BY <1>1, <1>2

\* The copy handed out is an answer the promise allows.
LEMMA CloneTells ==
    ASSUME IInv, NEW c \in Callers, Clone(c)
    PROVE  Promise!Tell(c)
<1> USE DEF IInv
<1> PICK o \in Free :
       /\ heap' = [heap EXCEPT ![o] = heap[call[c].obj]]
       /\ held' = [held EXCEPT ![c] = o]
  BY DEF Clone
<1> DEFINE v == heap[call[c].obj].ver
           doc == call[c].doc
<1>0. /\ pc[c] = "clone" /\ pc' = [pc EXCEPT ![c] = "idle"]
      /\ UNCHANGED <<file, forgotten>>
      /\ call[c].obj \in Obj /\ doc \in Docs
  BY DEF Clone, TypeOK
<1>1. /\ Asked[c].open /\ Asked[c].doc = doc /\ Asked[c].floor = call[c].floor
  BY <1>0 DEF Asked
<1>2. v \in call[c].floor .. Version[doc]
  BY <1>0, KeyIsDoc DEF Timely, TypeOK, Content, Version
<1>3. Told' = [Told EXCEPT ![c] = Promise!Given(doc, v, FALSE)]
  <2>1. /\ heap'[o] = heap[call[c].obj]
        /\ heap[call[c].obj].doc = doc /\ ~heap[call[c].obj].edited
        /\ heap[call[c].obj].edited \in BOOLEAN
    BY <1>0, FreeIsUnused DEF TypeOK, Content, Timely
  <2>2. heap[call[c].obj].edited = FALSE
    BY <2>1
  <2>3. Told'[c] = Promise!Given(doc, v, FALSE)
    BY <1>0, <2>1, <2>2, FreeIsUnused DEF Told, TypeOK, Promise!Given
  <2>4. \A x \in Callers \ {c} : Told'[x] = Told[x]
    BY FreeIsUnused DEF Told, TypeOK
  <2>5. /\ Told = [x \in Callers |-> Told[x]]
        /\ Told' = [x \in Callers |-> Told'[x]]
    BY DEF Told
  <2> HIDE DEF v, doc
  <2> QED BY <2>3, <2>4, <2>5
<1>4. Asked' = [Asked EXCEPT ![c] = Promise!NoQuestion]
  BY <1>0 DEF Clone, Asked, Promise!NoQuestion, TypeOK
<1>5. UNCHANGED <<Version, forgotten>>
  BY <1>0 DEF Version
<1> HIDE DEF v, doc
<1> QED BY <1>1, <1>2, <1>3, <1>4, <1>5 DEF Promise!Tell

\* An edit changes the answer of the caller that makes it, and of no other.
LEMMA EditEdits ==
    ASSUME IInv, NEW c \in Callers, Edit(c)
    PROVE  Promise!Edit(c)
<1> USE DEF IInv
<1>0. /\ held[c] \in Obj /\ held[c] # NoObj
      /\ heap' = [heap EXCEPT ![held[c]].edited = TRUE]
      /\ UNCHANGED <<file, pc, call, held, forgotten>>
  BY DEF Edit, TypeOK
<1>1. Told[c].given
  BY <1>0 DEF Told
<1>2. /\ heap'[held[c]].doc = heap[held[c]].doc
      /\ heap'[held[c]].ver = heap[held[c]].ver
      /\ heap'[held[c]].edited = TRUE
      /\ \A x \in Obj : x # held[c] => heap'[x] = heap[x]
  BY <1>0 DEF TypeOK, Content
<1>3. Told'[c] = Promise!Given(Told[c].doc, Told[c].ver, TRUE)
  BY <1>0, <1>2 DEF Told, Promise!Given
<1>4. \A x \in Callers \ {c} : Told'[x] = Told[x]
  BY <1>0, <1>2 DEF Told, TypeOK, Private
<1>5. Told' = [Told EXCEPT ![c] = Promise!Given(Told[c].doc, Told[c].ver, TRUE)]
  <2>1. /\ Told = [x \in Callers |-> Told[x]]
        /\ Told' = [x \in Callers |-> Told'[x]]
    BY DEF Told
  <2> QED BY <1>3, <1>4, <2>1
<1>6. UNCHANGED <<Version, forgotten, Asked>>
  BY <1>0 DEF Version, Asked
<1> QED BY <1>1, <1>5, <1>6 DEF Promise!Edit

LEMMA InvalidateForgets ==
    ASSUME IInv, NEW b \in Binaries \cup {Empty}, NEW p \in Configs \cup {Empty},
           InvalidateConfigCache(b, p)
    PROVE  \E S \in SUBSET Docs : Promise!Invalidate(S)
<1> DEFINE S == {d \in Docs : (b = Empty /\ p = Empty) \/ d = Denotes(b, p)}
<1>1. forgotten' = [d \in Docs |-> IF d \in S THEN Version[d] ELSE forgotten[d]]
  BY DEF InvalidateConfigCache, Forget, Version
<1>2. UNCHANGED <<Version, Asked, Told>>
  BY DEF InvalidateConfigCache, Version, Asked, Told
<1>3. S \in SUBSET Docs
  OBVIOUS
<1> HIDE DEF S
<1> QED BY <1>1, <1>2, <1>3 DEF Promise!Invalidate

LEMMA WriteRewrites ==
    ASSUME IInv, NEW p \in Configs, WriteConfig(p)
    PROVE  Promise!Rewrite
<1> USE DEF IInv
<1>0. /\ file' = [file EXCEPT ![Clean[p]] = @ + 1]
      /\ UNCHANGED <<heap, pc, call, held, forgotten>>
  BY DEF WriteConfig
<1>1. \A n \in Names : file[n] \in Nat /\ file'[n] \in Nat /\ file[n] <= file'[n]
  BY <1>0 DEF TypeOK
<1>2. Version' \in [Docs -> Nat] /\ \A d \in Docs : Version[d] <= Version'[d]
  BY <1>1, KeyIsDoc DEF Version
<1>3. UNCHANGED <<Asked, Told>>
  BY <1>0 DEF Asked, Told
<1> QED BY <1>0, <1>2, <1>3 DEF Promise!Rewrite

\* Every step of the cache is a step of the promise, or none.
LEMMA StepPromise == IInv /\ [Next]_vars => [Promise!Next]_(Promise!vars)
<1> SUFFICES ASSUME IInv, [Next]_vars
             PROVE  Promise!Next \/ UNCHANGED Promise!vars
  OBVIOUS
<1>1. CASE UNCHANGED vars
  BY <1>1 DEF vars, Promise!vars, Version, Asked, Told
<1>2. ASSUME NEW c \in Callers, NEW b \in Binaries, NEW p \in Configs,
             Lookup(c, b, p)
      PROVE  Promise!Next
  BY <1>2, LookupAsks DEF Promise!Next
<1>3. ASSUME NEW c \in Callers,
             (\E b \in Binaries : RefuseRelative(c, b)) \/ ExecFails(c)
      PROVE  Promise!Next
  BY <1>3, ErrorFails DEF Promise!Next
<1>4. ASSUME NEW c \in Callers, Exec(c) \/ Store(c)
      PROVE  UNCHANGED Promise!vars
  BY <1>4, InnerStutters
<1>5. ASSUME NEW c \in Callers, Clone(c) \/ Edit(c)
      PROVE  Promise!Next
  BY <1>5, CloneTells, EditEdits DEF Promise!Next
<1>6. ASSUME NEW b \in Binaries \cup {Empty}, NEW p \in Configs \cup {Empty},
             InvalidateConfigCache(b, p)
      PROVE  Promise!Next
  BY <1>6, InvalidateForgets DEF Promise!Next
<1>7. ASSUME NEW p \in Configs, WriteConfig(p)
      PROVE  Promise!Next
  BY <1>7, WriteRewrites DEF Promise!Next
<1> QED BY <1>1, <1>2, <1>3, <1>4, <1>5, <1>6, <1>7 DEF Next

\* For any callers, paths and addresses, and whatever overlaps, the cached
\* ParseConfigContext implements one that has no cache.
THEOREM ImplementsPromise == Spec => PromiseKept
BY InitPromise, StepPromise, Invariance, PTL DEF Spec, PromiseKept, Promise!Spec

-----------------------------------------------------------------------------
(***************************************************************************)
(* The command behind a parse.  For every cap and every amount of output,  *)
(* a report that is accepted is a whole report, and what is held of it     *)
(* never exceeds the cap.                                                  *)
(*                                                                         *)
(* NoPartialConfig speaks of the returned call only.  What makes it so is  *)
(* Conserved, which accounts for every unit while it is on its way, and    *)
(* Drained, which says that the copy ends well only when nobody is left to *)
(* write.                                                                  *)
(***************************************************************************)

\* As long as nothing was discarded, what was written is captured or still in
\* the pipe.
Conserved == (copy # "short" /\ ~truncated) => captured + pipe = total

\* An end of file means an empty pipe and nobody left to fill it.
Drained ==
    /\ copy = "eof" => pipe = 0 /\ ~HoldsPipe
    /\ copy = "none" => child = "none" /\ desc = "none"
    /\ phase \in {"running", "draining"} => copy # "none" /\ child # "none"
    /\ phase = "draining" => child # "running"
    /\ phase = "new" => copy = "none" /\ result = "none"

\* An accepted report was read to its end and nothing of it was discarded.
Accepted == (via = "parse" /\ result = "ok") => copy = "eof" /\ ~truncated

RunIInv == RunTypeOK /\ Conserved /\ Drained /\ Accepted

LEMMA RunInitIInv == RunInit => RunIInv
<1> SUFFICES ASSUME RunInit PROVE RunIInv
  OBVIOUS
<1>1. captured \in Nat /\ remaining \in Nat /\ captured + remaining = Cap
  BY CapAssumption DEF RunInit
<1>2. pipe \in Nat /\ total \in Nat
  BY DEF RunInit
<1>3. RunTypeOK
  BY <1>1, <1>2, Zenon DEF RunInit, RunTypeOK
<1>4. Conserved /\ Drained /\ Accepted
  BY DEF RunInit, Conserved, Drained, Accepted, HoldsPipe
<1> QED BY <1>3, <1>4 DEF RunIInv

\* limitedWriter.Write keeps its two counters in step, and either takes the
\* whole chunk or remembers that it did not.
LEMMA WriteKeeps ==
    ASSUME RunTypeOK, NEW n \in Nat \ {0}, Write(n), copy = "copying"
    PROVE  /\ captured' \in Nat /\ remaining' \in Nat /\ truncated' \in BOOLEAN
           /\ captured' + remaining' = Cap
           /\ copy' \in {"copying", "short"}
           /\ ~truncated' => captured' = captured + n /\ ~truncated
<1> DEFINE took == IF n > remaining THEN remaining ELSE n
<1>1. took \in Nat /\ took <= remaining /\ (n <= remaining => took = n)
  BY DEF RunTypeOK
<1>2. /\ captured' \in Nat /\ remaining' \in Nat
      /\ captured' + remaining' = Cap
  <2> HIDE DEF took
  <2>1. captured' = captured + took /\ remaining' = remaining - took
    BY DEF Write, took
  <2> QED BY <1>1, <2>1, CapAssumption DEF RunTypeOK
<1>3. copy' \in {"copying", "short"}
  BY DEF Write
<1>4. CASE n > remaining
  <2>1. truncated' = TRUE
    BY <1>4 DEF Write
  <2> QED BY <1>2, <1>3, <2>1
<1>5. CASE n <= remaining
  <2>1. ~(n > remaining)
    BY <1>5 DEF RunTypeOK
  <2>2. truncated' = truncated
    BY <2>1, Zenon DEF Write
  <2>3. captured' = captured + n
    BY <2>1 DEF Write
  <2> QED BY <1>2, <1>3, <2>2, <2>3 DEF RunTypeOK
<1> QED BY <1>4, <1>5 DEF RunTypeOK

LEMMA CallerIInv == ASSUME RunIInv, Caller PROVE RunIInv'
<1> USE DEF RunIInv
<1>1. CASE Refuse
  BY <1>1 DEF Refuse, procs, writer, Return, RunTypeOK, Conserved, Drained, Accepted, HoldsPipe
<1>2. CASE StartFails
  BY <1>2 DEF StartFails, procs, writer, Return, RunTypeOK, Conserved, Drained, Accepted, HoldsPipe
<1>3. CASE Start
  BY <1>3 DEF Start, procs, writer, RunTypeOK, Conserved, Drained, Accepted, HoldsPipe
<1>4. CASE Reap
  BY <1>4 DEF Reap, procs, writer, RunTypeOK, Conserved, Drained, Accepted, HoldsPipe
<1>5. CASE Finish
  <2>1. /\ result' \in {"timeout", "failed", "truncated", "ok"}
        /\ (via = "parse" /\ result' = "ok") => ~RunFailed /\ ~truncated
    BY <1>5 DEF Finish, Return, RunTypeOK
  <2>2. copy \in {"eof", "short"}
    BY <1>5 DEF Finish, RunTypeOK, Drained
  <2> QED
    BY <1>5, <2>1, <2>2
       DEF Finish, Return, RunFailed, procs, writer, RunTypeOK, Conserved, Drained,
           Accepted, HoldsPipe
<1>6. CASE FinishUnscanned
  BY <1>6 DEF FinishUnscanned, procs, writer, Return, RunTypeOK, Conserved, Drained, Accepted, HoldsPipe
<1> QED BY <1>1, <1>2, <1>3, <1>4, <1>5, <1>6 DEF Caller

LEMMA CopierIInv == ASSUME RunIInv, Copier PROVE RunIInv'
<1> USE DEF RunIInv
<1>1. ASSUME NEW n \in 1..MaxTotal, CopyChunk(n) PROVE RunIInv'
  <2>0. /\ n \in Nat \ {0} /\ n <= pipe
        /\ copy = "copying" /\ Write(n)
        /\ pipe' = IF copy' = "short" THEN 0 ELSE pipe - n
        /\ UNCHANGED <<via, phase, ctxDone, child, desc, watcher, total, result>>
    BY <1>1, CapAssumption DEF CopyChunk, procs
  <2>1. RunTypeOK'
    BY <2>0, WriteKeeps DEF RunTypeOK
  <2>2. Conserved'
    BY <2>0, WriteKeeps DEF RunTypeOK, Conserved
  <2>3. Drained'
    BY <2>0, WriteKeeps DEF RunTypeOK, Drained, HoldsPipe
  <2>4. Accepted'
    BY <2>0 DEF RunTypeOK, Accepted
  <2> QED BY <2>1, <2>2, <2>3, <2>4
<1>2. CASE CopyEOF
  BY <1>2 DEF CopyEOF, procs, writer, RunTypeOK, Conserved, Drained, Accepted, HoldsPipe
<1> QED BY <1>1, <1>2 DEF Copier

LEMMA ProcessesIInv == ASSUME RunIInv, Processes PROVE RunIInv'
<1> USE DEF RunIInv
<1>1. ASSUME NEW n \in 1..MaxTotal, Output(n) PROVE RunIInv'
  BY <1>1, CapAssumption
     DEF Output, procs, writer, RunTypeOK, Conserved, Drained, Accepted, HoldsPipe
<1>2. ASSUME NEW where \in {"group", "escaped"}, ChildForks(where) PROVE RunIInv'
  BY <1>2 DEF ChildForks, writer, RunTypeOK, Conserved, Drained, Accepted, HoldsPipe
<1>3. ASSUME NEW how \in {"exited", "failed"}, ChildExits(how) PROVE RunIInv'
  BY <1>3 DEF ChildExits, writer, RunTypeOK, Conserved, Drained, Accepted, HoldsPipe
<1>4. CASE DescExits
  BY <1>4 DEF DescExits, writer, RunTypeOK, Conserved, Drained, Accepted, HoldsPipe
<1> QED BY <1>1, <1>2, <1>3, <1>4 DEF Processes

LEMMA RunNextIInv == RunIInv /\ [RunNext]_runVars => RunIInv'
<1> SUFFICES ASSUME RunIInv, [RunNext]_runVars PROVE RunIInv'
  OBVIOUS
<1>1. CASE Caller
  BY <1>1, CallerIInv
<1>2. CASE Copier
  BY <1>2, CopierIInv
<1>3. CASE Processes
  BY <1>3, ProcessesIInv
<1>4. CASE Cancel
  BY <1>4 DEF RunIInv, Cancel, writer, RunTypeOK, Conserved, Drained, Accepted, HoldsPipe
<1>5. CASE ContextEnds
  BY <1>5 DEF RunIInv, ContextEnds, procs, writer, RunTypeOK, Conserved, Drained,
              Accepted, HoldsPipe
<1>6. CASE UNCHANGED runVars
  BY <1>6 DEF RunIInv, runVars, procs, writer, RunTypeOK, Conserved, Drained, Accepted,
              HoldsPipe
<1> QED BY <1>1, <1>2, <1>3, <1>4, <1>5, <1>6 DEF RunNext, Returned

\* The inductive invariant holds in every reachable state.
THEOREM RunInvariance == RunSpec => []RunIInv
BY RunInitIInv, RunNextIInv, PTL DEF RunSpec

\* Whatever is written, what limitedWriter holds and what it would still take
\* add up to its cap.
THEOREM OutputBounded == RunSpec => []RunTypeOK
<1>1. RunIInv => RunTypeOK
  BY DEF RunIInv
<1> QED BY <1>1, RunInvariance, PTL

\* ParseConfigContext never accepts part of a report, for any cap.
THEOREM WholeReports == RunSpec => []NoPartialConfig
<1>1. RunIInv => NoPartialConfig
  BY DEF RunIInv, RunTypeOK, Conserved, Drained, Accepted, NoPartialConfig
<1> QED BY <1>1, RunInvariance, PTL

=============================================================================
