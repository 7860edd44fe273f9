----------------------------- MODULE StoreProofs -----------------------------
(***************************************************************************)
(* For any number of handles, closers and calls, any keys and any past of  *)
(* the bucket: one engine at most runs over the directory, nothing is left *)
(* behind by a failed open or by a Close, and what the key-value store     *)
(* answered is so.                                                         *)
(***************************************************************************)
EXTENDS Store, FiniteSetTheorems, SequenceTheorems, WellFoundedInduction, TLAPS

-----------------------------------------------------------------------------
(* The types of the key-value store *)

Entries == [key : Keys, val : Calls \cup {Deleted, None}, by : Calls \cup {None}]

\* A sequence over a set is one over any larger set.
LEMMA SeqSubset ==
  ASSUME NEW S, NEW T, S \subseteq T, NEW s \in Seq(S)
  PROVE  s \in Seq(T)
<1>1. Len(s) \in Nat /\ s \in [1..Len(s) -> S]
  OBVIOUS
<1>2. s \in [1..Len(s) -> T]
  BY <1>1
<1> QED BY <1>1, <1>2, SeqDef

\* An operation that was not refused names a key.
LEMMA SentKey ==
  ASSUME KVTypeOK, RequestsSent, NEW c \in Calls, pc[c] = "sent" \/ c \in pending \cup late
  PROVE  /\ op[c] \in Ops /\ op[c] # None /\ pc[c] # "new"
         /\ op[c].kind # "keys" => op[c].key \in Keys
  BY KVConstants DEF KVTypeOK, RequestsSent, Refused, Ops

LEMMA KeptFinite ==
  ASSUME KVTypeOK
  PROVE  Kept \in SUBSET (1..Len(bucket)) /\ IsFiniteSet(Kept) /\ Cardinality(Kept) \in Nat
<1>1. Len(bucket) \in Nat /\ Kept \in SUBSET (1..Len(bucket))
  BY DEF KVTypeOK, Kept
<1>2. IsFiniteSet(1..Len(bucket))
  BY <1>1, FS_Interval
<1> QED BY <1>1, <1>2, FS_Subset, FS_CardinalityType

\* What every return does to the types.
LEMMA ReturnTypes ==
  ASSUME KVTypeOK, NEW c \in Calls, NEW what, Return(c, what)
  PROVE  /\ pc' \in [Calls -> {"new", "sent", "done", "dead"}]
         /\ pc'[c] = "done" /\ \A d \in Calls : d # c => pc'[d] = pc[d]
         /\ passed' \in [Calls -> Nat] /\ left' \in [Calls -> Nat]
         /\ listed' \in [Calls -> Seq(Keys)]
<1>1. <<>> \in Seq(Keys)
  OBVIOUS
<1> QED BY <1>1 DEF KVTypeOK, Return, Forget

\* A call begins.
LEMMA CallTypes ==
  ASSUME KVTypeOK, RequestsSent, NEW c \in Calls, NEW o \in Ops, Call(c, o)
  PROVE  KVTypeOK' /\ RequestsSent'
<1>1. op' = [op EXCEPT ![c] = o] /\ bucket' = bucket /\ pc[c] = "new" /\ UNCHANGED creates
      /\ c \notin pending \cup late
  BY DEF Call, RequestsSent
<1>2. CASE Refused(o)
  <2>1. Return(c, [is |-> "invalid"]) /\ pending' = pending
    BY <1>2 DEF Call
  <2>2. KVTypeOK'
    BY <1>1, <2>1, ReturnTypes DEF KVTypeOK, creates
  <2>3. RequestsSent'
    <3> SUFFICES ASSUME NEW d \in Calls, pc'[d] = "sent" \/ d \in pending' \cup late'
                 PROVE  /\ op'[d] \in Ops /\ ~Refused(op'[d]) /\ pc'[d] # "new"
                        /\ d \in late' => op'[d].kind = "put"
      BY DEF RequestsSent
    <3>1. d # c /\ pc'[d] = pc[d]
      BY <1>1, <2>1, ReturnTypes DEF creates
    <3> QED BY <1>1, <2>1, <3>1 DEF RequestsSent, creates, KVTypeOK
  <2> QED BY <2>2, <2>3
<1>3. CASE ~Refused(o)
  <2>1. /\ pc' = [pc EXCEPT ![c] = "sent"] /\ pending' = pending \cup {c}
        /\ UNCHANGED listing
    BY <1>3 DEF Call
  <2>2. KVTypeOK'
    BY <1>1, <2>1 DEF KVTypeOK, creates, listing
  <2>3. RequestsSent'
    BY <1>1, <1>3, <2>1 DEF KVTypeOK, RequestsSent, creates
  <2> QED BY <2>2, <2>3
<1> QED BY <1>2, <1>3

\* The server serves a request, or a listing is sent an entry.
LEMMA ServerTypes ==
  ASSUME KVTypeOK, RequestsSent, NEW c \in Calls, ServerStep(c)
  PROVE  KVTypeOK' /\ RequestsSent'
<1>1. bucket \in Seq(Entries)
  BY DEF KVTypeOK, Entries
<1> DEFINE Typed ==
      /\ pc' = pc /\ op' = op /\ pending' \subseteq pending /\ err' = err /\ late' \subseteq late
      /\ passed' \in [Calls -> Nat] /\ left' \in [Calls -> Nat]
      /\ listed' \in [Calls -> Seq(Keys)] /\ bucket' \in Seq(Entries)
<1>2. Typed
  <2>1. ASSUME NEW val \in Calls \cup {Deleted, None}, WriteEntry(c, val),
               c \in pending \cup late, op[c].kind # "keys"
        PROVE  bucket' \in Seq(Entries)
    <3>1. [key |-> op[c].key, val |-> val, by |-> c] \in Entries
      BY <2>1, SentKey DEF Entries
    <3> QED BY <1>1, <2>1, <3>1 DEF WriteEntry
  <2>2. CASE ServePut(c)
    <3>1. bucket' \in Seq(Entries)
      BY <1>1, <2>1, <2>2 DEF ServePut
    <3> QED BY <2>2, <3>1 DEF ServePut, Reply, KVTypeOK, creates, listing
  <2>3. CASE ServeGet(c) \/ ServeLook(c)
    BY <1>1, <2>3 DEF ServeGet, ServeLook, Reply, KVTypeOK, creates, listing
  <2>4. CASE ServeDelete(c)
    <3>1. bucket' \in Seq(Entries)
      BY <1>1, <2>1, <2>4 DEF ServeDelete
    <3> QED BY <2>4, <3>1 DEF ServeDelete, Reply, KVTypeOK, creates, listing
  <2>5. CASE ServeKeys(c)
    <3>1. Cardinality(Kept) \in Nat
      BY KeptFinite
    <3>2. left' \in [Calls -> Nat]
      BY <2>5, <3>1 DEF ServeKeys, KVTypeOK
    <3> QED BY <1>1, <2>5, <3>2 DEF ServeKeys, Reply, KVTypeOK, creates
  <2>6. CASE ServeLate(c)
    <3>1. bucket' \in Seq(Entries)
      <4>1. CASE Rev(op[c].key) = 0
        <5>1. c \in late /\ WriteEntry(c, c) /\ op[c].kind = "put"
          BY <2>6, <4>1 DEF ServeLate, RequestsSent
        <5> QED BY <2>1, <5>1
      <4>2. CASE Rev(op[c].key) # 0
        BY <1>1, <2>6, <4>2 DEF ServeLate
      <4> QED BY <4>1, <4>2
    <3> QED BY <2>6, <3>1 DEF ServeLate, KVTypeOK, listing
  <2>7. ASSUME NEW n \in Ahead(c), Deliver(c, n)
        PROVE  Typed
    <3>1. n \in 1..Len(bucket) /\ n \in Nat /\ Len(bucket) \in Nat
      BY KeptFinite DEF Ahead, KVTypeOK
    <3>2. bucket[n].key \in Keys
      <4>1. bucket[n] \in Entries
        BY <1>1, <3>1
      <4> QED BY <4>1 DEF Entries
    <3>3. listed' \in [Calls -> Seq(Keys)]
      BY <2>7, <3>2 DEF Deliver, KVTypeOK
    <3>4. left' \in [Calls -> Nat]
      BY <2>7 DEF Deliver, KVTypeOK
    <3> QED BY <1>1, <2>7, <3>1, <3>3, <3>4 DEF Deliver, KVTypeOK, creates
  <2> QED BY <2>2, <2>3, <2>4, <2>5, <2>6, <2>7 DEF ServerStep
<1>3. KVTypeOK'
  BY <1>2 DEF KVTypeOK, Entries
<1>4. RequestsSent'
  BY <1>2 DEF RequestsSent
<1> QED BY <1>3, <1>4

\* A call is answered, gives up, or goes on to its next request.
LEMMA ClientTypes ==
  ASSUME KVTypeOK, RequestsSent, NEW c \in Calls, ClientStep(c)
  PROVE  KVTypeOK' /\ RequestsSent'
<1>1. CASE Answered(c) \/ Fault(c)
  <2>1. PICK what : Return(c, what)
    BY <1>1 DEF Answered, Fault
  <2>2. UNCHANGED <<bucket, op, pending, creates>>
    BY <1>1 DEF Answered, Fault
  <2>3. KVTypeOK'
    BY <2>1, <2>2, ReturnTypes DEF KVTypeOK, creates
  <2>4. RequestsSent'
    BY <2>1, <2>2, ReturnTypes DEF RequestsSent, creates
  <2> QED BY <2>3, <2>4
<1>2. CASE Look(c) \/ Overwrite(c)
  <2>1. /\ pc[c] = "sent" /\ UNCHANGED <<bucket, pc, op, listing>>
        /\ pending' = pending \cup {c} /\ late' \subseteq late \cup {c}
        /\ err' \in [Calls -> {"conflict", "fault", None}]
    BY <1>2 DEF Look, Overwrite, KVTypeOK
  <2>2. KVTypeOK'
    BY <2>1 DEF KVTypeOK, listing
  <2>3. c \in late' => op[c].kind = "put"
    BY <1>2 DEF Look, Overwrite, Creates, RequestsSent
  <2>4. RequestsSent'
    BY <2>1, <2>3 DEF RequestsSent
  <2> QED BY <2>2, <2>4
<1> QED BY <1>1, <1>2 DEF ClientStep

-----------------------------------------------------------------------------
(* The engine, its lock, and Close *)

LEMMA KVKept ==
  ASSUME KVTypeOK, RequestsSent, UNCHANGED kvVars
  PROVE  KVTypeOK' /\ RequestsSent'
  BY DEF KVTypeOK, RequestsSent, kvVars, creates, listing

LEMMA ThreeBuckets ==
  Len(BucketNames) = 3 /\ \A n \in 0..2 : BucketNames[n + 1] \in ToSet(BucketNames)
  BY DEF BucketNames, ToSet

EngineTypes ==
  /\ mode \in {"embedded", "remote", "locked"}
  /\ at \in [Handles -> Opening \cup {"idle", "open", "shutdown", "undo", "release",
                                      "closed"}]
  /\ server \in [Handles -> BOOLEAN] /\ conn \in [Handles -> BOOLEAN]
  /\ lock \in Handles \cup {None}
  /\ bound \in [Handles -> 0..3] /\ buckets \subseteq ToSet(BucketNames)
  /\ closed \in [Handles -> BOOLEAN]
  /\ mutex \in [Handles -> Closers \cup {None}]
  /\ closer \in [Closers -> {"no", "called", "views", "backend", "shutdown", "over",
                             "done"}]

LEMMA TypesSplit == TypeOK <=> KVTypeOK /\ EngineTypes
  BY ThreeBuckets DEF TypeOK, EngineTypes

LifeInv == EngineTypes /\ EngineSteps /\ OneDirectory /\ CloseSteps

\* A handle opens, fails to, closes its engine, dies or begins again.
LEMMA HandleKeeps ==
  ASSUME LifeInv, NEW h \in Handles,
         Open(h) \/ AcquireLock(h) \/ Engage(h) \/ DrainEngine(h) \/ Again(h) \/ Crash(h)
  PROVE  LifeInv'
<1> USE StoreConstants, ThreeBuckets DEF LifeInv
<1>1. CASE Open(h)
  <2>1. EngineTypes'
    BY <1>1 DEF EngineTypes, Open, Goto, Alone, storeVars, Opening
  <2>2. EngineSteps'
    BY <1>1 DEF EngineTypes, EngineSteps, CloseSteps, Places, Open, Goto, Alone, storeVars
  <2>3. OneDirectory'
    BY <1>1 DEF EngineTypes, EngineSteps, OneDirectory, Open, Goto, Alone, storeVars
  <2>4. CloseSteps'
    BY <1>1 DEF EngineTypes, EngineSteps, CloseSteps, Places, Open, Goto, Alone, storeVars
  <2> QED BY <2>1, <2>2, <2>3, <2>4
<1>2. CASE AcquireLock(h)
  <2>1. EngineTypes'
    BY <1>2 DEF EngineTypes, AcquireLock, Goto, LockFree, storeVars, Opening
  <2>2. EngineSteps'
    BY <1>2 DEF EngineTypes, EngineSteps, CloseSteps, Places, AcquireLock, Goto, LockFree, storeVars
  <2>3. OneDirectory'
    BY <1>2 DEF EngineTypes, EngineSteps, OneDirectory, AcquireLock, Goto, LockFree, storeVars
  <2>4. CloseSteps'
    BY <1>2 DEF EngineTypes, EngineSteps, CloseSteps, Places, AcquireLock, Goto, LockFree, storeVars
  <2> QED BY <2>1, <2>2, <2>3, <2>4
<1>3. CASE StartServer(h)
  <2>1. EngineTypes'
    BY <1>3 DEF EngineTypes, StartServer, Goto, storeVars, Opening
  <2>2. EngineSteps'
    BY <1>3 DEF EngineTypes, EngineSteps, CloseSteps, Places, StartServer, Goto, storeVars
  <2>3. OneDirectory'
    BY <1>3 DEF EngineTypes, EngineSteps, OneDirectory, StartServer, Goto, storeVars
  <2>4. CloseSteps'
    BY <1>3 DEF EngineTypes, EngineSteps, CloseSteps, Places, StartServer, Goto, storeVars
  <2> QED BY <2>1, <2>2, <2>3, <2>4
<1>4. CASE Ready(h)
  <2>1. EngineTypes'
    BY <1>4 DEF EngineTypes, Ready, Goto, storeVars, Opening
  <2>2. EngineSteps'
    BY <1>4 DEF EngineTypes, EngineSteps, CloseSteps, Places, Ready, Goto, storeVars
  <2>3. OneDirectory'
    BY <1>4 DEF EngineTypes, EngineSteps, OneDirectory, Ready, Goto, storeVars
  <2>4. CloseSteps'
    BY <1>4 DEF EngineTypes, EngineSteps, CloseSteps, Places, Ready, Goto, storeVars
  <2> QED BY <2>1, <2>2, <2>3, <2>4
<1>5. CASE Connect(h)
  <2>1. EngineTypes'
    BY <1>5 DEF EngineTypes, Connect, Goto, storeVars, Opening
  <2>2. EngineSteps'
    BY <1>5 DEF EngineTypes, EngineSteps, CloseSteps, Places, Connect, Goto, storeVars
  <2>3. OneDirectory'
    BY <1>5 DEF EngineTypes, EngineSteps, OneDirectory, Connect, Goto, storeVars
  <2>4. CloseSteps'
    BY <1>5 DEF EngineTypes, EngineSteps, CloseSteps, Places, Connect, Goto, storeVars
  <2> QED BY <2>1, <2>2, <2>3, <2>4
<1>6. CASE Bind(h)
  <2>1. EngineTypes'
    BY <1>6 DEF EngineTypes, Bind, Goto, storeVars, Opening
  <2>2. EngineSteps'
    BY <1>6 DEF EngineTypes, EngineSteps, CloseSteps, Places, Bind, Goto, storeVars
  <2>3. OneDirectory'
    BY <1>6 DEF EngineTypes, EngineSteps, OneDirectory, Bind, Goto, storeVars
  <2>4. CloseSteps'
    BY <1>6 DEF EngineTypes, EngineSteps, CloseSteps, Places, Bind, Goto, storeVars
  <2> QED BY <2>1, <2>2, <2>3, <2>4
<1>7. CASE CanonicalPath(h)
  <2>1. EngineTypes'
    BY <1>7 DEF EngineTypes, CanonicalPath, Goto, storeVars, Opening
  <2>2. EngineSteps'
    BY <1>7 DEF EngineTypes, EngineSteps, CloseSteps, Places, CanonicalPath, Goto, storeVars
  <2>3. OneDirectory'
    BY <1>7 DEF EngineTypes, EngineSteps, OneDirectory, CanonicalPath, Goto, storeVars
  <2>4. CloseSteps'
    BY <1>7 DEF EngineTypes, EngineSteps, CloseSteps, Places, CanonicalPath, Goto, storeVars
  <2> QED BY <2>1, <2>2, <2>3, <2>4
<1>8. CASE Provision(h)
  <2>1. EngineTypes'
    BY <1>8 DEF EngineTypes, Provision, engineVars, Opening
  <2>2. EngineSteps'
    BY <1>8 DEF EngineTypes, EngineSteps, CloseSteps, Places, Provision, engineVars
  <2>3. OneDirectory'
    BY <1>8 DEF EngineTypes, EngineSteps, OneDirectory, Provision, engineVars
  <2>4. CloseSteps'
    BY <1>8 DEF EngineTypes, EngineSteps, CloseSteps, Places, Provision, engineVars
  <2> QED BY <2>1, <2>2, <2>3, <2>4
<1>9. CASE NewStore(h)
  <2>1. EngineTypes'
    BY <1>9 DEF EngineTypes, NewStore, Goto, storeVars, Opening
  <2>2. EngineSteps'
    BY <1>9 DEF EngineTypes, EngineSteps, CloseSteps, Places, NewStore, Goto, storeVars
  <2>3. OneDirectory'
    BY <1>9 DEF EngineTypes, EngineSteps, OneDirectory, NewStore, Goto, storeVars
  <2>4. CloseSteps'
    BY <1>9 DEF EngineTypes, EngineSteps, CloseSteps, Places, NewStore, Goto, storeVars
  <2> QED BY <2>1, <2>2, <2>3, <2>4
<1>10. CASE OpenFails(h)
  <2>1. EngineTypes'
    BY <1>10 DEF EngineTypes, OpenFails, Goto, StopsServer, ClosesConn, Opening
  <2>2. EngineSteps'
    BY <1>10 DEF EngineTypes, EngineSteps, CloseSteps, Places, OpenFails, Goto, StopsServer, ClosesConn, Opening
  <2>3. OneDirectory'
    BY <1>10 DEF EngineTypes, EngineSteps, OneDirectory, OpenFails, Goto, StopsServer, ClosesConn, Opening
  <2>4. CloseSteps'
    BY <1>10 DEF EngineTypes, EngineSteps, CloseSteps, Places, OpenFails, Goto, StopsServer, ClosesConn, Opening
  <2> QED BY <2>1, <2>2, <2>3, <2>4
<1>11. CASE Unlock(h)
  <2>1. EngineTypes'
    BY <1>11 DEF EngineTypes, Unlock, Goto, storeVars, Opening
  <2>2. EngineSteps'
    BY <1>11 DEF EngineTypes, EngineSteps, CloseSteps, Places, Unlock, Goto, storeVars
  <2>3. OneDirectory'
    BY <1>11 DEF EngineTypes, EngineSteps, OneDirectory, Unlock, Goto, storeVars
  <2>4. CloseSteps'
    BY <1>11 DEF EngineTypes, EngineSteps, CloseSteps, Places, Unlock, Goto, storeVars
  <2> QED BY <2>1, <2>2, <2>3, <2>4
<1>12. CASE ShutdownEngine(h)
  <2>1. EngineTypes'
    BY <1>12 DEF EngineTypes, ShutdownEngine, Goto, storeVars, Opening
  <2>2. EngineSteps'
    BY <1>12 DEF EngineTypes, EngineSteps, CloseSteps, Places, ShutdownEngine, Goto, storeVars
  <2>3. OneDirectory'
    BY <1>12 DEF EngineTypes, EngineSteps, OneDirectory, ShutdownEngine, Goto, storeVars
  <2>4. CloseSteps'
    BY <1>12 DEF EngineTypes, EngineSteps, CloseSteps, Places, ShutdownEngine, Goto, storeVars
  <2> QED BY <2>1, <2>2, <2>3, <2>4
<1>13. CASE DrainEngine(h)
  <2>1. EngineTypes'
    BY <1>13 DEF EngineTypes, DrainEngine, Goto, storeVars, Opening
  <2>2. EngineSteps'
    BY <1>13 DEF EngineTypes, EngineSteps, CloseSteps, Places, DrainEngine, Goto, storeVars
  <2>3. OneDirectory'
    BY <1>13 DEF EngineTypes, EngineSteps, OneDirectory, DrainEngine, Goto, storeVars
  <2>4. CloseSteps'
    BY <1>13 DEF EngineTypes, EngineSteps, CloseSteps, Places, DrainEngine, Goto, storeVars
  <2> QED BY <2>1, <2>2, <2>3, <2>4
<1>14. CASE Again(h)
  <2>1. EngineTypes'
    BY <1>14 DEF EngineTypes, Again, Renewed, Goto, ClosersOf, Opening
  <2>2. EngineSteps'
    BY <1>14 DEF EngineTypes, EngineSteps, CloseSteps, Places, Again, Renewed, Goto, ClosersOf
  <2>3. OneDirectory'
    BY <1>14 DEF EngineTypes, EngineSteps, OneDirectory, Again, Renewed, Goto, ClosersOf
  <2>4. CloseSteps'
    BY <1>14 DEF EngineTypes, EngineSteps, CloseSteps, Places, Again, Renewed, Goto, ClosersOf
  <2> QED BY <2>1, <2>2, <2>3, <2>4
<1>15. CASE Crash(h)
  <2>1. EngineTypes'
    BY <1>15 DEF EngineTypes, Crash, Renewed, Goto, Opening
  <2>2. EngineSteps'
    BY <1>15 DEF EngineTypes, EngineSteps, CloseSteps, Places, Crash, Renewed, Goto
  <2>3. OneDirectory'
    BY <1>15 DEF EngineTypes, EngineSteps, OneDirectory, Crash, Renewed, Goto
  <2>4. CloseSteps'
    BY <1>15 DEF EngineTypes, EngineSteps, CloseSteps, Places, Crash, Renewed, Goto
  <2> QED BY <2>1, <2>2, <2>3, <2>4
<1> QED BY <1>1, <1>2, <1>3, <1>4, <1>5, <1>6, <1>7, <1>8, <1>9, <1>10, <1>11, <1>12, <1>13, <1>14, <1>15 DEF Engage

\* A Close of a handle is called, goes on, or returns.
LEMMA CloserKeeps ==
  ASSUME LifeInv, NEW h \in Handles, NEW g \in ClosersOf(h), CallClose(h, g) \/ Closing(h, g)
  PROVE  LifeInv'
<1> USE StoreConstants, ThreeBuckets DEF LifeInv, ClosersOf
<1>1. CASE CallClose(h, g)
  <2>1. EngineTypes'
    BY <1>1 DEF EngineTypes, CallClose, SetCloser, engineVars, Opening
  <2>2. EngineSteps'
    BY <1>1 DEF EngineTypes, EngineSteps, CloseSteps, Places, CallClose, SetCloser, engineVars
  <2>3. OneDirectory'
    BY <1>1 DEF EngineTypes, EngineSteps, OneDirectory, CallClose, SetCloser, engineVars
  <2>4. CloseSteps'
    BY <1>1 DEF EngineTypes, EngineSteps, CloseSteps, Places, CallClose, SetCloser, engineVars
  <2> QED BY <2>1, <2>2, <2>3, <2>4
<1>2. CASE EnterClose(h, g)
  <2>1. EngineTypes'
    BY <1>2 DEF EngineTypes, EnterClose, SetCloser, MutexFree, engineVars, Opening
  <2>2. EngineSteps'
    BY <1>2 DEF EngineTypes, EngineSteps, CloseSteps, Places, EnterClose, SetCloser, MutexFree, engineVars
  <2>3. OneDirectory'
    BY <1>2 DEF EngineTypes, EngineSteps, OneDirectory, EnterClose, SetCloser, MutexFree, engineVars
  <2>4. CloseSteps'
    BY <1>2 DEF EngineTypes, EngineSteps, CloseSteps, Places, EnterClose, SetCloser, MutexFree, engineVars
  <2> QED BY <2>1, <2>2, <2>3, <2>4
<1>3. CASE \E stopped \in BOOLEAN : StopViews(h, g, stopped)
  <2>1. EngineTypes'
    BY <1>3 DEF EngineTypes, StopViews, AfterViews, SetCloser, engineVars, Opening
  <2>2. EngineSteps'
    BY <1>3 DEF EngineTypes, EngineSteps, CloseSteps, Places, StopViews, AfterViews, SetCloser, engineVars
  <2>3. OneDirectory'
    BY <1>3 DEF EngineTypes, EngineSteps, OneDirectory, StopViews, AfterViews, SetCloser, engineVars
  <2>4. CloseSteps'
    BY <1>3 DEF EngineTypes, EngineSteps, CloseSteps, Places, StopViews, AfterViews, SetCloser, engineVars
  <2> QED BY <2>1, <2>2, <2>3, <2>4
<1>4. CASE DrainBackend(h, g)
  <2>1. EngineTypes'
    BY <1>4 DEF EngineTypes, DrainBackend, SetCloser, Opening
  <2>2. EngineSteps'
    BY <1>4 DEF EngineTypes, EngineSteps, CloseSteps, Places, DrainBackend, SetCloser
  <2>3. OneDirectory'
    BY <1>4 DEF EngineTypes, EngineSteps, OneDirectory, DrainBackend, SetCloser
  <2>4. CloseSteps'
    BY <1>4 DEF EngineTypes, EngineSteps, CloseSteps, Places, DrainBackend, SetCloser
  <2> QED BY <2>1, <2>2, <2>3, <2>4
<1>5. CASE ShutdownBackend(h, g)
  <2>1. EngineTypes'
    BY <1>5 DEF EngineTypes, ShutdownBackend, SetCloser, Opening
  <2>2. EngineSteps'
    BY <1>5 DEF EngineTypes, EngineSteps, CloseSteps, Places, ShutdownBackend, SetCloser
  <2>3. OneDirectory'
    BY <1>5 DEF EngineTypes, EngineSteps, OneDirectory, ShutdownBackend, SetCloser
  <2>4. CloseSteps'
    BY <1>5 DEF EngineTypes, EngineSteps, CloseSteps, Places, ShutdownBackend, SetCloser
  <2> QED BY <2>1, <2>2, <2>3, <2>4
<1>6. CASE EndClose(h, g)
  <2>1. EngineTypes'
    BY <1>6 DEF EngineTypes, EndClose, SetCloser, Goto, Opening
  <2>2. EngineSteps'
    BY <1>6 DEF EngineTypes, EngineSteps, CloseSteps, Places, EndClose, SetCloser, Goto
  <2>3. OneDirectory'
    BY <1>6 DEF EngineTypes, EngineSteps, OneDirectory, EndClose, SetCloser, Goto
  <2>4. CloseSteps'
    BY <1>6 DEF EngineTypes, EngineSteps, CloseSteps, Places, EndClose, SetCloser, Goto
  <2> QED BY <2>1, <2>2, <2>3, <2>4
<1> QED BY <1>1, <1>2, <1>3, <1>4, <1>5, <1>6 DEF Closing

\* Calls leave the life cycle alone.
LEMMA LifeKept ==
  ASSUME LifeInv, UNCHANGED <<mode, engineVars, storeVars>>
  PROVE  LifeInv'
  BY DEF LifeInv, EngineTypes, EngineSteps, OneDirectory, CloseSteps, engineVars, storeVars

\* Of the steps of a handle only a crash and a shutdown touch calls: they drop requests.
LEMMA CrashTypes ==
  ASSUME KVTypeOK, RequestsSent, NEW h \in Handles, Crash(h)
  PROVE  KVTypeOK' /\ RequestsSent'
<1>1. /\ bucket' = bucket /\ op' = op /\ err' = err
      /\ pending' \subseteq pending /\ late' \subseteq late
      /\ pc' = [c \in Calls |-> IF c \in CallsOf(h) /\ pc[c] = "sent" THEN "dead" ELSE pc[c]]
      /\ Forget({c \in CallsOf(h) : pc[c] = "sent"})
  BY DEF Crash, Lose
<1>2. /\ passed' \in [Calls -> Nat] /\ left' \in [Calls -> Nat]
      /\ listed' \in [Calls -> Seq(Keys)]
  <2>1. <<>> \in Seq(Keys)
    OBVIOUS
  <2> QED BY <1>1, <2>1 DEF Forget, KVTypeOK
<1>3. pc' \in [Calls -> {"new", "sent", "done", "dead"}]
      /\ \A c \in Calls : /\ pc[c] # "new" => pc'[c] # "new"
                         /\ pc'[c] = "sent" => pc[c] = "sent"
  BY <1>1 DEF KVTypeOK
<1> QED BY <1>1, <1>2, <1>3 DEF KVTypeOK, RequestsSent

LEMMA ShutdownTypes ==
  ASSUME KVTypeOK, RequestsSent, NEW h \in Handles, NEW g, ShutdownBackend(h, g)
  PROVE  KVTypeOK' /\ RequestsSent'
  BY DEF KVTypeOK, RequestsSent, ShutdownBackend, Lose, listing

\* Every step keeps the inductive invariant.
LEMMA EngineStep ==
  ASSUME EngineInv, [Next]_vars
  PROVE  EngineInv'
<1>1. KVTypeOK /\ RequestsSent /\ LifeInv
  BY TypesSplit DEF EngineInv, LifeInv
<1>2. ASSUME KVTypeOK', RequestsSent', LifeInv'
      PROVE  EngineInv'
  <2>1. TypeOK'
    BY <1>2, TypesSplit, PTL DEF LifeInv
  <2> QED BY <1>2, <2>1 DEF EngineInv, LifeInv
<1>3. ASSUME NEW h \in Handles,
             Open(h) \/ AcquireLock(h) \/ Engage(h) \/ DrainEngine(h) \/ Again(h)
      PROVE  EngineInv'
  <2>1. UNCHANGED kvVars
    BY <1>3 DEF Open, AcquireLock, Engage, StartServer, Ready, Connect, Bind, CanonicalPath,
                Provision, NewStore, OpenFails, Unlock, ShutdownEngine, DrainEngine, Again
  <2> QED BY <1>1, <1>2, <1>3, <2>1, KVKept, HandleKeeps
<1>4. ASSUME NEW h \in Handles, Crash(h)
      PROVE  EngineInv'
  BY <1>1, <1>2, <1>4, CrashTypes, HandleKeeps
<1>5. ASSUME NEW h \in Handles, NEW g \in ClosersOf(h), CallClose(h, g) \/ Closing(h, g)
      PROVE  EngineInv'
  <2>1. CASE ShutdownBackend(h, g)
    BY <1>1, <1>2, <1>5, <2>1, ShutdownTypes, CloserKeeps
  <2>2. CASE ~ShutdownBackend(h, g)
    <3>1. UNCHANGED kvVars
      BY <1>5, <2>2 DEF CallClose, Closing, EnterClose, StopViews, DrainBackend, EndClose
    <3> QED BY <1>1, <1>2, <1>5, <3>1, KVKept, CloserKeeps
  <2> QED BY <2>1, <2>2
<1>6. ASSUME NEW c \in Calls, Begin(c) \/ Serve(c) \/ Proceed(c)
      PROVE  EngineInv'
  <2>1. LifeInv'
    BY <1>1, <1>6, LifeKept DEF Begin, Serve, Proceed
  <2>2. CASE Begin(c)
    <3>1. PICK o \in Requests[c] : Call(c, o)
      BY <2>2 DEF Begin
    <3>2. o \in Ops
      BY <3>1, KVConstants
    <3> QED BY <1>1, <1>2, <2>1, <3>1, <3>2, CallTypes
  <2>3. CASE Serve(c)
    BY <1>1, <1>2, <2>1, <2>3, ServerTypes DEF Serve
  <2>4. CASE Proceed(c)
    BY <1>1, <1>2, <2>1, <2>4, ClientTypes DEF Proceed
  <2> QED BY <1>6, <2>2, <2>3, <2>4
<1>7. CASE UNCHANGED vars
  BY <1>1, <1>2, <1>7, KVKept, LifeKept DEF vars
<1> QED BY <1>3, <1>4, <1>5, <1>6, <1>7 DEF Next

LEMMA EngineInductive == Spec => []EngineInv
<1>1. Init => EngineInv
  <2> SUFFICES ASSUME Init PROVE EngineInv
    OBVIOUS
  <2>1. KVTypeOK /\ RequestsSent
    <3>1. bucket \in Seq([key : Keys, val : {Deleted, None}, by : {None}])
      BY KVConstants DEF Init, KVInit
    <3>2. bucket \in Seq(Entries)
      BY <3>1, SeqSubset DEF Entries
    <3> QED BY <3>2 DEF Init, KVInit, KVTypeOK, RequestsSent, Entries
  <2>2. EngineTypes
    BY ThreeBuckets DEF Init, EngineTypes, Opening
  <2>3. EngineSteps
    BY StoreConstants DEF Init, EngineSteps, Places
  <2>4. OneDirectory
    <3>1. \A h \in Handles : at[h] = "idle"
      BY DEF Init
    <3> QED BY <3>1 DEF OneDirectory
  <2>5. CloseSteps
    BY StoreConstants DEF Init, CloseSteps
  <2> QED BY <2>1, <2>2, <2>3, <2>4, <2>5, TypesSplit DEF EngineInv
<1>2. EngineInv /\ [Next]_vars => EngineInv'
  BY EngineStep
<1> QED BY <1>1, <1>2, PTL DEF Spec

\* Whoever opens, fails, closes or crashes: two servers never run over one directory.
THEOREM SoleEngine == Spec => []OneEngine
<1>1. EngineInv => OneEngine
  <2> SUFFICES ASSUME EngineInv, NEW h \in Handles, NEW o \in Handles, server[h], server[o]
               PROVE  h = o
    BY DEF OneEngine
  <2>1. mode \in {"embedded", "locked"} /\ at[h] \notin {"idle", "closed"}
        /\ at[o] \notin {"idle", "closed"}
    BY DEF EngineInv, EngineSteps, TypeOK
  <2>2. CASE mode = "embedded"
    BY <2>1, <2>2 DEF EngineInv, OneDirectory
  <2>3. CASE mode = "locked"
    BY <2>1, <2>3 DEF EngineInv, EngineSteps
  <2> QED BY <2>1, <2>2, <2>3
<1> QED BY <1>1, EngineInductive, PTL

\* A failed open and a Close that returned leave no server, connection or lock behind.
THEOREM NoLeak == Spec => []NothingLeaked
<1>1. EngineInv => NothingLeaked
  BY StoreConstants DEF EngineInv, EngineSteps, CloseSteps, NothingLeaked
<1> QED BY <1>1, EngineInductive, PTL

-----------------------------------------------------------------------------
(* What the key-value store answers *)

\* A set of naturals has a least element, and a set of positions a greatest.
LEMMA LeastNatural ==
  ASSUME NEW T, T \subseteq Nat, T # {}
  PROVE  \E m \in T : \A n \in T : m <= n
<1> DEFINE R == OpToRel(<, Nat)
<1>1. IsWellFoundedOn(R, Nat)
  BY NatLessThanWellFounded
<1>2. \A x, y \in Nat : y < x => <<y, x>> \in R
  BY DEF OpToRel
<1> HIDE DEF R
<1>3. PICK x \in T : \A y \in T : ~ (<<y, x>> \in R)
  BY <1>1, WFMin
<1>4. \A y \in T : ~(y < x)
  BY <1>2, <1>3
<1>5. \A y \in T : x <= y
  BY <1>4
<1> QED BY <1>5

LEMMA GreatestPosition ==
  ASSUME NEW n \in Nat, NEW T, T \subseteq 1..n, T # {}
  PROVE  Max(T) \in T /\ \A i \in T : i <= Max(T)
<1> DEFINE U == {u \in Nat : \E i \in T : u = n - i}
<1>1. U \subseteq Nat /\ U # {}
  <2>1. PICK i \in T : TRUE
    OBVIOUS
  <2>2. n - i \in Nat
    BY <2>1
  <2>3. n - i \in U
    BY <2>1, <2>2
  <2> QED BY <2>3
<1> HIDE DEF U
<1>2. PICK u \in U : \A v \in U : u <= v
  BY <1>1, LeastNatural
<1>3. PICK m \in T : u = n - m
  BY <1>2 DEF U
<1>4. ASSUME NEW i \in T PROVE m >= i
  <2>1. n - i \in U
    BY DEF U
  <2> QED BY <1>2, <1>3, <2>1
<1>5. Max(T) \in T /\ \A i \in T : Max(T) >= i
  BY <1>4 DEF Max
<1> QED BY <1>5

\* What is in a sequence with one more element.
LEMMA AppendSet ==
  ASSUME NEW S, NEW l \in Seq(S), NEW v \in S
  PROVE  ToSet(Append(l, v)) = ToSet(l) \cup {v}
<1>1. /\ Len(l) \in Nat /\ DOMAIN l = 1..Len(l)
      /\ DOMAIN Append(l, v) = 1..(Len(l) + 1)
      /\ \A i \in 1..(Len(l) + 1) : Append(l, v)[i] = IF i <= Len(l) THEN l[i] ELSE v
  OBVIOUS
<1>2. ASSUME NEW x \in ToSet(Append(l, v)) PROVE x \in ToSet(l) \cup {v}
  <2>1. PICK i \in 1..(Len(l) + 1) : x = Append(l, v)[i]
    BY <1>1 DEF ToSet
  <2> QED BY <1>1, <2>1 DEF ToSet
<1>3. ASSUME NEW x \in ToSet(l) PROVE x \in ToSet(Append(l, v))
  <2>1. PICK i \in 1..Len(l) : x = l[i]
    BY <1>1 DEF ToSet
  <2>2. i \in 1..(Len(l) + 1) /\ i <= Len(l)
    BY <1>1
  <2> QED BY <1>1, <2>1, <2>2 DEF ToSet
<1>4. v \in ToSet(Append(l, v))
  <2>1. Len(l) + 1 \in 1..(Len(l) + 1) /\ ~(Len(l) + 1 <= Len(l))
    BY <1>1
  <2> QED BY <1>1, <2>1 DEF ToSet
<1> QED BY <1>2, <1>3, <1>4

Ascending(s) == \A m, n \in DOMAIN s : m < n => s[m] < s[n]

\* A finite set of naturals has an ascending enumeration: by induction on its size,
\* with its least element put before the rest.
LEMMA AscendingExists ==
  ASSUME NEW N \in Nat, NEW S \in SUBSET Nat, IsFiniteSet(S), Cardinality(S) = N
  PROVE  \E s \in [1..N -> S] : Ascending(s)
<1> DEFINE Bad(T) == IsFiniteSet(T) /\ ~ \E s \in [1..Cardinality(T) -> T] : Ascending(s)
           B == {n \in Nat : \E T \in SUBSET Nat : Cardinality(T) = n /\ Bad(T)}
<1>1. B = {}
  <2> SUFFICES ASSUME B # {} PROVE FALSE
    OBVIOUS
  <2>1. PICK n \in B : \A m \in B : n <= m
    BY LeastNatural
  <2>2. PICK T \in SUBSET Nat : Cardinality(T) = n /\ Bad(T)
    BY <2>1
  <2>3. n \in Nat /\ T # {}
    <3>1. ASSUME T = {} PROVE FALSE
      <4>1. Cardinality(T) = 0
        BY <3>1, FS_EmptySet
      <4>2. [i \in 1..0 |-> i] \in [1..0 -> T]
        OBVIOUS
      <4>3. Ascending([i \in 1..0 |-> i])
        BY DEF Ascending
      <4> QED BY <2>2, <4>1, <4>2, <4>3
    <3> QED BY <2>1, <3>1
  <2>4. PICK x \in T : \A y \in T : x <= y
    BY <2>3, LeastNatural
  <2> DEFINE U == T \ {x}
  <2>5. U \in SUBSET Nat /\ IsFiniteSet(U) /\ Cardinality(U) = n - 1 /\ n - 1 \in Nat
    <3>1. IsFiniteSet(U) /\ Cardinality(U) = n - 1
      BY <2>2, <2>4, FS_RemoveElement
    <3>2. Cardinality(U) \in Nat
      BY <3>1, FS_CardinalityType
    <3> QED BY <3>1, <3>2
  <2>6. n - 1 \notin B
    BY <2>1, <2>3, <2>5
  <2>7. PICK u \in [1..(n - 1) -> U] : Ascending(u)
    BY <2>5, <2>6
  <2> DEFINE s == [i \in 1..n |-> IF i = 1 THEN x ELSE u[i - 1]]
  <2>8. s \in [1..n -> T]
    BY <2>3, <2>4, <2>5, <2>7
  <2>9. Ascending(s)
    <3> SUFFICES ASSUME NEW i \in 1..n, NEW j \in 1..n, i < j
                 PROVE  s[i] < s[j]
      BY DEF Ascending
    <3>1. j - 1 \in 1..(n - 1) /\ s[j] = u[j - 1] /\ u[j - 1] \in U
      BY <2>3, <2>5, <2>7
    <3>2. CASE i = 1
      <4>1. x < u[j - 1]
        <5>1. u[j - 1] \in T /\ u[j - 1] # x
          BY <3>1
        <5>2. x \in Nat /\ u[j - 1] \in Nat /\ x <= u[j - 1]
          BY <2>2, <2>4, <5>1
        <5> QED BY <5>1, <5>2
      <4> QED BY <3>1, <3>2, <4>1
    <3>3. CASE i # 1
      <4>1. i - 1 \in 1..(n - 1) /\ i - 1 < j - 1 /\ s[i] = u[i - 1]
        BY <2>3, <2>5, <3>3
      <4>2. u[i - 1] < u[j - 1]
        BY <2>7, <3>1, <4>1 DEF Ascending
      <4> QED BY <3>1, <4>1, <4>2
    <3> QED BY <3>2, <3>3
  <2> HIDE DEF s
  <2> QED BY <2>2, <2>8, <2>9
<1>2. Cardinality(S) \notin B
  BY <1>1
<1> QED BY <1>2

\* sortedDedupFiltered returns the keys it was given that are under the prefix, in order.
LEMMA Sorted ==
  ASSUME NEW all \in Seq(Keys), NEW prefix \in SUBSET Keys
  PROVE  LET s == SortedDedupFiltered(all, prefix) IN
         /\ ToSet(s) = ToSet(all) \cap prefix
         /\ \A m, n \in 1..Len(s) : m < n => s[m] < s[n]
<1> DEFINE S == ToSet(all) \cap prefix
           N == Cardinality(S)
           s == SortedDedupFiltered(all, prefix)
<1>1. S \in SUBSET Nat /\ IsFiniteSet(S) /\ N \in Nat
  <2>1. Len(all) \in Nat /\ all \in [1..Len(all) -> Keys]
    OBVIOUS
  <2>2. all \in Surjection(1..Len(all), ToSet(all))
    BY <2>1 DEF Surjection, ToSet
  <2>3. IsFiniteSet(ToSet(all))
    BY <2>1, <2>2, FS_Interval, FS_Surjection
  <2>4. IsFiniteSet(S)
    BY <2>3, FS_Subset
  <2> QED BY <2>4, FS_CardinalityType, KVConstants
<1> HIDE DEF S
<1>2. PICK t \in [1..N -> S] : Ascending(t)
  BY <1>1, AscendingExists
<1>3. \A i, j \in 1..N : i # j => t[i] # t[j]
  <2> SUFFICES ASSUME NEW i \in 1..N, NEW j \in 1..N, i < j
               PROVE  t[i] # t[j]
    BY <1>1
  <2>1. t[i] < t[j] /\ t[i] \in Nat /\ t[j] \in Nat
    BY <1>1, <1>2 DEF Ascending
  <2> QED BY <2>1
<1>4. t \in SetToSeqs(S)
  BY <1>2, <1>3 DEF SetToSeqs
<1>5. s \in SetToSeqs(S) /\ Ascending(s)
  <2>1. s = CHOOSE v \in SetToSeqs(S) : \A m, n \in DOMAIN v : m < n => v[m] < v[n]
    BY DEF SortedDedupFiltered, S
  <2> HIDE DEF s
  <2>2. \E v \in SetToSeqs(S) : \A m, n \in DOMAIN v : m < n => v[m] < v[n]
    BY <1>2, <1>4 DEF Ascending
  <2> QED BY <2>1, <2>2 DEF Ascending
<1> HIDE DEF s
<1>6. s \in [1..N -> S] /\ \A i, j \in 1..N : i # j => s[i] # s[j]
  BY <1>5 DEF SetToSeqs
<1>7. s \in Injection(1..N, S)
  BY <1>6 DEF Injection, IsInjective
<1>8. s \in Surjection(1..N, S)
  BY <1>1, <1>7, FS_Injection, FS_Interval
<1>9. Len(s) = N /\ DOMAIN s = 1..N
  BY <1>1, <1>6
<1>10. ToSet(s) = S
  BY <1>6, <1>8 DEF ToSet, Surjection
<1> QED BY <1>5, <1>9, <1>10 DEF Ascending, S, s

\* The revision of a key is its last entry.
LEMMA RevIs ==
  ASSUME KVTypeOK, NEW k, NEW n \in 0..Len(bucket)
  PROVE  /\ RevAt(k, n) \in 0..n /\ \A i \in Revs(k, n) : i <= RevAt(k, n)
         /\ RevAt(k, n) # 0 => RevAt(k, n) \in Revs(k, n)
<1>1. Len(bucket) \in Nat /\ n \in Nat /\ Revs(k, n) \subseteq 1..n
  BY DEF KVTypeOK, Revs
<1>2. Revs(k, n) # {} => /\ Max(Revs(k, n)) \in Revs(k, n)
                         /\ \A i \in Revs(k, n) : i <= Max(Revs(k, n))
  BY <1>1, GreatestPosition
<1> QED BY <1>1, <1>2 DEF RevAt

LEMMA RevNow ==
  ASSUME KVTypeOK, NEW k
  PROVE  /\ Len(bucket) \in Nat /\ Rev(k) \in 0..Len(bucket)
         /\ \A i \in Revs(k, Len(bucket)) : i <= Rev(k)
         /\ Rev(k) # 0 => /\ Rev(k) \in 1..Len(bucket) /\ bucket[Rev(k)].key = k
                          /\ Rev(k) \in Revs(k, Len(bucket)) /\ Rev(k) \in Kept
<1>1. Len(bucket) \in Nat /\ Len(bucket) \in 0..Len(bucket)
  BY DEF KVTypeOK
<1>2. /\ Rev(k) \in 0..Len(bucket) /\ \A i \in Revs(k, Len(bucket)) : i <= Rev(k)
      /\ Rev(k) # 0 => Rev(k) \in Revs(k, Len(bucket))
  BY <1>1, RevIs DEF Rev
<1>3. Rev(k) # 0 => Rev(k) \in 1..Len(bucket) /\ bucket[Rev(k)].key = k
  BY <1>2 DEF Revs
<1> QED BY <1>1, <1>2, <1>3 DEF Kept

\* The bucket is unchanged, or longer by one entry that no call but c wrote.
Grows(c) ==
  \/ bucket' = bucket
  \/ \E e \in Entries : e.by = c /\ bucket' = Append(bucket, e)

\* The past of a bucket does not change.
LEMMA Past ==
  ASSUME KVTypeOK, NEW c, Grows(c)
  PROVE  /\ Len(bucket) \in Nat /\ Len(bucket') \in Nat /\ Len(bucket) <= Len(bucket')
         /\ \A n \in 1..Len(bucket) : bucket'[n] = bucket[n]
         /\ \A d \in Calls : d # c => Wrote(d)' = Wrote(d)
         /\ \A k, n : n \in 0..Len(bucket) =>
              /\ RevAt(k, n) \in 0..n /\ RevAt(k, n)' = RevAt(k, n)
              /\ LiveAt(k, n)' = LiveAt(k, n)
         /\ \A k, i : i \in Revs(k, Len(bucket)) =>
              i \in 1..Len(bucket) /\ i \in Revs(k, Len(bucket))' /\ bucket'[i] = bucket[i]
<1>1. bucket \in Seq(Entries)
  BY DEF KVTypeOK, Entries
<1>2. /\ Len(bucket) \in Nat /\ Len(bucket') \in Nat /\ Len(bucket) <= Len(bucket')
      /\ \A n \in 1..Len(bucket) : bucket'[n] = bucket[n]
      /\ \A n \in 1..Len(bucket') : n \in 1..Len(bucket) \/ bucket'[n].by = c
  BY <1>1 DEF Grows
<1>3. ASSUME NEW d \in Calls, d # c
      PROVE  Wrote(d)' = Wrote(d)
  BY <1>2, <1>3 DEF Wrote
<1>4. ASSUME NEW k, NEW n \in 0..Len(bucket)
      PROVE  /\ RevAt(k, n) \in 0..n /\ RevAt(k, n)' = RevAt(k, n)
             /\ LiveAt(k, n)' = LiveAt(k, n)
  <2>1. n \in Nat /\ 1..n \subseteq 1..Len(bucket)
    BY <1>2
  <2>2. Revs(k, n)' = Revs(k, n)
    BY <1>2, <2>1 DEF Revs
  <2>3. RevAt(k, n)' = RevAt(k, n)
    BY <2>2 DEF RevAt
  <2>4. RevAt(k, n) \in 0..n
    BY RevIs
  <2>5. RevAt(k, n) # 0 => bucket'[RevAt(k, n)] = bucket[RevAt(k, n)]
    BY <1>2, <2>1, <2>4
  <2>6. LiveAt(k, n)' = LiveAt(k, n)
    BY <2>3, <2>5 DEF LiveAt
  <2> QED BY <2>3, <2>4, <2>6
<1>5. ASSUME NEW k, NEW i \in Revs(k, Len(bucket))
      PROVE  i \in 1..Len(bucket) /\ i \in Revs(k, Len(bucket))' /\ bucket'[i] = bucket[i]
  BY <1>2 DEF Revs
<1> QED BY <1>2, <1>3, <1>4, <1>5

\* A key's revision stays, or goes to the entry just appended.
LEMMA RevGrows ==
  ASSUME KVTypeOK, NEW c, Grows(c), NEW k
  PROVE  /\ Rev(k)' \in Nat /\ Rev(k) <= Rev(k)'
         /\ Rev(k)' <= Len(bucket) => Rev(k)' = Rev(k) /\ Live(k)' = Live(k)
<1>1. /\ bucket \in Seq(Entries) /\ Len(bucket) \in Nat /\ Rev(k) \in 0..Len(bucket)
      /\ Len(bucket) \in 0..Len(bucket)
  BY RevNow DEF KVTypeOK, Entries
<1>2. CASE bucket' = bucket
  <2>1. Rev(k)' = Rev(k) /\ Live(k)' = Live(k)
    BY <1>2 DEF Rev, RevAt, Revs, Live, LiveAt
  <2> QED BY <1>1, <2>1
<1>3. CASE \E e \in Entries : e.by = c /\ bucket' = Append(bucket, e)
  <2>1. PICK e \in Entries : bucket' = Append(bucket, e)
    BY <1>3
  <2>2. PICK N \in Nat : N = Len(bucket) + 1
    BY <1>1
  <2>3. /\ Len(bucket') = N /\ bucket'[N] = e
        /\ \A n \in 1..Len(bucket) : bucket'[n] = bucket[n]
    BY <1>1, <2>1, <2>2
  <2>4. \A i \in Revs(k, Len(bucket)) : i \in 1..Len(bucket) /\ i <= Rev(k)
    BY RevNow DEF Revs
  <2>5. Rev(k)' = RevAt(k, N)'
    BY <2>3 DEF Rev
  <2>6. CASE e.key = k
    <3>1. N \in Revs(k, N)' /\ Revs(k, N)' \subseteq 1..N
      BY <1>1, <2>2, <2>3, <2>6 DEF Revs
    <3>2. PICK T : T = Revs(k, N)'
      OBVIOUS
    <3>3. RevAt(k, N)' = Max(T)
      BY <3>1, <3>2 DEF RevAt
    <3>4. Max(T) \in T /\ \A i \in T : i <= Max(T)
      BY <3>1, <3>2, GreatestPosition
    <3>5. Rev(k)' = N
      BY <2>5, <3>1, <3>2, <3>3, <3>4
    <3> QED BY <1>1, <2>2, <3>5
  <2>7. CASE e.key # k
    <3>1. Revs(k, N)' = Revs(k, Len(bucket))
      BY <1>1, <2>2, <2>3, <2>7 DEF Revs
    <3>2. Rev(k)' = Rev(k)
      BY <2>5, <3>1 DEF Rev, RevAt
    <3>3. Rev(k) # 0 => bucket'[Rev(k)] = bucket[Rev(k)]
      BY <1>1, <2>3
    <3>4. Live(k)' = Live(k)
      BY <3>2, <3>3 DEF Live, LiveAt, Rev
    <3> QED BY <1>1, <3>2, <3>4
  <2> QED BY <2>6, <2>7
<1> QED BY <1>2, <1>3 DEF Grows

ReadInv(c) == GetServed(c) /\ KeysServed(c) /\ GetAnswered(c) /\ KeysAnswered(c)
PutInv(c) == CallSteps(c) /\ CreateSteps(c) /\ PutWrote(c) /\ PutUnderWay(c) /\ PutServed(c)
CallInv(c) == PutInv(c) /\ ReadInv(c)

LEMMA AnswersSplit == AnswersInv <=> AnswerTypes /\ \A c \in Calls : CallInv(c)
  BY DEF AnswersInv, CallInv, PutInv, ReadInv

LEMMA AnswersSplitNext == AnswerTypes' /\ (\A c \in Calls : CallInv(c)') => AnswersInv'
  BY DEF AnswersInv, CallInv, PutInv, ReadInv

\* An answer to a read stays so as the bucket grows.
LEMMA AnsweredKept ==
  ASSUME KVTypeOK, AnswerTypes, NEW c, Grows(c), NEW d \in Calls,
         GetAnswered(d), KeysAnswered(d), began[d] <= Len(bucket),
         ended[d] <= Len(bucket), op'[d] = op[d], answer'[d] = answer[d],
         began'[d] = began[d], ended'[d] = ended[d]
  PROVE  GetAnswered(d)' /\ KeysAnswered(d)'
<1>1. \A n \in During(d) : n \in 0..Len(bucket) /\ n \in During(d)'
  BY Past DEF AnswerTypes, During
<1>2. answer[d] # None /\ answer[d].is = "keyNotFound" =>
        \E n \in During(d)' : ~LiveAt(op[d].key, n)'
  BY <1>1, Past DEF GetAnswered
<1>3. ASSUME answer[d] # None, op[d].kind = "get", answer[d].is = "ok"
      PROVE  \E n \in During(d)' :
               /\ LiveAt(op[d].key, n)' /\ RevAt(op[d].key, n)' = answer[d].rev
               /\ bucket'[answer[d].rev].val = answer[d].val
  <2>1. PICK n \in During(d) :
           /\ LiveAt(op[d].key, n) /\ RevAt(op[d].key, n) = answer[d].rev
           /\ bucket[answer[d].rev].val = answer[d].val
    BY <1>3 DEF GetAnswered
  <2>2. n \in 0..Len(bucket) /\ n \in During(d)'
    BY <1>1
  <2>3. LiveAt(op[d].key, n)' /\ RevAt(op[d].key, n)' = answer[d].rev
    BY <2>1, <2>2, Past
  <2>4. bucket'[RevAt(op[d].key, n)] = bucket[RevAt(op[d].key, n)]
    BY <2>1, <2>2, Past DEF LiveAt
  <2> QED BY <2>1, <2>2, <2>3, <2>4
<1>4. GetAnswered(d)'
  BY <1>2, <1>3 DEF GetAnswered, LiveAt, RevAt, Revs
<1>5. /\ During(d)' = During(d) /\ \A k : \A n \in During(d) : LiveAt(k, n)' = LiveAt(k, n)
      /\ \A k : Untouched(d, k)' = Untouched(d, k)
  <2>1. PICK b \in 0..Len(bucket), e \in 0..Len(bucket) : b = began[d] /\ e = ended[d]
    BY Past DEF AnswerTypes
  <2>2. \A k : /\ LiveAt(k, b)' = LiveAt(k, b) /\ RevAt(k, b)' = RevAt(k, b)
               /\ RevAt(k, e)' = RevAt(k, e)
    BY <2>1, Past
  <2>3. During(d)' = During(d)
    BY DEF During
  <2>4. \A k : Untouched(d, k)' = Untouched(d, k)
    BY <2>1, <2>2 DEF Untouched
  <2> QED BY <1>1, <2>3, <2>4, Past
<1>6. KeysAnswered(d)'
  BY <1>5 DEF KeysAnswered
<1> QED BY <1>4, <1>6

\* A smaller set of positions is no larger in number.
LEMMA OldFinite ==
  ASSUME KVTypeOK, NEW c \in Calls
  PROVE  IsFiniteSet(OldAhead(c)) /\ Cardinality(OldAhead(c)) \in Nat
<1>1. OldAhead(c) \in SUBSET Kept
  BY DEF OldAhead, Ahead
<1> QED BY <1>1, KeptFinite, FS_Subset, FS_CardinalityType

\* What is so of a read stays so while the bucket grows.
LEMMA ReadsKept ==
  ASSUME KVTypeOK, AnswerTypes, NEW c, Grows(c), NEW d \in Calls, ReadInv(d), CallSteps(d),
         op'[d] = op[d], reply'[d] = reply[d], answer'[d] = answer[d],
         passed'[d] = passed[d], left'[d] = left[d], listed'[d] = listed[d],
         began'[d] = began[d], ended'[d] = ended[d]
  PROVE  ReadInv(d)'
<1> USE DEF ReadInv
<1>1. began[d] \in Nat /\ ended[d] \in Nat /\ began[d] <= Len(bucket)
  BY DEF AnswerTypes, CallSteps
<1>2. GetServed(d)'
  <2>1. \A n \in began[d]..Len(bucket) : n \in 0..Len(bucket) /\ n \in began[d]..Len(bucket')
    BY <1>1, Past
  <2>2. \A k, n : n \in 0..Len(bucket) /\ LiveAt(k, n) =>
          bucket'[RevAt(k, n)] = bucket[RevAt(k, n)]
    BY Past DEF LiveAt
  <2>3. reply[d] # None /\ reply[d].is = "notFound" =>
          \E n \in began[d]..Len(bucket') : ~LiveAt(op[d].key, n)'
    BY <2>1, Past DEF GetServed
  <2>4. ASSUME reply[d] # None, op[d].kind = "get", reply[d].is = "ok"
        PROVE  \E n \in began[d]..Len(bucket') :
                 /\ LiveAt(op[d].key, n)' /\ RevAt(op[d].key, n)' = reply[d].rev
                 /\ bucket'[reply[d].rev].val = reply[d].val
    <3>1. PICK n \in began[d]..Len(bucket) :
             /\ LiveAt(op[d].key, n) /\ RevAt(op[d].key, n) = reply[d].rev
             /\ bucket[reply[d].rev].val = reply[d].val
      BY <2>4 DEF GetServed
    <3>2. n \in 0..Len(bucket) /\ n \in began[d]..Len(bucket')
      BY <2>1
    <3>3. LiveAt(op[d].key, n)' /\ RevAt(op[d].key, n)' = reply[d].rev
      BY <3>1, <3>2, Past
    <3> QED BY <2>2, <3>1, <3>2, <3>3
  <2> QED BY <2>3, <2>4 DEF GetServed, LiveAt, RevAt, Revs
<1>3. KeysServed(d)'
  <2>1. \A n \in began[d]..Len(bucket) : n \in 0..Len(bucket) /\ n \in began[d]..Len(bucket')
    BY <1>1, Past
  <2>2. \A k : \A n \in began[d]..Len(bucket) :
          LiveAt(k, n)' = LiveAt(k, n) /\ n \in began[d]..Len(bucket')
    BY <2>1, Past
  <2>3. OldAhead(d)' \in SUBSET OldAhead(d)
    <3> SUFFICES ASSUME NEW n \in OldAhead(d)' PROVE n \in OldAhead(d)
      OBVIOUS
    <3>1. n \in 1..Len(bucket') /\ n <= began[d] /\ n > passed[d] /\ n \in Kept'
      BY DEF OldAhead, Ahead, Kept
    <3>2. n \in 1..Len(bucket) /\ bucket'[n] = bucket[n]
      BY <1>1, <3>1, Past
    <3>3. PICK k : k = bucket[n].key
      OBVIOUS
    <3>4. Rev(k)' = n
      BY <3>1, <3>2, <3>3 DEF Kept
    <3>5. Rev(k) = n
      BY <3>2, <3>4, Past, RevGrows
    <3> QED BY <3>1, <3>2, <3>3, <3>5 DEF OldAhead, Ahead, Kept
  <2>4. Cardinality(OldAhead(d)') <= Cardinality(OldAhead(d)) /\ Cardinality(OldAhead(d)') \in Nat
    BY <2>3, OldFinite, FS_Subset, FS_CardinalityType
  <2>5. reply[d] # None /\ reply[d].is = "listing" => Cardinality(OldAhead(d)') <= left[d]
    BY <2>4, OldFinite DEF KeysServed, KVTypeOK
  <2>6. ASSUME NEW k \in Keys, Live(k)', Rev(k)' <= began[d]
        PROVE  Live(k) /\ Rev(k) = Rev(k)'
    BY <1>1, <2>6, Past, RevGrows
  <2> QED BY <2>2, <2>5, <2>6 DEF KeysServed
<1>4. GetAnswered(d)' /\ KeysAnswered(d)'
  BY AnsweredKept DEF CallSteps
<1> QED BY <1>2, <1>3, <1>4

\* A marker stays in the past of its key.
LEMMA MarkerKept ==
  ASSUME KVTypeOK, NEW c, Grows(c), NEW d, op'[d] = op[d], NEW n, Marker(d, n)
  PROVE  Marker(d, n)'
<1>1. n \in 1..Len(bucket) /\ bucket'[n] = bucket[n] /\ bucket[n].key = op[d].key
  BY Past DEF Marker, Revs
<1> QED BY <1>1, Past DEF Marker, Revs

\* What is so of a call stays so while others go on.
LEMMA OtherKept ==
  ASSUME KVTypeOK, AnswerTypes, NEW c, Grows(c), NEW d \in Calls, CallInv(d), Wrote(d)' = Wrote(d),
         pc'[d] = pc[d], op'[d] = op[d], reply'[d] = reply[d], answer'[d] = answer[d],
         err'[d] = err[d], named'[d] = named[d],
         passed'[d] = passed[d], left'[d] = left[d], listed'[d] = listed[d],
         began'[d] = began[d], ended'[d] = ended[d],
         d \in pending' => d \in pending, d \in late' => d \in late
  PROVE  CallInv(d)'
<1> USE DEF CallInv
<1>1. began[d] \in Nat /\ ended[d] \in Nat /\ ended[d] <= Len(bucket) /\ PutInv(d)
  BY DEF AnswerTypes, PutInv, CallSteps
<1>2. CallSteps(d)'
  BY <1>1, Past DEF PutInv, CallSteps
<1>3. \A n : Marker(d, n) => Marker(d, n)'
  BY MarkerKept
<1>4. Creates(d)' = Creates(d) /\ Looking(d)' = Looking(d)
  BY DEF Creates, Looking
<1>5. CreateSteps(d)'
  BY <1>1, <1>3, <1>4 DEF PutInv, CreateSteps
<1>6. PutWrote(d)'
  <2>1. \A n \in Wrote(d) : n - 1 \in 0..Len(bucket) /\ bucket'[n] = bucket[n]
    BY Past DEF Wrote
  <2> QED BY <1>1, <1>4, <2>1, Past DEF PutInv, PutWrote
<1>7. PutUnderWay(d)'
  BY <1>1 DEF PutInv, PutUnderWay
<1>8. PutServed(d)'
  <2>1. \A n \in Wrote(d) : n \in Nat
    BY DEF Wrote
  <2>2. PICK k, e : k = op[d].key /\ e = ended[d]
    OBVIOUS
  <2>3. Rev(k) <= Rev(k)' /\ Rev(k)' \in Nat /\ Rev(k) \in Nat
    BY RevGrows, RevNow
  <2>4. RevAt(k, e)' = RevAt(k, e)
    BY <1>1, <2>2, Past
  <2>5. \A n \in Wrote(d) : n < Rev(k) => n < Rev(k)'
    BY <2>1, <2>3
  <2>6. op'[d].key = k /\ ended'[d] = e
    BY <2>2
  <2> QED BY <1>1, <1>4, <2>2, <2>4, <2>5, <2>6 DEF PutInv, PutServed
<1>9. ReadInv(d)'
  BY <1>1, ReadsKept DEF PutInv
<1> QED BY <1>2, <1>5, <1>6, <1>7, <1>8, <1>9 DEF PutInv

\* The step is none of call d's.
Stays(d) ==
  /\ pc'[d] = pc[d] /\ op'[d] = op[d] /\ reply'[d] = reply[d] /\ answer'[d] = answer[d]
  /\ err'[d] = err[d] /\ named'[d] = named[d]
  /\ passed'[d] = passed[d] /\ left'[d] = left[d] /\ listed'[d] = listed[d]
  /\ began'[d] = began[d] /\ ended'[d] = ended[d]
  /\ (d \in pending' => d \in pending) /\ (d \in late' => d \in late)

LEMMA OthersKept ==
  ASSUME KVTypeOK, AnswersInv, NEW c, Grows(c), \A d \in Calls : d # c => Stays(d)
  PROVE  \A d \in Calls : d # c => CallInv(d)'
<1> SUFFICES ASSUME NEW d \in Calls, d # c PROVE CallInv(d)'
  OBVIOUS
<1>1. Wrote(d)' = Wrote(d)
  BY Past
<1>2. AnswerTypes /\ CallInv(d) /\ Stays(d)
  BY AnswersSplit
<1> QED BY <1>1, <1>2, OtherKept DEF Stays

\* A call begins, or is refused.
LEMMA CallAnswers ==
  ASSUME KVTypeOK, RequestsSent, AnswersInv, NEW c \in Calls, NEW o \in Ops, Call(c, o)
  PROVE  AnswersInv'
<1>1. /\ op' = [op EXCEPT ![c] = o] /\ began' = [began EXCEPT ![c] = Len(bucket)]
      /\ bucket' = bucket /\ pc[c] = "new" /\ UNCHANGED <<err, named, late>>
  BY DEF Call, creates
<1>2. /\ Len(bucket) \in Nat /\ Grows(c) /\ \A d \in Calls : Wrote(d)' = Wrote(d)
      /\ AnswerTypes /\ CallInv(c)
  BY <1>1, AnswersSplit DEF KVTypeOK, Grows, Wrote
<1>3. /\ c \notin pending /\ c \notin late /\ Wrote(c) = {} /\ reply[c] = None /\ answer[c] = None
      /\ err[c] = None /\ named[c] = 0
      /\ passed[c] = 0 /\ left[c] = 0 /\ listed[c] = <<>>
  BY <1>1, <1>2
     DEF RequestsSent, CallInv, PutInv, ReadInv, PutServed, CallSteps, CreateSteps, KeysServed
<1>4. /\ AnswerTypes'
      /\ \A d \in Calls : d # c => Stays(d)
      /\ reply'[c] = None /\ passed'[c] = 0 /\ left'[c] = 0 /\ listed'[c] = <<>>
      /\ op'[c] = o /\ began'[c] = Len(bucket) /\ ended'[c] \in Nat /\ ended'[c] <= Len(bucket)
      /\ IF Refused(o)
         THEN pc'[c] = "done" /\ answer'[c] = [is |-> "invalid"] /\ c \notin pending'
         ELSE pc'[c] = "sent" /\ answer'[c] = None
  <2>1. CASE Refused(o)
    <3>1. Return(c, [is |-> "invalid"]) /\ pending' = pending
      BY <2>1 DEF Call
    <3> QED BY <1>1, <1>2, <1>3, <2>1, <3>1 DEF Return, Forget, KVTypeOK, AnswerTypes, Stays
  <2>2. CASE ~Refused(o)
    <3>1. /\ pc' = [pc EXCEPT ![c] = "sent"] /\ pending' = pending \cup {c}
          /\ UNCHANGED <<answer, ended, reply, passed, left, listed>>
      BY <2>2 DEF Call, listing
    <3>2. ended[c] <= Len(bucket)
      BY <1>2 DEF CallInv, PutInv, CallSteps
    <3> QED BY <1>1, <1>2, <1>3, <2>2, <3>1, <3>2 DEF KVTypeOK, AnswerTypes, Stays
  <2> QED BY <2>1, <2>2
<1>5. \A d \in Calls : d # c => CallInv(d)'
  BY <1>2, <1>4, OthersKept
<1>6. o # None
  BY KVConstants
<1>7. CallInv(c)'
  <2>1. CallSteps(c)'
    BY <1>1, <1>2, <1>3, <1>4, <1>6 DEF CallSteps
  <2>2. CreateSteps(c)'
    BY <1>1, <1>3, <1>4 DEF CreateSteps
  <2>3. PutWrote(c)' /\ PutUnderWay(c)'
    BY <1>2, <1>3 DEF PutWrote, PutUnderWay
  <2>4. PutServed(c)'
    BY <1>1, <1>2, <1>3, <1>4 DEF PutServed
  <2>5. GetServed(c)' /\ GetAnswered(c)' /\ KeysServed(c)' /\ KeysAnswered(c)'
    BY <1>4 DEF GetServed, GetAnswered, KeysServed, KeysAnswered
  <2> QED BY <2>1, <2>2, <2>3, <2>4, <2>5 DEF CallInv, PutInv, ReadInv
<1> QED BY <1>4, <1>5, <1>7, AnswersSplit, AnswersSplitNext

\* A call returns what follows from the server's reply, or an error that says nothing.
LEMMA ReturnAnswers ==
  ASSUME KVTypeOK, RequestsSent, AnswersInv, NEW c \in Calls, Answered(c) \/ Fault(c)
  PROVE  AnswersInv'
<1> DEFINE what == IF Answered(c) THEN Outcome(c)
                   ELSE [is |-> IF Looking(c) THEN err[c] ELSE "fault"]
<1>1. /\ pc[c] = "sent" /\ Return(c, what)
      /\ UNCHANGED <<bucket, op, pending, began, err, named, late>>
      /\ Answered(c) => reply[c] # None /\ left[c] = 0 /\ ~GoesOn(c)
  BY DEF Answered, Fault, creates
<1>2. Len(bucket) \in Nat /\ Grows(c) /\ \A d \in Calls : Wrote(d)' = Wrote(d)
  BY <1>1 DEF KVTypeOK, Grows, Wrote
<1>3. /\ AnswerTypes /\ CallInv(c) /\ reply[c] \in Replies \cup {None}
      /\ began[c] \in Nat /\ began[c] <= Len(bucket) /\ op[c] # None /\ answer[c] = None
  BY <1>1, AnswersSplit DEF CallInv, PutInv, AnswerTypes, CallSteps
<1>4. /\ AnswerTypes'
      /\ \A d \in Calls : d # c => Stays(d)
      /\ reply'[c] = None /\ passed'[c] = 0 /\ left'[c] = 0 /\ listed'[c] = <<>>
      /\ op'[c] = op[c] /\ began'[c] = began[c]
      /\ pc'[c] = "done" /\ answer'[c] = what /\ ended'[c] = Len(bucket)
  BY <1>1, <1>2, <1>3 DEF Return, Forget, KVTypeOK, AnswerTypes, Stays
<1>5. \A d \in Calls : d # c => CallInv(d)'
  BY <1>2, <1>4, OthersKept
<1>6. /\ what.is = "conflict" =>
           (reply[c] # None /\ reply[c].is = "wrongLast") \/ (Looking(c) /\ err[c] = "conflict")
      /\ what.is = "keyNotFound" => reply[c] # None /\ reply[c].is = "notFound"
      /\ what.is = "ok" => reply[c] # None /\ what = reply[c]
      /\ what.is # "invalid"
      /\ what.is = "keys" => /\ reply[c] # None /\ reply[c].is = "listing" /\ left[c] = 0
                            /\ what.keys = SortedDedupFiltered(listed[c], op[c].prefix)
  <2>0. Looking(c) => err[c] \in {"conflict", "fault"}
    BY DEF Looking, KVTypeOK
  <2>1. CASE ~Answered(c)
    BY <2>0, <2>1
  <2>2. CASE Answered(c)
    <3>1. reply[c] \in Replies /\ reply[c] # None
      BY <1>1, <1>3, <2>2
    <3>2. reply[c].is \in {"ok", "wrongLast", "notFound", "listing", "noMarker"}
      BY <1>1, <2>2, <3>1 DEF Replies, GoesOn
    <3>3. reply[c].is = "noMarker" => Looking(c)
      BY <1>3, <3>1 DEF CallInv, PutInv, CreateSteps
    <3>4. what = Outcome(c)
      BY <2>2
    <3>5. CASE reply[c].is = "noMarker"
      <4>1. what = [is |-> err[c]]
        BY <3>4, <3>5 DEF Outcome
      <4> HIDE DEF what
      <4> QED BY <2>0, <3>3, <3>5, <4>1
    <3>6. CASE reply[c].is = "ok"
      <4>1. what = reply[c]
        BY <3>4, <3>6 DEF Outcome
      <4> HIDE DEF what
      <4> QED BY <3>1, <3>6, <4>1
    <3>7. CASE reply[c].is = "listing"
      <4>1. what = [is |-> "keys", keys |-> SortedDedupFiltered(listed[c], op[c].prefix)]
        BY <3>4, <3>7 DEF Outcome
      <4> HIDE DEF what
      <4> QED BY <1>1, <2>2, <3>1, <3>7, <4>1
    <3>8. CASE reply[c].is = "wrongLast"
      <4>1. what = [is |-> "conflict"]
        BY <3>4, <3>8 DEF Outcome
      <4> HIDE DEF what
      <4> QED BY <3>1, <3>8, <4>1
    <3>9. CASE reply[c].is = "notFound"
      <4>1. what = [is |-> "keyNotFound"]
        BY <3>4, <3>9 DEF Outcome
      <4> HIDE DEF what
      <4> QED BY <3>1, <3>9, <4>1
    <3> QED BY <3>2, <3>5, <3>6, <3>7, <3>8, <3>9
  <2> QED BY <2>1, <2>2
<1> HIDE DEF what
<1>7. PutInv(c)'
  <2>1. CallSteps(c)'
    BY <1>1, <1>2, <1>3, <1>4 DEF CallInv, PutInv, CallSteps
  <2>2. \A k, n : LiveAt(k, n)' = LiveAt(k, n) /\ RevAt(k, n)' = RevAt(k, n) /\ Rev(k)' = Rev(k)
    BY <1>1 DEF LiveAt, RevAt, Revs, Rev
  <2>3. Creates(c)' = Creates(c) /\ Looking(c)' = Looking(c) /\ \A n : Marker(c, n)' = Marker(c, n)
    BY <1>1 DEF Creates, Looking, Marker, Revs
  <2>4. CreateSteps(c)'
    BY <1>1, <1>2, <1>3, <1>4, <2>3 DEF CallInv, PutInv, CreateSteps
  <2>5. PutWrote(c)'
    BY <1>1, <1>2, <1>3, <2>2, <2>3 DEF CallInv, PutInv, PutWrote
  <2>6. PutUnderWay(c)'
    BY <1>1, <1>2, <1>3 DEF CallInv, PutInv, PutUnderWay
  <2>7. PutServed(c)'
    <3>1. c \in pending => reply[c] = None
      BY <1>3 DEF CallInv, PutInv, CallSteps
    <3>2. ASSUME op[c].kind = "put", what.is = "conflict"
          PROVE  /\ \A n \in Wrote(c) : Creates(c) /\ n < Rev(op[c].key)
                 /\ c \in pending => Looking(c)
                 /\ err[c] = "fault" => named[c] # 0
      <4>1. CASE reply[c] # None /\ reply[c].is = "wrongLast"
        <5>1. err[c] = "fault" => err[c] # None
          BY KVConstants
        <5> QED BY <1>3, <3>1, <3>2, <4>1, <5>1 DEF CallInv, PutInv, PutServed, CreateSteps
      <4>2. CASE Looking(c) /\ err[c] = "conflict"
        <5>1. Wrote(c) = {}
          BY <1>3, <3>2, <4>2 DEF CallInv, PutInv, PutUnderWay, Looking
        <5> QED BY <4>2, <5>1
      <4> QED BY <1>6, <3>2, <4>1, <4>2
    <3>3. RevAt(op[c].key, ended[c])' = Rev(op[c].key)
      BY <1>1, <1>4, <2>2 DEF Rev
    <3> QED BY <1>1, <1>2, <1>3, <1>4, <1>6, <2>3, <3>1, <3>2, <3>3 DEF PutServed, CallInv, PutInv
  <2> QED BY <2>1, <2>4, <2>5, <2>6, <2>7 DEF PutInv
<1>8. ReadInv(c)'
  <2>1. \A k, n : LiveAt(k, n)' = LiveAt(k, n) /\ RevAt(k, n)' = RevAt(k, n)
    BY <1>1 DEF LiveAt, RevAt, Revs
  <2>2. During(c)' = began[c]..Len(bucket) /\ bucket' = bucket /\ op' = op /\ GetServed(c)
    BY <1>1, <1>3, <1>4 DEF During, CallInv, ReadInv
  <2>3. GetServed(c)' /\ KeysServed(c)'
    BY <1>4 DEF GetServed, KeysServed
  <2>4. KeysAnswered(c)'
    <3> SUFFICES ASSUME what.is = "keys"
                 PROVE  KeysAnswered(c)'
      BY <1>4 DEF KeysAnswered
    <3> DEFINE keys == SortedDedupFiltered(listed[c], op[c].prefix)
    <3>1. KeysServed(c) /\ reply[c] # None /\ reply[c].is = "listing" /\ left[c] = 0
          /\ what.keys = keys
      BY <1>3, <1>6 DEF CallInv, ReadInv
    <3>2. op[c].kind = "keys" /\ op[c].prefix \in SUBSET Keys
      BY <1>1, <1>3, <3>1, KVConstants DEF KeysServed, KVTypeOK, Ops
    <3>3. /\ ToSet(keys) = ToSet(listed[c]) \cap op[c].prefix
          /\ \A m, n \in 1..Len(keys) : m < n => keys[m] < keys[n]
      BY <3>2, Sorted DEF KVTypeOK
    <3> HIDE DEF keys
    <3>4. OldAhead(c) = {}
      <4>1. Cardinality(OldAhead(c)) = 0
        BY <3>1, OldFinite DEF KeysServed
      <4> QED BY <4>1, OldFinite, FS_EmptySet
    <3>5. ASSUME NEW k \in op[c].prefix, Untouched(c, k)'
          PROVE  k \in ToSet(keys)
      <4>1. PICK b \in 0..Len(bucket) : b = began[c]
        BY <1>2, <1>3
      <4>2. LiveAt(k, b) /\ Rev(k) = RevAt(k, b)
        BY <1>1, <1>4, <2>1, <3>5, <4>1 DEF Untouched, Rev
      <4>3. Live(k) /\ Rev(k) # 0 /\ Rev(k) <= began[c]
        BY <4>1, <4>2, RevIs DEF Live, LiveAt, Rev
      <4>4. Rev(k) \in Kept /\ Rev(k) \in Nat
        BY <4>3, RevNow
      <4>5. Rev(k) <= passed[c]
        BY <3>4, <4>3, <4>4 DEF OldAhead, Ahead, KVTypeOK
      <4>6. k \in Keys
        BY <3>2
      <4> QED BY <3>1, <3>3, <4>3, <4>5, <4>6 DEF KeysServed
    <3>6. \A k \in ToSet(keys) : k \in op[c].prefix /\ \E n \in During(c)' : LiveAt(k, n)
      BY <2>2, <3>1, <3>3 DEF KeysServed
    <3>7. op'[c] = op[c] /\ answer'[c].keys = keys
      BY <1>4, <3>1
    <3> QED BY <2>1, <3>3, <3>5, <3>6, <3>7 DEF KeysAnswered
  <2>5. GetAnswered(c)'
    <3>1. what.is = "keyNotFound" => \E n \in During(c)' : ~LiveAt(op[c].key, n)'
      BY <1>6, <2>1, <2>2 DEF GetServed
    <3>2. op[c].kind = "get" /\ what.is = "ok" =>
            \E n \in During(c)' :
              /\ LiveAt(op[c].key, n)' /\ RevAt(op[c].key, n)' = what.rev
              /\ bucket[what.rev].val = what.val
      BY <1>6, <2>1, <2>2 DEF GetServed
    <3> QED BY <1>4, <2>2, <3>1, <3>2 DEF GetAnswered, LiveAt, RevAt, Revs
  <2> QED BY <2>3, <2>4, <2>5 DEF ReadInv
<1> QED BY <1>4, <1>5, <1>7, <1>8, AnswersSplitNext DEF CallInv

\* A create goes on to its next request.
LEMMA GoOnAnswers ==
  ASSUME KVTypeOK, RequestsSent, AnswersInv, NEW c \in Calls, Look(c) \/ Overwrite(c)
  PROVE  AnswersInv'
<1>1. /\ pc[c] = "sent" /\ UNCHANGED <<bucket, pc, op, passed, left, listed, answer, began, ended>>
      /\ pending' = pending \cup {c} /\ reply' = [reply EXCEPT ![c] = None]
  BY DEF Look, Overwrite, listing
<1>2. Len(bucket) \in Nat /\ Grows(c) /\ \A d \in Calls : Wrote(d)' = Wrote(d)
  BY <1>1 DEF KVTypeOK, Grows, Wrote
<1>3. AnswerTypes /\ CallInv(c) /\ answer[c] = None /\ op[c] # None
  BY <1>1, AnswersSplit DEF CallInv, PutInv, CallSteps
<1>4. \A k, n : LiveAt(k, n)' = LiveAt(k, n) /\ RevAt(k, n)' = RevAt(k, n) /\ Rev(k)' = Rev(k)
  BY <1>1 DEF LiveAt, RevAt, Revs, Rev
<1>5. Creates(c)' = Creates(c) /\ \A n : Marker(c, n)' = Marker(c, n)
  BY <1>1 DEF Creates, Marker, Revs
<1>6. /\ reply'[c] = None
      /\ Creates(c) /\ named'[c] \in Nat /\ err'[c] # None
      /\ named[c] = 0
      /\ named'[c] # 0 => Marker(c, named'[c]) /\ \A n \in Wrote(c) : n < named'[c]
      /\ c \in late' => err'[c] = "fault"
      /\ err'[c] = "conflict" /\ named'[c] = 0 => Wrote(c) = {}
      /\ reply[c] = None \/ reply[c].is # "listing"
      /\ named' \in [Calls -> Nat]
      /\ \A d \in Calls : d # c => err'[d] = err[d] /\ named'[d] = named[d] /\ (d \in late' => d \in late)
  <2>1. reply'[c] = None
    BY <1>1, <1>3 DEF AnswerTypes
  <2>2. CASE Look(c)
    <3>1. Creates(c) /\ err[c] = None /\ named' = named
      BY <2>2 DEF Look
    <3>2. named[c] = 0 /\ c \notin late
      BY <1>3, <3>1, KVConstants DEF CallInv, PutInv, CreateSteps
    <3>3. reply[c] = None \/ reply[c].is # "listing"
      BY <1>3, <3>1 DEF CallInv, ReadInv, KeysServed, Creates
    <3>4. CASE reply[c] # None /\ reply[c].is = "wrongLast" /\ err' = [err EXCEPT ![c] = "conflict"]
               /\ UNCHANGED late
      <4>1. Wrote(c) = {}
        BY <1>3, <3>1, <3>2, <3>4 DEF CallInv, PutInv, PutServed, Creates
      <4>2. err'[c] = "conflict" /\ \A d \in Calls : d # c => err'[d] = err[d]
        BY <3>4 DEF KVTypeOK
      <4> QED BY <1>3, <2>1, <3>1, <3>2, <3>3, <3>4, <4>1, <4>2, KVConstants DEF AnswerTypes
    <3>5. CASE err' = [err EXCEPT ![c] = "fault"] /\ late' = late \cup (pending \cap {c})
      <4>1. err'[c] = "fault" /\ \A d \in Calls : d # c => err'[d] = err[d]
        BY <3>5 DEF KVTypeOK
      <4> QED BY <1>3, <2>1, <3>1, <3>2, <3>3, <3>5, <4>1, KVConstants DEF AnswerTypes
    <3> QED BY <2>2, <3>4, <3>5 DEF Look
  <2>3. CASE Overwrite(c)
    <3>1. /\ reply[c] # None /\ reply[c].is = "marker" /\ UNCHANGED <<err, late>>
          /\ named' = [named EXCEPT ![c] = reply[c].rev]
      BY <2>3 DEF Overwrite
    <3>2. Looking(c) /\ Marker(c, reply[c].rev) /\ \A n \in Wrote(c) : n < reply[c].rev
      BY <1>3, <3>1 DEF CallInv, PutInv, CreateSteps
    <3>3. reply[c].rev \in Nat /\ reply[c].rev # 0
      BY <1>2, <3>2 DEF Marker, Revs
    <3>4. named'[c] = reply[c].rev /\ named' \in [Calls -> Nat]
          /\ \A d \in Calls : d # c => named'[d] = named[d]
      BY <1>3, <3>1, <3>3 DEF AnswerTypes
    <3> QED BY <1>3, <2>1, <3>1, <3>2, <3>3, <3>4 DEF CallInv, PutInv, CreateSteps, Looking
  <2> QED BY <2>2, <2>3
<1>7. AnswerTypes'
  BY <1>1, <1>3, <1>6 DEF AnswerTypes
<1>8. \A d \in Calls : d # c => Stays(d)
  BY <1>1, <1>3, <1>6 DEF AnswerTypes, Stays
<1>9. \A d \in Calls : d # c => CallInv(d)'
  BY <1>2, <1>8, OthersKept
<1>10. PutInv(c)'
  <2>1. CallSteps(c)'
    BY <1>1, <1>2, <1>3, <1>6 DEF CallInv, PutInv, CallSteps
  <2>2. CreateSteps(c)'
    BY <1>1, <1>3, <1>5, <1>6 DEF CallInv, PutInv, CreateSteps
  <2>3. PutWrote(c)'
    BY <1>1, <1>2, <1>3, <1>4, <1>5, <1>6 DEF CallInv, PutInv, PutWrote
  <2>4. PutUnderWay(c)'
    BY <1>1, <1>2, <1>6 DEF PutUnderWay
  <2>5. PutServed(c)'
    BY <1>1, <1>2, <1>3, <1>6 DEF PutServed
  <2> QED BY <2>1, <2>2, <2>3, <2>4, <2>5 DEF PutInv
<1>11. ReadInv(c)'
  BY <1>1, <1>3, <1>6 DEF CallInv, ReadInv, GetServed, KeysServed, GetAnswered, KeysAnswered
<1> QED BY <1>7, <1>9, <1>10, <1>11, AnswersSplitNext DEF CallInv

\* A call is answered, gives up, or goes on to its next request.
LEMMA ClientAnswers ==
  ASSUME KVTypeOK, RequestsSent, AnswersInv, NEW c \in Calls, ClientStep(c)
  PROVE  AnswersInv'
  BY ReturnAnswers, GoOnAnswers DEF ClientStep

\* A listing is sent its next entry.
LEMMA DeliverAnswers ==
  ASSUME KVTypeOK, RequestsSent, AnswersInv, NEW c \in Calls, NEW n \in Ahead(c), Deliver(c, n)
  PROVE  AnswersInv'
<1>1. /\ UNCHANGED <<bucket, pc, op, pending, reply, err, named, late, answer, began, ended>>
      /\ left[c] > 0 /\ \A m \in Ahead(c) : n <= m
      /\ passed' = [passed EXCEPT ![c] = n]
      /\ left' = [left EXCEPT ![c] = IF Ahead(c) = {n} THEN 0 ELSE @ - 1]
      /\ listed' = [listed EXCEPT ![c] = IF bucket[n].val = Deleted THEN @
                                                                   ELSE Append(@, bucket[n].key)]
  BY DEF Deliver, creates
<1>2. Len(bucket) \in Nat /\ Grows(c) /\ \A d \in Calls : Wrote(d)' = Wrote(d)
  BY <1>1 DEF KVTypeOK, Grows, Wrote
<1>3. /\ AnswerTypes /\ CallInv(c) /\ began[c] \in Nat /\ began[c] <= Len(bucket)
      /\ left[c] \in Nat /\ passed[c] \in Nat
  BY AnswersSplit DEF CallInv, PutInv, AnswerTypes, CallSteps, KVTypeOK
<1>4. \A d \in Calls : d # c => Stays(d)
  BY <1>1 DEF KVTypeOK, Stays
<1>5. \A d \in Calls : d # c => CallInv(d)'
  BY <1>2, <1>4, OthersKept
<1>6. AnswerTypes'
  BY <1>1, <1>3 DEF AnswerTypes
<1>7. \A k, m : LiveAt(k, m)' = LiveAt(k, m) /\ RevAt(k, m)' = RevAt(k, m)
                /\ Rev(k)' = Rev(k) /\ Live(k)' = Live(k)
  BY <1>1 DEF LiveAt, RevAt, Revs, Rev, Live
<1>8. Kept' = Kept
  BY <1>1, <1>7 DEF Kept
<1>9. PutInv(c)'
  <2>1. Creates(c)' = Creates(c) /\ Looking(c)' = Looking(c) /\ \A m : Marker(c, m)' = Marker(c, m)
    BY <1>1 DEF Creates, Looking, Marker, Revs
  <2>2. CallSteps(c)' /\ CreateSteps(c)'
    BY <1>1, <1>2, <1>3, <2>1 DEF CallInv, PutInv, CallSteps, CreateSteps
  <2>3. PutWrote(c)' /\ PutUnderWay(c)'
    BY <1>1, <1>2, <1>3, <1>7, <2>1 DEF CallInv, PutInv, PutWrote, PutUnderWay
  <2>4. PutServed(c)'
    BY <1>1, <1>2, <1>3, <1>7, <2>1 DEF CallInv, PutInv, PutServed
  <2> QED BY <2>2, <2>3, <2>4 DEF PutInv
<1>10. reply[c] # None /\ reply[c].is = "listing" /\ KeysServed(c)
  BY <1>1, <1>3 DEF CallInv, ReadInv, KeysServed
<1>11. KeysServed(c)'
  <2>1. /\ passed'[c] = n /\ left'[c] = IF Ahead(c) = {n} THEN 0 ELSE left[c] - 1
        /\ listed'[c] = IF bucket[n].val = Deleted THEN listed[c]
                                                  ELSE Append(listed[c], bucket[n].key)
    BY <1>1 DEF KVTypeOK
  <2>2. n \in Kept /\ n \in 1..Len(bucket) /\ n \in Nat /\ n > passed[c]
        /\ Rev(bucket[n].key) = n /\ bucket[n].key \in Keys
    <3>1. n \in Kept /\ n > passed[c]
      BY DEF Ahead
    <3>2. n \in 1..Len(bucket) /\ Rev(bucket[n].key) = n
      BY <3>1 DEF Kept
    <3>3. bucket \in Seq(Entries)
      BY DEF KVTypeOK, Entries
    <3>4. bucket[n] \in Entries
      BY <3>2, <3>3
    <3> QED BY <1>2, <3>1, <3>2, <3>4 DEF Entries
  <2>3. Cardinality(OldAhead(c)') <= left'[c]
    <3>1. \A m \in OldAhead(c)' : m \in OldAhead(c) /\ m # n /\ m \in Ahead(c) /\ n <= began[c]
      <4> SUFFICES ASSUME NEW m \in OldAhead(c)'
                   PROVE  m \in OldAhead(c) /\ m # n /\ m \in Ahead(c) /\ n <= began[c]
        OBVIOUS
      <4>1. m \in Kept /\ m > n /\ m <= began[c]
        BY <1>1, <1>8, <2>1 DEF OldAhead, Ahead
      <4>2. m \in Nat
        BY <1>2, <4>1, KeptFinite
      <4> QED BY <1>3, <2>2, <4>1, <4>2 DEF OldAhead, Ahead
    <3>2. PICK O : O = OldAhead(c)'
      OBVIOUS
    <3>3. CASE O = {}
      <4>1. Cardinality(O) = 0
        BY <3>3, FS_EmptySet
      <4> QED BY <1>1, <1>3, <2>1, <3>2, <4>1
    <3>4. CASE O # {}
      <4>1. n \in OldAhead(c) /\ Ahead(c) # {n} /\ O \in SUBSET (OldAhead(c) \ {n})
        BY <3>1, <3>2, <3>4 DEF OldAhead
      <4>2. /\ IsFiniteSet(OldAhead(c) \ {n})
            /\ Cardinality(OldAhead(c) \ {n}) = Cardinality(OldAhead(c)) - 1
        BY <4>1, OldFinite, FS_RemoveElement
      <4>3. /\ Cardinality(O) <= Cardinality(OldAhead(c) \ {n})
            /\ Cardinality(O) \in Nat
        BY <4>1, <4>2, FS_Subset, FS_CardinalityType
      <4>4. Cardinality(OldAhead(c)) <= left[c] /\ Cardinality(OldAhead(c)) \in Nat
        BY <1>10, OldFinite DEF KeysServed
      <4> QED BY <1>3, <2>1, <3>2, <4>1, <4>2, <4>3, <4>4
    <3> QED BY <3>3, <3>4
  <2>4. ToSet(listed'[c]) = ToSet(listed[c])
                             \cup (IF bucket[n].val = Deleted THEN {} ELSE {bucket[n].key})
    <3>1. listed[c] \in Seq(Keys)
      BY DEF KVTypeOK
    <3> QED BY <2>1, <2>2, <3>1, AppendSet
  <2>5. ASSUME NEW k \in Keys, Live(k), Rev(k) <= began[c], Rev(k) <= n
        PROVE  k \in ToSet(listed'[c])
    <3>1. Rev(k) # 0 /\ bucket[Rev(k)].val # Deleted
      BY <2>5 DEF Live, LiveAt, Rev
    <3>2. Rev(k) \in Nat /\ Rev(k) \in Kept /\ bucket[Rev(k)].key = k
      BY <3>1, RevNow
    <3>3. CASE Rev(k) <= passed[c]
      BY <1>10, <2>4, <2>5, <3>3 DEF KeysServed
    <3>4. CASE ~(Rev(k) <= passed[c])
      <4>1. n <= Rev(k)
        BY <1>1, <1>3, <3>2, <3>4 DEF Ahead
      <4>2. Rev(k) = n
        BY <2>2, <2>5, <3>2, <4>1
      <4> QED BY <2>4, <3>1, <3>2, <4>2
    <3> QED BY <3>3, <3>4
  <2>6. ASSUME NEW k \in ToSet(listed'[c])
        PROVE  \E m \in began[c]..Len(bucket) : LiveAt(k, m)
    <3>1. CASE k \in ToSet(listed[c])
      BY <1>10, <3>1 DEF KeysServed
    <3>2. CASE bucket[n].val # Deleted /\ k = bucket[n].key
      <4>1. LiveAt(k, Len(bucket))
        BY <2>2, <3>2 DEF LiveAt, Rev
      <4>2. Len(bucket) \in began[c]..Len(bucket)
        BY <1>2, <1>3
      <4> QED BY <4>1, <4>2
    <3> QED BY <2>4, <2>6, <3>1, <3>2
  <2>7. op[c].kind = "keys"
    BY <1>10 DEF KeysServed
  <2> QED BY <1>1, <1>7, <1>10, <2>1, <2>3, <2>5, <2>6, <2>7 DEF KeysServed
<1>12. ReadInv(c)'
  <2>1. GetServed(c)'
    BY <1>1, <1>3, <1>7 DEF CallInv, ReadInv, GetServed
  <2>2. GetAnswered(c)' /\ KeysAnswered(c)'
    BY <1>2, <1>1, <1>3, AnsweredKept DEF CallInv, ReadInv, PutInv, CallSteps
  <2> QED BY <1>11, <2>1, <2>2 DEF ReadInv
<1> QED BY <1>5, <1>6, <1>9, <1>12, AnswersSplitNext DEF CallInv

\* The entry of a write: the only one that is new.
LEMMA Written ==
  ASSUME KVTypeOK, NEW c \in Calls, op[c].key \in Keys,
         NEW val \in Calls \cup {Deleted, None}, WriteEntry(c, val), NEW N \in Nat, N = Len(bucket) + 1
  PROVE  /\ Grows(c) /\ Wrote(c)' = Wrote(c) \cup {N} /\ Len(bucket') = N
         /\ bucket'[N].key = op[c].key /\ bucket'[N].val = val
         /\ \A n \in Wrote(c) : n \in Nat /\ n < N /\ bucket'[n] = bucket[n]
         /\ \A k : RevAt(k, N - 1)' = Rev(k) /\ LiveAt(k, N - 1)' = Live(k)
<1> DEFINE e == [key |-> op[c].key, val |-> val, by |-> c]
<1>1. e \in Entries /\ e.key = op[c].key /\ e.val = val /\ e.by = c /\ bucket' = Append(bucket, e)
  BY DEF WriteEntry, Entries
<1> HIDE DEF e
<1>2. bucket \in Seq(Entries) /\ Len(bucket) \in Nat
  BY DEF KVTypeOK, Entries
<1>3. /\ Len(bucket') = N /\ bucket'[N] = e
      /\ \A n \in 1..Len(bucket) : bucket'[n] = bucket[n]
  BY <1>1, <1>2
<1>4. Grows(c)
  BY <1>1 DEF Grows
<1>5. Wrote(c)' = Wrote(c) \cup {N}
  BY <1>1, <1>2, <1>3 DEF Wrote
<1>6. \A n \in Wrote(c) : n \in Nat /\ n < N /\ bucket'[n] = bucket[n]
  BY <1>2, <1>3 DEF Wrote
<1>7. \A k : RevAt(k, N - 1)' = Rev(k) /\ LiveAt(k, N - 1)' = Live(k)
  <2>1. PICK m \in 0..Len(bucket) : m = Len(bucket)
    BY <1>2
  <2>2. m = N - 1
    BY <1>2, <2>1
  <2>3. \A k : RevAt(k, m)' = RevAt(k, m) /\ LiveAt(k, m)' = LiveAt(k, m)
    BY <1>4, <2>1, Past
  <2> QED BY <2>1, <2>2, <2>3 DEF Rev, Live
<1> QED BY <1>1, <1>3, <1>4, <1>5, <1>6, <1>7

\* The first request of a create that has gone on is served.
LEMMA LateAnswers ==
  ASSUME KVTypeOK, RequestsSent, AnswersInv, NEW c \in Calls, ServeLate(c)
  PROVE  AnswersInv'
<1>1. /\ UNCHANGED <<pc, op, pending, reply, err, named, passed, left, listed, answer, began, ended>>
      /\ c \in late /\ late' = late \ {c}
  BY DEF ServeLate, listing
<1>2. /\ AnswerTypes /\ CallInv(c) /\ op[c] # None /\ op[c].kind = "put" /\ op[c].key \in Keys
      /\ pc[c] # "new" /\ err[c] = "fault" /\ Creates(c)
  BY <1>1, SentKey, AnswersSplit, KVConstants DEF RequestsSent, CallInv, PutInv, CreateSteps
<1>3. AnswerTypes' /\ \A d \in Calls : Stays(d)
  BY <1>1, <1>2 DEF AnswerTypes, Stays
<1>4. CASE Rev(op[c].key) # 0
  <2>1. bucket' = bucket
    BY <1>4 DEF ServeLate
  <2>2. Grows(None)
    BY <2>1 DEF Grows
  <2>3. \A d \in Calls : CallInv(d)'
    BY <1>3, <2>2, OthersKept, KVConstants
  <2> QED BY <1>3, <2>3, AnswersSplitNext
<1>5. CASE Rev(op[c].key) = 0
  <2>1. PICK N \in Nat : N = Len(bucket) + 1
    BY RevNow
  <2>2. WriteEntry(c, c) /\ Len(bucket) \in Nat
    BY <1>5, RevNow DEF ServeLate
  <2>3. /\ Grows(c) /\ Wrote(c)' = Wrote(c) \cup {N} /\ Len(bucket') = N
        /\ bucket'[N].key = op[c].key /\ bucket'[N].val = c
        /\ \A k : RevAt(k, N - 1)' = Rev(k) /\ LiveAt(k, N - 1)' = Live(k)
    BY <1>2, <2>1, <2>2, Written
  <2>4. \A d \in Calls : d # c => CallInv(d)'
    BY <1>3, <2>3, OthersKept
  <2>5. Revs(op[c].key, Len(bucket)) = {}
    <3>1. \A i \in Revs(op[c].key, Len(bucket)) : i \in 1..Len(bucket) /\ i <= 0
      BY <1>5, RevNow DEF Revs
    <3> QED BY <2>2, <3>1
  <2>6. Wrote(c) = {} /\ named[c] = 0 /\ \A n : ~Marker(c, n)
    <3>1. \A n \in Wrote(c) : n \in Revs(op[c].key, Len(bucket))
      BY <1>2 DEF CallInv, PutInv, PutWrote, Wrote, Revs
    <3>2. \A n : ~Marker(c, n)
      BY <2>5 DEF Marker
    <3> QED BY <1>2, <2>5, <3>1, <3>2 DEF CallInv, PutInv, CreateSteps
  <2>7. /\ reply[c] # None => reply[c].is \notin {"ok", "wrongLast", "marker"}
        /\ answer[c] # None => answer[c].is \notin {"ok", "conflict", "invalid"}
    BY <1>2, <2>6, KVConstants DEF CallInv, PutInv, CreateSteps, PutServed
  <2>8. Creates(c)' /\ Looking(c)' = Looking(c)
    BY <1>1, <1>2 DEF Creates, Looking
  <2>9. CallSteps(c)'
    BY <1>1, <1>2, <2>1, <2>2, <2>3 DEF CallInv, PutInv, CallSteps, AnswerTypes
  <2>10. CreateSteps(c)'
    BY <1>1, <1>2, <2>6, <2>7, <2>8 DEF CallInv, PutInv, CreateSteps
  <2>11. PutWrote(c)'
    <3>1. ~Live(op[c].key)
      BY <1>5 DEF Live, LiveAt, Rev
    <3>2. Wrote(c)' = {N}
      BY <2>3, <2>6
    <3> QED BY <1>1, <1>5, <2>3, <2>8, <3>1, <3>2 DEF PutWrote
  <2>12. PutUnderWay(c)'
    BY <1>1, <1>2, <2>6, KVConstants DEF PutUnderWay
  <2>13. PutServed(c)'
    BY <1>1, <1>2, <2>7 DEF PutServed
  <2>14. ReadInv(c)'
    BY <1>1, <1>2, <2>3, ReadsKept DEF CallInv, PutInv
  <2> QED BY <1>3, <2>4, <2>9, <2>10, <2>11, <2>12, <2>13, <2>14, AnswersSplitNext
          DEF CallInv, PutInv
<1> QED BY <1>4, <1>5

\* The state a request finds its call in.
LEMMA Served ==
  ASSUME KVTypeOK, RequestsSent, AnswersInv, NEW c \in Calls, c \in pending
  PROVE  /\ AnswerTypes /\ CallInv(c) /\ op[c] \in Ops /\ op[c] # None /\ pc[c] # "new"
         /\ op[c].kind # "keys" => op[c].key \in Keys
         /\ reply[c] = None /\ passed[c] = 0 /\ left[c] = 0 /\ listed[c] = <<>>
         /\ began[c] \in Nat /\ began[c] <= Len(bucket) /\ Len(bucket) \in Nat
         /\ named[c] \in Nat /\ Creates(c) => op[c].kind = "put"
<1>1. AnswerTypes /\ CallInv(c) /\ Len(bucket) \in Nat
  BY AnswersSplit, RevNow
<1>2. /\ op[c] \in Ops /\ op[c] # None /\ pc[c] # "new"
      /\ op[c].kind # "keys" => op[c].key \in Keys
  BY SentKey
<1>3. reply[c] = None /\ passed[c] = 0 /\ left[c] = 0 /\ listed[c] = <<>>
      /\ began[c] <= Len(bucket)
  BY <1>1 DEF CallInv, PutInv, ReadInv, CallSteps, KeysServed
<1> QED BY <1>1, <1>2, <1>3 DEF AnswerTypes, Creates

\* What serving a request leaves as it is.
LEMMA ReplyAnswers ==
  ASSUME KVTypeOK, RequestsSent, AnswersInv, NEW c \in Calls, c \in pending,
         NEW said \in Replies, Reply(c, said), Grows(c),
         UNCHANGED <<pc, op, err, named, late, passed, listed, answer, began, ended>>,
         \A d \in Calls : d # c => left'[d] = left[d],
         CreateSteps(c)', PutWrote(c)', PutUnderWay(c)', PutServed(c)', GetServed(c)',
         KeysServed(c)'
  PROVE  AnswersInv'
<1>1. /\ reply' = [reply EXCEPT ![c] = IF pc[c] = "sent" THEN said ELSE None]
      /\ pending' = pending \ {c}
  BY DEF Reply
<1>2. AnswerTypes /\ CallInv(c)
  BY AnswersSplit
<1>3. AnswerTypes' /\ \A d \in Calls : d # c => Stays(d)
  BY <1>1, <1>2 DEF AnswerTypes, Stays
<1>4. \A d \in Calls : d # c => CallInv(d)'
  BY <1>3, OthersKept
<1>5. CallSteps(c)'
  <2>1. reply'[c] = IF pc[c] = "sent" THEN said ELSE None
    BY <1>1, <1>2 DEF AnswerTypes
  <2> QED BY <1>1, <1>2, <2>1, Past DEF CallInv, PutInv, CallSteps, AnswerTypes
<1>6. GetAnswered(c)' /\ KeysAnswered(c)'
  BY <1>2, AnsweredKept DEF CallInv, PutInv, ReadInv, CallSteps
<1> QED BY <1>3, <1>4, <1>5, <1>6, AnswersSplitNext DEF CallInv, PutInv, ReadInv

\* A Put is served: its entry replaces what it named, or it is refused.
LEMMA PutAnswered ==
  ASSUME KVTypeOK, RequestsSent, AnswersInv, NEW c \in Calls, ServePut(c)
  PROVE  AnswersInv'
<1>1. /\ UNCHANGED <<pc, op, err, named, late, passed, left, listed, answer, began, ended>>
      /\ c \in pending /\ op[c].kind = "put" /\ ~Looking(c)
  BY DEF ServePut, creates, listing
<1>2. PICK N \in Nat : N = Len(bucket) + 1
  BY RevNow
<1>3. PICK k : k = op[c].key
  OBVIOUS
<1>4. PutInv(c) /\ op'[c] = op[c] /\ k \in Keys
  BY <1>1, <1>3, Served DEF CallInv
<1>5. Creates(c)' = Creates(c) /\ Looking(c)' = Looking(c)
  BY <1>1 DEF Creates, Looking
<1>6. err[c] # None => Creates(c) /\ named[c] # 0
  BY <1>1, <1>4 DEF PutInv, CreateSteps, Looking
<1>7. answer[c] # None => answer[c].is \notin {"ok", "conflict", "invalid"}
  BY <1>1, <1>4, Served DEF PutInv, PutServed
<1>8. c \notin late \/ err[c] = "fault"
  BY <1>4 DEF PutInv, CreateSteps
<1>9. CASE Fence(c)
  <2> DEFINE said == [is |-> "ok", rev |-> N]
  <2>1. WriteEntry(c, c) /\ Reply(c, said)
    BY <1>2, <1>9 DEF ServePut
  <2>2. said \in Replies /\ said.is = "ok" /\ said.rev = N
    BY DEF Replies
  <2> HIDE DEF said
  <2>3. /\ Grows(c) /\ Wrote(c)' = Wrote(c) \cup {N} /\ Len(bucket') = N
        /\ bucket'[N].key = k /\ bucket'[N].val = c
        /\ \A n \in Wrote(c) : n \in Nat /\ n < N /\ bucket'[n] = bucket[n]
        /\ RevAt(k, N - 1)' = Rev(k) /\ LiveAt(k, N - 1)' = Live(k)
    BY <1>2, <1>3, <1>4, <2>1, Written
  <2>4. /\ reply'[c] = IF pc[c] = "sent" THEN said ELSE None
        /\ pending' = pending \ {c}
    BY <1>1, <2>1, Served DEF Reply, AnswerTypes
  <2>5. \A n : Marker(c, n) => Marker(c, n)'
    BY <1>4, <2>3, MarkerKept
  <2>6. CreateSteps(c)'
    BY <1>1, <1>4, <1>5, <2>2, <2>4, <2>5 DEF PutInv, CreateSteps
  <2>7. PutWrote(c)'
    <3>1. ASSUME NEW n \in Wrote(c)
          PROVE  /\ bucket'[n].key = k /\ bucket'[n].val = c
                 /\ IF Creates(c) THEN ~LiveAt(k, n - 1)' /\ RevAt(k, n - 1)' \in {0, named[c]}
                                  ELSE RevAt(k, n - 1)' = op[c].exp
      <4>1. PICK m \in 0..Len(bucket) : m = n - 1
        BY DEF Wrote
      <4>2. RevAt(k, m)' = RevAt(k, m) /\ LiveAt(k, m)' = LiveAt(k, m)
        BY <2>3, Past
      <4> QED BY <1>1, <1>3, <1>4, <2>3, <4>1, <4>2, Served DEF PutInv, PutWrote
    <3>2. IF Creates(c) THEN ~Live(k) /\ Rev(k) \in {0, named[c]} ELSE Rev(k) = op[c].exp
      <4>1. Rev(k) = IF Creates(c) THEN named[c] ELSE op[c].exp
        BY <1>3, <1>9 DEF Fence
      <4>2. named[c] # 0 => bucket[named[c]].val = Deleted
        BY <1>4 DEF PutInv, CreateSteps, Marker
      <4> QED BY <4>1, <4>2 DEF Live, LiveAt, Rev
    <3> QED BY <1>1, <1>3, <1>4, <1>5, <2>3, <3>1, <3>2 DEF PutWrote
  <2>8. PutUnderWay(c)'
    BY <1>1, <1>6, <2>4, KVConstants DEF PutUnderWay
  <2>9. PutServed(c)'
    <3>1. N \in Wrote(c)' /\ \A n \in Wrote(c)' : n <= N
      BY <2>3
    <3> QED BY <1>1, <1>4, <1>7, <2>2, <2>4, <3>1, Served DEF PutServed
  <2>10. GetServed(c)' /\ KeysServed(c)'
    BY <1>1, <1>4, <2>2, <2>4, Served DEF GetServed, KeysServed
  <2> QED BY <1>1, <2>1, <2>2, <2>3, <2>6, <2>7, <2>8, <2>9, <2>10, ReplyAnswers
<1>10. CASE ~Fence(c)
  <2> DEFINE said == [is |-> "wrongLast"]
  <2>1. bucket' = bucket /\ Reply(c, said)
    BY <1>10 DEF ServePut
  <2>2. said \in Replies /\ said.is = "wrongLast"
    BY DEF Replies
  <2> HIDE DEF said
  <2>3. Grows(c) /\ Wrote(c)' = Wrote(c)
    BY <2>1 DEF Grows, Wrote
  <2>4. /\ reply'[c] = IF pc[c] = "sent" THEN said ELSE None
        /\ pending' = pending \ {c}
    BY <1>1, <2>1, Served DEF Reply, AnswerTypes
  <2>5. \A n : /\ Marker(c, n)' = Marker(c, n)
               /\ \A j : LiveAt(j, n)' = LiveAt(j, n) /\ RevAt(j, n)' = RevAt(j, n) /\ Rev(j)' = Rev(j)
    BY <1>1, <2>1 DEF Marker, Revs, LiveAt, RevAt, Rev
  <2>6. CreateSteps(c)'
    BY <1>1, <1>4, <1>5, <1>6, <2>2, <2>3, <2>4, <2>5 DEF PutInv, CreateSteps
  <2>7. PutWrote(c)'
    BY <1>1, <1>4, <1>5, <2>1, <2>3, <2>5 DEF PutInv, PutWrote
  <2>8. PutUnderWay(c)'
    BY <1>1, <1>6, <2>4, KVConstants DEF PutUnderWay
  <2>9. PutServed(c)'
    <3>1. ASSUME NEW n \in Wrote(c)
          PROVE  Creates(c) /\ named[c] # 0 /\ n < Rev(k)
      <4>1. err[c] # None
        BY <1>1, <1>4, Served DEF PutInv, PutUnderWay
      <4>2. n < named[c] /\ named[c] \in Revs(k, Len(bucket))
        BY <1>1, <1>3, <1>4, <1>6, <4>1, Served DEF PutInv, PutUnderWay, CreateSteps, Marker
      <4>3. named[c] <= Rev(k) /\ Rev(k) \in Nat /\ Len(bucket) \in Nat
        BY <4>2, RevNow
      <4>4. named[c] \in Nat /\ n \in Nat
        BY <4>2, <4>3 DEF Wrote, Revs
      <4> QED BY <1>6, <4>1, <4>2, <4>3, <4>4
    <3> QED BY <1>1, <1>3, <1>4, <1>5, <1>7, <2>2, <2>3, <2>4, <2>5, <3>1, Served DEF PutServed
  <2>10. GetServed(c)' /\ KeysServed(c)'
    BY <1>1, <1>4, <2>2, <2>4, Served DEF GetServed, KeysServed
  <2> QED BY <1>1, <2>1, <2>2, <2>3, <2>6, <2>7, <2>8, <2>9, <2>10, ReplyAnswers
<1> QED BY <1>9, <1>10

\* A create is told whether its key holds a marker.
LEMMA LookAnswered ==
  ASSUME KVTypeOK, RequestsSent, AnswersInv, NEW c \in Calls, ServeLook(c)
  PROVE  AnswersInv'
<1>1. /\ UNCHANGED <<pc, op, err, named, late, passed, left, listed, answer, began, ended>>
      /\ c \in pending /\ Looking(c) /\ bucket' = bucket
  BY DEF ServeLook, creates, listing
<1>2. PICK k : k = op[c].key
  OBVIOUS
<1> DEFINE said == IF Rev(k) # 0 /\ bucket[Rev(k)].val = Deleted THEN [is |-> "marker", rev |-> Rev(k)]
                                                               ELSE [is |-> "noMarker"]
<1>3. Reply(c, said)
  BY <1>2 DEF ServeLook
<1>4. /\ said \in Replies /\ said.is \in {"marker", "noMarker"}
      /\ said.is = "marker" => said.rev = Rev(k) /\ Rev(k) # 0 /\ bucket[Rev(k)].val = Deleted
  <2>1. Rev(k) \in Nat
    BY RevNow
  <2> QED BY <2>1 DEF Replies
<1> HIDE DEF said
<1>5. PutInv(c) /\ op'[c] = op[c] /\ op[c].kind = "put" /\ op[c] # None
  BY <1>1, Served DEF CallInv, Looking, Creates
<1>6. Grows(c) /\ Wrote(c)' = Wrote(c)
  BY <1>1 DEF Grows, Wrote
<1>7. /\ reply'[c] = IF pc[c] = "sent" THEN said ELSE None
      /\ pending' = pending \ {c}
  BY <1>1, <1>3, Served DEF Reply, AnswerTypes
<1>8. \A n : /\ Marker(c, n)' = Marker(c, n)
             /\ \A j : LiveAt(j, n)' = LiveAt(j, n) /\ RevAt(j, n)' = RevAt(j, n) /\ Rev(j)' = Rev(j)
  BY <1>1 DEF Marker, Revs, LiveAt, RevAt, Rev
<1>9. Creates(c)' = Creates(c) /\ Looking(c)' = Looking(c)
  BY <1>1 DEF Creates, Looking
<1>10. said.is = "marker" => Marker(c, said.rev) /\ \A n \in Wrote(c) : n < said.rev
  <2> SUFFICES ASSUME said.is = "marker"
               PROVE  Marker(c, said.rev) /\ \A n \in Wrote(c) : n < said.rev
    OBVIOUS
  <2>1. said.rev = Rev(k) /\ Rev(k) \in Revs(k, Len(bucket)) /\ bucket[Rev(k)].val = Deleted
    BY <1>4, RevNow
  <2>2. ASSUME NEW n \in Wrote(c)
        PROVE  n < Rev(k)
    <3>1. bucket[n].key = k /\ bucket[n].val = c /\ n \in 1..Len(bucket)
      BY <1>2, <1>5 DEF PutInv, PutWrote, Wrote
    <3>2. n <= Rev(k) /\ Rev(k) \in Nat /\ n \in Nat
      BY <3>1, RevNow DEF Revs
    <3>3. n # Rev(k)
      BY <2>1, <3>1, KVConstants
    <3> QED BY <3>2, <3>3
  <2> QED BY <1>2, <2>1, <2>2 DEF Marker
<1>11. CreateSteps(c)'
  BY <1>1, <1>4, <1>5, <1>6, <1>7, <1>8, <1>9, <1>10 DEF PutInv, CreateSteps
<1>12. PutWrote(c)'
  BY <1>1, <1>5, <1>6, <1>8, <1>9 DEF PutInv, PutWrote
<1>13. PutUnderWay(c)'
  BY <1>1, <1>5, <1>6, <1>7 DEF PutInv, PutUnderWay
<1>14. PutServed(c)'
  BY <1>1, <1>4, <1>5, <1>6, <1>7, <1>8, <1>9 DEF PutInv, PutServed
<1>15. GetServed(c)' /\ KeysServed(c)'
  BY <1>1, <1>4, <1>5, <1>7, Served DEF GetServed, KeysServed
<1> QED BY <1>1, <1>3, <1>4, <1>6, <1>11, <1>12, <1>13, <1>14, <1>15, ReplyAnswers

\* What a call that is no Put cannot disturb.
LEMMA NoPut ==
  ASSUME KVTypeOK, RequestsSent, AnswersInv, NEW c \in Calls, c \in pending, op[c].kind # "put",
         UNCHANGED <<pc, op, err, named, late>>, NEW said,
         said.is \notin {"marker", "noMarker", "wrongLast"}, reply'[c] \in {said, None}
  PROVE  CreateSteps(c)' /\ PutWrote(c)' /\ PutUnderWay(c)' /\ PutServed(c)'
<1>1. CallInv(c) /\ pc[c] # "new" /\ ~Creates(c)
  BY Served DEF Creates
<1>2. err[c] = None /\ named[c] = 0 /\ c \notin late
  BY <1>1, KVConstants DEF CallInv, PutInv, CreateSteps
<1> QED BY <1>1, <1>2 DEF CreateSteps, PutWrote, PutUnderWay, PutServed

\* A Get or a Delete is served, or a listing begins.
LEMMA OtherAnswered ==
  ASSUME KVTypeOK, RequestsSent, AnswersInv, NEW c \in Calls,
         ServeGet(c) \/ ServeDelete(c) \/ ServeKeys(c)
  PROVE  AnswersInv'
<1>1. /\ UNCHANGED <<pc, op, err, named, late, passed, listed, answer, began, ended>>
      /\ c \in pending /\ op[c].kind \in {"get", "delete", "keys"}
  BY DEF ServeGet, ServeDelete, ServeKeys, creates, listing
<1>2. op[c].kind # "put" /\ op'[c] = op[c] /\ \A d \in Calls : d # c => left'[d] = left[d]
  BY <1>1 DEF ServeGet, ServeDelete, ServeKeys, listing, KVTypeOK
<1>3. ASSUME NEW what, Reply(c, what)
      PROVE  /\ reply'[c] = IF pc[c] = "sent" THEN what ELSE None
             /\ reply'[c] \in {what, None}
  BY <1>1, <1>3, Served DEF Reply, AnswerTypes
<1>4. CASE ServeGet(c)
  <2>1. PICK k : k = op[c].key
    OBVIOUS
  <2> DEFINE said == IF Live(k) THEN [is |-> "ok", rev |-> Rev(k), val |-> bucket[Rev(k)].val]
                                ELSE [is |-> "notFound"]
  <2>2. Reply(c, said) /\ bucket' = bucket /\ left' = left /\ op[c].kind = "get"
    BY <1>4, <2>1 DEF ServeGet, listing
  <2>3. Live(k) => Rev(k) \in Nat /\ bucket[Rev(k)].val \in Calls \cup {Deleted, None}
    <3> SUFFICES ASSUME Live(k)
                 PROVE  Rev(k) \in Nat /\ bucket[Rev(k)].val \in Calls \cup {Deleted, None}
      OBVIOUS
    <3>1. Rev(k) \in 1..Len(bucket) /\ Rev(k) \in Nat
      BY RevNow DEF Live, LiveAt, Rev
    <3>2. bucket \in Seq(Entries)
      BY DEF KVTypeOK, Entries
    <3>3. bucket[Rev(k)] \in Entries
      BY <3>1, <3>2
    <3> QED BY <3>1, <3>3 DEF Entries
  <2>4. /\ said \in Replies /\ said.is \in {"ok", "notFound"}
        /\ said.is = "ok" => Live(k) /\ said.rev = Rev(k) /\ said.val = bucket[Rev(k)].val
        /\ said.is = "notFound" => ~Live(k)
    BY <2>3 DEF Replies
  <2> HIDE DEF said
  <2>5. Grows(c)
    BY <2>2 DEF Grows
  <2>6. CreateSteps(c)' /\ PutWrote(c)' /\ PutUnderWay(c)' /\ PutServed(c)'
    BY <1>1, <1>2, <1>3, <2>2, <2>4, NoPut
  <2>7. GetServed(c)'
    <3>1. \A n : LiveAt(k, n)' = LiveAt(k, n) /\ RevAt(k, n)' = RevAt(k, n)
      BY <2>2 DEF LiveAt, RevAt, Revs
    <3>2. PICK n \in began'[c]..Len(bucket') : n = Len(bucket)
      BY <1>1, <2>2, Served
    <3>3. reply'[c] # None => reply'[c] = said
      BY <1>3, <2>2
    <3>4. LiveAt(k, n)' = Live(k) /\ RevAt(k, n)' = Rev(k)
      BY <3>1, <3>2 DEF Live, Rev
    <3>5. reply'[c] # None /\ reply'[c].is = "notFound" =>
            \E m \in began'[c]..Len(bucket') : ~LiveAt(k, m)'
      BY <2>4, <3>2, <3>3, <3>4
    <3>6. reply'[c] # None /\ reply'[c].is = "ok" =>
            \E m \in began'[c]..Len(bucket') :
              /\ LiveAt(k, m)' /\ RevAt(k, m)' = reply'[c].rev
              /\ bucket'[reply'[c].rev].val = reply'[c].val
      BY <2>2, <2>4, <3>2, <3>3, <3>4
    <3> QED BY <1>2, <2>1, <3>5, <3>6 DEF GetServed
  <2>8. KeysServed(c)'
    BY <1>1, <1>3, <2>2, <2>4, Served DEF KeysServed
  <2> QED BY <1>1, <1>2, <2>2, <2>4, <2>5, <2>6, <2>7, <2>8, ReplyAnswers
<1>5. CASE ServeDelete(c)
  <2> DEFINE said == [is |-> "ok"]
  <2>1. Reply(c, said) /\ WriteEntry(c, Deleted) /\ left' = left /\ op[c].kind = "delete"
    BY <1>5 DEF ServeDelete, listing
  <2>2. said \in Replies /\ said.is = "ok"
    BY DEF Replies
  <2> HIDE DEF said
  <2>3. PICK N \in Nat : N = Len(bucket) + 1
    BY RevNow
  <2>4. Grows(c)
    BY <1>1, <2>1, <2>3, Served, Written
  <2>5. CreateSteps(c)' /\ PutWrote(c)' /\ PutUnderWay(c)' /\ PutServed(c)'
    BY <1>1, <1>2, <1>3, <2>1, <2>2, NoPut
  <2>6. GetServed(c)' /\ KeysServed(c)'
    BY <1>1, <1>2, <1>3, <2>1, <2>2, Served DEF GetServed, KeysServed
  <2> QED BY <1>1, <1>2, <2>1, <2>2, <2>4, <2>5, <2>6, ReplyAnswers
<1>6. CASE ServeKeys(c)
  <2> DEFINE said == [is |-> "listing"]
  <2>1. /\ Reply(c, said) /\ bucket' = bucket /\ op[c].kind = "keys"
        /\ left' = [left EXCEPT ![c] = IF pc[c] = "sent" THEN Cardinality(Kept) ELSE 0]
    BY <1>6 DEF ServeKeys
  <2>2. said \in Replies /\ said.is = "listing" /\ said # None
    BY KVConstants DEF Replies
  <2> HIDE DEF said
  <2>3. Grows(c)
    BY <2>1 DEF Grows
  <2>4. CreateSteps(c)' /\ PutWrote(c)' /\ PutUnderWay(c)' /\ PutServed(c)'
    BY <1>1, <1>2, <1>3, <2>1, <2>2, NoPut
  <2>5. GetServed(c)'
    BY <1>2, <1>3, <2>1, <2>2 DEF GetServed
  <2>6. KeysServed(c)'
    <3>1. /\ passed'[c] = 0 /\ listed'[c] = <<>> /\ ToSet(listed'[c]) = {}
          /\ left'[c] = IF pc[c] = "sent" THEN Cardinality(Kept) ELSE 0
      BY <1>1, <2>1, Served DEF KVTypeOK, ToSet
    <3>2. Kept' = Kept /\ OldAhead(c)' \in SUBSET Kept
      BY <2>1 DEF OldAhead, Ahead, Kept, Rev, RevAt, Revs
    <3>3. PICK O : O = OldAhead(c)'
      OBVIOUS
    <3>4. Cardinality(O) <= Cardinality(Kept)
      BY <3>2, <3>3, KeptFinite, FS_Subset
    <3>5. \A k : Live(k)' => ~(Rev(k)' <= 0)
      <4> SUFFICES ASSUME NEW k, Live(k)' PROVE ~(Rev(k)' <= 0)
        OBVIOUS
      <4>1. Rev(k)' = Rev(k) /\ Live(k)' = Live(k)
        BY <2>1 DEF Live, LiveAt, RevAt, Revs, Rev
      <4>2. Rev(k) \in Nat /\ Rev(k) # 0
        BY <4>1, RevNow DEF Live, LiveAt, Rev
      <4> QED BY <4>1, <4>2
    <3> QED BY <1>2, <1>3, <2>1, <2>2, <3>1, <3>3, <3>4, <3>5 DEF KeysServed
  <2> QED BY <1>1, <1>2, <2>1, <2>2, <2>3, <2>4, <2>5, <2>6, ReplyAnswers
<1> QED BY <1>4, <1>5, <1>6

\* The server serves a request, or a listing is sent an entry.
LEMMA ServerAnswers ==
  ASSUME KVTypeOK, RequestsSent, AnswersInv, NEW c \in Calls, ServerStep(c)
  PROVE  AnswersInv'
  BY PutAnswered, LookAnswered, LateAnswers, OtherAnswered, DeliverAnswers DEF ServerStep

\* A process dies: its calls that waited get no answer.
LEMMA CrashAnswers ==
  ASSUME KVTypeOK, AnswersInv, NEW h \in Handles, Crash(h)
  PROVE  AnswersInv'
<1> DEFINE dead == {c \in CallsOf(h) : pc[c] = "sent"}
<1>1. /\ UNCHANGED <<bucket, op, err, named, answer, began, ended>>
      /\ pending' \subseteq pending /\ late' \subseteq late
      /\ pc' = [c \in Calls |-> IF c \in CallsOf(h) /\ pc[c] = "sent" THEN "dead" ELSE pc[c]]
      /\ reply' = [c \in Calls |-> IF c \in dead THEN None ELSE reply[c]]
      /\ passed' = [c \in Calls |-> IF c \in dead THEN 0 ELSE passed[c]]
      /\ left' = [c \in Calls |-> IF c \in dead THEN 0 ELSE left[c]]
      /\ listed' = [c \in Calls |-> IF c \in dead THEN <<>> ELSE listed[c]]
  BY DEF Crash, Forget, Lose
<1>2. Grows(None) /\ \A d \in Calls : Wrote(d)' = Wrote(d)
  BY <1>1 DEF Grows, Wrote
<1>3. AnswerTypes /\ AnswerTypes'
  BY <1>1, AnswersSplit DEF AnswerTypes
<1>4. \A k, n : LiveAt(k, n)' = LiveAt(k, n) /\ RevAt(k, n)' = RevAt(k, n)
  BY <1>1 DEF LiveAt, RevAt, Revs
<1>5. ASSUME NEW d \in Calls, d \notin dead
      PROVE  CallInv(d)'
  <2>1. Stays(d)
    BY <1>1, <1>5 DEF Stays
  <2>2. CallInv(d)
    BY AnswersSplit
  <2> QED BY <1>2, <1>3, <2>1, <2>2, OtherKept DEF Stays
<1>6. ASSUME NEW d \in Calls, d \in dead
      PROVE  CallInv(d)'
  <2>1. /\ pc[d] = "sent" /\ pc'[d] = "dead" /\ CallInv(d) /\ answer[d] = None
        /\ reply'[d] = None /\ passed'[d] = 0 /\ left'[d] = 0 /\ listed'[d] = <<>>
    BY <1>1, <1>6, AnswersSplit DEF CallInv, PutInv, CallSteps
  <2>2. Creates(d)' = Creates(d) /\ Looking(d)' = Looking(d) /\ \A m : Marker(d, m)' = Marker(d, m)
    BY <1>1 DEF Creates, Looking, Marker, Revs
  <2>3. CallSteps(d)' /\ CreateSteps(d)'
    BY <1>1, <2>1, <2>2 DEF CallInv, PutInv, CallSteps, CreateSteps
  <2>4. PutWrote(d)' /\ PutUnderWay(d)'
    BY <1>1, <1>2, <1>4, <2>1, <2>2 DEF CallInv, PutInv, PutWrote, PutUnderWay
  <2>5. PutServed(d)'
    BY <1>1, <1>2, <2>1 DEF PutServed
  <2>6. GetServed(d)' /\ GetAnswered(d)' /\ KeysServed(d)' /\ KeysAnswered(d)'
    BY <1>1, <2>1 DEF GetServed, GetAnswered, KeysServed, KeysAnswered
  <2> QED BY <2>3, <2>4, <2>5, <2>6 DEF CallInv, PutInv, ReadInv
<1> QED BY <1>3, <1>5, <1>6, AnswersSplitNext

\* The engine's own steps answer nothing; a server that shuts down forgets requests.
LEMMA AnswersKept ==
  ASSUME KVTypeOK, AnswersInv,
         UNCHANGED <<bucket, pc, op, reply, err, named, passed, left, listed, answer, began, ended>>,
         pending' \subseteq pending, late' \subseteq late
  PROVE  AnswersInv'
<1>1. Grows(None) /\ AnswerTypes'
  BY AnswersSplit DEF Grows, AnswerTypes
<1>2. \A d \in Calls : d # None => Stays(d)
  BY DEF Stays
<1>3. \A d \in Calls : CallInv(d)'
  BY <1>1, <1>2, OthersKept, KVConstants
<1> QED BY <1>1, <1>3, AnswersSplitNext

LEMMA AnswersStep ==
  ASSUME EngineInv, AnswersInv, [Next]_vars
  PROVE  AnswersInv'
<1>1. KVTypeOK /\ RequestsSent
  BY DEF EngineInv, TypeOK
<1>2. UNCHANGED kvVars => AnswersInv'
  BY <1>1, AnswersKept DEF kvVars, creates, listing
<1>3. ASSUME NEW h \in Handles,
             Open(h) \/ AcquireLock(h) \/ Engage(h) \/ DrainEngine(h) \/ Again(h)
      PROVE  AnswersInv'
  <2>1. UNCHANGED kvVars
    BY <1>3 DEF Open, AcquireLock, Engage, StartServer, Ready, Connect, Bind, CanonicalPath,
                Provision, NewStore, OpenFails, Unlock, ShutdownEngine, DrainEngine, Again
  <2> QED BY <1>2, <2>1
<1>4. ASSUME NEW h \in Handles, Crash(h)
      PROVE  AnswersInv'
  BY <1>1, <1>4, CrashAnswers
<1>5. ASSUME NEW h \in Handles, NEW g \in ClosersOf(h), CallClose(h, g) \/ Closing(h, g)
      PROVE  AnswersInv'
  <2>1. CASE ShutdownBackend(h, g)
    BY <1>1, <2>1, AnswersKept DEF ShutdownBackend, Lose, listing
  <2>2. CASE ~ShutdownBackend(h, g)
    <3>1. UNCHANGED kvVars
      BY <1>5, <2>2 DEF CallClose, Closing, EnterClose, StopViews, DrainBackend, EndClose
    <3> QED BY <1>2, <3>1
  <2> QED BY <2>1, <2>2
<1>6. ASSUME NEW c \in Calls, Begin(c) \/ Serve(c) \/ Proceed(c)
      PROVE  AnswersInv'
  <2>1. CASE Begin(c)
    <3>1. PICK o \in Requests[c] : Call(c, o)
      BY <2>1 DEF Begin
    <3>2. o \in Ops
      BY <3>1, KVConstants
    <3> QED BY <1>1, <3>1, <3>2, CallAnswers
  <2>2. CASE Serve(c)
    BY <1>1, <2>2, ServerAnswers DEF Serve
  <2>3. CASE Proceed(c)
    BY <1>1, <2>3, ClientAnswers DEF Proceed
  <2> QED BY <1>6, <2>1, <2>2, <2>3
<1>7. CASE UNCHANGED vars
  BY <1>2, <1>7 DEF vars
<1> QED BY <1>3, <1>4, <1>5, <1>6, <1>7 DEF Next

LEMMA AnswersInductive == Spec => []AnswersInv
<1>1. Init => AnswersInv
  <2> SUFFICES ASSUME Init PROVE AnswersInv
    OBVIOUS
  <2>1. bucket \in Seq([key : Keys, val : {Deleted, None}, by : {None}])
    BY KVConstants DEF Init, KVInit
  <2>2. Len(bucket) \in Nat /\ \A n \in 1..Len(bucket) : bucket[n].by = None
    <3> DEFINE E == [key : Keys, val : {Deleted, None}, by : {None}]
    <3>1. \A e \in E : e.by = None
      OBVIOUS
    <3>2. bucket \in Seq(E)
      BY <2>1
    <3> HIDE DEF E
    <3> QED BY <3>1, <3>2
  <2>3. \A c \in Calls : Wrote(c) = {}
    BY <2>2, KVConstants DEF Wrote
  <2>4. AnswerTypes
    BY DEF Init, KVInit, AnswerTypes
  <2>5. \A c \in Calls : CallSteps(c) /\ CreateSteps(c)
    BY <2>2 DEF Init, KVInit, CallSteps, CreateSteps
  <2>6. \A c \in Calls : PutWrote(c) /\ PutUnderWay(c) /\ PutServed(c)
    BY <2>3 DEF Init, KVInit, PutWrote, PutUnderWay, PutServed
  <2>7. \A c \in Calls : GetServed(c) /\ KeysServed(c) /\ GetAnswered(c) /\ KeysAnswered(c)
    BY DEF Init, KVInit, GetServed, KeysServed, GetAnswered, KeysAnswered
  <2> QED BY <2>4, <2>5, <2>6, <2>7 DEF AnswersInv
<1>2. EngineInv /\ AnswersInv /\ [Next]_vars => AnswersInv'
  BY AnswersStep
<1> QED BY <1>1, <1>2, EngineInductive, PTL DEF Spec

\* Two entries of one key never replaced the same revision.
LEMMA ReplacesOnce ==
  ASSUME KVTypeOK, NEW k, NEW m \in 1..Len(bucket), NEW n \in 1..Len(bucket),
         bucket[m].key = k, bucket[n].key = k, m # n
  PROVE  RevAt(k, m - 1) # RevAt(k, n - 1)
<1>1. Len(bucket) \in Nat
  BY RevNow
<1>2. ASSUME NEW i \in 1..Len(bucket), NEW j \in 1..Len(bucket), i < j, bucket[i].key = k
      PROVE  RevAt(k, i - 1) < RevAt(k, j - 1)
  <2>1. PICK a \in 0..Len(bucket), b \in 0..Len(bucket) : a = i - 1 /\ b = j - 1
    BY <1>1
  <2>2. i \in Revs(k, b)
    BY <1>1, <1>2, <2>1 DEF Revs
  <2>3. i <= RevAt(k, b) /\ RevAt(k, b) \in Nat
    BY <1>1, <2>1, <2>2, RevIs
  <2>4. RevAt(k, a) \in 0..a
    BY <1>1, <2>1, RevIs
  <2> QED BY <1>1, <2>1, <2>3, <2>4
<1>3. m < n \/ n < m
  BY <1>1
<1>4. CASE m < n
  <2>1. PICK a \in 0..Len(bucket), b \in 0..Len(bucket) : a = m - 1 /\ b = n - 1
    BY <1>1
  <2>2. RevAt(k, a) \in Nat /\ RevAt(k, b) \in Nat
    BY <1>1, RevIs
  <2> QED BY <1>2, <1>4, <2>1, <2>2
<1>5. CASE n < m
  <2>1. PICK a \in 0..Len(bucket), b \in 0..Len(bucket) : a = m - 1 /\ b = n - 1
    BY <1>1
  <2>2. RevAt(k, a) \in Nat /\ RevAt(k, b) \in Nat
    BY <1>1, RevIs
  <2> QED BY <1>2, <1>5, <2>1, <2>2
<1> QED BY <1>3, <1>4, <1>5

\* A set whose members all have the one or the other of two marks, and no mark twice.
LEMMA TwoAtMost ==
  ASSUME NEW S, NEW mark, NEW x, NEW y, \A n \in S : mark[n] \in {x, y},
         \A m, n \in S : m # n => mark[m] # mark[n]
  PROVE  Cardinality(S) \in Nat /\ Cardinality(S) <= IF x = y THEN 1 ELSE 2
<1>1. CASE S = {}
  <2>1. Cardinality(S) = 0
    BY <1>1, FS_EmptySet
  <2> QED BY <2>1
<1>2. CASE S # {}
  <2>1. PICK m \in S : TRUE
    BY <1>2
  <2>2. IsFiniteSet({m}) /\ Cardinality({m}) = 1
    BY FS_Singleton
  <2>3. CASE S = {m}
    BY <2>2, <2>3
  <2>4. CASE S # {m}
    <3>1. PICK n \in S : n # m
      BY <2>1, <2>4
    <3>2. x # y /\ S = {m} \cup {n}
      BY <2>1, <3>1
    <3>3. Cardinality({m} \cup {n}) = 2
      BY <2>2, <3>1, FS_AddElement
    <3> QED BY <3>2, <3>3
  <2> QED BY <2>3, <2>4
<1> QED BY <1>1, <1>2

\* What a Put was told is so: its entries replaced exactly what it named, the last one
\* is where it was told, and after a conflict none of them is left, whatever crashed,
\* came late or was lost.
THEOREM PutAnswersTrue == Spec => []PutAnswers
<1>1. KVTypeOK /\ AnswersInv => PutAnswers
  <2> SUFFICES ASSUME KVTypeOK, AnswersInv, NEW c \in Calls, op[c] # None, op[c].kind = "put"
               PROVE  /\ Cardinality(Wrote(c)) <= IF Creates(c) THEN 2 ELSE 1
                      /\ \A n \in Wrote(c) :
                           IF Creates(c) THEN ~LiveAt(op[c].key, n - 1)
                                         ELSE RevAt(op[c].key, n - 1) = op[c].exp
                      /\ answer[c] # None =>
                           /\ answer[c].is = "ok" =>
                                answer[c].rev \in Wrote(c) /\ \A n \in Wrote(c) : n <= answer[c].rev
                           /\ answer[c].is = "conflict" =>
                                \A n \in Wrote(c) : Creates(c) /\ n < RevAt(op[c].key, ended[c])
                           /\ answer[c].is = "invalid" => Wrote(c) = {}
    BY DEF PutAnswers
  <2>1. PutWrote(c) /\ PutServed(c)
    BY DEF AnswersInv
  <2>2. PICK k : k = op[c].key
    OBVIOUS
  <2> DEFINE mark == [n \in Wrote(c) |-> RevAt(k, n - 1)]
  <2>3. \A n \in Wrote(c) : n \in 1..Len(bucket) /\ bucket[n].key = k
    BY <2>1, <2>2 DEF Wrote, PutWrote
  <2>4. \A m, n \in Wrote(c) : m # n => mark[m] # mark[n]
    BY <2>3, ReplacesOnce
  <2>5. /\ Creates(c) => \A n \in Wrote(c) : mark[n] \in {0, named[c]}
        /\ ~Creates(c) => \A n \in Wrote(c) : mark[n] \in {op[c].exp, op[c].exp}
    BY <2>1, <2>2 DEF PutWrote
  <2> HIDE DEF mark
  <2>6. CASE Creates(c)
    <3>1. Cardinality(Wrote(c)) \in Nat /\ Cardinality(Wrote(c)) <= 2
      <4>1. PICK x, z : x = named[c] /\ z = 0
        OBVIOUS
      <4>2. \A n \in Wrote(c) : mark[n] \in {z, x}
        BY <2>5, <2>6, <4>1
      <4>3. /\ Cardinality(Wrote(c)) \in Nat
            /\ Cardinality(Wrote(c)) <= IF z = x THEN 1 ELSE 2
        BY <2>4, <4>2, TwoAtMost
      <4> QED BY <4>3
    <3> QED BY <2>1, <2>6, <3>1 DEF PutServed, PutWrote
  <2>7. CASE ~Creates(c)
    <3>1. Cardinality(Wrote(c)) <= 1
      <4>1. PICK x : x = op[c].exp
        OBVIOUS
      <4>2. \A n \in Wrote(c) : mark[n] \in {x, x}
        BY <2>5, <2>7, <4>1
      <4> QED BY <2>4, <4>2, TwoAtMost
    <3> QED BY <2>1, <2>7, <3>1 DEF PutServed, PutWrote
  <2> QED BY <2>6, <2>7
<1>2. EngineInv => KVTypeOK
  BY DEF EngineInv, TypeOK
<1> QED BY <1>1, <1>2, AnswersInductive, EngineInductive, PTL

\* What a reader was told was so: a value, or that there was none, at a moment between
\* its call and its return; and a listing is ascending without repeats, has every key
\* that stood still all the while, whatever others were created, rewritten or deleted,
\* and none that never had a value meanwhile.
THEOREM ReadAnswersTrue == Spec => []ReadAnswers
<1>1. AnswersInv => ReadAnswers
  BY DEF AnswersInv, ReadAnswers
<1> QED BY <1>1, AnswersInductive, PTL
=============================================================================
