----------------------------- MODULE BlobReader -----------------------------
(***************************************************************************)
(* A reader returned by blobStore.Get, over the objects of Blobs: Get      *)
(* follows links to an object (seam.go, resolveObjectInfo) and subscribes  *)
(* to its chunks; Read delivers them (objectChunkReader inside             *)
(* blobLifecycleReader); Close may be called by several goroutines, and    *)
(* the caller's context may be cancelled, while a Read waits for a chunk.  *)
(*                                                                         *)
(* One reader: readers share nothing but the store.  It has one goroutine  *)
(* that calls Read, any number that call Close.  Overwriting, deleting and *)
(* damaging the object goes on meanwhile.                                  *)
(***************************************************************************)
EXTENDS Blobs, FiniteSets

CONSTANTS Links,         \* objects that are links to others
          LinkOf,        \* where each of them points
          Key,           \* the object of Blobs
          LinkMaxDepth,  \* objectLinkMaxDepth
          Closers        \* goroutines that call Close

Names == Links \cup {Key}

ASSUME ReaderConstants ==
  Key \notin Links /\ LinkOf \in [Links -> Names] /\ LinkMaxDepth \in Nat \ {0}

VARIABLES
  start,     \* the name given to Get
  at,        \* the object being resolved
  seen,      \* links followed
  depth,     \* how many
  get,       \* Get: "idle", "resolve", "subscribe", "open" or how it failed
  obj,       \* the Put whose object the reader is of
  inbox,     \* the chunk the subscription has fetched ahead, or None
  stopped,   \* messages.Stop was called
  fetched,   \* the chunks read: their number, size and hash are kept in the code
  lastSeq,   \* lastStreamSeq
  got,       \* how many bytes Read has returned
  terminal,  \* "none", "eof" or the error every further Read returns
  rd,        \* the Read in progress: "idle", "entered" or "next"
  mu,        \* whether a Read holds readMu
  shut,      \* blobLifecycleReader.closed
  closed,    \* objectChunkReader.closed
  once,      \* the goroutine that runs Close's body, or None
  closeDone, \* closeDone is closed
  cl         \* where each Close is

getVars == <<start, at, seen, depth, get, obj>>
feedVars == <<inbox, stopped>>
readVars == <<fetched, lastSeq, got, terminal, rd, mu>>
closeVars == <<shut, closed, once, closeDone, cl>>
readerVars == <<getVars, feedVars, readVars, closeVars>>
vars == <<storeVars, readerVars>>

Init ==
  /\ StoreInit
  /\ start = Key /\ at = Key /\ seen = {} /\ depth = 0 /\ get = "idle" /\ obj = None
  /\ inbox = None /\ stopped = FALSE
  /\ fetched = <<>> /\ lastSeq = 0 /\ got = 0 /\ terminal = "none"
  /\ rd = "idle" /\ mu = FALSE
  /\ shut = FALSE /\ closed = FALSE /\ once = None /\ closeDone = FALSE
  /\ cl = [k \in Closers |-> "idle"]

-----------------------------------------------------------------------------
(* Get *)

Get(n) ==
  /\ get = "idle"
  /\ start' = n /\ at' = n
  /\ get' = "resolve"
  /\ UNCHANGED <<storeVars, seen, depth, obj, feedVars, readVars, closeVars>>

TooDeepByOne == depth > LinkMaxDepth

TooDeep == depth >= LinkMaxDepth

\* Get has found its object or failed; what the search remembered is gone.
EndSearch(g) ==
  /\ get' = g
  /\ start' = Key /\ at' = Key /\ seen' = {} /\ depth' = 0
  /\ UNCHANGED <<storeVars, feedVars, readVars, closeVars>>

\* errObjectIntegrity: the chain is too long, or came back to where it was.
BadLink ==
  /\ get = "resolve"
  /\ TooDeep \/ at \in seen
  /\ EndSearch("badlink")
  /\ UNCHANGED obj

FollowLink ==
  /\ get = "resolve" /\ ~TooDeep
  /\ at \in Links \ seen
  /\ seen' = seen \cup {at}
  /\ at' = LinkOf[at]
  /\ depth' = depth + 1
  /\ UNCHANGED <<storeVars, start, get, obj, feedVars, readVars, closeVars>>

\* GetInfo of the object itself.  One without chunks needs no subscription.
Resolve ==
  /\ get = "resolve" /\ ~TooDeep
  /\ at = Key
  /\ obj' = meta
  /\ EndSearch(IF meta = None THEN "notfound"
               ELSE IF content[meta] = <<>> THEN "open" ELSE "subscribe")

\* CreateConsumer and Messages, and AfterFunc on the caller's context.
Subscribe ==
  /\ get = "subscribe"
  /\ get' = "open"
  /\ UNCHANGED <<storeVars, start, at, seen, depth, obj, feedVars, readVars, closeVars>>

GetFails ==
  /\ get \in {"resolve", "subscribe"}
  /\ EndSearch("error")
  /\ UNCHANGED obj

\* The consumer delivers the next chunk that is still stored, ahead of the Read
\* that will ask for it; what it says is pending is as of now.
Deliver ==
  /\ get = "open" /\ ~stopped /\ inbox = None
  /\ LET rest == {i \in 1..Len(chunks[obj]) : chunks[obj][i].seq > lastSeq}
         next == chunks[obj][Min(rest)]
     IN /\ rest # {}
        /\ inbox' = [seq |-> next.seq, data |-> next.data, pending |-> Cardinality(rest) - 1]
  /\ UNCHANGED <<storeVars, getVars, stopped, readVars, closeVars>>

\* The caller's context ends: AfterFunc runs stopMessages, unless the reader
\* has stopped already.
Cancel ==
  /\ get = "open" /\ ~stopped
  /\ stopped' = TRUE
  /\ UNCHANGED <<storeVars, getVars, inbox, readVars, closeVars>>

-----------------------------------------------------------------------------
(* Read *)

Expected == content[obj]
Size(c) == Len(FlattenSeq(c))

\* Read returns without a change to the stream.
ReturnRead == rd' = "idle" /\ mu' = FALSE

TerminateLocked(err) ==
  /\ terminal' = err
  /\ stopped' = TRUE
  /\ rd' = "idle" /\ mu' = mu
  /\ inbox' = None
  /\ UNCHANGED <<storeVars, getVars, fetched, lastSeq, got, closeVars>>

\* fail: the error is kept for every later Read.
Terminate(err) ==
  /\ terminal' = err
  /\ stopped' = TRUE
  /\ ReturnRead
  /\ inbox' = None
  /\ UNCHANGED <<storeVars, getVars, fetched, lastSeq, got, closeVars>>

\* blobLifecycleReader.Read: not closed, so on to objectChunkReader.Read.
Enter ==
  /\ get = "open" /\ rd = "idle" /\ ~shut
  /\ rd' = "entered"
  /\ UNCHANGED <<storeVars, getVars, feedVars, fetched, lastSeq, got, terminal, mu, closeVars>>

\* A Read that has readMu decides by its first case that applies; it keeps the
\* lock only while it waits for a chunk.
Locks == rd = "entered" /\ ~mu

Pending == got < Size(fetched)
Complete == Len(fetched) = Len(Expected)

\* ErrClosed, or the outcome of an earlier Read.
ReadOver ==
  /\ Locks
  /\ closed \/ terminal # "none"
  /\ ReturnRead
  /\ UNCHANGED <<storeVars, getVars, feedVars, fetched, lastSeq, got, terminal, closeVars>>

\* The rest of a chunk, as much of it as the caller's buffer takes.
ReadRest ==
  /\ Locks /\ ~closed /\ terminal = "none"
  /\ Pending
  /\ got' \in got + 1..Size(fetched)
  /\ ReturnRead
  /\ UNCHANGED <<storeVars, getVars, feedVars, fetched, lastSeq, terminal, closeVars>>

VerifiedBySize == Size(fetched) = Size(Expected)

\* finish: chunk count, size and digest
Verified ==
  /\ Len(fetched) = Len(Expected) /\ Size(fetched) = Size(Expected)
  /\ FlattenSeq(fetched) = FlattenSeq(Expected)

ReadEnd ==
  /\ Locks /\ ~closed /\ terminal = "none"
  /\ ~Pending /\ Complete
  /\ Terminate(IF Verified THEN "eof" ELSE "integrity")

ReadNext ==
  /\ Locks /\ ~closed /\ terminal = "none"
  /\ ~Pending /\ ~Complete
  /\ rd' = "next" /\ mu' = TRUE
  /\ UNCHANGED <<storeVars, getVars, feedVars, fetched, lastSeq, got, terminal, closeVars>>

\* The chunk is the next of this object and as many follow as should.
InOrder == inbox.seq > lastSeq /\ inbox.pending = Len(Expected) - (Len(fetched) + 1)

\* The chunk does not exceed the declared size.
Fits == Len(inbox.data) <= Size(Expected) - Size(fetched)

Take ==
  /\ rd = "next" /\ inbox # None
  /\ InOrder /\ Fits
  /\ fetched' = Append(fetched, inbox.data)
  /\ lastSeq' = inbox.seq
  /\ got' \in got + (IF inbox.data = <<>> THEN 0 ELSE 1)..got + Len(inbox.data)
  /\ inbox' = None
  /\ ReturnRead
  /\ UNCHANGED <<storeVars, getVars, stopped, terminal, closeVars>>

TakeInvalid ==
  /\ rd = "next" /\ inbox # None
  /\ ~InOrder \/ ~Fits
  /\ Terminate("integrity")

\* Next fails: no chunk within blobObjectReadTimeout, the subscription was
\* stopped by Close or by the caller's context, or the connection is gone.
NextFails ==
  /\ rd = "next"
  /\ Terminate("error")

-----------------------------------------------------------------------------
(* Close *)

Close(k) ==
  /\ get = "open" /\ cl[k] = "idle"
  /\ shut' = TRUE
  /\ cl' = [cl EXCEPT ![k] = "once"]
  /\ UNCHANGED <<storeVars, getVars, feedVars, readVars, closed, once, closeDone>>

\* The first goroutine in runs objectChunkReader.Close: stop and stopMessages
\* wake a Read that waits in Next.
RunClose(k) ==
  /\ cl[k] = "once" /\ once = None
  /\ once' = k
  /\ closed' = TRUE
  /\ stopped' = TRUE
  /\ cl' = [cl EXCEPT ![k] = "drain"]
  /\ UNCHANGED <<storeVars, getVars, inbox, readVars, shut, closeDone>>

DrainedAlways == TRUE

\* readMu is free.
Drained == ~mu

\* Close waits for a Read that is running.
Drain(k) ==
  /\ cl[k] = "drain" /\ Drained
  /\ closeDone' = TRUE
  /\ cl' = [cl EXCEPT ![k] = "done"]
  /\ UNCHANGED <<storeVars, getVars, feedVars, readVars, shut, closed, once>>

\* The other goroutines wait for the first.
AwaitClose(k) ==
  /\ cl[k] = "once" /\ closeDone
  /\ cl' = [cl EXCEPT ![k] = "done"]
  /\ UNCHANGED <<storeVars, getVars, feedVars, readVars, shut, closed, once, closeDone>>

-----------------------------------------------------------------------------
ReadStep == ReadOver \/ ReadRest \/ ReadEnd \/ ReadNext
              \/ Take \/ TakeInvalid \/ NextFails

CloseStep(k) == RunClose(k) \/ Drain(k) \/ AwaitClose(k)

Next ==
  \/ StoreNext /\ UNCHANGED readerVars
  \/ \E n \in Names : Get(n)
  \/ BadLink \/ FollowLink \/ Resolve \/ Subscribe \/ GetFails
  \/ Deliver \/ Cancel
  \/ Enter \/ ReadStep
  \/ \E k \in Closers : Close(k) \/ CloseStep(k)

Spec == Init /\ [][Next]_vars

\* A goroutine that entered Read or Close is scheduled, and Next returns within
\* its five seconds.  Nothing is assumed of the writers or of the server.
FairSpec ==
  /\ Spec
  /\ WF_vars(ReadStep)
  /\ \A k \in Closers : WF_vars(CloseStep(k))

-----------------------------------------------------------------------------
(* Properties *)

\* Types of the store and the reader.
TypeOK ==
  /\ meta \in Puts \cup {None} /\ excused \subseteq Puts
  /\ pc \in [Puts -> {"idle", "store", "done"}]
  /\ ret \in [Puts -> {"none", "ok", "conflict", "error"}]
  /\ dpc \in [Deletes -> {"idle", "mark", "done"}]
  /\ start \in Names /\ at \in Names /\ seen \subseteq Links /\ depth \in 0..LinkMaxDepth
  /\ get \in {"idle", "resolve", "badlink", "notfound", "subscribe", "open", "error"}
  /\ obj \in Puts \cup {None}
  /\ terminal \in {"none", "eof", "integrity", "error"}
  /\ rd \in {"idle", "entered", "next"}
  /\ mu = (rd = "next")
  /\ cl \in [Closers -> {"idle", "once", "drain", "done"}]

\* EOF is the end of the object that Get resolved, every byte of it delivered,
\* though the object is overwritten, deleted or damaged while it is read; and
\* never more is taken in than the declared size, so that the unsigned difference
\* of the two does not wrap (objectChunkReader.Read, finish).
WholeContent ==
  /\ TypeOK
  /\ terminal = "eof" => FlattenSeq(fetched) = FlattenSeq(Expected) /\ got = Size(Expected)
  /\ obj # None => /\ Size(fetched) <= Size(Expected)
                   /\ Len(fetched) <= Len(Expected)
                   /\ got <= Size(fetched)

\* Once a Close has returned, no Read delivers a byte, not even one that had
\* begun before.
NoDataAfterClose ==
  [][got' # got => \A k \in Closers : cl[k] # "done"]_vars

\* Where i links lead from the name given to Get.
Follow[i \in 0..LinkMaxDepth] ==
  IF i = 0 THEN start ELSE IF Follow[i - 1] = Key THEN Key ELSE LinkOf[Follow[i - 1]]

\* Get finds the object, or finds it absent, exactly when fewer than
\* objectLinkMaxDepth links lead there; a longer chain or a cycle is an error,
\* never an endless search and never taken for absence.
LinksResolved ==
  [][get = "resolve" =>
       /\ get' = "badlink" => Follow[LinkMaxDepth - 1] # Key
       /\ get' \in {"notfound", "subscribe", "open"} => Follow[LinkMaxDepth - 1] = Key]_vars

\* Close returns, to each of its callers.
CloseReturns == \A k \in Closers : cl[k] = "once" ~> cl[k] = "done"

-----------------------------------------------------------------------------
(* The inductive invariants behind WholeContent, LinksResolved and           *)
(* NoDataAfterClose                                                          *)

Chunks == Seq(Int)

DataTypes ==
  /\ content \in [Puts -> Seq(Chunks)]
  /\ chunks \in [Puts -> Seq([seq : Nat, data : Chunks])]
  /\ inbox # None => inbox.data \in Chunks /\ inbox.pending \in Nat
  /\ fetched \in Seq(Chunks) /\ got \in Nat

\* The reader is of the object that was live when Get resolved it, whose content no
\* Put changes any more; before Get has opened it nothing is read.
GetSteps ==
  /\ get \in {"subscribe", "open"} => obj # None
  /\ get \in {"idle", "resolve", "badlink", "notfound"} => obj = None
  /\ obj # None => pc[obj] = "done"
  /\ get # "open" => rd = "idle" /\ terminal = "none" /\ fetched = <<>> /\ got = 0

\* A Read that waits for a chunk began before any Read ended the stream.
ReadSteps == rd = "next" => terminal = "none"

ContentInv == StoreInv /\ WholeContent /\ DataTypes /\ GetSteps /\ ReadSteps

\* The search has followed depth links, remembers them, and none was the object.
SearchSteps ==
  /\ get = "idle" => seen = {} /\ depth = 0
  /\ get = "resolve" => at = Follow[depth] /\ seen = {Follow[i] : i \in 0..(depth - 1)}

SearchInv == TypeOK /\ SearchSteps

\* Close returns after the one that runs its body, which stopped the reader and met no
\* Read that held the lock.
CloseSteps ==
  /\ \A k \in Closers : /\ cl[k] = "drain" => closed
                        /\ cl[k] = "done" => closeDone
  /\ closeDone => closed /\ rd # "next"

CloseInv == TypeOK /\ CloseSteps
=============================================================================
