------------------------------- MODULE Store --------------------------------
(***************************************************************************)
(* The life of a store: how a backend is opened, wired and closed          *)
(* (natsstore.go), the embedded engine and its directory lock              *)
(* (embedded.go, lockedengine.go, storelock_unix.go), composed with the    *)
(* calls of the key-value store (KVStore) that run meanwhile.              *)
(*                                                                         *)
(* A handle is a process that opens, closes and opens again; it may crash  *)
(* at any moment.  All handles of a run do the same:                       *)
(*   "embedded"  Open over one directory.  Open takes no lock and leaves   *)
(*               it to its callers to open a directory once at a time.     *)
(*   "remote"    Open over one server that others run.                     *)
(*   "locked"    OpenLockedEngine over one directory, with no such care.   *)
(* A step that can fail may fail, for the reasons of its own that the code *)
(* reports.                                                                *)
(***************************************************************************)
EXTENDS KVStore

CONSTANTS Handles,
          HandleOf,   \* the handle each call is made through
          Closers,    \* goroutines that close a Store, perhaps at once
          CloserOf    \* the handle each of them closes

ASSUME StoreConstants ==
  /\ HandleOf \in [Calls -> Handles] /\ CloserOf \in [Closers -> Handles]
  /\ None \notin Handles /\ None \notin Closers

VARIABLES
  mode,
  at,       \* where each handle is in opening, being open, or closing
  server,   \* whether its embedded server runs
  conn,     \* whether its connection is open and not told to drain
  lock,     \* the handle whose descriptor holds the flock of the directory
  bound,    \* how many buckets it has bound
  buckets,  \* the buckets that exist, which outlive handles
  closed, mutex,  \* Store.closed, and who holds Store.mu
  closer    \* where each Close call is

engineVars == <<at, server, conn, lock>>
storeVars == <<bound, buckets, closed, mutex, closer>>
vars == <<mode, engineVars, storeVars, kvVars>>

BucketNames == <<"lease", "kv", "blobs">>

Init ==
  /\ KVInit
  /\ mode \in {"embedded", "remote", "locked"}
  /\ at = [h \in Handles |-> "idle"]
  /\ server = [h \in Handles |-> FALSE] /\ conn = [h \in Handles |-> FALSE]
  /\ lock = None
  /\ bound = [h \in Handles |-> 0]
  /\ buckets = IF bucket = <<>> THEN {} ELSE ToSet(BucketNames)
  /\ closed = [h \in Handles |-> FALSE] /\ mutex = [h \in Handles |-> None]
  /\ closer = [g \in Closers |-> "no"]

Goto(h, where) == at' = [at EXCEPT ![h] = where]

-----------------------------------------------------------------------------
(* Opening *)

\* Callers of Open keep to one open of a directory at a time.
Alone(h) == \A o \in Handles \ {h} : at[o] \in {"idle", "closed"}

\* Options are resolved; a bad combination opens nothing.
Open(h) ==
  /\ at[h] = "idle"
  /\ \/ mode = "embedded" /\ Alone(h) /\ Goto(h, "dir")
     \/ mode = "remote" /\ Goto(h, "dial")
  /\ UNCHANGED <<mode, server, conn, lock, storeVars, kvVars>>

LockFree == lock = None

\* A non-blocking flock: held elsewhere it is refused, here as in another
\* process.
AcquireLock(h) ==
  /\ at[h] = "idle" /\ mode = "locked"
  /\ \/ LockFree /\ lock' = h /\ Goto(h, "dir")
     \/ UNCHANGED lock /\ Goto(h, "idle")
  /\ UNCHANGED <<mode, server, conn, storeVars, kvVars>>

\* openEngineAt, and what Open and OpenLockedEngine go on to.
StartServer(h) ==
  /\ at[h] = "dir" /\ Goto(h, "ready")
  /\ server' = [server EXCEPT ![h] = TRUE]
  /\ UNCHANGED <<mode, conn, lock, storeVars, kvVars>>

Ready(h) ==
  /\ at[h] = "ready" /\ Goto(h, "connect")
  /\ UNCHANGED <<mode, server, conn, lock, storeVars, kvVars>>

Connect(h) ==
  /\ at[h] \in {"connect", "dial"}
  /\ Goto(h, IF at[h] = "dial" THEN "wire" ELSE "bind")
  /\ conn' = [conn EXCEPT ![h] = TRUE]
  /\ UNCHANGED <<mode, server, lock, storeVars, kvVars>>

Bind(h) ==
  /\ at[h] = "bind" /\ Goto(h, IF mode = "locked" THEN "open" ELSE "path")
  /\ UNCHANGED <<mode, server, conn, lock, storeVars, kvVars>>

CanonicalPath(h) ==
  /\ at[h] = "path" /\ Goto(h, "wire")
  /\ UNCHANGED <<mode, server, conn, lock, storeVars, kvVars>>

\* provisionBuckets creates the next bucket, or binds the one that is there.
Provision(h) ==
  /\ at[h] = "wire" /\ bound[h] < Len(BucketNames)
  /\ bound' = [bound EXCEPT ![h] = @ + 1]
  /\ buckets' = buckets \cup {BucketNames[bound[h] + 1]}
  /\ UNCHANGED <<mode, engineVars, closed, mutex, closer, kvVars>>

Wired(h) == bound[h] = Len(BucketNames)

NewStore(h) ==
  /\ at[h] = "wire" /\ Wired(h) /\ Goto(h, "open")
  /\ UNCHANGED <<mode, server, conn, lock, storeVars, kvVars>>

\* What the error path of each step undoes.
StopsServer(step) == step \in {"ready", "connect", "bind", "path", "wire"}
ClosesConn(step) == step \in {"bind", "path", "wire"}

Opening == {"dir", "ready", "connect", "bind", "path", "wire", "dial"}

OpenFails(h) ==
  /\ at[h] \in Opening
  /\ server' = [server EXCEPT ![h] = @ /\ ~StopsServer(at[h])]
  /\ conn' = [conn EXCEPT ![h] = @ /\ ~ClosesConn(at[h])]
  /\ bound' = [bound EXCEPT ![h] = 0]
  /\ Goto(h, IF mode = "locked" THEN "undo" ELSE "idle")
  /\ UNCHANGED <<mode, lock, buckets, closed, mutex, closer, kvVars>>

\* OpenLockedEngine gives the lock back; LockedEngine.Close does, after the engine
\* has shut down.
Unlock(h) ==
  /\ at[h] \in {"undo", "release"}
  /\ lock' = None
  /\ Goto(h, IF at[h] = "undo" THEN "idle" ELSE "closed")
  /\ UNCHANGED <<mode, server, conn, storeVars, kvVars>>

-----------------------------------------------------------------------------
(* Closing *)

ClosersOf(h) == {g \in Closers : CloserOf[g] = h}
CallsOf(h) == {c \in Calls : HandleOf[c] = h}

\* LockedEngine.Close, by its one owner: drain, and shut the server down.
DrainEngine(h) ==
  /\ mode = "locked" /\ at[h] = "open" /\ Goto(h, "shutdown")
  /\ conn' = [conn EXCEPT ![h] = FALSE]
  /\ UNCHANGED <<mode, server, lock, storeVars, kvVars>>

ShutdownEngineUnlocking(h) ==
  /\ at[h] = "shutdown" /\ Goto(h, "release")
  /\ lock' = None
  /\ UNCHANGED <<mode, server, conn, storeVars, kvVars>>

ShutdownEngine(h) ==
  /\ at[h] = "shutdown" /\ Goto(h, "release")
  /\ server' = [server EXCEPT ![h] = FALSE]
  /\ UNCHANGED <<mode, conn, lock, storeVars, kvVars>>

SetCloser(g, where) == closer' = [closer EXCEPT ![g] = where]

CallClose(h, g) ==
  /\ mode # "locked" /\ at[h] \in {"open", "closed"} /\ closer[g] = "no"
  /\ SetCloser(g, "called")
  /\ UNCHANGED <<mode, engineVars, bound, buckets, closed, mutex, kvVars>>

MutexFree(h) == mutex[h] = None

\* Only the first Close does anything; the others return once it is over.
EnterClose(h, g) ==
  /\ closer[g] = "called" /\ MutexFree(h)
  /\ IF closed[h]
     THEN SetCloser(g, "done") /\ UNCHANGED <<closed, mutex>>
     ELSE /\ SetCloser(g, "views")
          /\ closed' = [closed EXCEPT ![h] = TRUE]
          /\ mutex' = [mutex EXCEPT ![h] = g]
  /\ UNCHANGED <<mode, engineVars, bound, buckets, kvVars>>

AfterViewsIfStopped(stopped) == IF stopped THEN "backend" ELSE "over"

\* The backend is closed whether or not the views stopped in time.
AfterViews(stopped) == "backend"

StopViews(h, g, stopped) ==
  /\ closer[g] = "views"
  /\ SetCloser(g, AfterViews(stopped))
  /\ UNCHANGED <<mode, engineVars, bound, buckets, closed, mutex, kvVars>>

\* closeBackend: Engine.Close drains and then shuts down, a remote connection is
\* drained only.  Drain works on in the background: calls may still be answered.
DrainBackend(h, g) ==
  /\ closer[g] = "backend"
  /\ conn' = [conn EXCEPT ![h] = FALSE]
  /\ SetCloser(g, IF mode = "embedded" THEN "shutdown" ELSE "over")
  /\ UNCHANGED <<mode, at, server, lock, bound, buckets, closed, mutex, kvVars>>

\* Requests the server has not served are gone with it.
Lose(cs) == pending' = pending \ cs /\ late' = late \ cs

ShutdownBackend(h, g) ==
  /\ closer[g] = "shutdown"
  /\ server' = [server EXCEPT ![h] = FALSE]
  /\ Lose(CallsOf(h))
  /\ SetCloser(g, "over")
  /\ UNCHANGED <<mode, at, conn, lock, bound, buckets, closed, mutex,
                 bucket, pc, op, reply, err, named, listing, answer, began, ended>>

EndCloseLocked(h, g) ==
  /\ closer[g] = "over"
  /\ SetCloser(g, "done")
  /\ Goto(h, "closed")
  /\ UNCHANGED <<mode, server, conn, lock, bound, buckets, closed, mutex, kvVars>>

\* Close returns the joined errors, and its deferred unlock runs.
EndClose(h, g) ==
  /\ closer[g] = "over"
  /\ SetCloser(g, "done")
  /\ mutex' = [mutex EXCEPT ![h] = None]
  /\ Goto(h, "closed")
  /\ UNCHANGED <<mode, server, conn, lock, bound, buckets, closed, kvVars>>

-----------------------------------------------------------------------------
(* The end of a handle, and another beginning *)

Renewed(h) ==
  /\ Goto(h, "idle")
  /\ bound' = [bound EXCEPT ![h] = 0]
  /\ closed' = [closed EXCEPT ![h] = FALSE] /\ mutex' = [mutex EXCEPT ![h] = None]
  /\ closer' = [g \in Closers |-> IF CloserOf[g] = h THEN "no" ELSE closer[g]]

\* The caller reopens what it closed; every Close has returned.
Again(h) ==
  /\ at[h] = "closed"
  /\ \A g \in ClosersOf(h) : closer[g] \in {"no", "done"}
  /\ \A c \in CallsOf(h) : pc[c] # "sent"
  /\ Renewed(h)
  /\ UNCHANGED <<mode, server, conn, lock, buckets, kvVars>>

\* The process dies.  The kernel drops its lock; what it wrote stays; requests
\* on their way to a server of others may still arrive.
Crash(h) ==
  /\ at[h] \notin {"idle", "closed"}
  /\ Renewed(h)
  /\ server' = [server EXCEPT ![h] = FALSE] /\ conn' = [conn EXCEPT ![h] = FALSE]
  /\ lock' = IF lock = h THEN None ELSE lock
  /\ pc' = [c \in Calls |-> IF c \in CallsOf(h) /\ pc[c] = "sent" THEN "dead" ELSE pc[c]]
  /\ Lose(IF mode = "remote" THEN {} ELSE CallsOf(h))
  /\ Forget({c \in CallsOf(h) : pc[c] = "sent"})
  /\ UNCHANGED <<mode, buckets, bucket, op, err, named, answer, began, ended>>

-----------------------------------------------------------------------------
(* Calls through an open store *)

Begin(c) ==
  /\ mode # "locked" /\ at[HandleOf[c]] = "open"
  /\ \E o \in Requests[c] : Call(c, o)
  /\ UNCHANGED <<mode, engineVars, storeVars>>

Serve(c) ==
  /\ mode = "remote" \/ server[HandleOf[c]]
  /\ ServerStep(c)
  /\ UNCHANGED <<mode, engineVars, storeVars>>

Proceed(c) ==
  /\ ClientStep(c)
  /\ UNCHANGED <<mode, engineVars, storeVars>>

Engage(h) ==
  \/ StartServer(h) \/ Ready(h) \/ Connect(h) \/ Bind(h) \/ CanonicalPath(h)
  \/ Provision(h) \/ NewStore(h) \/ OpenFails(h) \/ Unlock(h) \/ ShutdownEngine(h)

Closing(h, g) ==
  \/ EnterClose(h, g) \/ \E stopped \in BOOLEAN : StopViews(h, g, stopped)
  \/ DrainBackend(h, g) \/ ShutdownBackend(h, g) \/ EndClose(h, g)

Next ==
  \/ \E h \in Handles :
       \/ Open(h) \/ AcquireLock(h) \/ Engage(h) \/ DrainEngine(h)
       \/ Again(h) \/ Crash(h)
       \/ \E g \in ClosersOf(h) : CallClose(h, g) \/ Closing(h, g)
  \/ \E c \in Calls : Begin(c) \/ Serve(c) \/ Proceed(c)

\* A Close that was called goes on: each of its waits is bounded by a timeout, or
\* by the mutex.  Nothing makes anyone open, close or call.
Fairness == \A g \in Closers : WF_vars(Closing(CloserOf[g], g))

Spec == Init /\ [][Next]_vars
FairSpec == Spec /\ Fairness

-----------------------------------------------------------------------------
(* Properties *)

\* Types of the store's and the engine's state.
TypeOK ==
  /\ KVTypeOK
  /\ mode \in {"embedded", "remote", "locked"}
  /\ at \in [Handles -> Opening \cup {"idle", "open", "shutdown", "undo", "release",
                                      "closed"}]
  /\ server \in [Handles -> BOOLEAN] /\ conn \in [Handles -> BOOLEAN]
  /\ lock \in Handles \cup {None}
  /\ bound \in [Handles -> 0..Len(BucketNames)] /\ buckets \subseteq ToSet(BucketNames)
  /\ closed \in [Handles -> BOOLEAN]
  /\ mutex \in [Handles -> Closers \cup {None}]
  /\ closer \in [Closers -> {"no", "called", "views", "backend", "shutdown", "over",
                             "done"}]

\* One server at most runs over the directory, through failed opens, closes and
\* crashes of processes that contend for it.
OneEngine == \A h, o \in Handles : server[h] /\ server[o] => h = o

\* An Open that failed left no server, no undrained connection and no lock behind,
\* and neither does a handle that is closed.  And whoever's Close has returned, be it a
\* second one called while the first was at it, or one whose views would not stop,
\* the backend is shut down (openEngineAt's error paths, Store.Close).
NothingLeaked ==
  /\ TypeOK
  /\ \A h \in Handles : at[h] \in {"idle", "closed"} =>
       ~server[h] /\ ~conn[h] /\ lock # h
  /\ \A g \in Closers : closer[g] = "done" => ~server[CloserOf[g]] /\ ~conn[CloserOf[g]]

\* Every Close returns, whatever fails and whoever else closes, unless its process
\* crashes.
CloseReturns ==
  \A g \in Closers : (closer[g] = "called") ~> (closer[g] \in {"done", "no"})

-----------------------------------------------------------------------------
(* The inductive invariant behind OneEngine and NothingLeaked *)

\* Which steps each way of opening goes through.
Places ==
  [embedded |-> {"idle", "dir", "ready", "connect", "bind", "path", "wire", "open",
                 "closed"},
   remote |-> {"idle", "dial", "wire", "open", "closed"},
   locked |-> {"idle", "dir", "ready", "connect", "bind", "open", "shutdown", "undo",
               "release", "closed"}]

\* What a handle has, by how far it has come: a server, a connection, the lock.
EngineSteps ==
  \A h \in Handles :
    /\ at[h] \in Places[mode]
    /\ server[h] => /\ mode # "remote"
                    /\ at[h] \in {"ready", "connect", "bind", "path", "wire", "open",
                                  "shutdown"}
    /\ conn[h] => at[h] \in {"bind", "path", "wire", "open"}
    /\ lock = h <=> mode = "locked" /\ at[h] \notin {"idle", "closed"}

\* Callers of Open keep to one open of a directory at a time.
OneDirectory ==
  mode = "embedded" =>
    \A h, o \in Handles : h = o \/ {at[h], at[o]} \cap {"idle", "closed"} # {}

\* A Close beyond its check of closed holds the mutex, and has done what its place
\* says; closed is set from there on.
CloseSteps ==
  /\ \A g \in Closers : LET h == CloserOf[g] IN
       /\ closer[g] \in {"views", "backend", "shutdown", "over"} <=> mutex[h] = g
       /\ closer[g] # "no" => mode # "locked" /\ at[h] \in {"open", "closed"}
       /\ closer[g] = "done" => at[h] = "closed"
       /\ closer[g] \in {"shutdown", "over"} => ~conn[h]
       /\ closer[g] = "over" => ~server[h]
  /\ \A h \in Handles :
       /\ mutex[h] # None => CloserOf[mutex[h]] = h /\ at[h] = "open" /\ closed[h]
       /\ closed[h] => at[h] = "closed" \/ mutex[h] # None
       /\ at[h] = "closed" /\ mode # "locked" => closed[h]

EngineInv == TypeOK /\ RequestsSent /\ EngineSteps /\ OneDirectory /\ CloseSteps
=============================================================================
