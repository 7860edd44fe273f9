----------------------------- MODULE OrderedView -----------------------------
(***************************************************************************)
(* The query half of the ordered index (ordered.go) in one process, for    *)
(* one namespace.  A view is a goroutine that keeps a consumer attached to *)
(* the namespace stream and folds each message into memory; a query reads  *)
(* the stream's tip, waits for the view's watermark to reach it, and reads *)
(* its page from memory.  A view that meets a foreign stream layout stops  *)
(* and a later query replaces it; Close stops whatever view is registered. *)
(*                                                                         *)
(* Writers are elsewhere: they are the Commit action.  The consumer is the *)
(* nats.go library's: it delivers the last message of every subject in     *)
(* sequence order, then whatever is published.                             *)
(***************************************************************************)
EXTENDS Integers, FiniteSets

CONSTANTS Ids, Counter, Queries,
          None,        \* no view, and no message
          MaxViews,    \* view instances the process may create
          MaxSeq,      \* messages published
          MaxDrops,    \* subscriptions that fail
          MaxSkips,    \* messages whose metadata does not parse
          MaxBreaks,   \* times the stream gets a foreign layout
          MaxBad,      \* record payloads that do not decode
          MaxRestarts  \* maxRetiredViewRestarts

Views == 1..MaxViews
Subjects == Ids \cup {Counter}

\* What the stream retains of a subject, and what a callback works on.
Messages == [seq : 0..MaxSeq, rev : 0..MaxSeq, bad : BOOLEAN]
Callbacks == [subject : Subjects, msg : Messages, applied : BOOLEAN]

ASSUME ConstantsAssumption ==
  /\ Counter \notin Ids
  /\ MaxViews \in Nat \ {0} /\ MaxSeq \in Nat /\ MaxDrops \in Nat
  /\ MaxSkips \in Nat /\ MaxBreaks \in Nat /\ MaxBad \in Nat
  /\ MaxRestarts \in Nat
  /\ None \notin Nat /\ None \notin Callbacks

\* Two callbacks may run at once: the subscription's, and the one a dropped
\* subscription left behind.
Slots == {"cur", "late"}

VARIABLES
  layout,    \* the namespace stream: "absent", "ours" or "foreign"
  seq,       \* its last sequence
  head,      \* the one message each subject retains
  run,       \* where each view's goroutine is
  seen,      \* the layout it last looked up
  cancelled, \* whether its context is cancelled
  fatal,     \* its sticky error: "none", "config" or "corrupt"
  mark,      \* its watermark
  held,      \* the revision of each record it holds
  pos,       \* the sequence its consumer has delivered through
  buf,       \* the messages its callbacks are working on
  registry,  \* the namespace's entry of the store's view map
  closed,    \* whether the store is closed
  stopping,  \* where the Close call is
  owed,      \* the view it waits for
  pc,        \* where each query is
  at,        \* the view it acquired
  created,   \* whether it created that view
  restarts,  \* how often it replaced a retired view
  target,    \* the tip it waits for
  res,       \* what it returned
  page,      \* the revisions its page was read from
  floor,     \* history: the revisions in the stream when it began
  drops, skips, breaks, bads  \* faults that happened

streamVars == <<layout, seq, head>>
viewVars == <<run, seen, cancelled, fatal, mark, held, pos, buf>>
storeVars == <<registry, closed, stopping, owed>>
queryVars == <<pc, at, created, restarts, target, res, page, floor>>
faultVars == <<drops, skips, breaks, bads>>
vars == <<streamVars, viewVars, storeVars, queryVars, faultVars>>

NoMessage == [seq |-> 0, rev |-> 0, bad |-> FALSE]

Init ==
  /\ layout = "absent" /\ seq = 0
  /\ head = [s \in Subjects |-> NoMessage]
  /\ run = [v \in Views |-> "unborn"]
  /\ seen = [v \in Views |-> "absent"]
  /\ cancelled = [v \in Views |-> FALSE]
  /\ fatal = [v \in Views |-> "none"]
  /\ mark = [v \in Views |-> 0]
  /\ held = [v \in Views |-> [i \in Ids |-> 0]]
  /\ pos = [v \in Views |-> 0]
  /\ buf = [v \in Views |-> [s \in Slots |-> None]]
  /\ registry = None /\ closed = FALSE /\ stopping = "no" /\ owed = None
  /\ pc = [q \in Queries |-> "idle"] /\ at = [q \in Queries |-> None]
  /\ created = [q \in Queries |-> FALSE] /\ restarts = [q \in Queries |-> 0]
  /\ target = [q \in Queries |-> 0] /\ res = [q \in Queries |-> "none"]
  /\ page = [q \in Queries |-> [i \in Ids |-> 0]]
  /\ floor = [q \in Queries |-> [i \in Ids |-> 0]]
  /\ drops = 0 /\ skips = 0 /\ breaks = 0 /\ bads = 0

-----------------------------------------------------------------------------
(* The stream, as other processes and its operator change it *)

\* A mutation commits.  The first version of a record comes with the counter,
\* one sequence before it.  A writer that verified the stream keeps the verdict,
\* so commits go on under a layout that turned foreign.
Commit(i, bad) ==
  /\ layout # "foreign" \/ seq > 0
  /\ ~head[i].bad
  /\ bad => bads < MaxBad
  /\ LET first == head[i].rev = 0
         last == IF first THEN seq + 2 ELSE seq + 1
     IN /\ last <= MaxSeq
        /\ seq' = last
        /\ head' = [s \in Subjects |->
             CASE s = i -> [seq |-> last, rev |-> head[i].rev + 1, bad |-> bad]
               [] s = Counter /\ first -> [NoMessage EXCEPT !.seq = seq + 1]
               [] OTHER -> head[s]]
  /\ layout' = IF layout = "absent" THEN "ours" ELSE layout
  /\ bads' = IF bad THEN bads + 1 ELSE bads
  /\ UNCHANGED <<viewVars, storeVars, queryVars, drops, skips, breaks>>

Break ==
  /\ layout # "foreign" /\ breaks < MaxBreaks
  /\ layout' = "foreign"
  /\ breaks' = breaks + 1
  /\ UNCHANGED <<seq, head, viewVars, storeVars, queryVars, drops, skips, bads>>

Repair ==
  /\ layout = "foreign"
  /\ layout' = "ours"
  /\ UNCHANGED <<seq, head, viewVars, storeVars, queryVars, faultVars>>

-----------------------------------------------------------------------------
(* A view's goroutine *)

Running(v) == run[v] \notin {"unborn", "exited"}

\* watchStream looks the stream up; while there is none, run backs off and asks
\* again.
Lookup(v) ==
  /\ run[v] = "attach" /\ layout # "absent"
  /\ seen' = [seen EXCEPT ![v] = layout]
  /\ run' = [run EXCEPT ![v] = "verify"]
  /\ UNCHANGED <<cancelled, fatal, mark, held, pos, buf,
                 streamVars, storeVars, queryVars, faultVars>>

AttachResuming(v) ==
  /\ run[v] = "verify" /\ seen[v] = "ours"
  /\ run' = [run EXCEPT ![v] = "watch"]
  /\ UNCHANGED <<seen, cancelled, fatal, mark, held, pos, buf,
                 streamVars, storeVars, queryVars, faultVars>>

\* The layout is right: subscribe, from the last message of every subject.
Attach(v) ==
  /\ run[v] = "verify" /\ seen[v] = "ours"
  /\ run' = [run EXCEPT ![v] = "watch"]
  /\ pos' = [pos EXCEPT ![v] = 0]
  /\ UNCHANGED <<seen, cancelled, fatal, mark, held, buf,
                 streamVars, storeVars, queryVars, faultVars>>

\* The first fatal error sticks, and the view's context is cancelled.
SetFatal(v, kind) ==
  /\ fatal' = [fatal EXCEPT ![v] = IF @ = "none" THEN kind ELSE @]
  /\ cancelled' = [cancelled EXCEPT ![v] = TRUE]

\* The layout is foreign: waiters are woken with the error before the goroutine
\* has returned.  Close may have cancelled the view after run looked at its
\* context, so a cancelled view can still be rejected.
Reject(v) ==
  /\ run[v] = "verify" /\ seen[v] = "foreign"
  /\ SetFatal(v, "config")
  /\ run' = [run EXCEPT ![v] = "ending"]
  /\ UNCHANGED <<seen, mark, held, pos, buf,
                 streamVars, storeVars, queryVars, faultVars>>

\* The goroutine notices its cancelled context, drops its consumer, and done
\* closes.
Exit(v) ==
  /\ cancelled[v] /\ Running(v)
  /\ run' = [run EXCEPT ![v] = "exited"]
  /\ UNCHANGED <<seen, cancelled, fatal, mark, held, pos, buf,
                 streamVars, storeVars, queryVars, faultVars>>

Undelivered(v) == {s \in Subjects : head[s].seq > pos[v]}

Upcoming(v) ==
  CHOOSE s \in Undelivered(v) : \A t \in Undelivered(v) : head[s].seq <= head[t].seq

\* The consumer hands its next message to the callback.
Fetch(v) ==
  /\ run[v] \in {"watch", "failing"} /\ buf[v]["cur"] = None /\ Undelivered(v) # {}
  /\ LET s == Upcoming(v)
     IN /\ pos' = [pos EXCEPT ![v] = head[s].seq]
        /\ buf' = [buf EXCEPT ![v]["cur"] =
             [subject |-> s, msg |-> head[s], applied |-> FALSE]]
  /\ UNCHANGED <<run, seen, cancelled, fatal, mark, held,
                 streamVars, storeVars, queryVars, faultVars>>

\* Its metadata does not parse: the callback reports a failure and drops it.
Skip(v) ==
  /\ run[v] \in {"watch", "failing"} /\ buf[v]["cur"] = None /\ Undelivered(v) # {}
  /\ skips < MaxSkips
  /\ pos' = [pos EXCEPT ![v] = head[Upcoming(v)].seq]
  /\ run' = [run EXCEPT ![v] = "failing"]
  /\ skips' = skips + 1
  /\ UNCHANGED <<seen, cancelled, fatal, mark, held, buf,
                 streamVars, storeVars, queryVars, drops, breaks, bads>>

\* The subscription fails; the callback may be handed more before watchStream
\* returns.
WatchFails(v) ==
  /\ run[v] = "watch" /\ drops < MaxDrops
  /\ run' = [run EXCEPT ![v] = "failing"]
  /\ drops' = drops + 1
  /\ UNCHANGED <<seen, cancelled, fatal, mark, held, pos, buf,
                 streamVars, storeVars, queryVars, skips, breaks, bads>>

\* watchStream returns with the failure and run goes round.  A callback still
\* working is not waited for.
Reattach(v) ==
  /\ run[v] = "failing"
  /\ run' = [run EXCEPT ![v] = "attach"]
  /\ buf' = [buf EXCEPT ![v] =
       [cur |-> None, late |-> IF @["cur"] # None THEN @["cur"] ELSE @["late"]]]
  /\ UNCHANGED <<seen, cancelled, fatal, mark, held, pos,
                 streamVars, storeVars, queryVars, faultVars>>

NewerUnchecked(v, i, rev) == TRUE

\* applyRecord ignores a revision no newer than the one held.
Newer(v, i, rev) == rev > held[v][i]

\* applyMessage, up to advance: a record is decoded and upserted, or is fatal.
ApplySkippingBad(v, s) ==
  /\ buf[v][s] # None /\ ~buf[v][s].applied
  /\ LET subject == buf[v][s].subject
         msg == buf[v][s].msg
     IN held' = IF subject # Counter /\ ~msg.bad /\ Newer(v, subject, msg.rev)
                THEN [held EXCEPT ![v][subject] = msg.rev]
                ELSE held
  /\ buf' = [buf EXCEPT ![v][s].applied = TRUE]
  /\ UNCHANGED <<run, seen, cancelled, fatal, mark, pos, streamVars, storeVars,
                 queryVars, faultVars>>

Apply(v, s) ==
  /\ buf[v][s] # None /\ ~buf[v][s].applied
  /\ LET subject == buf[v][s].subject
         msg == buf[v][s].msg
     IN IF msg.bad
        THEN /\ SetFatal(v, "corrupt")
             /\ buf' = [buf EXCEPT ![v][s] = None]
             /\ UNCHANGED held
        ELSE /\ held' = IF subject # Counter /\ Newer(v, subject, msg.rev)
                        THEN [held EXCEPT ![v][subject] = msg.rev]
                        ELSE held
             /\ buf' = [buf EXCEPT ![v][s].applied = TRUE]
             /\ UNCHANGED <<fatal, cancelled>>
  /\ UNCHANGED <<run, seen, mark, pos, streamVars, storeVars, queryVars, faultVars>>

\* advance, under its own lock: raise the watermark, never lower it.
Advance(v, s) ==
  /\ buf[v][s] # None /\ buf[v][s].applied
  /\ mark' = [mark EXCEPT ![v] = IF buf[v][s].msg.seq > @ THEN buf[v][s].msg.seq
                                                          ELSE @]
  /\ buf' = [buf EXCEPT ![v][s] = None]
  /\ UNCHANGED <<run, seen, cancelled, fatal, held, pos,
                 streamVars, storeVars, queryVars, faultVars>>

-----------------------------------------------------------------------------
(* A query *)

Return(q, what) ==
  /\ pc' = [pc EXCEPT ![q] = "done"]
  /\ res' = [res EXCEPT ![q] = what]

\* acquireView: the registered view, or a new one whose goroutine it starts.
Acquire(q) ==
  IF closed
  THEN Return(q, "closed") /\ UNCHANGED <<run, registry, at, created>>
  ELSE IF registry # None
  THEN /\ at' = [at EXCEPT ![q] = registry]
       /\ created' = [created EXCEPT ![q] = FALSE]
       /\ pc' = [pc EXCEPT ![q] = "check"]
       /\ UNCHANGED <<run, registry, res>>
  ELSE \E v \in Views :
       /\ run[v] = "unborn" /\ \A w \in Views : w < v => run[w] # "unborn"
       /\ registry' = v
       /\ run' = [run EXCEPT ![v] = "attach"]
       /\ at' = [at EXCEPT ![q] = v]
       /\ created' = [created EXCEPT ![q] = TRUE]
       /\ pc' = [pc EXCEPT ![q] = "check"]
       /\ UNCHANGED res

Begin(q) ==
  /\ pc[q] = "idle"
  /\ floor' = [floor EXCEPT ![q] = [i \in Ids |-> head[i].rev]]
  /\ Acquire(q)
  /\ UNCHANGED <<restarts, target, page, seen, cancelled, fatal, mark, held, pos, buf,
                 closed, stopping, owed, streamVars, faultVars>>

\* Only a layout can be repaired behind a view's back.
Repairable(kind) == kind = "config"

\* A fatal error the view had before this query is retried once on a new view;
\* one of a view the query itself created is its answer.
Check(q) ==
  /\ pc[q] = "check"
  /\ LET f == fatal[at[q]]
     IN IF f = "none"
        THEN pc' = [pc EXCEPT ![q] = "tip"] /\ UNCHANGED res
        ELSE IF ~created[q] /\ restarts[q] < MaxRestarts /\ Repairable(f)
        THEN pc' = [pc EXCEPT ![q] = "retire"] /\ UNCHANGED res
        ELSE Return(q, f)
  /\ UNCHANGED <<at, created, restarts, target, page, floor,
                 streamVars, viewVars, storeVars, faultVars>>

RetirableAtOnce(v) == TRUE

\* The goroutine of a view to retire has returned.
Retirable(v) == run[v] = "exited"

UnregisterAny(v) == registry' = None

\* Drop the view from the registry, unless another query already replaced it.
Unregister(v) == registry' = IF registry = v THEN None ELSE registry

Retire(q) ==
  /\ pc[q] = "retire" /\ Retirable(at[q])
  /\ Unregister(at[q])
  /\ restarts' = [restarts EXCEPT ![q] = @ + 1]
  /\ pc' = [pc EXCEPT ![q] = "reacquire"]
  /\ UNCHANGED <<at, created, target, res, page, floor, closed, stopping, owed,
                 streamVars, viewVars, faultVars>>

Reacquire(q) ==
  /\ pc[q] = "reacquire"
  /\ Acquire(q)
  /\ UNCHANGED <<restarts, target, page, floor, seen, cancelled, fatal, mark, held,
                 pos, buf, closed, stopping, owed, streamVars, faultVars>>

\* streamTip: the last sequence of the stream, zero when there is none.
ReadTip(q) ==
  /\ pc[q] = "tip"
  /\ target' = [target EXCEPT ![q] = seq]
  /\ pc' = [pc EXCEPT ![q] = "barrier"]
  /\ UNCHANGED <<at, created, restarts, res, page, floor,
                 streamVars, viewVars, storeVars, faultVars>>

CaughtUpAlmost(q) == mark[at[q]] + 1 >= target[q]

\* The view has applied through the tip.
CaughtUp(q) == mark[at[q]] >= target[q]

BarrierPassed(q) ==
  /\ pc[q] = "barrier" /\ fatal[at[q]] = "none" /\ CaughtUp(q)
  /\ pc' = [pc EXCEPT ![q] = "read"]
  /\ UNCHANGED <<at, created, restarts, target, res, page, floor,
                 streamVars, viewVars, storeVars, faultVars>>

\* The view died under the query: a repairable one is retired for the next.
BarrierFatal(q) ==
  /\ pc[q] = "barrier" /\ fatal[at[q]] # "none"
  /\ IF Repairable(fatal[at[q]])
     THEN pc' = [pc EXCEPT ![q] = "discard"] /\ UNCHANGED res
     ELSE Return(q, fatal[at[q]])
  /\ UNCHANGED <<at, created, restarts, target, page, floor,
                 streamVars, viewVars, storeVars, faultVars>>

BarrierIgnoresDone(q) == FALSE

\* The view stopped with no error of its own.  Its select may also take done
\* when the watermark has just arrived.
BarrierStopped(q) ==
  /\ pc[q] = "barrier" /\ fatal[at[q]] = "none" /\ run[at[q]] = "exited"
  /\ Return(q, "closed")
  /\ UNCHANGED <<at, created, restarts, target, page, floor,
                 streamVars, viewVars, storeVars, faultVars>>

Discard(q) ==
  /\ pc[q] = "discard" /\ Retirable(at[q])
  /\ Unregister(at[q])
  /\ Return(q, fatal[at[q]])
  /\ UNCHANGED <<at, created, restarts, target, page, floor, closed, stopping, owed,
                 streamVars, viewVars, faultVars>>

\* The listing, under the view's lock again.
ReadPage(q) ==
  /\ pc[q] = "read"
  /\ page' = [page EXCEPT ![q] = held[at[q]]]
  /\ Return(q, "page")
  /\ UNCHANGED <<at, created, restarts, target, floor,
                 streamVars, viewVars, storeVars, faultVars>>

\* The caller gives up, or the tip cannot be read.
GiveUp(q) ==
  /\ pc[q] \in {"tip", "barrier", "retire", "discard"}
  /\ Return(q, "error")
  /\ UNCHANGED <<at, created, restarts, target, page, floor,
                 streamVars, viewVars, storeVars, faultVars>>

-----------------------------------------------------------------------------
(* Close; a second one returns at once and changes nothing *)

CloseWithoutCancel ==
  /\ ~closed
  /\ closed' = TRUE /\ registry' = None
  /\ owed' = registry
  /\ stopping' = IF registry = None THEN "stopped" ELSE "waiting"
  /\ UNCHANGED <<run, seen, cancelled, fatal, mark, held, pos, buf,
                 streamVars, queryVars, faultVars>>

Close ==
  /\ ~closed
  /\ closed' = TRUE /\ registry' = None
  /\ owed' = registry
  /\ stopping' = IF registry = None THEN "stopped" ELSE "waiting"
  /\ cancelled' = [v \in Views |-> cancelled[v] \/ v = registry]
  /\ UNCHANGED <<run, seen, fatal, mark, held, pos, buf,
                 streamVars, queryVars, faultVars>>

Stopped ==
  /\ stopping = "waiting" /\ run[owed] = "exited"
  /\ stopping' = "stopped"
  /\ UNCHANGED <<registry, closed, owed, streamVars, viewVars, queryVars, faultVars>>

\* OrderedViewStopTimeoutError
StopTimesOut ==
  /\ stopping = "waiting"
  /\ stopping' = "timeout"
  /\ UNCHANGED <<registry, closed, owed, streamVars, viewVars, queryVars, faultVars>>

-----------------------------------------------------------------------------

Goroutine(v) ==
  \/ Lookup(v) \/ Attach(v) \/ Reject(v) \/ Exit(v) \/ Fetch(v) \/ Reattach(v)
  \/ Apply(v, "cur") \/ Advance(v, "cur")

Query(q) ==
  \/ Check(q) \/ Retire(q) \/ Reacquire(q) \/ ReadTip(q)
  \/ BarrierPassed(q) \/ BarrierFatal(q) \/ BarrierStopped(q)
  \/ Discard(q) \/ ReadPage(q)

Next ==
  \/ \E i \in Ids, bad \in BOOLEAN : Commit(i, bad)
  \/ Break \/ Repair
  \/ \E v \in Views : \/ Goroutine(v) \/ WatchFails(v) \/ Skip(v)
                      \/ Apply(v, "late") \/ Advance(v, "late")
  \/ \E q \in Queries : Begin(q) \/ Query(q) \/ GiveUp(q)
  \/ Close \/ Stopped \/ StopTimesOut

Spec == Init /\ [][Next]_vars

\* Goroutines and queries are scheduled and the consumer delivers; no caller
\* need give up, no subscription need fail and nobody need repair anything.
FairSpec ==
  /\ Spec
  /\ \A v \in Views : WF_vars(Goroutine(v))
  /\ \A q \in Queries : WF_vars(Query(q))
  /\ WF_vars(Stopped)

-----------------------------------------------------------------------------
(* Properties *)

StreamTypes ==
  /\ layout \in {"absent", "ours", "foreign"}
  /\ seq \in 0..MaxSeq /\ head \in [Subjects -> Messages]

ViewTypes ==
  /\ run \in [Views -> {"unborn", "attach", "verify", "watch", "failing", "ending",
                        "exited"}]
  /\ seen \in [Views -> {"absent", "ours", "foreign"}]
  /\ cancelled \in [Views -> BOOLEAN]
  /\ fatal \in [Views -> {"none", "config", "corrupt"}]
  /\ mark \in [Views -> 0..MaxSeq] /\ held \in [Views -> [Ids -> 0..MaxSeq]]
  /\ pos \in [Views -> 0..MaxSeq]
  /\ buf \in [Views -> [Slots -> Callbacks \cup {None}]]

StoreTypes ==
  /\ registry \in Views \cup {None} /\ owed \in Views \cup {None}
  /\ closed \in BOOLEAN /\ stopping \in {"no", "waiting", "stopped", "timeout"}

QueryTypes ==
  /\ pc \in [Queries -> {"idle", "check", "retire", "reacquire", "tip", "barrier",
                         "discard", "read", "done"}]
  /\ at \in [Queries -> Views \cup {None}]
  /\ created \in [Queries -> BOOLEAN] /\ restarts \in [Queries -> 0..MaxRestarts]
  /\ target \in [Queries -> 0..MaxSeq]
  /\ res \in [Queries -> {"none", "page", "config", "corrupt", "closed", "error"}]
  /\ page \in [Queries -> [Ids -> 0..MaxSeq]] /\ floor \in [Queries -> [Ids -> 0..MaxSeq]]

FaultTypes ==
  /\ drops \in 0..MaxDrops /\ skips \in 0..MaxSkips
  /\ breaks \in 0..MaxBreaks /\ bads \in 0..MaxBad

\* Type invariant: the stream, the views, the registry and the queries stay
\* within the values their Go types and constants allow.
TypeOK == StreamTypes /\ ViewTypes /\ StoreTypes /\ QueryTypes /\ FaultTypes

\* What the watermark means: a view with no error holds every record whose
\* message is at or below it, through failed subscriptions, redelivery from the
\* start and callbacks that outlive their subscription (run, applyMessage).  The
\* types are checked along with it.
MarkCovers ==
  /\ TypeOK
  /\ \A v \in Views, i \in Ids :
       fatal[v] = "none" /\ head[i].seq <= mark[v] => held[v][i] = head[i].rev

\* A page reflects every record that was committed before the query began and
\* that nobody has written since, and is never served over one of them that did
\* not decode (readyView).
PageCurrent ==
  \A q \in Queries : res[q] = "page" =>
    \A i \in Ids : page[q][i] >= floor[q][i] \/ head[i].rev > floor[q][i]

\* The view never goes back: no step lowers its watermark or a revision it
\* holds, so a barrier once passed stays passed (applyRecord, advance).
ViewMonotone ==
  [][\A v \in Views : mark'[v] >= mark[v] /\ \A i \in Ids : held'[v][i] >= held[v][i]]_vars

\* The namespace has at most one goroutine and subscription, also while queries
\* retire a view and race to replace it (evictRepairableFatal).
OneGoroutine ==
  \A v, w \in Views : Running(v) /\ Running(w) => v = w

\* Once Close has returned nil no goroutine runs and none starts, whichever
\* query was retiring or acquiring a view at the time.
CloseStops == stopping = "stopped" => \A v \in Views : ~Running(v)

\* A query returns, with no deadline of its own: the barrier is always reached,
\* or the view dies with a reason.
QueriesReturn == \A q \in Queries : (pc[q] # "idle") ~> (pc[q] = "done")

\* Close returns, with no deadline of its own.
CloseReturns == (stopping = "waiting") ~> (stopping # "waiting")

-----------------------------------------------------------------------------
(* A statement of the code's comments that its behaviour contradicts *)

\* What waitBarrier's comment says: a page reflects at least the state that
\* existed when the query began, whatever is written meanwhile.
PageFresh ==
  \A q \in Queries : res[q] = "page" =>
    \A i \in Ids : page[q][i] >= floor[q][i]

-----------------------------------------------------------------------------
(* What the proofs need besides: an inductive strengthening of the above *)

\* The stream's subjects hold different messages, none newer than its tip, and a
\* record has a message once it has a revision.
StreamInv ==
  /\ \A s \in Subjects : head[s].seq <= seq /\ head[s].rev <= head[s].seq
  /\ \A i \in Ids : head[i].rev = 0 => head[i].seq = 0
  /\ head[Counter].rev = 0
  /\ \A s, t \in Subjects : head[s].seq = head[t].seq /\ head[s].seq > 0 => s = t

\* Where queries and Close are allows what they do next.
QuerySteps ==
  /\ \A q \in Queries : pc[q] \notin {"idle", "done"} => at[q] \in Views
  /\ \A q \in Queries : pc[q] = "retire" => restarts[q] < MaxRestarts
  /\ stopping = "waiting" => owed \in Views

\* Only the registered view's goroutine runs, or the one Close took over.
RunnerKnown ==
  /\ \A v \in Views : Running(v) => v = registry \/ (closed /\ v = owed)
  /\ closed => registry = None
  /\ stopping # "no" => closed
  /\ stopping = "stopped" /\ owed \in Views => run[owed] = "exited"

\* A message read from the stream is its subject's last, or an older one.
Retained(subject, msg) ==
  /\ msg.seq <= head[subject].seq /\ msg.rev <= head[subject].rev
  /\ msg.seq = head[subject].seq => msg = head[subject]

\* The view holds every record whose message is at or below n, but the one a
\* callback has not applied yet.
HoldsThrough(v, n, slot) ==
  \A i \in Ids : head[i].seq <= n =>
    \/ held[v][i] = head[i].rev
    \/ /\ buf[v][slot] # None /\ ~buf[v][slot].applied
       /\ buf[v][slot].subject = i /\ buf[v][slot].msg = head[i]

\* A view runs behind the stream, and so do its callbacks.
Behind(v) ==
  /\ mark[v] <= seq /\ pos[v] <= seq
  /\ \A i \in Ids : held[v][i] <= head[i].rev
  /\ \A s \in Slots : buf[v][s] # None => Retained(buf[v][s].subject, buf[v][s].msg)

\* While a view has no error, all that comes before what its callbacks work on is
\* applied, and all its subscription delivered is applied or with the callback.
ViewCovers(v) ==
  fatal[v] = "none" =>
    /\ \A i \in Ids : head[i].seq <= mark[v] => held[v][i] = head[i].rev
    /\ \A s \in Slots : buf[v][s] # None => HoldsThrough(v, buf[v][s].msg.seq, s)
    /\ run[v] \in {"watch", "failing"} => HoldsThrough(v, pos[v], "cur")

\* What a query is owed of record i: it is past what the query began with, or
\* will be in the page.
QueryOwed(q, i) ==
  /\ floor[q][i] <= head[i].rev
  /\ pc[q] = "barrier" => head[i].rev > floor[q][i] \/ head[i].seq <= target[q]
  /\ pc[q] = "read" => head[i].rev > floor[q][i] \/ held[at[q]][i] >= floor[q][i]
  /\ res[q] = "page" =>
       pc[q] = "done" /\ (head[i].rev > floor[q][i] \/ page[q][i] >= floor[q][i])

StreamAndCalls == TypeOK /\ StreamInv /\ QuerySteps

\* All of it; what the watermark means only until a message is skipped.
ViewInv ==
  /\ StreamAndCalls /\ RunnerKnown /\ \A v \in Views : Behind(v)
  /\ skips = 0 => /\ \A v \in Views : ViewCovers(v)
                  /\ \A q \in Queries, i \in Ids : QueryOwed(q, i)
=============================================================================
