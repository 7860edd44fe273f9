-------------------------- MODULE OrderedViewProofs --------------------------
(***************************************************************************)
(* Proofs about OrderedView, for any identities, queries and bounds.  The  *)
(* stream and the steps of the calls come first; then who runs, what the   *)
(* watermark means, and what a page owes its query.                        *)
(***************************************************************************)
EXTENDS OrderedView, WellFoundedInduction, TLAPS

USE ConstantsAssumption

-----------------------------------------------------------------------------
(* Types and the steps of calls *)

\* The naturals are well founded.
LEMMA LeastSequence ==
  ASSUME NEW T, T \subseteq Nat, T # {}
  PROVE  \E m \in T : \A n \in T : m <= n
<1> DEFINE R == OpToRel(<, Nat)
<1>1. IsWellFoundedOn(R, Nat)
  BY NatLessThanWellFounded
<1>2. \A x, y \in Nat : y < x => <<y, x>> \in R
  BY DEF OpToRel
<1> HIDE DEF R
<1>3. PICK x \in T : \A y \in T : ~ (<<y, x>> \in R)
  BY <1>1, WFMin
<1>4. \A y \in T : ~(y < x)
  BY <1>2, <1>3
<1> QED BY <1>4

\* The consumer's next message is the oldest one it has not delivered.
LEMMA NextMessage ==
  ASSUME StreamTypes, NEW v \in Views, Undelivered(v) # {}
  PROVE  /\ Upcoming(v) \in Subjects /\ head[Upcoming(v)].seq > pos[v]
         /\ \A t \in Subjects : head[t].seq > pos[v] => head[Upcoming(v)].seq <= head[t].seq
<1> DEFINE T == {head[s].seq : s \in Undelivered(v)}
<1>1. T \subseteq Nat /\ T # {}
  BY DEF StreamTypes, Undelivered, Messages
<1>2. PICK m \in T : \A n \in T : m <= n
  BY <1>1, LeastSequence
<1>3. \E s \in Undelivered(v) : \A t \in Undelivered(v) : head[s].seq <= head[t].seq
  BY <1>2
<1> HIDE DEF T
<1>4. /\ Upcoming(v) \in Undelivered(v)
      /\ \A t \in Undelivered(v) : head[Upcoming(v)].seq <= head[t].seq
  BY <1>3 DEF Upcoming
<1> QED BY <1>4 DEF Undelivered

LEMMA InitTypes == Init => StreamAndCalls
<1> SUFFICES ASSUME Init PROVE StreamAndCalls
  OBVIOUS
<1>1. NoMessage \in Messages /\ NoMessage.seq = 0 /\ NoMessage.rev = 0
  BY DEF NoMessage, Messages
<1>2. StreamTypes /\ StreamInv
  BY <1>1 DEF Init, StreamTypes, StreamInv, Subjects
<1>3. ViewTypes
  BY DEF Init, ViewTypes
<1>4. StoreTypes /\ FaultTypes
  <2>1. StoreTypes
    BY DEF Init, StoreTypes
  <2>2. FaultTypes
    BY DEF Init, FaultTypes
  <2> QED BY <2>1, <2>2
<1>5. QueryTypes
  BY DEF Init, QueryTypes
<1>6. QuerySteps
  BY DEF Init, QuerySteps
<1> QED BY <1>2, <1>3, <1>4, <1>5, <1>6 DEF StreamAndCalls, TypeOK

LEMMA CommitTypes ==
  ASSUME StreamAndCalls, NEW i \in Ids, NEW bad \in BOOLEAN, Commit(i, bad)
  PROVE  StreamAndCalls' /\ UNCHANGED <<viewVars, storeVars, queryVars, skips>>
<1> DEFINE first == head[i].rev = 0
           last == IF first THEN seq + 2 ELSE seq + 1
<1>1. /\ seq \in Nat /\ head \in [Subjects -> Messages] /\ last <= MaxSeq /\ seq' = last
      /\ head' = [s \in Subjects |->
             CASE s = i -> [seq |-> last, rev |-> head[i].rev + 1, bad |-> bad]
               [] s = Counter /\ first -> [NoMessage EXCEPT !.seq = seq + 1]
               [] OTHER -> head[s]]
  BY DEF StreamAndCalls, TypeOK, StreamTypes, Commit
<1>2. /\ i \in Subjects /\ Counter \in Subjects /\ i # Counter
      /\ last \in Nat /\ last > seq /\ (first => last = seq + 2)
      /\ head[i].rev \in Nat /\ head[i].rev + 1 <= last /\ last \in 0..MaxSeq
  BY <1>1 DEF StreamAndCalls, StreamInv, Subjects, Messages
<1>3. /\ head'[i] = [seq |-> last, rev |-> head[i].rev + 1, bad |-> bad]
      /\ first => head'[Counter] = [seq |-> seq + 1, rev |-> 0, bad |-> FALSE]
      /\ \A s \in Subjects \ {i} : (s = Counter /\ first) \/ head'[s] = head[s]
  BY <1>1, <1>2 DEF NoMessage
<1> HIDE DEF last
<1>4. head' \in [Subjects -> Messages]
  <2>1. \A s \in Subjects : head'[s] \in Messages
    <3>1. head'[i] \in Messages
      BY <1>2, <1>3 DEF Messages
    <3>2. ASSUME first PROVE head'[Counter] \in Messages
      <4>1. seq + 1 \in 0..MaxSeq /\ 0 \in 0..MaxSeq
        BY <1>1, <1>2, <3>2
      <4>2. head'[Counter] = [seq |-> seq + 1, rev |-> 0, bad |-> FALSE]
        BY <1>3, <3>2
      <4> QED BY <4>1, <4>2 DEF Messages
    <3> QED BY <1>1, <1>3, <3>1, <3>2
  <2>2. head' = [s \in Subjects |-> head'[s]]
    BY <1>1
  <2> QED BY <2>1, <2>2
<1>5. TypeOK'
  <2>1. UNCHANGED <<viewVars, storeVars, queryVars, drops, skips, breaks>>
        /\ layout' \in {"absent", "ours", "foreign"} /\ bads' \in 0..MaxBad
    BY DEF Commit, StreamAndCalls, TypeOK, StreamTypes, FaultTypes
  <2> QED BY <1>1, <1>2, <1>4, <2>1 DEF StreamAndCalls, TypeOK, StreamTypes, ViewTypes, StoreTypes,
             QueryTypes, FaultTypes, viewVars, storeVars, queryVars
<1>6. StreamInv'
  <2>1. \A s \in Subjects : head[s] \in Messages /\ head[s].seq <= seq /\ head[s].rev <= head[s].seq
    BY <1>1 DEF StreamAndCalls, StreamInv
  <2>2. ASSUME NEW s \in Subjects
        PROVE  head'[s].seq <= seq' /\ head'[s].rev <= head'[s].seq
    BY <1>1, <1>2, <1>3, <2>1 DEF Messages
  <2>3. ASSUME NEW j \in Ids PROVE head'[j].rev = 0 => head'[j].seq = 0
    BY <1>2, <1>3 DEF StreamAndCalls, StreamInv, Subjects
  <2>4. ASSUME NEW s \in Subjects, NEW t \in Subjects, s # t,
               head'[s].seq = head'[t].seq, head'[s].seq > 0
        PROVE  FALSE
    <3>1. \A u \in Subjects : u # i => head'[u].seq < last
      BY <1>1, <1>2, <1>3, <2>1 DEF Messages
    <3>2. s # i /\ t # i
      BY <1>2, <1>3, <2>4, <3>1
    <3>3. \A u \in Subjects : u # i /\ u # Counter => head'[u] = head[u] /\ head[u].seq < seq + 1
      BY <1>1, <1>3, <2>1 DEF Messages
    <3>4. head'[Counter] = head[Counter] \/ head'[Counter].seq = seq + 1
      BY <1>2, <1>3
    <3>5. head[s].seq = head[t].seq /\ head[s].seq > 0 => s = t
      BY DEF StreamAndCalls, StreamInv
    <3>6. CASE head'[Counter] = head[Counter]
      BY <2>4, <3>2, <3>3, <3>5, <3>6
    <3>7. CASE head'[Counter].seq = seq + 1
      <4>1. s = Counter \/ t = Counter
        BY <2>4, <3>2, <3>3, <3>5
      <4> QED BY <1>1, <2>1, <2>4, <3>2, <3>3, <3>7, <4>1 DEF Messages
    <3> QED BY <3>4, <3>6, <3>7
  <2>5. head'[Counter].rev = 0
    BY <1>2, <1>3 DEF StreamAndCalls, StreamInv
  <2> QED BY <2>2, <2>3, <2>4, <2>5 DEF StreamInv
<1>7. QuerySteps'
  BY DEF Commit, StreamAndCalls, QuerySteps, storeVars, queryVars
<1> QED BY <1>5, <1>6, <1>7 DEF Commit, StreamAndCalls

\* The other changes of the stream are of its layout only.
LEMMA LayoutTypes ==
  ASSUME StreamAndCalls, Break \/ Repair
  PROVE  StreamAndCalls' /\ UNCHANGED <<seq, head, viewVars, storeVars, queryVars, skips>>
<1>1. UNCHANGED <<seq, head, viewVars, storeVars, queryVars, drops, skips, bads>>
  BY DEF Break, Repair, faultVars
<1>2. StreamTypes' /\ FaultTypes'
  BY <1>1 DEF Break, Repair, faultVars, StreamAndCalls, TypeOK, StreamTypes, FaultTypes
<1>3. ViewTypes' /\ StoreTypes' /\ QueryTypes'
  BY <1>1 DEF StreamAndCalls, TypeOK, ViewTypes, StoreTypes, QueryTypes,
              viewVars, storeVars, queryVars
<1>4. StreamInv' /\ QuerySteps'
  BY <1>1 DEF StreamAndCalls, StreamInv, QuerySteps, storeVars, queryVars
<1> QED BY <1>1, <1>2, <1>3, <1>4 DEF StreamAndCalls, TypeOK

\* What a view's goroutine and callbacks do stays within the view.
ViewStep(v) ==
  \/ Goroutine(v) \/ WatchFails(v) \/ Skip(v) \/ Apply(v, "late") \/ Advance(v, "late")

LEMMA ViewKeeps ==
  ASSUME NEW v \in Views, ViewStep(v)
  PROVE  UNCHANGED <<streamVars, storeVars, queryVars, breaks, bads>>
<1>1. CASE Goroutine(v)
  BY <1>1 DEF Goroutine, Lookup, Attach, Reject, Exit, Fetch, Reattach, Apply, Advance, faultVars
<1>2. CASE WatchFails(v) \/ Skip(v) \/ Apply(v, "late") \/ Advance(v, "late")
  BY <1>2 DEF WatchFails, Skip, Apply, Advance, faultVars
<1> QED BY <1>1, <1>2 DEF ViewStep

\* Only skipping a message counts as one.
LEMMA SkipCounts ==
  ASSUME NEW v \in Views, ViewStep(v)
  PROVE  UNCHANGED skips \/ Skip(v)
BY DEF ViewStep, Goroutine, Lookup, Attach, Reject, Exit, Fetch, Reattach, Apply, Advance,
       WatchFails, faultVars

LEMMA ViewTypesKept ==
  ASSUME StreamAndCalls, NEW v \in Views, ViewStep(v)
  PROVE  ViewTypes' /\ FaultTypes'
<1> USE DEF ViewTypes, FaultTypes
<1>0. ViewTypes /\ FaultTypes /\ StreamTypes
  BY DEF StreamAndCalls, TypeOK
<1>1. CASE Lookup(v)
  BY <1>0, <1>1 DEF Lookup, StreamTypes, faultVars
<1>2. CASE Attach(v)
  BY <1>0, <1>2 DEF Attach, faultVars
<1>3. CASE Reject(v)
  BY <1>0, <1>3 DEF Reject, SetFatal, faultVars
<1>4. CASE Exit(v)
  BY <1>0, <1>4 DEF Exit, faultVars
<1>5. CASE Fetch(v)
  <2>1. /\ Upcoming(v) \in Subjects /\ head[Upcoming(v)] \in Messages
        /\ head[Upcoming(v)].seq \in 0..MaxSeq
    BY <1>0, <1>5, NextMessage DEF Fetch, StreamTypes, Messages
  <2>2. [subject |-> Upcoming(v), msg |-> head[Upcoming(v)], applied |-> FALSE] \in Callbacks
    BY <2>1 DEF Callbacks
  <2> QED BY <1>0, <1>5, <2>1, <2>2 DEF Fetch, faultVars
<1>6. CASE Reattach(v)
  <2>1. \A b \in [Slots -> Callbacks \cup {None}] :
          [cur |-> None, late |-> IF b["cur"] # None THEN b["cur"] ELSE b["late"]]
            \in [Slots -> Callbacks \cup {None}]
    BY DEF Slots
  <2> QED BY <1>0, <1>6, <2>1 DEF Reattach, faultVars
<1>7. ASSUME NEW s \in Slots, Apply(v, s) PROVE ViewTypes' /\ FaultTypes'
  <2>1. /\ buf[v][s] \in Callbacks /\ ~buf[v][s].applied
        /\ UNCHANGED <<run, seen, mark, pos, faultVars>>
    BY <1>0, <1>7 DEF Apply
  <2>2. CASE buf[v][s].msg.bad
    <3>1. /\ SetFatal(v, "corrupt") /\ buf' = [buf EXCEPT ![v][s] = None] /\ UNCHANGED held
      BY <1>7, <2>2 DEF Apply
    <3> QED BY <1>0, <2>1, <3>1 DEF SetFatal, faultVars
  <2>3. CASE ~buf[v][s].msg.bad
    <3>1. /\ held' = IF buf[v][s].subject # Counter /\ Newer(v, buf[v][s].subject, buf[v][s].msg.rev)
                     THEN [held EXCEPT ![v][buf[v][s].subject] = buf[v][s].msg.rev] ELSE held
          /\ buf' = [buf EXCEPT ![v][s].applied = TRUE]
          /\ UNCHANGED <<fatal, cancelled>>
      BY <1>7, <2>3 DEF Apply
    <3>2. buf[v][s].msg.rev \in 0..MaxSeq /\ (buf[v][s].subject # Counter => buf[v][s].subject \in Ids)
      BY <2>1 DEF Callbacks, Messages, Subjects
    <3>3. held' \in [Views -> [Ids -> 0..MaxSeq]]
      BY <1>0, <3>1, <3>2
    <3>4. [buf[v][s] EXCEPT !.applied = TRUE] \in Callbacks
      BY <2>1 DEF Callbacks
    <3>5. buf' \in [Views -> [Slots -> Callbacks \cup {None}]]
      BY <1>0, <3>1, <3>4
    <3> QED BY <1>0, <2>1, <3>1, <3>3, <3>5 DEF faultVars
  <2> QED BY <2>2, <2>3
<1>8. ASSUME NEW s \in Slots, Advance(v, s) PROVE ViewTypes' /\ FaultTypes'
  <2>1. buf[v][s].msg.seq \in 0..MaxSeq
    BY <1>0, <1>8 DEF Advance, Callbacks, Messages
  <2> QED BY <1>0, <1>8, <2>1 DEF Advance, faultVars
<1>9. CASE WatchFails(v)
  BY <1>0, <1>9 DEF WatchFails
<1>10. CASE Skip(v)
  <2>1. head[Upcoming(v)].seq \in 0..MaxSeq
    BY <1>0, <1>10, NextMessage DEF Skip, StreamTypes, Messages
  <2> QED BY <1>0, <1>10, <2>1 DEF Skip
<1> QED BY <1>1, <1>2, <1>3, <1>4, <1>5, <1>6, <1>7, <1>8, <1>9, <1>10
        DEF ViewStep, Goroutine, Slots

LEMMA ViewStepTypes ==
  ASSUME StreamAndCalls, NEW v \in Views, ViewStep(v)
  PROVE  StreamAndCalls'
<1>1. UNCHANGED <<streamVars, storeVars, queryVars>>
  BY ViewKeeps
<1>2. StreamTypes' /\ StoreTypes' /\ QueryTypes' /\ StreamInv' /\ QuerySteps'
  BY <1>1 DEF StreamAndCalls, TypeOK, StreamTypes, StoreTypes, QueryTypes, StreamInv, QuerySteps,
              streamVars, storeVars, queryVars
<1> QED BY <1>2, ViewTypesKept DEF StreamAndCalls, TypeOK

\* What a query does to the views is to start one where none is registered, and to
\* take a view that has returned out of the registry.
QueryStep(q) == Begin(q) \/ Query(q) \/ GiveUp(q)

Starts(v) ==
  /\ ~closed /\ registry = None /\ run[v] = "unborn"
  /\ run' = [run EXCEPT ![v] = "attach"] /\ registry' = v

Retires(v) == run[v] = "exited" /\ registry = v /\ registry' = None /\ UNCHANGED run

LEMMA QueryKeeps ==
  ASSUME NEW q \in Queries, QueryStep(q)
  PROVE  UNCHANGED <<streamVars, seen, cancelled, fatal, mark, held, pos, buf,
                     closed, stopping, owed, faultVars>>
<1>1. CASE Begin(q) \/ GiveUp(q)
  BY <1>1 DEF Begin, GiveUp, viewVars, storeVars
<1>2. CASE Query(q)
  BY <1>2 DEF Query, Check, Retire, Reacquire, ReadTip, BarrierPassed, BarrierFatal,
              BarrierStopped, Discard, ReadPage, viewVars, storeVars
<1> QED BY <1>1, <1>2 DEF QueryStep

LEMMA QueryViews ==
  ASSUME StreamAndCalls, NEW q \in Queries, QueryStep(q)
  PROVE  UNCHANGED <<run, registry>> \/ \E v \in Views : Starts(v) \/ Retires(v)
<1>1. CASE Begin(q) \/ Reacquire(q)
  BY <1>1 DEF Begin, Reacquire, Acquire, Starts
<1>2. CASE Retire(q) \/ Discard(q)
  <2>1. pc[q] \notin {"idle", "done"}
    BY <1>2 DEF Retire, Discard
  <2>2. at[q] \in Views
    BY <2>1 DEF StreamAndCalls, QuerySteps
  <2> QED BY <1>2, <2>2 DEF Retire, Discard, Retirable, Unregister, Retires, viewVars
<1>3. CASE GiveUp(q) \/ Check(q) \/ ReadTip(q) \/ BarrierPassed(q) \/ BarrierFatal(q)
           \/ BarrierStopped(q) \/ ReadPage(q)
  BY <1>3 DEF GiveUp, Check, ReadTip, BarrierPassed, BarrierFatal, BarrierStopped, ReadPage,
              viewVars, storeVars
<1> QED BY <1>1, <1>2, <1>3 DEF QueryStep, Query

LEMMA AcquireTypes ==
  ASSUME StreamAndCalls, NEW q \in Queries, Acquire(q), UNCHANGED <<restarts, owed, stopping>>
  PROVE  /\ pc' \in [Queries -> {"idle", "check", "retire", "reacquire", "tip", "barrier",
                                 "discard", "read", "done"}]
         /\ at' \in [Queries -> Views \cup {None}] /\ created' \in [Queries -> BOOLEAN]
         /\ res' \in [Queries -> {"none", "page", "config", "corrupt", "closed", "error"}]
         /\ QuerySteps'
<1> USE DEF QueryTypes, StoreTypes, QuerySteps
<1>0. QueryTypes /\ StoreTypes /\ QuerySteps
  BY DEF StreamAndCalls, TypeOK
<1>1. CASE closed
  BY <1>0, <1>1 DEF Acquire, Return
<1>2. CASE ~closed /\ registry # None
  <2>1. /\ at' = [at EXCEPT ![q] = registry] /\ created' = [created EXCEPT ![q] = FALSE]
        /\ pc' = [pc EXCEPT ![q] = "check"] /\ UNCHANGED res
    BY <1>2 DEF Acquire
  <2> QED BY <1>0, <1>2, <2>1
<1>3. CASE ~closed /\ registry = None
  <2>1. PICK v \in Views : /\ at' = [at EXCEPT ![q] = v] /\ created' = [created EXCEPT ![q] = TRUE]
                           /\ pc' = [pc EXCEPT ![q] = "check"] /\ UNCHANGED res
    BY <1>3 DEF Acquire
  <2> QED BY <1>0, <2>1
<1> QED BY <1>1, <1>2, <1>3

LEMMA QueryTypesKept ==
  ASSUME StreamAndCalls, NEW q \in Queries, QueryStep(q)
  PROVE  QueryTypes' /\ QuerySteps'
<1> USE DEF QueryTypes, QuerySteps
<1>0. QueryTypes /\ StoreTypes /\ QuerySteps /\ StreamTypes /\ ViewTypes
  BY DEF StreamAndCalls, TypeOK
<1>1. CASE Begin(q)
  <2>1. Acquire(q) /\ UNCHANGED <<restarts, target, page, owed, stopping>>
    BY <1>1 DEF Begin
  <2>2. floor' \in [Queries -> [Ids -> 0..MaxSeq]]
    BY <1>0, <1>1 DEF Begin, StreamTypes, Messages, Subjects
  <2> QED BY <1>0, <2>1, <2>2, AcquireTypes
<1>2. CASE Reacquire(q)
  <2>1. Acquire(q) /\ UNCHANGED <<restarts, target, page, floor, owed, stopping>>
    BY <1>2 DEF Reacquire
  <2> QED BY <1>0, <2>1, AcquireTypes
<1>3. CASE Check(q)
  <2>1. at[q] \in Views
    BY <1>0, <1>3 DEF Check
  <2>2. fatal[at[q]] \in {"none", "config", "corrupt"}
    BY <1>0, <2>1 DEF ViewTypes
  <2>3. UNCHANGED <<at, created, restarts, target, page, floor, stopping, owed>>
    BY <1>3 DEF Check, storeVars
  <2>4. \/ pc' = [pc EXCEPT ![q] = "tip"] /\ UNCHANGED res
        \/ pc' = [pc EXCEPT ![q] = "retire"] /\ UNCHANGED res /\ restarts[q] < MaxRestarts
        \/ Return(q, fatal[at[q]])
    BY <1>3 DEF Check
  <2>5. QueryTypes'
    <3> DEFINE P == {"idle", "check", "retire", "reacquire", "tip", "barrier", "discard",
                     "read", "done"}
               R == {"none", "page", "config", "corrupt", "closed", "error"}
    <3>1. pc \in [Queries -> P] /\ res \in [Queries -> R] /\ fatal[at[q]] \in R
      BY <1>0, <2>2
    <3>2. "tip" \in P /\ "retire" \in P /\ "discard" \in P /\ "done" \in P
      OBVIOUS
    <3> HIDE DEF P, R
    <3>3. pc' \in [Queries -> P] /\ res' \in [Queries -> R]
      BY <2>4, <3>1, <3>2 DEF Return
    <3> QED BY <1>0, <2>3, <3>3 DEF P, R
  <2>6. QuerySteps'
    BY <1>0, <2>1, <2>3, <2>4 DEF Return
  <2> QED BY <2>5, <2>6
<1>4. CASE Retire(q)
  BY <1>0, <1>4 DEF Retire
<1>5. CASE ReadTip(q)
  BY <1>0, <1>5 DEF ReadTip, StreamTypes, storeVars
<1>6. CASE BarrierPassed(q)
  BY <1>0, <1>6 DEF BarrierPassed, storeVars
<1>7. CASE BarrierFatal(q)
  <2>1. at[q] \in Views
    BY <1>0, <1>7 DEF BarrierFatal
  <2>2. fatal[at[q]] \in {"none", "config", "corrupt"}
    BY <1>0, <2>1 DEF ViewTypes
  <2>3. UNCHANGED <<at, created, restarts, target, page, floor, stopping, owed>>
    BY <1>7 DEF BarrierFatal, storeVars
  <2>4. \/ pc' = [pc EXCEPT ![q] = "discard"] /\ UNCHANGED res
        \/ Return(q, fatal[at[q]])
    BY <1>7 DEF BarrierFatal
  <2>5. QueryTypes'
    <3> DEFINE P == {"idle", "check", "retire", "reacquire", "tip", "barrier", "discard",
                     "read", "done"}
               R == {"none", "page", "config", "corrupt", "closed", "error"}
    <3>1. pc \in [Queries -> P] /\ res \in [Queries -> R] /\ fatal[at[q]] \in R
      BY <1>0, <2>2
    <3>2. "tip" \in P /\ "retire" \in P /\ "discard" \in P /\ "done" \in P
      OBVIOUS
    <3> HIDE DEF P, R
    <3>3. pc' \in [Queries -> P] /\ res' \in [Queries -> R]
      BY <2>4, <3>1, <3>2 DEF Return
    <3> QED BY <1>0, <2>3, <3>3 DEF P, R
  <2>6. QuerySteps'
    BY <1>0, <2>1, <2>3, <2>4 DEF Return
  <2> QED BY <2>5, <2>6
<1>8. CASE BarrierStopped(q)
  BY <1>0, <1>8 DEF BarrierStopped, Return, storeVars
<1>9. CASE Discard(q)
  <2>1. at[q] \in Views
    BY <1>0, <1>9 DEF Discard
  <2> QED BY <1>0, <1>9, <2>1 DEF Discard, Return, ViewTypes
<1>10. CASE ReadPage(q)
  <2>1. at[q] \in Views
    BY <1>0, <1>10 DEF ReadPage
  <2> QED BY <1>0, <1>10, <2>1 DEF ReadPage, Return, ViewTypes, storeVars
<1>11. CASE GiveUp(q)
  BY <1>0, <1>11 DEF GiveUp, Return, storeVars
<1> QED BY <1>1, <1>2, <1>3, <1>4, <1>5, <1>6, <1>7, <1>8, <1>9, <1>10, <1>11
        DEF QueryStep, Query

LEMMA QueryStepTypes ==
  ASSUME StreamAndCalls, NEW q \in Queries, QueryStep(q)
  PROVE  StreamAndCalls'
<1>1. /\ UNCHANGED <<streamVars, seen, cancelled, fatal, mark, held, pos, buf,
                     closed, stopping, owed, faultVars>>
      /\ UNCHANGED <<run, registry>> \/ \E v \in Views : Starts(v) \/ Retires(v)
  BY QueryKeeps, QueryViews
<1>2. StreamTypes' /\ FaultTypes' /\ StreamInv'
  BY <1>1 DEF StreamAndCalls, TypeOK, StreamTypes, FaultTypes, StreamInv, streamVars, faultVars
<1>3. ViewTypes'
  BY <1>1 DEF StreamAndCalls, TypeOK, ViewTypes, Starts, Retires
<1>4. StoreTypes'
  BY <1>1 DEF StreamAndCalls, TypeOK, StoreTypes, Starts, Retires
<1> QED BY <1>2, <1>3, <1>4, QueryTypesKept DEF StreamAndCalls, TypeOK

LEMMA CloseTypes ==
  ASSUME StreamAndCalls, Close \/ Stopped \/ StopTimesOut
  PROVE  StreamAndCalls' /\ UNCHANGED <<streamVars, run, seen, fatal, mark, held, pos, buf,
                                        queryVars, faultVars>>
<1>1. UNCHANGED <<streamVars, run, seen, fatal, mark, held, pos, buf, queryVars, faultVars>>
  BY DEF Close, Stopped, StopTimesOut, viewVars
<1>2. StreamTypes' /\ FaultTypes' /\ StreamInv' /\ QueryTypes'
  BY <1>1 DEF StreamAndCalls, TypeOK, StreamTypes, FaultTypes, QueryTypes, StreamInv, streamVars,
              queryVars, faultVars
<1>3. cancelled' \in [Views -> BOOLEAN]
  BY DEF Close, Stopped, StopTimesOut, viewVars, StreamAndCalls, TypeOK, ViewTypes
<1>4. StoreTypes'
  BY DEF Close, Stopped, StopTimesOut, StreamAndCalls, TypeOK, StoreTypes
<1>5. QuerySteps'
  BY <1>1 DEF Close, Stopped, StopTimesOut, StreamAndCalls, TypeOK, StoreTypes, QuerySteps, queryVars
<1>6. ViewTypes'
  BY <1>1, <1>3 DEF StreamAndCalls, TypeOK, ViewTypes
<1> QED BY <1>1, <1>2, <1>4, <1>5, <1>6 DEF StreamAndCalls, TypeOK

\* Every step is the stream's, a view's, a query's or Close's.
LEMMA Steps ==
  ASSUME Next
  PROVE  \/ \E i \in Ids, bad \in BOOLEAN : Commit(i, bad)
         \/ Break \/ Repair
         \/ \E v \in Views : ViewStep(v)
         \/ \E q \in Queries : QueryStep(q)
         \/ Close \/ Stopped \/ StopTimesOut
BY DEF Next, ViewStep, QueryStep

LEMMA StepTypes == StreamAndCalls /\ [Next]_vars => StreamAndCalls'
<1> SUFFICES ASSUME StreamAndCalls, [Next]_vars PROVE StreamAndCalls'
  OBVIOUS
<1>1. CASE Next
  BY <1>1, Steps, CommitTypes, LayoutTypes, ViewStepTypes, QueryStepTypes, CloseTypes
<1>2. CASE UNCHANGED vars
  BY <1>2 DEF vars, streamVars, viewVars, storeVars, queryVars, faultVars, StreamAndCalls, TypeOK,
              StreamTypes, ViewTypes, StoreTypes, QueryTypes, FaultTypes, StreamInv, QuerySteps
<1> QED BY <1>1, <1>2

\* Every variable keeps its type, a query acts on a view it has acquired, and the
\* stream's subjects hold different messages (ordered.go).
THEOREM Types == Spec => [](TypeOK /\ StreamInv /\ QuerySteps)
<1>1. Init => StreamAndCalls
  BY InitTypes
<1>2. StreamAndCalls /\ [Next]_vars => StreamAndCalls'
  BY StepTypes
<1>3. StreamAndCalls => TypeOK /\ StreamInv /\ QuerySteps
  BY DEF StreamAndCalls
<1> QED BY <1>1, <1>2, <1>3, PTL DEF Spec

-----------------------------------------------------------------------------
(* Who runs *)

\* A view's own steps start nothing: what has not started or has returned stays so.
LEMMA NothingStarts ==
  ASSUME StreamAndCalls, NEW v \in Views, ViewStep(v), NEW w \in Views
  PROVE  (run[w] \in {"unborn", "exited"}) => run'[w] = run[w]
<1>0. run \in [Views -> {"unborn", "attach", "verify", "watch", "failing", "ending", "exited"}]
  BY DEF StreamAndCalls, TypeOK, ViewTypes
<1>1. \/ UNCHANGED run
      \/ run[v] \notin {"unborn", "exited"} /\ \E x : run' = [run EXCEPT ![v] = x]
  BY DEF ViewStep, Goroutine, Lookup, Attach, Reject, Exit, Running, Fetch, Reattach, Apply,
         Advance, WatchFails, Skip
<1> QED BY <1>0, <1>1

LEMMA RunnerStep == StreamAndCalls /\ RunnerKnown /\ [Next]_vars => RunnerKnown'
<1> SUFFICES ASSUME StreamAndCalls, RunnerKnown, [Next]_vars PROVE RunnerKnown'
  OBVIOUS
<1> USE DEF RunnerKnown, Running
<1>0. /\ run \in [Views -> {"unborn", "attach", "verify", "watch", "failing", "ending", "exited"}]
      /\ StoreTypes /\ None \notin Views
  BY DEF StreamAndCalls, TypeOK, ViewTypes, Views
<1>1. CASE UNCHANGED <<run, registry, closed, stopping, owed>>
  BY <1>1
<1>2. ASSUME NEW v \in Views, ViewStep(v) PROVE RunnerKnown'
  <2>1. UNCHANGED <<registry, closed, stopping, owed>>
    BY <1>2, ViewKeeps DEF storeVars
  <2>2. \A w \in Views : (run[w] \in {"unborn", "exited"}) => run'[w] = run[w]
    BY <1>2, NothingStarts
  <2> QED BY <2>1, <2>2
<1>3. ASSUME NEW q \in Queries, QueryStep(q) PROVE RunnerKnown'
  <2>1. UNCHANGED <<closed, stopping, owed>>
    BY <1>3, QueryKeeps
  <2>2. CASE UNCHANGED <<run, registry>>
    BY <2>1, <2>2
  <2>3. ASSUME NEW v \in Views, Starts(v) PROVE RunnerKnown'
    BY <1>0, <2>1, <2>3 DEF Starts
  <2>4. ASSUME NEW v \in Views, Retires(v) PROVE RunnerKnown'
    BY <1>0, <2>1, <2>4 DEF Retires
  <2> QED BY <1>3, <2>2, <2>3, <2>4, QueryViews
<1>4. CASE Close
  BY <1>0, <1>4 DEF Close, StoreTypes
<1>5. CASE Stopped \/ StopTimesOut
  BY <1>5 DEF Stopped, StopTimesOut, viewVars
<1>6. CASE Next
  <2>1. ASSUME NEW i \in Ids, NEW bad \in BOOLEAN, Commit(i, bad) PROVE RunnerKnown'
    BY <1>1, <2>1 DEF Commit, viewVars, storeVars
  <2>2. CASE Break \/ Repair
    BY <1>1, <2>2 DEF Break, Repair, viewVars, storeVars
  <2> QED BY <1>2, <1>3, <1>4, <1>5, <1>6, <2>1, <2>2, Steps
<1> QED BY <1>1, <1>6 DEF vars, viewVars, storeVars

LEMMA KnownRunner == Spec => []RunnerKnown
<1>1. Init => StreamAndCalls /\ RunnerKnown
  BY InitTypes DEF Init, RunnerKnown, Running, Views
<1>2. StreamAndCalls /\ RunnerKnown /\ [Next]_vars => StreamAndCalls' /\ RunnerKnown'
  BY StepTypes, RunnerStep
<1> QED BY <1>1, <1>2, PTL DEF Spec

\* However many queries race to retire a view and to replace it, the namespace has
\* one goroutine at most (acquireView, evictRepairableFatal).
THEOREM SoleGoroutine == Spec => []OneGoroutine
<1>1. RunnerKnown => OneGoroutine
  <2>1. SUFFICES ASSUME RunnerKnown, NEW v \in Views, NEW w \in Views, Running(v), Running(w)
                 PROVE  v = w
    BY DEF OneGoroutine
  <2>2. None \notin Views
    BY DEF Views
  <2> QED BY <2>1, <2>2 DEF RunnerKnown
<1> QED BY <1>1, KnownRunner, PTL

\* When Close has returned nil nothing runs, whatever queries were under way (Close).
THEOREM ClosedForGood == Spec => []CloseStops
<1>1. RunnerKnown => CloseStops
  <2>1. SUFFICES ASSUME RunnerKnown, stopping = "stopped", NEW v \in Views, Running(v)
                 PROVE  FALSE
    BY DEF CloseStops
  <2>2. None \notin Views
    BY DEF Views
  <2> QED BY <2>1, <2>2 DEF RunnerKnown, Running
<1> QED BY <1>1, KnownRunner, PTL

-----------------------------------------------------------------------------
(* What the watermark means *)

\* A view's steps change no other view.
LEMMA ViewLocal ==
  ASSUME StreamAndCalls, NEW v \in Views, ViewStep(v), NEW w \in Views, w # v
  PROVE  /\ run'[w] = run[w] /\ fatal'[w] = fatal[w] /\ mark'[w] = mark[w]
         /\ held'[w] = held[w] /\ pos'[w] = pos[w] /\ buf'[w] = buf[w]
<1>0. ViewTypes
  BY DEF StreamAndCalls, TypeOK
<1> USE DEF ViewTypes
<1>1. CASE Lookup(v) \/ Attach(v) \/ Reject(v) \/ Exit(v)
  BY <1>0, <1>1 DEF Lookup, Attach, Reject, SetFatal, Exit
<1>2. CASE Fetch(v) \/ Reattach(v) \/ WatchFails(v) \/ Skip(v)
  BY <1>0, <1>2 DEF Fetch, Reattach, WatchFails, Skip
<1>3. ASSUME NEW s \in Slots, Apply(v, s) \/ Advance(v, s)
      PROVE  /\ run'[w] = run[w] /\ fatal'[w] = fatal[w] /\ mark'[w] = mark[w]
             /\ held'[w] = held[w] /\ pos'[w] = pos[w] /\ buf'[w] = buf[w]
  BY <1>0, <1>3 DEF Apply, SetFatal, Advance
<1> QED BY <1>1, <1>2, <1>3 DEF ViewStep, Goroutine, Slots

\* What a callback applies.
LEMMA Applies ==
  ASSUME StreamAndCalls, NEW v \in Views, NEW s \in Slots, Apply(v, s)
  PROVE  LET b == buf[v][s] IN
         /\ b \in Callbacks /\ ~b.applied
         /\ UNCHANGED <<run, mark, pos, streamVars>>
         /\ \A t \in Slots : t # s => buf'[v][t] = buf[v][t]
         /\ \/ fatal'[v] # "none" /\ UNCHANGED held /\ buf'[v][s] = None
            \/ /\ UNCHANGED fatal /\ buf'[v][s] = [b EXCEPT !.applied = TRUE]
               /\ \A i \in Ids : held'[v][i] = IF b.subject = i /\ b.msg.rev > held[v][i]
                                              THEN b.msg.rev ELSE held[v][i]
<1> DEFINE b == buf[v][s]
<1>0. ViewTypes
  BY DEF StreamAndCalls, TypeOK
<1>1. b \in Callbacks /\ ~b.applied /\ UNCHANGED <<run, mark, pos, streamVars>>
  BY <1>0 DEF Apply, ViewTypes
<1>2. CASE b.msg.bad
  <2>1. SetFatal(v, "corrupt") /\ buf' = [buf EXCEPT ![v][s] = None] /\ UNCHANGED held
    BY <1>2 DEF Apply
  <2> QED BY <1>0, <1>1, <2>1 DEF SetFatal, ViewTypes
<1>3. CASE ~b.msg.bad
  <2>1. /\ held' = IF b.subject # Counter /\ Newer(v, b.subject, b.msg.rev)
                   THEN [held EXCEPT ![v][b.subject] = b.msg.rev] ELSE held
        /\ buf' = [buf EXCEPT ![v][s].applied = TRUE]
        /\ UNCHANGED fatal
    BY <1>3 DEF Apply
  <2>2. b.subject # Counter => b.subject \in Ids
    BY <1>1 DEF Callbacks, Subjects
  <2>3. \A i \in Ids : held'[v][i] = IF b.subject = i /\ b.msg.rev > held[v][i]
                                    THEN b.msg.rev ELSE held[v][i]
    BY <1>0, <2>1, <2>2 DEF ViewTypes, Newer
  <2>4. /\ buf'[v][s] = [b EXCEPT !.applied = TRUE]
        /\ \A t \in Slots : t # s => buf'[v][t] = buf[v][t]
    BY <1>0, <2>1 DEF ViewTypes
  <2> QED BY <1>1, <2>1, <2>3, <2>4
<1> QED BY <1>2, <1>3

\* Nothing lowers what a view holds or its watermark.
LEMMA ViewGrows ==
  ASSUME StreamAndCalls, NEW v \in Views, ViewStep(v), NEW w \in Views
  PROVE  mark'[w] >= mark[w] /\ \A i \in Ids : held'[w][i] >= held[w][i]
<1>0. ViewTypes
  BY DEF StreamAndCalls, TypeOK
<1>1. CASE UNCHANGED <<mark, held>>
  BY <1>0, <1>1 DEF ViewTypes
<1>2. CASE w # v
  BY <1>0, <1>2, ViewLocal DEF ViewTypes
<1>3. ASSUME w = v, NEW s \in Slots, Apply(v, s)
      PROVE  mark'[w] >= mark[w] /\ \A i \in Ids : held'[w][i] >= held[w][i]
  <2>1. buf[v][s] \in Callbacks
    BY <1>3, Applies
  <2>2. buf[v][s].msg.rev \in Nat
    BY <2>1 DEF Callbacks, Messages
  <2>3. /\ UNCHANGED mark
        /\ \A i \in Ids : \/ held'[v][i] = held[v][i]
                          \/ held'[v][i] = buf[v][s].msg.rev /\ buf[v][s].msg.rev > held[v][i]
    <3>1. \/ UNCHANGED held
          \/ \A i \in Ids : held'[v][i] =
               IF buf[v][s].subject = i /\ buf[v][s].msg.rev > held[v][i]
               THEN buf[v][s].msg.rev ELSE held[v][i]
      BY <1>3, Applies
    <3>2. UNCHANGED mark
      BY <1>3, Applies
    <3> QED BY <3>1, <3>2
  <2>4. mark[v] \in Nat /\ held[v] \in [Ids -> Nat]
    BY <1>0 DEF ViewTypes
  <2>5. ASSUME NEW i \in Ids PROVE held'[v][i] >= held[v][i]
    <3>1. held[v][i] \in Nat
      BY <2>4
    <3> QED BY <2>2, <2>3, <3>1
  <2> QED BY <1>3, <2>3, <2>4, <2>5
<1>4. ASSUME w = v, NEW s \in Slots, Advance(v, s)
      PROVE  mark'[w] >= mark[w] /\ \A i \in Ids : held'[w][i] >= held[w][i]
  <2>1. buf[v][s].msg.seq \in Nat
    BY <1>0, <1>4 DEF Advance, ViewTypes, Callbacks, Messages
  <2> QED BY <1>0, <1>4, <2>1 DEF Advance, ViewTypes
<1>5. \/ UNCHANGED <<mark, held>>
      \/ \E s \in Slots : Apply(v, s) \/ Advance(v, s)
  BY DEF ViewStep, Goroutine, Lookup, Attach, Reject, Exit, Fetch, Reattach, WatchFails, Skip, Slots
<1> QED BY <1>1, <1>2, <1>3, <1>4, <1>5

\* The first error of a view sticks.
LEMMA FatalSticks ==
  ASSUME StreamAndCalls, NEW v \in Views, ViewStep(v), fatal'[v] = "none"
  PROVE  fatal[v] = "none"
<1>0. ViewTypes
  BY DEF StreamAndCalls, TypeOK
<1> QED BY <1>0 DEF ViewTypes, ViewStep, Goroutine, Lookup, Attach, Reject, SetFatal, Exit, Fetch,
           Reattach, Apply, Advance, WatchFails, Skip

\* Watermarks and the revisions a view holds only ever rise (applyRecord, advance).
THEOREM Monotone == Spec => ViewMonotone
<1> DEFINE Grows == \A v \in Views :
             mark'[v] >= mark[v] /\ \A i \in Ids : held'[v][i] >= held[v][i]
<1>1. ASSUME StreamAndCalls, Next PROVE Grows
  <2>0. ViewTypes
    BY <1>1 DEF StreamAndCalls, TypeOK
  <2>1. CASE UNCHANGED <<mark, held>>
    BY <2>0, <2>1 DEF ViewTypes
  <2>2. CASE \E v \in Views : ViewStep(v)
    BY <1>1, <2>2, ViewGrows
  <2>3. CASE \E q \in Queries : QueryStep(q)
    BY <2>1, <2>3, QueryKeeps
  <2>4. CASE Close \/ Stopped \/ StopTimesOut
    BY <1>1, <2>1, <2>4, CloseTypes
  <2>5. CASE Break \/ Repair \/ \E i \in Ids, bad \in BOOLEAN : Commit(i, bad)
    BY <2>1, <2>5 DEF Break, Repair, Commit, viewVars
  <2> QED BY <1>1, <2>2, <2>3, <2>4, <2>5, Steps
<1>2. StreamAndCalls /\ [Next]_vars => [Grows]_vars
  BY <1>1
<1>3. Spec => []StreamAndCalls
  BY InitTypes, StepTypes, PTL DEF Spec
<1>4. [][Grows]_vars <=> ViewMonotone
  BY DEF ViewMonotone
<1> HIDE DEF Grows
<1> QED BY <1>2, <1>3, <1>4, PTL DEF Spec

\* A new message comes after all there were, and raises its record's revision.
LEMMA HeadGrows ==
  ASSUME StreamAndCalls, NEW i \in Ids, NEW bad \in BOOLEAN, Commit(i, bad)
  PROVE  /\ seq' >= seq
         /\ \A s \in Subjects : \/ head'[s] = head[s]
                                \/ head'[s].seq > seq /\ head'[s].rev >= head[s].rev
         /\ \A j \in Ids : head'[j] = head[j] \/ head'[j].rev > head[j].rev
<1>1. /\ seq \in Nat /\ head \in [Subjects -> Messages]
      /\ head' = [s \in Subjects |->
             CASE s = i -> [seq |-> seq', rev |-> head[i].rev + 1, bad |-> bad]
               [] s = Counter /\ head[i].rev = 0 -> [NoMessage EXCEPT !.seq = seq + 1]
               [] OTHER -> head[s]]
      /\ seq' \in Nat /\ seq' > seq
  BY DEF StreamAndCalls, TypeOK, StreamTypes, Commit
<1>2. i \in Subjects /\ Counter \in Subjects /\ i # Counter /\ Ids \subseteq Subjects
  BY DEF Subjects
<1>3. head[i].rev \in Nat /\ head[Counter].rev = 0
  BY <1>1, <1>2 DEF Messages, StreamAndCalls, StreamInv
<1>4. head'[i].seq > seq /\ head'[i].rev > head[i].rev /\ head'[i].rev >= head[i].rev
  BY <1>1, <1>2, <1>3
<1>5. \/ head'[Counter] = head[Counter]
      \/ head'[Counter].seq = seq + 1 /\ head'[Counter].rev = 0
  BY <1>1, <1>2 DEF NoMessage
<1>6. \A s \in Subjects : s # i /\ s # Counter => head'[s] = head[s]
  BY <1>1
<1>7. head'[Counter] = head[Counter] \/ (head'[Counter].seq > seq /\ head'[Counter].rev >= head[Counter].rev)
  BY <1>1, <1>3, <1>5
<1>8. \A s \in Subjects : \/ head'[s] = head[s]
                          \/ head'[s].seq > seq /\ head'[s].rev >= head[s].rev
  BY <1>4, <1>6, <1>7
<1>9. \A j \in Ids : head'[j] = head[j] \/ head'[j].rev > head[j].rev
  BY <1>2, <1>4, <1>6
<1>10. seq' >= seq
  BY <1>1
<1> QED BY <1>8, <1>9, <1>10

LEMMA CommitCovers ==
  ASSUME StreamAndCalls, NEW i \in Ids, NEW bad \in BOOLEAN, Commit(i, bad),
         NEW v \in Views, Behind(v)
  PROVE  Behind(v)' /\ (ViewCovers(v) => ViewCovers(v)')
<1>1. /\ UNCHANGED <<run, fatal, mark, held, pos, buf>> /\ ViewTypes /\ StreamTypes /\ StreamInv
      /\ StreamTypes'
  BY CommitTypes DEF StreamAndCalls, TypeOK, viewVars
<1>2. /\ seq \in Nat /\ seq' \in Nat /\ mark[v] \in Nat /\ pos[v] \in Nat /\ Ids \subseteq Subjects
      /\ \A s \in Subjects : head[s].seq \in Nat /\ head[s].rev \in Nat
                            /\ head'[s].seq \in Nat /\ head'[s].rev \in Nat
      /\ \A j \in Ids : held[v][j] \in Nat
      /\ \A s \in Slots : buf[v][s] # None =>
           /\ buf[v][s].subject \in Subjects /\ buf[v][s].msg.seq \in Nat /\ buf[v][s].msg.rev \in Nat
  BY <1>1 DEF StreamTypes, ViewTypes, Messages, Callbacks, Subjects
<1>3. /\ seq' >= seq
      /\ \A s \in Subjects : \/ head'[s] = head[s]
                             \/ head'[s].seq > seq /\ head'[s].rev >= head[s].rev
      /\ \A s \in Subjects : head[s].seq <= seq
  BY <1>1, HeadGrows DEF StreamInv
<1>4. Behind(v)'
  <2>1. ASSUME NEW s \in Slots, buf[v][s] # None
        PROVE  Retained(buf[v][s].subject, buf[v][s].msg)'
    BY <1>1, <1>2, <1>3, <2>1 DEF Behind, Retained
  <2>2. mark[v] <= seq' /\ pos[v] <= seq' /\ \A j \in Ids : held[v][j] <= head'[j].rev
    BY <1>2, <1>3 DEF Behind
  <2> QED BY <1>1, <2>1, <2>2 DEF Behind
<1>5. ASSUME NEW n \in Nat, n <= seq, NEW j \in Ids, head'[j].seq <= n
      PROVE  head'[j] = head[j]
  BY <1>2, <1>3, <1>5
<1>6. ASSUME ViewCovers(v), fatal[v] = "none" PROVE ViewCovers(v)'
  <2>1. ASSUME NEW n \in Nat, n <= seq, NEW s \in Slots, HoldsThrough(v, n, s)
        PROVE  \A j \in Ids : head'[j].seq <= n =>
                 \/ held[v][j] = head'[j].rev
                 \/ /\ buf[v][s] # None /\ ~buf[v][s].applied
                    /\ buf[v][s].subject = j /\ buf[v][s].msg = head'[j]
    BY <1>5, <2>1 DEF HoldsThrough
  <2>2. \A j \in Ids : head'[j].seq <= mark[v] => held[v][j] = head'[j].rev
    BY <1>2, <1>5, <1>6 DEF ViewCovers, Behind
  <2>3. ASSUME NEW s \in Slots, buf[v][s] # None
        PROVE  \A j \in Ids : head'[j].seq <= buf[v][s].msg.seq =>
                 \/ held[v][j] = head'[j].rev
                 \/ /\ buf[v][s] # None /\ ~buf[v][s].applied
                    /\ buf[v][s].subject = j /\ buf[v][s].msg = head'[j]
    <3>1. buf[v][s].msg.seq <= head[buf[v][s].subject].seq
      BY <2>3 DEF Behind, Retained
    <3>2. buf[v][s].msg.seq \in Nat /\ buf[v][s].msg.seq <= seq
      BY <1>2, <1>3, <2>3, <3>1
    <3> QED BY <1>6, <2>1, <2>3, <3>2 DEF ViewCovers
  <2>4. ASSUME run[v] \in {"watch", "failing"}
        PROVE  \A j \in Ids : head'[j].seq <= pos[v] =>
                 \/ held[v][j] = head'[j].rev
                 \/ /\ buf[v]["cur"] # None /\ ~buf[v]["cur"].applied
                    /\ buf[v]["cur"].subject = j /\ buf[v]["cur"].msg = head'[j]
    BY <1>2, <1>6, <2>1, <2>4 DEF ViewCovers, Behind, Slots
  <2> QED BY <1>1, <2>2, <2>3, <2>4 DEF ViewCovers, HoldsThrough
<1>7. fatal[v] # "none" => ViewCovers(v)'
  BY <1>1 DEF ViewCovers
<1> QED BY <1>4, <1>6, <1>7

\* Steps that leave a view's own state alone keep what is known of it.
LEMMA Untouched ==
  ASSUME NEW v \in Views, UNCHANGED <<seq, head>>,
         run'[v] = run[v] \/ run'[v] \notin {"watch", "failing"},
         fatal'[v] = fatal[v], mark'[v] = mark[v], held'[v] = held[v], pos'[v] = pos[v],
         buf'[v] = buf[v]
  PROVE  (Behind(v) => Behind(v)') /\ (ViewCovers(v) => ViewCovers(v)')
BY DEF Behind, Retained, ViewCovers, HoldsThrough

LEMMA StepBehind ==
  ASSUME StreamAndCalls, NEW v \in Views, ViewStep(v), Behind(v)
  PROVE  Behind(v)'
<1>0. ViewTypes /\ StreamTypes /\ StreamInv /\ UNCHANGED <<seq, head>>
  BY ViewKeeps DEF StreamAndCalls, TypeOK, streamVars
<1>1. CASE Lookup(v) \/ Exit(v) \/ Reject(v) \/ WatchFails(v)
  BY <1>0, <1>1 DEF Lookup, Exit, Reject, WatchFails, Behind, Retained
<1>2. CASE Attach(v)
  BY <1>0, <1>2 DEF Attach, Behind, Retained, ViewTypes, StreamTypes
<1>3. CASE Fetch(v)
  <2>1. /\ Upcoming(v) \in Subjects /\ head[Upcoming(v)] \in Messages
        /\ head[Upcoming(v)].seq <= seq
    BY <1>0, <1>3, NextMessage DEF Fetch, StreamTypes, StreamInv
  <2>2. /\ pos'[v] = head[Upcoming(v)].seq /\ UNCHANGED <<mark, held>>
        /\ buf'[v]["cur"] = [subject |-> Upcoming(v), msg |-> head[Upcoming(v)], applied |-> FALSE]
        /\ buf'[v]["late"] = buf[v]["late"]
    BY <1>0, <1>3 DEF Fetch, ViewTypes, Slots
  <2>3. Retained(Upcoming(v), head[Upcoming(v)])
    BY <2>1 DEF Retained, Messages
  <2> QED BY <1>0, <2>1, <2>2, <2>3 DEF Behind, Retained, Slots
<1>4. CASE Reattach(v)
  <2>1. /\ UNCHANGED <<mark, held, pos>> /\ buf'[v]["cur"] = None
        /\ buf'[v]["late"] = IF buf[v]["cur"] # None THEN buf[v]["cur"] ELSE buf[v]["late"]
    BY <1>0, <1>4 DEF Reattach, ViewTypes
  <2> QED BY <1>0, <2>1 DEF Behind, Retained, Slots
<1>5. ASSUME NEW s \in Slots, Apply(v, s) PROVE Behind(v)'
  <2>1. /\ UNCHANGED <<mark, pos>> /\ buf[v][s] \in Callbacks
        /\ \A t \in Slots : t # s => buf'[v][t] = buf[v][t]
    BY <1>5, Applies
  <2>2. CASE UNCHANGED held /\ buf'[v][s] = None
    BY <1>0, <2>1, <2>2 DEF Behind, Retained
  <2>3. CASE /\ buf'[v][s] = [buf[v][s] EXCEPT !.applied = TRUE]
             /\ \A i \in Ids : held'[v][i] =
                  IF buf[v][s].subject = i /\ buf[v][s].msg.rev > held[v][i]
                  THEN buf[v][s].msg.rev ELSE held[v][i]
    <3>1. Retained(buf[v][s].subject, buf[v][s].msg)
      BY <1>5 DEF Behind, Apply
    <3>2. \A i \in Ids : held'[v][i] <= head[i].rev
      BY <2>3, <3>1 DEF Behind, Retained
    <3>3. buf'[v][s].subject = buf[v][s].subject /\ buf'[v][s].msg = buf[v][s].msg
      BY <2>1, <2>3 DEF Callbacks
    <3> QED BY <1>0, <2>1, <3>1, <3>2, <3>3 DEF Behind, Retained
  <2> QED BY <1>5, <2>2, <2>3, Applies
<1>6. ASSUME NEW s \in Slots, Advance(v, s) PROVE Behind(v)'
  <2>1. /\ UNCHANGED <<held, pos>> /\ buf'[v][s] = None /\ buf[v][s] # None
        /\ \A t \in Slots : t # s => buf'[v][t] = buf[v][t]
        /\ mark'[v] = mark[v] \/ mark'[v] = buf[v][s].msg.seq
    BY <1>0, <1>6 DEF Advance, ViewTypes
  <2>2. buf[v][s].subject \in Subjects /\ buf[v][s].msg.seq \in Nat
    BY <1>0, <2>1 DEF ViewTypes, Callbacks, Messages
  <2>3. buf[v][s].msg.seq <= head[buf[v][s].subject].seq /\ head[buf[v][s].subject].seq <= seq
    BY <1>0, <2>1, <2>2 DEF Behind, Retained, StreamInv
  <2>4. head[buf[v][s].subject].seq \in Nat /\ seq \in Nat
    BY <1>0, <2>2 DEF StreamTypes, Messages
  <2>5. mark'[v] <= seq
    BY <2>1, <2>2, <2>3, <2>4 DEF Behind
  <2> QED BY <1>0, <2>1, <2>5 DEF Behind, Retained
<1>7. CASE Skip(v)
  <2>1. head[Upcoming(v)].seq <= seq
    BY <1>0, <1>7, NextMessage DEF Skip, StreamTypes, StreamInv
  <2> QED BY <1>0, <1>7, <2>1 DEF Skip, Behind, Retained, ViewTypes
<1> QED BY <1>1, <1>2, <1>3, <1>4, <1>5, <1>6, <1>7 DEF ViewStep, Goroutine, Slots

LEMMA StepCovers ==
  ASSUME StreamAndCalls, NEW v \in Views, ViewStep(v), Behind(v), ViewCovers(v), ~Skip(v)
  PROVE  ViewCovers(v)'
<1> SUFFICES ASSUME fatal'[v] = "none" PROVE ViewCovers(v)'
  BY DEF ViewCovers
<1>0. /\ ViewTypes /\ StreamTypes /\ StreamInv /\ UNCHANGED <<seq, head>> /\ fatal[v] = "none"
      /\ Ids \subseteq Subjects
  BY ViewKeeps, FatalSticks DEF StreamAndCalls, TypeOK, streamVars, Subjects
<1>00. /\ \A i \in Ids : /\ head[i].seq \in Nat /\ head[i].rev \in Nat /\ held[v][i] \in Nat
                         /\ held[v][i] <= head[i].rev
       /\ \A i \in Ids : head[i].seq <= mark[v] => held[v][i] = head[i].rev
  BY <1>0 DEF ViewTypes, StreamTypes, Messages, Behind, ViewCovers
<1>1. CASE Lookup(v) \/ Exit(v) \/ Reject(v)
  <2>1. /\ UNCHANGED <<mark, held, pos, buf>>
        /\ run'[v] \notin {"watch", "failing"}
    BY <1>0, <1>1 DEF Lookup, Exit, Reject, ViewTypes
  <2> QED BY <1>0, <2>1 DEF ViewCovers, HoldsThrough
<1>2. CASE WatchFails(v)
  <2>1. UNCHANGED <<mark, held, pos, buf>> /\ run[v] = "watch"
    BY <1>0, <1>2 DEF WatchFails
  <2> QED BY <1>0, <2>1 DEF ViewCovers, HoldsThrough
<1>3. CASE Attach(v)
  <2>1. UNCHANGED <<mark, held, buf>> /\ pos'[v] = 0
    BY <1>0, <1>3 DEF Attach, ViewTypes
  <2>2. ASSUME NEW i \in Ids, head[i].seq <= 0 PROVE held[v][i] = head[i].rev
    <3>1. head[i].rev <= head[i].seq
      BY <1>0 DEF StreamInv
    <3> QED BY <1>00, <2>2, <3>1
  <2> QED BY <1>0, <2>1, <2>2 DEF ViewCovers, HoldsThrough
<1>4. CASE Fetch(v)
  <2>0. PICK s : s = Upcoming(v)
    OBVIOUS
  <2>1. /\ s \in Subjects /\ head[s].seq > pos[v]
        /\ \A t \in Subjects : head[t].seq > pos[v] => head[s].seq <= head[t].seq
    BY <1>0, <1>4, <2>0, NextMessage DEF Fetch
  <2>2. /\ pos'[v] = head[s].seq /\ UNCHANGED <<mark, held, run>>
        /\ buf'[v]["cur"] = [subject |-> s, msg |-> head[s], applied |-> FALSE]
        /\ buf'[v]["late"] = buf[v]["late"] /\ buf[v]["cur"] = None
        /\ run[v] \in {"watch", "failing"}
    BY <1>0, <1>4, <2>0 DEF Fetch, ViewTypes, Slots
  <2>3. HoldsThrough(v, pos[v], "cur")
    BY <1>0, <2>2 DEF ViewCovers
  <2>4. ASSUME NEW i \in Ids, head[i].seq <= head[s].seq, i # s PROVE held[v][i] = head[i].rev
    <3>1. i \in Subjects /\ head[i].seq \in Nat /\ head[s].seq \in Nat /\ pos[v] \in Nat
      BY <1>0, <2>1 DEF StreamTypes, ViewTypes, Messages
    <3>2. head[i].seq # head[s].seq
      BY <1>0, <2>1, <2>4, <3>1 DEF StreamInv
    <3>3. head[i].seq <= pos[v]
      BY <2>1, <2>4, <3>1, <3>2
    <3> QED BY <2>2, <2>3, <3>3 DEF HoldsThrough
  <2>5. HoldsThrough(v, head[s].seq, "cur")'
    <3>1. buf'[v]["cur"] # None
      <4>1. buf'[v]["cur"] \in Callbacks
        BY <1>0, <2>1, <2>2 DEF Callbacks, StreamTypes
      <4> QED BY <4>1
    <3> QED BY <1>0, <2>2, <2>4, <3>1 DEF HoldsThrough
  <2>6. buf'[v]["late"] # None => HoldsThrough(v, buf[v]["late"].msg.seq, "late")'
    BY <1>0, <2>2 DEF ViewCovers, HoldsThrough, Slots
  <2>7. HoldsThrough(v, pos[v], "cur")' /\ HoldsThrough(v, buf[v]["cur"].msg.seq, "cur")'
    BY <1>0, <2>2, <2>5
  <2> QED BY <1>0, <1>00, <2>2, <2>6, <2>7 DEF ViewCovers, Slots
<1>5. CASE Reattach(v)
  <2>1. /\ UNCHANGED <<mark, held, pos>> /\ buf'[v]["cur"] = None /\ run'[v] = "attach"
        /\ buf'[v]["late"] = IF buf[v]["cur"] # None THEN buf[v]["cur"] ELSE buf[v]["late"]
    BY <1>0, <1>5 DEF Reattach, ViewTypes
  <2>2. ASSUME buf'[v]["late"] # None PROVE HoldsThrough(v, buf[v]["late"].msg.seq, "late")'
    <3>1. PICK t \in Slots : buf'[v]["late"] = buf[v][t]
      BY <2>1 DEF Slots
    <3>2. HoldsThrough(v, buf[v][t].msg.seq, t)
      BY <1>0, <2>2, <3>1 DEF ViewCovers
    <3> QED BY <1>0, <2>1, <3>1, <3>2 DEF HoldsThrough
  <2> QED BY <1>0, <1>00, <2>1, <2>2 DEF ViewCovers, Slots
<1>6. ASSUME NEW s \in Slots, Apply(v, s) PROVE ViewCovers(v)'
  <2> DEFINE b == buf[v][s]
  <2>1. /\ b \in Callbacks /\ ~b.applied /\ b # None /\ UNCHANGED <<run, mark, pos>>
        /\ \A t \in Slots : t # s => buf'[v][t] = buf[v][t]
        /\ buf'[v][s] = [b EXCEPT !.applied = TRUE]
        /\ \A i \in Ids : held'[v][i] = IF b.subject = i /\ b.msg.rev > held[v][i]
                                       THEN b.msg.rev ELSE held[v][i]
    BY <1>6, Applies DEF Apply
  <2>2. /\ b.msg.rev \in Nat /\ b.msg.seq \in Nat /\ Retained(b.subject, b.msg)
        /\ buf'[v][s].subject = b.subject /\ buf'[v][s].msg = b.msg /\ buf'[v][s].applied
        /\ buf'[v][s] # None
    <3>1. Retained(b.subject, b.msg)
      BY <2>1 DEF Behind
    <3>2. [b EXCEPT !.applied = TRUE] \in Callbacks /\ None \notin Callbacks
      BY <2>1 DEF Callbacks
    <3>3. b.msg.rev \in Nat /\ b.msg.seq \in Nat
      BY <2>1 DEF Callbacks, Messages
    <3>4. /\ buf'[v][s].subject = b.subject /\ buf'[v][s].msg = b.msg /\ buf'[v][s].applied
      BY <2>1 DEF Callbacks
    <3>5. buf'[v][s] # None
      BY <2>1, <3>2
    <3> QED BY <3>1, <3>3, <3>4, <3>5
  <2> HIDE DEF b
  <2>3. ASSUME NEW i \in Ids, held[v][i] = head[i].rev PROVE held'[v][i] = head[i].rev
    BY <1>00, <2>1, <2>2, <2>3 DEF Retained
  <2>4. ASSUME NEW i \in Ids, b.subject = i, b.msg = head[i] PROVE held'[v][i] = head[i].rev
    BY <1>00, <2>1, <2>4
  <2>5. HoldsThrough(v, b.msg.seq, s)
    BY <1>0, <2>1 DEF ViewCovers, b
  <2>6. ASSUME NEW i \in Ids, head[i].seq <= b.msg.seq PROVE held'[v][i] = head[i].rev
    <3>1. held[v][i] = head[i].rev \/ (b.subject = i /\ b.msg = head[i])
      BY <2>5, <2>6 DEF HoldsThrough, b
    <3> QED BY <2>3, <2>4, <3>1
  <2>7. ASSUME NEW t \in Slots, buf'[v][t] # None
        PROVE  HoldsThrough(v, buf[v][t].msg.seq, t)'
    <3>1. CASE t = s
      BY <1>0, <2>2, <2>6, <3>1 DEF HoldsThrough
    <3>2. CASE t # s
      <4>1. buf'[v][t] = buf[v][t] /\ HoldsThrough(v, buf[v][t].msg.seq, t)
        BY <1>0, <2>1, <2>7, <3>2 DEF ViewCovers
      <4> QED BY <1>0, <2>3, <4>1 DEF HoldsThrough
    <3> QED BY <3>1, <3>2
  <2>8. ASSUME run[v] \in {"watch", "failing"} PROVE HoldsThrough(v, pos[v], "cur")'
    <3>1. HoldsThrough(v, pos[v], "cur")
      BY <1>0, <2>8 DEF ViewCovers
    <3>2. ASSUME NEW i \in Ids, head[i].seq <= pos[v]
          PROVE  \/ held'[v][i] = head[i].rev
                 \/ /\ buf'[v]["cur"] # None /\ ~buf'[v]["cur"].applied
                    /\ buf'[v]["cur"].subject = i /\ buf'[v]["cur"].msg = head[i]
      <4>1. CASE held[v][i] = head[i].rev
        BY <2>3, <4>1
      <4>2. CASE /\ buf[v]["cur"] # None /\ ~buf[v]["cur"].applied
                 /\ buf[v]["cur"].subject = i /\ buf[v]["cur"].msg = head[i]
        <5>1. CASE s # "cur"
          BY <2>1, <4>2, <5>1 DEF Slots
        <5>2. CASE s = "cur"
          BY <2>4, <4>2, <5>2 DEF b
        <5> QED BY <5>1, <5>2
      <4> QED BY <3>1, <3>2, <4>1, <4>2 DEF HoldsThrough
    <3> QED BY <1>0, <2>1, <3>2 DEF HoldsThrough
  <2> QED BY <1>0, <1>00, <2>1, <2>3, <2>7, <2>8 DEF ViewCovers
<1>7. ASSUME NEW s \in Slots, Advance(v, s) PROVE ViewCovers(v)'
  <2>1. /\ UNCHANGED <<run, held, pos>> /\ buf'[v][s] = None /\ buf[v][s] # None /\ buf[v][s].applied
        /\ \A t \in Slots : t # s => buf'[v][t] = buf[v][t]
        /\ mark'[v] = mark[v] \/ mark'[v] = buf[v][s].msg.seq
    BY <1>0, <1>7 DEF Advance, ViewTypes
  <2>2. HoldsThrough(v, buf[v][s].msg.seq, s)
    BY <1>0, <2>1 DEF ViewCovers
  <2>3. \A i \in Ids : head[i].seq <= buf[v][s].msg.seq => held[v][i] = head[i].rev
    BY <2>1, <2>2 DEF HoldsThrough
  <2>4. ASSUME NEW i \in Ids, head[i].seq <= mark'[v] PROVE held[v][i] = head[i].rev
    BY <1>00, <2>1, <2>3, <2>4
  <2>5. ASSUME NEW t \in Slots, buf'[v][t] # None PROVE HoldsThrough(v, buf[v][t].msg.seq, t)'
    <3>1. buf'[v][t] = buf[v][t] /\ HoldsThrough(v, buf[v][t].msg.seq, t)
      BY <1>0, <2>1, <2>5 DEF ViewCovers
    <3> QED BY <1>0, <2>1, <3>1 DEF HoldsThrough
  <2>6. ASSUME run[v] \in {"watch", "failing"} PROVE HoldsThrough(v, pos[v], "cur")'
    <3>1. HoldsThrough(v, pos[v], "cur")
      BY <1>0, <2>6 DEF ViewCovers
    <3>2. ASSUME NEW i \in Ids, head[i].seq <= pos[v]
          PROVE  \/ held[v][i] = head[i].rev
                 \/ /\ buf'[v]["cur"] # None /\ ~buf'[v]["cur"].applied
                    /\ buf'[v]["cur"].subject = i /\ buf'[v]["cur"].msg = head[i]
      BY <2>1, <3>1, <3>2 DEF HoldsThrough, Slots
    <3> QED BY <1>0, <2>1, <3>2 DEF HoldsThrough
  <2> QED BY <1>0, <2>1, <2>4, <2>5, <2>6 DEF ViewCovers
<1> QED BY <1>1, <1>2, <1>3, <1>4, <1>5, <1>6, <1>7 DEF ViewStep, Goroutine, Slots

LEMMA BehindStep ==
  (StreamAndCalls /\ \A v \in Views : Behind(v)) /\ [Next]_vars => \A v \in Views : Behind(v)'
<1> SUFFICES ASSUME StreamAndCalls, \A w \in Views : Behind(w), [Next]_vars, NEW v \in Views
             PROVE  Behind(v)'
  OBVIOUS
<1>1. CASE UNCHANGED <<seq, head, mark, held, pos, buf>>
  BY <1>1 DEF Behind, Retained
<1>2. CASE \E i \in Ids, bad \in BOOLEAN : Commit(i, bad)
  BY <1>2, CommitCovers
<1>3. CASE Break \/ Repair
  BY <1>1, <1>3, LayoutTypes DEF viewVars
<1>4. ASSUME NEW w \in Views, ViewStep(w) PROVE Behind(v)'
  <2>1. CASE w = v
    BY <1>4, <2>1, StepBehind
  <2>2. CASE w # v
    <3>1. UNCHANGED <<seq, head>>
      BY <1>4, ViewKeeps DEF streamVars
    <3> QED BY <1>4, <2>2, <3>1, ViewLocal DEF Behind, Retained
  <2> QED BY <2>1, <2>2
<1>5. CASE \E q \in Queries : QueryStep(q)
  BY <1>1, <1>5, QueryKeeps DEF streamVars
<1>6. CASE Close \/ Stopped \/ StopTimesOut
  BY <1>1, <1>6, CloseTypes DEF streamVars
<1>7. CASE UNCHANGED vars
  BY <1>1, <1>7 DEF vars, streamVars, viewVars
<1> QED BY <1>2, <1>3, <1>4, <1>5, <1>6, <1>7, Steps

\* A step that skips no message keeps what watermarks mean.
LEMMA CoversStep ==
  ASSUME StreamAndCalls, \A v \in Views : Behind(v), \A v \in Views : ViewCovers(v),
         [Next]_vars, ~\E v \in Views : Skip(v), NEW v \in Views
  PROVE  ViewCovers(v)'
<1>1. CASE UNCHANGED <<seq, head, run, fatal, mark, held, pos, buf>>
  BY <1>1 DEF ViewCovers, HoldsThrough
<1>2. CASE \E i \in Ids, bad \in BOOLEAN : Commit(i, bad)
  BY <1>2, CommitCovers
<1>3. CASE Break \/ Repair
  BY <1>1, <1>3, LayoutTypes DEF viewVars
<1>4. ASSUME NEW w \in Views, ViewStep(w) PROVE ViewCovers(v)'
  <2>1. CASE w = v
    BY <1>4, <2>1, StepCovers
  <2>2. CASE w # v
    <3>1. UNCHANGED <<seq, head>>
      BY <1>4, ViewKeeps DEF streamVars
    <3>2. /\ run'[v] = run[v] /\ fatal'[v] = fatal[v] /\ mark'[v] = mark[v]
          /\ held'[v] = held[v] /\ pos'[v] = pos[v] /\ buf'[v] = buf[v]
      BY <1>4, <2>2, ViewLocal
    <3> QED BY <3>1, <3>2, Untouched
  <2> QED BY <2>1, <2>2
<1>5. ASSUME NEW q \in Queries, QueryStep(q) PROVE ViewCovers(v)'
  <2>1. UNCHANGED <<seq, head, fatal, mark, held, pos, buf>>
    BY <1>5, QueryKeeps DEF streamVars
  <2>2. run \in [Views -> {"unborn", "attach", "verify", "watch", "failing", "ending", "exited"}]
    BY DEF StreamAndCalls, TypeOK, ViewTypes
  <2>3. run'[v] = run[v] \/ run'[v] \notin {"watch", "failing"}
    BY <1>5, <2>2, QueryViews DEF Starts, Retires
  <2> QED BY <2>1, <2>3, Untouched
<1>6. CASE Close \/ Stopped \/ StopTimesOut
  BY <1>1, <1>6, CloseTypes DEF streamVars
<1>7. CASE UNCHANGED vars
  BY <1>1, <1>7 DEF vars, streamVars, viewVars
<1> QED BY <1>2, <1>3, <1>4, <1>5, <1>6, <1>7, Steps

-----------------------------------------------------------------------------
(* What a page owes its query *)

\* A query's own step.
LEMMA OwnOwed ==
  ASSUME StreamAndCalls, NEW q \in Queries, QueryStep(q), NEW i \in Ids, QueryOwed(q, i),
         \A v \in Views : ViewCovers(v)
  PROVE  QueryOwed(q, i)'
<1> USE DEF QueryOwed
<1>0. QueryTypes /\ ViewTypes /\ UNCHANGED <<head, held>>
  BY QueryKeeps DEF StreamAndCalls, TypeOK, streamVars
<1>00. head[i].rev \in Nat /\ head[i].seq \in Nat /\ seq \in Nat /\ head[i].seq <= seq
       /\ floor[q][i] \in Nat /\ target[q] \in Nat
  BY DEF StreamAndCalls, TypeOK, StreamTypes, QueryTypes, StreamInv, Messages, Subjects
<1>1. ASSUME Acquire(q), pc[q] # "done"
      PROVE  pc'[q] \in {"check", "done"} /\ res'[q] # "page"
  BY <1>0, <1>1 DEF QueryTypes, Acquire, Return
<1>2. CASE Begin(q)
  <2>1. Acquire(q) /\ pc[q] = "idle" /\ floor'[q][i] = head[i].rev
    BY <1>0, <1>2 DEF Begin, QueryTypes
  <2> QED BY <1>0, <1>00, <1>1, <2>1
<1>3. CASE Reacquire(q)
  <2>1. Acquire(q) /\ pc[q] = "reacquire" /\ UNCHANGED floor
    BY <1>3 DEF Reacquire
  <2> QED BY <1>0, <1>1, <2>1
<1>4. CASE Check(q)
  <2>1. pc[q] = "check" /\ at[q] \in Views /\ UNCHANGED floor
    BY <1>4 DEF Check, StreamAndCalls, QuerySteps
  <2>2. fatal[at[q]] # "page"
    BY <1>0, <2>1 DEF ViewTypes
  <2>3. pc'[q] \in {"tip", "retire", "done"} /\ res'[q] # "page"
    BY <1>0, <1>4, <2>1, <2>2 DEF Check, Return, QueryTypes
  <2> QED BY <1>0, <2>1, <2>3
<1>5. CASE Retire(q)
  <2>1. pc'[q] = "reacquire" /\ pc[q] = "retire" /\ UNCHANGED <<floor, res>>
    BY <1>0, <1>5 DEF Retire, QueryTypes
  <2> QED BY <1>0, <2>1
<1>6. CASE ReadTip(q)
  <2>1. pc'[q] = "barrier" /\ pc[q] = "tip" /\ target'[q] = seq /\ UNCHANGED <<floor, res>>
    BY <1>0, <1>6 DEF ReadTip, QueryTypes
  <2> QED BY <1>0, <1>00, <2>1
<1>7. CASE BarrierPassed(q)
  <2>1. /\ pc'[q] = "read" /\ pc[q] = "barrier" /\ UNCHANGED <<floor, res, at>>
        /\ fatal[at[q]] = "none" /\ mark[at[q]] >= target[q]
    BY <1>0, <1>7 DEF BarrierPassed, QueryTypes, CaughtUp
  <2>2. at[q] \in Views
    BY <2>1 DEF StreamAndCalls, QuerySteps
  <2>3. head[i].seq <= mark[at[q]] => held[at[q]][i] = head[i].rev
    BY <2>1, <2>2 DEF ViewCovers
  <2>4. mark[at[q]] \in Nat
    BY <1>0, <2>2 DEF ViewTypes
  <2>5. head[i].rev > floor[q][i] \/ held[at[q]][i] = head[i].rev
    BY <1>00, <2>1, <2>3, <2>4
  <2> QED BY <1>0, <1>00, <2>1, <2>5
<1>8. CASE BarrierFatal(q) \/ Discard(q)
  <2>1. pc[q] \in {"barrier", "discard"} /\ at[q] \in Views /\ UNCHANGED floor
    BY <1>8 DEF BarrierFatal, Discard, StreamAndCalls, QuerySteps
  <2>2. fatal[at[q]] # "page"
    BY <1>0, <2>1 DEF ViewTypes
  <2>3. pc'[q] \in {"discard", "done"} /\ res'[q] # "page"
    BY <1>0, <1>8, <2>1, <2>2 DEF BarrierFatal, Discard, Return, QueryTypes
  <2> QED BY <1>0, <2>1, <2>3
<1>9. CASE BarrierStopped(q) \/ GiveUp(q)
  <2>1. pc'[q] = "done" /\ res'[q] # "page" /\ UNCHANGED floor
    BY <1>0, <1>9 DEF BarrierStopped, GiveUp, Return, QueryTypes
  <2> QED BY <1>0, <2>1
<1>10. CASE ReadPage(q)
  <2>1. pc'[q] = "done" /\ pc[q] = "read" /\ page'[q] = held[at[q]] /\ UNCHANGED floor
    BY <1>0, <1>10 DEF ReadPage, Return, QueryTypes
  <2> QED BY <1>0, <2>1
<1> QED BY <1>2, <1>3, <1>4, <1>5, <1>6, <1>7, <1>8, <1>9, <1>10 DEF QueryStep, Query

\* A query's steps change no other query.
LEMMA QueryLocal ==
  ASSUME StreamAndCalls, NEW p \in Queries, QueryStep(p), NEW q \in Queries, p # q
  PROVE  /\ pc'[q] = pc[q] /\ at'[q] = at[q] /\ target'[q] = target[q] /\ res'[q] = res[q]
         /\ page'[q] = page[q] /\ floor'[q] = floor[q]
<1>0. QueryTypes
  BY DEF StreamAndCalls, TypeOK
<1> USE DEF QueryTypes
<1>1. CASE Begin(p) \/ Reacquire(p)
  BY <1>0, <1>1 DEF Begin, Reacquire, Acquire, Return
<1>2. CASE Check(p) \/ Retire(p) \/ ReadTip(p) \/ BarrierPassed(p) \/ BarrierFatal(p)
  BY <1>0, <1>2 DEF Check, Retire, ReadTip, BarrierPassed, BarrierFatal, Return
<1>3. CASE BarrierStopped(p) \/ Discard(p) \/ ReadPage(p) \/ GiveUp(p)
  BY <1>0, <1>3 DEF BarrierStopped, Discard, ReadPage, GiveUp, Return
<1> QED BY <1>1, <1>2, <1>3 DEF QueryStep, Query

LEMMA OwedStep ==
  ASSUME StreamAndCalls, \A v \in Views : ViewCovers(v), [Next]_vars,
         NEW q \in Queries, NEW i \in Ids, QueryOwed(q, i)
  PROVE  QueryOwed(q, i)'
<1>0. QueryTypes /\ ViewTypes /\ i \in Subjects
  BY DEF StreamAndCalls, TypeOK, Subjects
<1>00. head[i].rev \in Nat /\ floor[q][i] \in Nat /\ target[q] \in Nat
  BY DEF StreamAndCalls, TypeOK, StreamTypes, QueryTypes, Messages, Subjects
<1>1. CASE UNCHANGED <<head, held, queryVars>>
  BY <1>1 DEF QueryOwed, queryVars
<1>2. ASSUME NEW j \in Ids, NEW bad \in BOOLEAN, Commit(j, bad) PROVE QueryOwed(q, i)'
  <2>1. UNCHANGED <<held, queryVars>> /\ (head'[i] = head[i] \/ head'[i].rev > head[i].rev)
    BY <1>2, CommitTypes, HeadGrows DEF viewVars
  <2>2. head'[i].rev \in Nat
    BY <1>0, <1>2, CommitTypes DEF StreamAndCalls, TypeOK, StreamTypes, Messages
  <2>3. CASE head'[i] = head[i]
    BY <2>1, <2>3 DEF QueryOwed, queryVars
  <2>4. CASE head'[i].rev > head[i].rev
    <3>1. floor[q][i] <= head[i].rev
      BY DEF QueryOwed
    <3>2. head'[i].rev > floor[q][i] /\ floor[q][i] <= head'[i].rev
      BY <1>00, <2>2, <2>4, <3>1
    <3> QED BY <2>1, <3>2 DEF QueryOwed, queryVars
  <2> QED BY <2>1, <2>3, <2>4
<1>3. CASE Break \/ Repair
  BY <1>1, <1>3, LayoutTypes DEF viewVars
<1>4. ASSUME NEW v \in Views, ViewStep(v) PROVE QueryOwed(q, i)'
  <2>1. UNCHANGED <<head, queryVars>>
    BY <1>4, ViewKeeps DEF streamVars
  <2>2. ASSUME pc[q] = "read" PROVE head[i].rev > floor[q][i] \/ held'[at[q]][i] >= floor[q][i]
    <3>1. at[q] \in Views
      BY <2>2 DEF StreamAndCalls, QuerySteps
    <3>2. held'[at[q]][i] >= held[at[q]][i]
      BY <1>4, <3>1, ViewGrows
    <3>3. held[at[q]][i] \in Nat /\ held'[at[q]][i] \in Nat
      BY <1>0, <1>4, <3>1, ViewTypesKept DEF ViewTypes
    <3> QED BY <1>00, <2>2, <3>2, <3>3 DEF QueryOwed
  <2> QED BY <2>1, <2>2 DEF QueryOwed, queryVars
<1>5. ASSUME NEW p \in Queries, QueryStep(p) PROVE QueryOwed(q, i)'
  <2>1. CASE p = q
    BY <1>5, <2>1, OwnOwed
  <2>2. CASE p # q
    <3>1. UNCHANGED <<head, held>>
      BY <1>5, QueryKeeps DEF streamVars
    <3> QED BY <1>5, <2>2, <3>1, QueryLocal DEF QueryOwed
  <2> QED BY <2>1, <2>2
<1>6. CASE Close \/ Stopped \/ StopTimesOut
  BY <1>1, <1>6, CloseTypes DEF streamVars
<1>7. CASE UNCHANGED vars
  BY <1>1, <1>7 DEF vars, streamVars, viewVars
<1> QED BY <1>2, <1>3, <1>4, <1>5, <1>6, <1>7, Steps

\* A step counts a skipped message or skips none.
LEMMA SkipsCounted ==
  ASSUME StreamAndCalls, [Next]_vars, skips' = 0
  PROVE  skips = 0 /\ ~\E v \in Views : Skip(v)
<1>0. skips \in Nat
  BY DEF StreamAndCalls, TypeOK, FaultTypes
<1>1. ~\E v \in Views : Skip(v)
  BY <1>0 DEF Skip
<1>2. UNCHANGED skips
  <2>1. CASE UNCHANGED vars
    BY <2>1 DEF vars, faultVars
  <2>2. CASE \E i \in Ids, bad \in BOOLEAN : Commit(i, bad)
    BY <2>2 DEF Commit
  <2>3. CASE Break \/ Repair
    BY <2>3, LayoutTypes
  <2>4. CASE \E v \in Views : ViewStep(v)
    BY <1>1, <2>4, SkipCounts
  <2>5. CASE \E q \in Queries : QueryStep(q)
    BY <2>5, QueryKeeps DEF faultVars
  <2>6. CASE Close \/ Stopped \/ StopTimesOut
    BY <2>6, CloseTypes DEF faultVars
  <2> QED BY <2>1, <2>2, <2>3, <2>4, <2>5, <2>6, Steps
<1> QED BY <1>1, <1>2

LEMMA InitView == Init => ViewInv
<1> SUFFICES ASSUME Init PROVE ViewInv
  OBVIOUS
<1>1. StreamAndCalls
  BY InitTypes
<1>2. RunnerKnown
  BY DEF Init, RunnerKnown, Running, Views
<1>3. \A i \in Ids : head[i].seq = 0 /\ head[i].rev = 0
  BY DEF Init, NoMessage, Subjects
<1>4. ASSUME NEW v \in Views PROVE Behind(v) /\ ViewCovers(v)
  <2>1. /\ mark[v] = 0 /\ pos[v] = 0 /\ seq = 0 /\ \A i \in Ids : held[v][i] = 0
        /\ \A s \in Slots : buf[v][s] = None
    BY DEF Init
  <2> QED BY <1>3, <2>1 DEF Behind, ViewCovers, HoldsThrough
<1>5. ASSUME NEW q \in Queries, NEW i \in Ids PROVE QueryOwed(q, i)
  BY <1>3 DEF Init, QueryOwed
<1> QED BY <1>1, <1>2, <1>4, <1>5 DEF ViewInv

LEMMA ViewInvariant == Spec => []ViewInv
<1>1. ViewInv /\ [Next]_vars => ViewInv'
  <2> SUFFICES ASSUME ViewInv, [Next]_vars PROVE ViewInv'
    OBVIOUS
  <2>1. StreamAndCalls /\ RunnerKnown /\ \A v \in Views : Behind(v)
    BY DEF ViewInv
  <2>2. StreamAndCalls' /\ RunnerKnown' /\ \A v \in Views : Behind(v)'
    BY <2>1, StepTypes, RunnerStep, BehindStep
  <2>3. ASSUME skips' = 0
        PROVE  /\ \A v \in Views : ViewCovers(v)'
               /\ \A q \in Queries, i \in Ids : QueryOwed(q, i)'
    <3>1. skips = 0 /\ ~\E v \in Views : Skip(v)
      BY <2>1, <2>3, SkipsCounted
    <3>2. /\ \A v \in Views : ViewCovers(v)
          /\ \A q \in Queries, i \in Ids : QueryOwed(q, i)
      BY <3>1 DEF ViewInv
    <3>3. \A v \in Views : ViewCovers(v)'
      BY <2>1, <3>1, <3>2, CoversStep
    <3>4. \A q \in Queries, i \in Ids : QueryOwed(q, i)'
      BY <2>1, <3>2, OwedStep
    <3> QED BY <3>3, <3>4
  <2> QED BY <2>2, <2>3 DEF ViewInv
<1> QED BY <1>1, InitView, PTL DEF Spec

\* Until a message is skipped, a view without an error holds every record whose
\* message is at or below its watermark, through failed subscriptions, redelivery
\* from the start and callbacks that outlive their subscription (run, applyMessage,
\* advance).
THEOREM MarksCover == Spec => [](skips = 0 => MarkCovers)
<1>1. ViewInv => (skips = 0 => MarkCovers)
  BY DEF ViewInv, StreamAndCalls, MarkCovers, ViewCovers
<1> QED BY <1>1, ViewInvariant, PTL

\* Until a message is skipped, a page leaves out nothing that was committed before
\* its query began and is still the record's last revision (readyView, waitBarrier).
THEOREM PagesCurrent == Spec => [](skips = 0 => PageCurrent)
<1>1. ViewInv => (skips = 0 => PageCurrent)
  BY DEF ViewInv, PageCurrent, QueryOwed
<1> QED BY <1>1, ViewInvariant, PTL

=============================================================================
