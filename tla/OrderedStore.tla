---------------------------- MODULE OrderedStore ----------------------------
(***************************************************************************)
(* The mutating half of the ordered index (ordered.go) over one namespace  *)
(* stream.  Every record and every scope counter is the last message of    *)
(* its own subject, and the stream sequence of that message is the fence   *)
(* of the compare-and-swap that replaces it.                               *)
(*                                                                         *)
(* A call is one Create, Update or Delete of some process.  Its reads and  *)
(* its publish are separate steps, so other calls run between them.  A     *)
(* publish is put on the wire, served by the stream at some later moment   *)
(* or never, and its acknowledgement may be lost: the call then resolves   *)
(* the ambiguity by reading back, or gives up, while its request may still *)
(* be served.                                                              *)
(***************************************************************************)
EXTENDS Integers, FiniteSets

CONSTANTS Ids, Scopes, ScopeOf, Values, Keys, NoKeys, NoValue,
          MaxOrder,      \* stands for math.MaxUint64 in a counter
          MaxRev,        \* stands for math.MaxUint64 in a revision
          MaxAttempts,   \* orderedCreateAttempts
          Calls,         \* the calls made, each at most once
          Procs,         \* processes, one orderedStore value each
          ProcOf,        \* the process that makes each call
          Ops,           \* the operations a run lets callers choose from
          NoLatch        \* no entry in the latch map

ASSUME ConstantsAssumption ==
  /\ ScopeOf \in [Ids -> Scopes]
  /\ ProcOf \in [Calls -> Procs]
  /\ MaxOrder \in Nat \ {0} /\ MaxRev \in Nat \ {0} /\ MaxAttempts \in Nat \ {0}
  /\ NoKeys \in Keys /\ NoValue \notin Values /\ NoLatch \notin Calls
  /\ Ops \subseteq {"create", "update", "delete"}

VARIABLES
  stream,    \* the namespace stream: "absent", "ours", or of a "foreign" layout
  seq,       \* last sequence the stream assigned
  ctrSeq,    \* sequence of each scope's counter message, 0 when there is none
  ctr,       \* the last allocated order it holds
  recSeq,    \* sequence of each identity's record message, 0 when there is none
  rec,       \* the record it holds
  pc,        \* where each call is
  arg,       \* the call's operation and arguments
  attempt,   \* the attempt number of a Create
  req,       \* the last publish the call sent
  net,       \* what became of it: "none", "wire", "ok" or "rejected"
  res,       \* what the call returned
  ret,       \* the record it returned
  latches,   \* each process's map from scopes to latches
  refs,      \* callers that want the latch; a latch is named by its creator
  token,     \* whether its permit is taken
  latchOf,   \* the latch a call queued on
  commits    \* history: every record version committed, and by which call

storeVars == <<seq, ctrSeq, ctr, recSeq, rec, commits>>
latchVars == <<latches, refs, token, latchOf>>
callVars == <<arg, attempt, req, net>>
vars == <<stream, storeVars, pc, callVars, res, ret, latchVars>>

Absent == [rev |-> 0, order |-> 0, value |-> NoValue, keys |-> NoKeys,
           deleted |-> FALSE]

Records == [rev : 0..MaxRev, order : 0..MaxOrder, value : Values \cup {NoValue},
            keys : Keys, deleted : BOOLEAN]

Args == [op : {"create", "update", "delete"}, id : Ids,
         value : Values \cup {NoValue}, keys : Keys]

\* One publish.  A batch carries the counter and the record, each fenced by its
\* own expectation; a revision carries the record alone.
Requests == [batch : BOOLEAN, id : Ids, cseq : Nat, rseq : Nat, new : Records]

NoArg == [op |-> "none"]
NoRequest == [batch |-> FALSE, cseq |-> 0]

Init ==
  /\ stream = "absent"
  /\ seq = 0
  /\ ctrSeq = [s \in Scopes |-> 0] /\ ctr = [s \in Scopes |-> 0]
  /\ recSeq = [i \in Ids |-> 0] /\ rec = [i \in Ids |-> Absent]
  /\ pc = [c \in Calls |-> "idle"]
  /\ arg = [c \in Calls |-> NoArg]
  /\ attempt = [c \in Calls |-> 0]
  /\ req = [c \in Calls |-> NoRequest] /\ net = [c \in Calls |-> "none"]
  /\ res = [c \in Calls |-> "none"] /\ ret = [c \in Calls |-> Absent]
  /\ latches = [p \in Procs |-> [s \in Scopes |-> NoLatch]]
  /\ refs = [l \in Calls |-> 0] /\ token = [l \in Calls |-> FALSE]
  /\ latchOf = [c \in Calls |-> NoLatch]
  /\ commits = {}

-----------------------------------------------------------------------------
(* The in-process latch of an order scope. *)

Scope(c) == ScopeOf[arg[c].id]

\* The critical section of acquireScope: join the scope's latch, or make one.
JoinLatch(c) ==
  LET p == ProcOf[c]
      known == latches[p][Scope(c)]
      l == IF known = NoLatch THEN c ELSE known
  IN /\ latches' = [latches EXCEPT ![p][Scope(c)] = l]
     /\ refs' = [refs EXCEPT ![l] = @ + 1]
     /\ latchOf' = [latchOf EXCEPT ![c] = l]
     /\ UNCHANGED token

\* Its drop: give the permit back if held, and forget the latch when idle.
UnusedAlways(l) == TRUE
Unused(l) == refs[l] = 1

DropLatchKeepingToken(c, held) ==
  LET l == latchOf[c]
  IN /\ refs' = [refs EXCEPT ![l] = @ - 1]
     /\ latches' = IF Unused(l)
                   THEN [latches EXCEPT ![ProcOf[c]][Scope(c)] = NoLatch]
                   ELSE latches
     /\ latchOf' = [latchOf EXCEPT ![c] = NoLatch]
     /\ UNCHANGED token

DropLatch(c, held) ==
  LET l == latchOf[c]
  IN /\ token' = [token EXCEPT ![l] = @ /\ ~held]
     /\ refs' = [refs EXCEPT ![l] = @ - 1]
     /\ latches' = IF Unused(l)
                   THEN [latches EXCEPT ![ProcOf[c]][Scope(c)] = NoLatch]
                   ELSE latches
     /\ latchOf' = [latchOf EXCEPT ![c] = NoLatch]

\* Every return of a call, with the deferred release of its latch.
Finish(c, what, r) ==
  /\ pc' = [pc EXCEPT ![c] = "done"]
  /\ res' = [res EXCEPT ![c] = what]
  /\ ret' = [ret EXCEPT ![c] = r]
  /\ IF latchOf[c] = NoLatch THEN UNCHANGED latchVars
                             ELSE DropLatch(c, pc[c] # "queued")

Goto(c, where) ==
  /\ pc' = [pc EXCEPT ![c] = where]
  /\ UNCHANGED <<res, ret>>

Send(c, r) ==
  /\ req' = [req EXCEPT ![c] = r]
  /\ net' = [net EXCEPT ![c] = "wire"]
  /\ Goto(c, "await")

\* uint64 addition of one: it wraps.
Incr(n, max) == IF n = max THEN 0 ELSE n + 1

-----------------------------------------------------------------------------
(* Create *)

\* Provision and verify the stream, inspect the identity, and only for an
\* absent one validate the candidate.
CreateRefusal(i, valid) ==
  IF stream = "foreign" THEN "layout"
  ELSE IF recSeq[i] # 0 THEN "existing"
  ELSE IF ~valid THEN "invalid"
  ELSE "none"

Create(c, i, v, k, valid) ==
  /\ pc[c] = "idle" /\ "create" \in Ops
  /\ stream' = IF stream = "absent" THEN "ours" ELSE stream
  /\ arg' = [arg EXCEPT ![c] = [op |-> "create", id |-> i, value |-> v, keys |-> k]]
  /\ LET refusal == CreateRefusal(i, valid)
     IN IF refusal = "none"
        THEN Goto(c, "enqueue") /\ UNCHANGED latchVars
        ELSE Finish(c, refusal, rec[i])
  /\ UNCHANGED <<storeVars, attempt, req, net>>

EnterScope(c) ==
  /\ pc[c] = "enqueue"
  /\ JoinLatch(c)
  /\ Goto(c, "queued")
  /\ UNCHANGED <<stream, storeVars, callVars>>

TakeToken(c) ==
  /\ pc[c] = "queued"
  /\ ~token[latchOf[c]]
  /\ token' = [token EXCEPT ![latchOf[c]] = TRUE]
  /\ attempt' = [attempt EXCEPT ![c] = 1]
  /\ Goto(c, "counter")
  /\ UNCHANGED <<stream, storeVars, arg, req, net, latches, refs, latchOf>>

\* One attempt: read the counter, and publish the counter and the record
\* together, each under its own fence.
Candidate(c) ==
  [rev |-> 1, order |-> Incr(ctr[Scope(c)], MaxOrder), value |-> arg[c].value,
   keys |-> arg[c].keys, deleted |-> FALSE]

OrderExhausted(c) == ctr[Scope(c)] = MaxOrder

Allocate(c) ==
  /\ pc[c] = "counter"
  /\ IF OrderExhausted(c)
     THEN Finish(c, "exhausted", Absent) /\ UNCHANGED <<req, net>>
     ELSE /\ Send(c, [batch |-> TRUE, id |-> arg[c].id, cseq |-> ctrSeq[Scope(c)],
                      rseq |-> 0, new |-> Candidate(c)])
          /\ UNCHANGED latchVars
  /\ UNCHANGED <<stream, storeVars, arg, attempt>>

-----------------------------------------------------------------------------
(* Update and Delete *)

\* A revision's refusals, in the order the code checks them.
RevisionRefusal(op, i, expect, valid) ==
  IF stream = "foreign" THEN "layout"
  ELSE IF recSeq[i] = 0 THEN "notfound"
  ELSE IF rec[i].deleted THEN IF op = "delete" THEN "tombstone" ELSE "deleted"
  ELSE IF ~valid THEN "invalid"
  ELSE IF rec[i].rev # expect THEN "conflict"
  ELSE IF rec[i].rev = MaxRev THEN "exhausted"
  ELSE "none"

Revise(c, op, i, expect, valid, next) ==
  /\ pc[c] = "idle" /\ op \in Ops
  /\ arg' = [arg EXCEPT ![c] = [op |-> op, id |-> i, value |-> next.value,
                                keys |-> next.keys]]
  /\ LET refusal == RevisionRefusal(op, i, expect, valid)
     IN IF refusal = "none"
        THEN Send(c, [batch |-> FALSE, id |-> i, cseq |-> 0,
                      rseq |-> recSeq[i], new |-> next])
             /\ UNCHANGED latchVars
        ELSE Finish(c, refusal, rec[i]) /\ UNCHANGED <<req, net>>
  /\ UNCHANGED <<stream, storeVars, attempt>>

Update(c, i, expect, v, k, valid) ==
  Revise(c, "update", i, expect, valid,
         [rev |-> Incr(rec[i].rev, MaxRev), order |-> rec[i].order, value |-> v,
          keys |-> k, deleted |-> FALSE])

Delete(c, i, expect) ==
  Revise(c, "delete", i, expect, TRUE,
         [rev |-> Incr(rec[i].rev, MaxRev), order |-> rec[i].order,
          value |-> rec[i].value, keys |-> NoKeys, deleted |-> TRUE])

-----------------------------------------------------------------------------
(* The stream serves a publish: all of it under all its fences, or nothing. *)

FenceHoldsNoCounter(r) == recSeq[r.id] = r.rseq
FenceHoldsNoRecord(r) == r.batch => ctrSeq[ScopeOf[r.id]] = r.cseq

FenceHolds(r) ==
  /\ recSeq[r.id] = r.rseq
  /\ r.batch => ctrSeq[ScopeOf[r.id]] = r.cseq

Commit(c, r) ==
  LET s == ScopeOf[r.id]
      last == IF r.batch THEN seq + 2 ELSE seq + 1
  IN /\ seq' = last
     /\ ctrSeq' = IF r.batch THEN [ctrSeq EXCEPT ![s] = seq + 1] ELSE ctrSeq
     /\ ctr' = IF r.batch THEN [ctr EXCEPT ![s] = r.new.order] ELSE ctr
     /\ recSeq' = [recSeq EXCEPT ![r.id] = last]
     /\ rec' = [rec EXCEPT ![r.id] = r.new]
     /\ commits' = commits \cup {[id |-> r.id, rec |-> r.new, by |-> c]}

Serve(c) ==
  /\ net[c] = "wire"
  /\ IF FenceHolds(req[c])
     THEN Commit(c, req[c]) /\ net' = [net EXCEPT ![c] = "ok"]
     ELSE UNCHANGED storeVars /\ net' = [net EXCEPT ![c] = "rejected"]
  /\ UNCHANGED <<stream, pc, arg, attempt, req, res, ret, latchVars>>

-----------------------------------------------------------------------------
(* The outcomes of a publish *)

Success == [create |-> "created", update |-> "updated", delete |-> "tombstone"]

Acknowledged(c) ==
  /\ pc[c] = "await" /\ net[c] = "ok"
  /\ Finish(c, Success[arg[c].op], req[c].new)
  /\ UNCHANGED <<stream, storeVars, callVars>>

PreconditionFailed(c) ==
  /\ pc[c] = "await" /\ net[c] = "rejected"
  /\ Goto(c, "settle")
  /\ UNCHANGED <<stream, storeVars, callVars, latchVars>>

AckLostIsRejection(c) ==
  /\ pc[c] = "await"
  /\ Goto(c, "settle")
  /\ UNCHANGED <<stream, storeVars, callVars, latchVars>>

\* No acknowledgement in time, or one that does not account for the batch: the
\* publish may have been served, or be served later.
AckLost(c) ==
  /\ pc[c] = "await"
  /\ Goto(c, "resolve")
  /\ UNCHANGED <<stream, storeVars, callVars, latchVars>>

MoreAttempts(c) == attempt[c] < MaxAttempts

\* After a failed fence the identity settles a Create: a record there is the
\* answer, otherwise another attempt while the budget lasts.
SettleCreate(c) ==
  /\ pc[c] = "settle" /\ arg[c].op = "create"
  /\ IF recSeq[arg[c].id] # 0
     THEN Finish(c, "existing", rec[arg[c].id]) /\ UNCHANGED attempt
     ELSE IF MoreAttempts(c)
     THEN /\ attempt' = [attempt EXCEPT ![c] = @ + 1]
          /\ Goto(c, "counter")
          /\ UNCHANGED latchVars
     ELSE Finish(c, "contention", Absent) /\ UNCHANGED attempt
  /\ UNCHANGED <<stream, storeVars, arg, req, net>>

\* After a failed fence a revision lost to another writer: to a Delete, whose
\* tombstone answers a Delete, or to a newer revision.
LostRevision(op, i) ==
  IF recSeq[i] = 0 THEN "notfound"
  ELSE IF rec[i].deleted THEN IF op = "delete" THEN "tombstone" ELSE "deleted"
  ELSE "conflict"

SettleRevision(c) ==
  /\ pc[c] = "settle" /\ arg[c].op # "create"
  /\ Finish(c, LostRevision(arg[c].op, arg[c].id), rec[arg[c].id])
  /\ UNCHANGED <<stream, storeVars, callVars>>

ResolutionByRevision(c) ==
  LET i == arg[c].id IN
  IF recSeq[i] # 0 /\ rec[i].rev = req[c].new.rev THEN Success[arg[c].op]
  ELSE IF arg[c].op = "create" /\ recSeq[i] # 0 THEN "existing"
  ELSE "ambiguous"

\* After a lost acknowledgement, a stored record equal to the one submitted is
\* taken as the proof that the publish landed.
Resolution(c) ==
  LET i == arg[c].id IN
  IF recSeq[i] # 0 /\ rec[i] = req[c].new THEN Success[arg[c].op]
  ELSE IF arg[c].op = "create" /\ recSeq[i] # 0 THEN "existing"
  ELSE "ambiguous"

Resolve(c) ==
  /\ pc[c] = "resolve"
  /\ Finish(c, Resolution(c), rec[arg[c].id])
  /\ UNCHANGED <<stream, storeVars, callVars>>

\* The caller cancels, a read fails (from "enqueue": the inspection, once the
\* stream is there), the server refuses the batch: the call returns an error,
\* releases its latch, and leaves its publish where it is.
Fail(c) ==
  /\ pc[c] \in {"enqueue", "queued", "counter", "await", "settle", "resolve"}
  /\ Finish(c, "error", Absent)
  /\ UNCHANGED <<stream, storeVars, callVars>>

\* Someone else creates a stream of that name with another layout.
ForeignStream ==
  /\ stream = "absent"
  /\ stream' = "foreign"
  /\ UNCHANGED <<storeVars, pc, callVars, res, ret, latchVars>>

Begin(c) ==
  \E i \in Ids, valid \in BOOLEAN, v \in Values, k \in Keys, e \in 1..MaxRev :
    \/ Create(c, i, v, k, valid)
    \/ Update(c, i, e, v, k, valid)
    \/ Delete(c, i, e)

Proceed(c) ==
  \/ EnterScope(c) \/ TakeToken(c) \/ Allocate(c)
  \/ Acknowledged(c) \/ PreconditionFailed(c) \/ AckLost(c)
  \/ SettleCreate(c) \/ SettleRevision(c) \/ Resolve(c)

Next ==
  \/ \E c \in Calls : Begin(c) \/ Proceed(c) \/ Serve(c) \/ Fail(c)
  \/ ForeignStream

\* A call in progress keeps going: each of its waits ends, by an answer or by
\* the caller's deadline.  Nothing makes the stream serve a publish.
Fairness == \A c \in Calls : WF_vars(Proceed(c))

Spec == Init /\ [][Next]_vars
FairSpec == Spec /\ Fairness
-----------------------------------------------------------------------------
(* Properties *)

Outcomes == {"none", "created", "existing", "updated", "tombstone", "layout",
             "invalid", "notfound", "deleted", "conflict", "exhausted",
             "contention", "ambiguous", "error"}

\* Type invariant: every variable of the store, of the stream and of the calls
\* stays within the values the code's types and constants allow.
TypeOK ==
  /\ stream \in {"absent", "ours", "foreign"}
  /\ seq \in Nat
  /\ ctrSeq \in [Scopes -> Nat] /\ ctr \in [Scopes -> 0..MaxOrder]
  /\ recSeq \in [Ids -> Nat] /\ rec \in [Ids -> Records]
  /\ pc \in [Calls -> {"idle", "enqueue", "queued", "counter", "await", "settle",
                       "resolve", "done"}]
  /\ arg \in [Calls -> Args \cup {NoArg}]
  /\ attempt \in [Calls -> 0..MaxAttempts]
  /\ req \in [Calls -> Requests \cup {NoRequest}]
  /\ net \in [Calls -> {"none", "wire", "ok", "rejected"}]
  /\ res \in [Calls -> Outcomes] /\ ret \in [Calls -> Records]
  /\ latches \in [Procs -> [Scopes -> Calls \cup {NoLatch}]]
  /\ refs \in [Calls -> Int] /\ token \in [Calls -> BOOLEAN]
  /\ latchOf \in [Calls -> Calls \cup {NoLatch}]
  /\ commits \subseteq [id : Ids, rec : Records, by : Calls]

\* No two records of one scope ever hold the same order, whatever creators of
\* however many processes raced for the counter, retried, or had their
\* acknowledgements lost (Create's counter fence).
OrderUnique ==
  \A i, j \in Ids :
    /\ i # j /\ ScopeOf[i] = ScopeOf[j]
    /\ recSeq[i] # 0 /\ recSeq[j] # 0
    => rec[i].order # rec[j].order

\* A definite refusal means the call changed nothing and never will: no publish
\* of it is still under way that the stream may serve after the return.
Refusals == {"layout", "invalid", "notfound", "deleted", "conflict", "exhausted",
             "contention"}

RefusalIsFinal ==
  \A c \in Calls : res[c] \in Refusals =>
    net[c] # "wire" /\ \A m \in commits : m.by # c

\* A record returned as the outcome of a mutation is a version the identity
\* really went through, and a reported creation or update was committed by this
\* call or by one that submitted the very same record.
SuccessIsDurable ==
  \A c \in Calls : res[c] \in {"created", "existing", "updated", "tombstone"} =>
    \E m \in commits :
      /\ m.id = arg[c].id /\ m.rec = ret[c]
      /\ res[c] \in {"created", "updated"} =>
           m.by = c \/ req[m.by].new = req[c].new

InScope(c) ==
  arg[c].op = "create" /\ pc[c] \in {"counter", "await", "settle", "resolve"}

\* Creates of one process in one scope queue: from taking the permit to
\* returning, at most one of them is reading the counter or publishing.  And the
\* latch map holds a scope exactly while some call of the process wants it, so it
\* does not grow with every scope ever written and no caller's latch is dropped
\* under it (acquireScope and its release).
LatchSound ==
  /\ \A c, d \in Calls :
       c # d /\ InScope(c) /\ InScope(d) /\ ProcOf[c] = ProcOf[d] => Scope(c) # Scope(d)
  /\ \A p \in Procs, s \in Scopes :
       latches[p][s] # NoLatch <=>
         \E c \in Calls : latchOf[c] # NoLatch /\ ProcOf[c] = p /\ Scope(c) = s

\* Every call returns, also one whose publish is never answered, and also one
\* queued behind it on the latch.
CallsReturn == \A c \in Calls : (pc[c] # "idle") ~> (pc[c] = "done")

\* The store implements the ordered index: each committed publish is one
\* creation, update or deletion of the abstract map, and nothing else changes it.
Index == INSTANCE OrderedIndexSpec WITH index <- rec
ImplementsIndex == Index!Spec

-----------------------------------------------------------------------------
(* The inductive invariant behind OrderUnique and ImplementsIndex *)

\* No message carries a sequence the stream has not assigned yet.
SeqsBounded ==
  /\ \A s \in Scopes : ctrSeq[s] <= seq
  /\ \A i \in Ids : recSeq[i] <= seq

\* The counter of a scope is at or above the order of each of its records.
CounterCovers ==
  \A i \in Ids :
    IF recSeq[i] = 0 THEN rec[i] = Absent
    ELSE /\ rec[i].rev > 0
         /\ rec[i].order > 0 /\ rec[i].order <= ctr[ScopeOf[i]]

\* A batch whose counter fence would still hold carries the next order, and a
\* revision whose fence would still hold is the successor of the live record.
BatchCurrent(r) ==
  /\ r.rseq = 0 /\ r.cseq <= seq
  /\ r.new.rev = 1 /\ ~r.new.deleted /\ r.new.value \in Values
  /\ ctrSeq[ScopeOf[r.id]] = r.cseq => r.new.order = ctr[ScopeOf[r.id]] + 1

RevisionCurrent(r) ==
  /\ r.rseq > 0 /\ r.rseq <= seq
  /\ recSeq[r.id] = r.rseq =>
       /\ ~rec[r.id].deleted /\ rec[r.id].rev < MaxRev
       /\ r.new.rev = rec[r.id].rev + 1 /\ r.new.order = rec[r.id].order
       /\ IF r.new.deleted
          THEN r.new.keys = NoKeys /\ r.new.value = rec[r.id].value
          ELSE r.new.value \in Values

RequestsCurrent ==
  \A c \in Calls : net[c] = "wire" =>
    req[c] \in Requests /\ (IF req[c].batch THEN BatchCurrent(req[c])
                                            ELSE RevisionCurrent(req[c]))

\* A call under way has its arguments, and a request once it has sent one.
CallsReady ==
  \A c \in Calls :
    /\ pc[c] \notin {"idle", "done"} =>
         arg[c] \in Args /\ (arg[c].op = "create" => arg[c].value \in Values)
    /\ pc[c] \in {"enqueue", "queued", "counter"} => arg[c].op = "create"
    /\ pc[c] \in {"await", "settle", "resolve"} => req[c] \in Requests

IndInv == TypeOK /\ SeqsBounded /\ CounterCovers /\ RequestsCurrent /\ CallsReady
          /\ OrderUnique

-----------------------------------------------------------------------------
(* The inductive invariant behind RefusalIsFinal and SuccessIsDurable *)

\* How far a call has come says what may have become of its publish.
CallPhases ==
  \A c \in Calls :
    /\ pc[c] # "done" => res[c] = "none"
    /\ pc[c] \in {"idle", "enqueue", "queued"} => net[c] = "none"
    /\ pc[c] = "counter" => net[c] \in {"none", "rejected"}
    /\ pc[c] = "settle" => net[c] = "rejected"
    /\ res[c] \in Refusals => net[c] \in {"none", "rejected"}
    /\ pc[c] \in {"await", "settle", "resolve"} => req[c].id = arg[c].id

\* Every version ever committed is the one its call's last publish carries, and
\* that publish was served; a served publish and a stored record are committed.
CommitsRequested ==
  /\ \A m \in commits :
       net[m.by] = "ok" /\ m.id = req[m.by].id /\ m.rec = req[m.by].new
  /\ \A c \in Calls : net[c] = "ok" => \E m \in commits : m.by = c
  /\ \A i \in Ids : recSeq[i] # 0 => \E m \in commits : m.id = i /\ m.rec = rec[i]

CallInv == CallPhases /\ CommitsRequested /\ SuccessIsDurable

-----------------------------------------------------------------------------
(* The inductive invariant behind LatchSound *)

Users(l) == {c \in Calls : latchOf[c] = l}
HoldsPermit(c) == latchOf[c] # NoLatch /\ pc[c] # "queued"

\* A call wants its scope's latch from joining it to returning.
LatchWanted ==
  \A c \in Calls :
    latchOf[c] # NoLatch <=>
      pc[c] = "queued" \/ InScope(c)

\* The map leads each of them to the latch it joined, and each entry to some call;
\* a latch is named by the call that made it, once, for its own scope.
LatchMapped ==
  /\ \A c \in Calls : latchOf[c] # NoLatch => latches[ProcOf[c]][Scope(c)] = latchOf[c]
  /\ \A p \in Procs, s \in Scopes : latches[p][s] # NoLatch =>
       /\ pc[latches[p][s]] \notin {"idle", "enqueue"}
       /\ ProcOf[latches[p][s]] = p /\ Scope(latches[p][s]) = s
       /\ \E c \in Calls : latchOf[c] = latches[p][s]

\* refs counts the calls that want the latch.
RefsCount ==
  \A l \in Calls : IsFiniteSet(Users(l)) /\ refs[l] = Cardinality(Users(l))

\* The permit is taken by one of them at most, and by one if it is taken.
PermitHeld ==
  /\ \A c \in Calls : HoldsPermit(c) => token[latchOf[c]]
  /\ \A l \in Calls : token[l] => \E c \in Calls : HoldsPermit(c) /\ latchOf[c] = l
  /\ \A c, d \in Calls : HoldsPermit(c) /\ HoldsPermit(d) /\ latchOf[c] = latchOf[d] => c = d

LatchInv == LatchWanted /\ LatchMapped /\ RefsCount /\ PermitHeld
=============================================================================
