------------------------- MODULE OrderedStoreProofs -------------------------
(***************************************************************************)
(* For every set of identities, scopes, processes and calls: the store     *)
(* keeps its types, never gives one order to two records of a scope, and   *)
(* implements the abstract ordered index; what a call tells its caller is  *)
(* so; and the latch of a scope admits one creator of a process at a time  *)
(* and is neither dropped early nor kept for nothing.                      *)
(***************************************************************************)
EXTENDS OrderedStore, FiniteSetTheorems, TLAPS

\* uint64 addition below the maximum does not wrap.
LEMMA IncrBelow ==
  ASSUME NEW max \in Nat, NEW n \in 0..max
  PROVE  /\ Incr(n, max) \in 0..max
         /\ n # max => Incr(n, max) = n + 1
  BY DEF Incr

\* The absent record is a record.
LEMMA AbsentIsRecord == Absent \in Records
  BY ConstantsAssumption DEF Absent, Records

\* What every return of a call does to the call and latch variables.
LEMMA FinishTypes ==
  ASSUME TypeOK, CallsReady, NEW c \in Calls, NEW what \in Outcomes,
         NEW r \in Records, Finish(c, what, r)
  PROVE  /\ pc' = [pc EXCEPT ![c] = "done"]
         /\ pc' \in [Calls -> {"idle", "enqueue", "queued", "counter", "await",
                               "settle", "resolve", "done"}]
         /\ res' \in [Calls -> Outcomes] /\ ret' \in [Calls -> Records]
         /\ latches' \in [Procs -> [Scopes -> Calls \cup {NoLatch}]]
         /\ refs' \in [Calls -> Int] /\ token' \in [Calls -> BOOLEAN]
         /\ latchOf' \in [Calls -> Calls \cup {NoLatch}]
<1>1. /\ pc' = [pc EXCEPT ![c] = "done"]
      /\ pc' \in [Calls -> {"idle", "enqueue", "queued", "counter", "await",
                            "settle", "resolve", "done"}]
      /\ res' \in [Calls -> Outcomes] /\ ret' \in [Calls -> Records]
  BY DEF TypeOK, Finish
<1>2. CASE latchOf[c] = NoLatch
  BY <1>1, <1>2 DEF TypeOK, Finish, latchVars
<1>3. CASE latchOf[c] # NoLatch
  <2>1. DropLatch(c, pc[c] # "queued")
    BY <1>3 DEF Finish
  <2>2. latchOf[c] \in Calls
    BY <1>3 DEF TypeOK
  <2>3. token' \in [Calls -> BOOLEAN]
    BY <2>1, <2>2 DEF TypeOK, DropLatch
  <2>4. refs' \in [Calls -> Int]
    BY <2>1, <2>2 DEF TypeOK, DropLatch
  <2>5. latchOf' \in [Calls -> Calls \cup {NoLatch}]
    BY <2>1 DEF TypeOK, DropLatch
  <2>6. latches' \in [Procs -> [Scopes -> Calls \cup {NoLatch}]]
    BY <2>1 DEF TypeOK, DropLatch
  <2> QED BY <1>1, <2>3, <2>4, <2>5, <2>6
<1> QED BY <1>2, <1>3

\* The part of the invariant about the stream's contents and the publishes that
\* may still be served.
StoreInv == SeqsBounded /\ CounterCovers /\ RequestsCurrent /\ OrderUnique

RequestCurrent(r) == IF r.batch THEN BatchCurrent(r) ELSE RevisionCurrent(r)

\* A step that leaves the stream and the publishes alone keeps it.
LEMMA StoreUntouched ==
  ASSUME StoreInv, UNCHANGED storeVars, UNCHANGED <<req, net>>
  PROVE  StoreInv'
  BY DEF StoreInv, SeqsBounded, CounterCovers, RequestsCurrent, OrderUnique,
         BatchCurrent, RevisionCurrent, storeVars

\* Sending a publish that matches what the call just read keeps it.
LEMMA SendKeeps ==
  ASSUME TypeOK, StoreInv, NEW c \in Calls, NEW r \in Requests,
         RequestCurrent(r), Send(c, r), UNCHANGED storeVars
  PROVE  StoreInv'
<1>1. /\ req' = [req EXCEPT ![c] = r] /\ net' = [net EXCEPT ![c] = "wire"]
      /\ req'[c] = r
      /\ \A d \in Calls : d # c => req'[d] = req[d] /\ net'[d] = net[d]
  BY DEF Send, TypeOK
<1>2. RequestsCurrent'
  <2> SUFFICES ASSUME NEW d \in Calls, net'[d] = "wire"
               PROVE  (/\ req[d] \in Requests
                       /\ IF req[d].batch THEN BatchCurrent(req[d])
                                         ELSE RevisionCurrent(req[d]))'
    BY DEF RequestsCurrent
  <2>1. CASE d = c
    BY <1>1, <2>1 DEF RequestCurrent, BatchCurrent, RevisionCurrent, storeVars
  <2>2. CASE d # c
    BY <1>1, <2>2 DEF StoreInv, RequestsCurrent, BatchCurrent, RevisionCurrent,
                      storeVars
  <2> QED BY <2>1, <2>2
<1>3. SeqsBounded' /\ CounterCovers' /\ OrderUnique'
  BY DEF StoreInv, SeqsBounded, CounterCovers, OrderUnique, storeVars
<1> QED BY <1>2, <1>3 DEF StoreInv

\* Serving a publish keeps it.  The heart of the argument: the batch that passes
\* the counter fence carries an order above every order of its scope, and the
\* sequences it is given make the fences of all earlier publishes fail.
LEMMA ServeKeeps ==
  ASSUME TypeOK, StoreInv, NEW c \in Calls, Serve(c)
  PROVE  StoreInv'
<1> DEFINE r == req[c]
           s == ScopeOf[r.id]
           last == IF r.batch THEN seq + 2 ELSE seq + 1
<1>1. r \in Requests /\ RequestCurrent(r)
  BY DEF Serve, StoreInv, RequestsCurrent, RequestCurrent
<1>2. r.id \in Ids /\ s \in Scopes /\ r.new \in Records /\ r.batch \in BOOLEAN
  BY <1>1, ConstantsAssumption DEF Requests
<1>3. /\ seq \in Nat /\ ctrSeq \in [Scopes -> Nat] /\ ctr \in [Scopes -> 0..MaxOrder]
      /\ recSeq \in [Ids -> Nat] /\ rec \in [Ids -> Records]
      /\ net \in [Calls -> {"none", "wire", "ok", "rejected"}] /\ req' = req
  BY DEF TypeOK, Serve
<1>4. CASE ~FenceHolds(r)
  <2>1. UNCHANGED storeVars /\ net' = [net EXCEPT ![c] = "rejected"]
    BY <1>4 DEF Serve
  <2>2. \A d \in Calls : net'[d] = "wire" => net[d] = "wire"
    BY <2>1, <1>3
  <2> QED BY <2>1, <2>2, <1>3
          DEF StoreInv, SeqsBounded, CounterCovers, RequestsCurrent, OrderUnique,
              BatchCurrent, RevisionCurrent, storeVars
<1>5. CASE FenceHolds(r)
  <2>1. Commit(c, r) /\ net' = [net EXCEPT ![c] = "ok"]
    BY <1>5 DEF Serve
  <2>2. \A d \in Calls : net'[d] = "wire" => net[d] = "wire"
    BY <2>1, <1>3
  <2>3. /\ seq' = last /\ last \in Nat /\ last > seq
        /\ recSeq' = [recSeq EXCEPT ![r.id] = last]
        /\ rec' = [rec EXCEPT ![r.id] = r.new]
    BY <2>1, <1>2, <1>3 DEF Commit
  <2>4. CASE r.batch
    <3>1. /\ ctrSeq' = [ctrSeq EXCEPT ![s] = seq + 1]
          /\ ctr' = [ctr EXCEPT ![s] = r.new.order]
          /\ last = seq + 2
      BY <2>1, <2>4 DEF Commit
    <3>2. /\ recSeq[r.id] = 0 /\ ctrSeq[s] = r.cseq
          /\ r.new.order = ctr[s] + 1 /\ r.new.rev = 1
      BY <1>1, <1>5, <2>4 DEF FenceHolds, RequestCurrent, BatchCurrent
    <3>3. SeqsBounded'
      BY <1>2, <1>3, <2>3, <3>1 DEF StoreInv, SeqsBounded
    <3>4. \A i \in Ids : recSeq[i] # 0 => /\ i # r.id
                                          /\ rec[i].order <= ctr[ScopeOf[i]]
                                          /\ rec[i].order \in Int
      BY <1>3, <3>2 DEF StoreInv, CounterCovers, Records
    <3>5. CounterCovers'
      <4> SUFFICES ASSUME NEW i \in Ids
                   PROVE  IF recSeq'[i] = 0 THEN rec'[i] = Absent
                          ELSE /\ rec'[i].rev > 0 /\ rec'[i].order > 0
                               /\ rec'[i].order <= ctr'[ScopeOf[i]]
        BY DEF CounterCovers
      <4>1. CASE i = r.id
        BY <4>1, <1>2, <1>3, <2>3, <3>1, <3>2
      <4>2. CASE i # r.id
        <5>1. recSeq'[i] = recSeq[i] /\ rec'[i] = rec[i]
          BY <4>2, <1>2, <1>3, <2>3
        <5>2. ScopeOf[i] \in Scopes
          BY ConstantsAssumption
        <5>3. ctr[ScopeOf[i]] <= ctr'[ScopeOf[i]]
          BY <5>2, <1>2, <1>3, <3>1, <3>2
        <5>4. ctr[ScopeOf[i]] \in Int /\ ctr'[ScopeOf[i]] \in Int
              /\ rec[i].order \in Int
          BY <5>2, <1>2, <1>3, <3>1 DEF Records
        <5> QED BY <5>1, <5>3, <5>4 DEF StoreInv, CounterCovers
      <4> QED BY <4>1, <4>2
    <3>6. OrderUnique'
      <4> SUFFICES ASSUME NEW i \in Ids, NEW j \in Ids, i # j,
                          ScopeOf[i] = ScopeOf[j], recSeq'[i] # 0, recSeq'[j] # 0
                   PROVE  rec'[i].order # rec'[j].order
        BY DEF OrderUnique
      <4>1. CASE i = r.id
        <5>1. recSeq[j] # 0 /\ rec'[j] = rec[j] /\ rec'[i] = r.new
          BY <4>1, <1>2, <1>3, <2>3
        <5>2. rec[j].order <= ctr[s] /\ rec[j].order \in Int /\ ctr[s] \in Int
          BY <4>1, <5>1, <3>4, <1>2, <1>3
        <5> QED BY <5>1, <5>2, <3>2
      <4>2. CASE j = r.id
        <5>1. recSeq[i] # 0 /\ rec'[i] = rec[i] /\ rec'[j] = r.new
          BY <4>2, <1>2, <1>3, <2>3
        <5>2. rec[i].order <= ctr[s] /\ rec[i].order \in Int /\ ctr[s] \in Int
          BY <4>2, <5>1, <3>4, <1>2, <1>3
        <5> QED BY <5>1, <5>2, <3>2
      <4>3. CASE i # r.id /\ j # r.id
        BY <4>3, <1>2, <1>3, <2>3 DEF StoreInv, OrderUnique
      <4> QED BY <4>1, <4>2, <4>3
    <3>7. RequestsCurrent'
      <4> SUFFICES ASSUME NEW d \in Calls, net[d] = "wire"
                   PROVE  /\ req[d] \in Requests
                          /\ IF req[d].batch THEN BatchCurrent(req[d])'
                                            ELSE RevisionCurrent(req[d])'
        BY <1>3, <2>2 DEF RequestsCurrent
      <4>1. req[d] \in Requests /\ req[d].id \in Ids /\ ScopeOf[req[d].id] \in Scopes
            /\ req[d].cseq \in Nat /\ req[d].rseq \in Nat /\ req[d].batch \in BOOLEAN
        BY ConstantsAssumption DEF StoreInv, RequestsCurrent, Requests
      <4>2. CASE req[d].batch
        <5>1. BatchCurrent(req[d])
          BY <4>2 DEF StoreInv, RequestsCurrent
        <5> QED BY <4>1, <4>2, <5>1, <1>2, <1>3, <2>3, <3>1 DEF BatchCurrent
      <4>3. CASE ~req[d].batch
        <5>1. RevisionCurrent(req[d])
          BY <4>3 DEF StoreInv, RequestsCurrent
        <5> QED BY <4>1, <4>3, <5>1, <1>2, <1>3, <2>3 DEF RevisionCurrent
      <4> QED BY <4>1, <4>2, <4>3
    <3> QED BY <3>3, <3>5, <3>6, <3>7 DEF StoreInv
  <2>5. CASE ~r.batch
    <3>1. ctrSeq' = ctrSeq /\ ctr' = ctr /\ last = seq + 1
      BY <2>1, <2>5 DEF Commit
    <3>2. /\ recSeq[r.id] # 0
          /\ r.new.order = rec[r.id].order /\ r.new.rev = rec[r.id].rev + 1
      BY <1>1, <1>3, <1>5, <2>5 DEF FenceHolds, RequestCurrent, RevisionCurrent
    <3>3. SeqsBounded'
      BY <1>2, <1>3, <2>3, <3>1 DEF StoreInv, SeqsBounded
    <3>4. CounterCovers'
      BY <1>2, <1>3, <2>3, <3>1, <3>2 DEF StoreInv, CounterCovers, Records
    <3>5. OrderUnique'
      BY <1>2, <1>3, <2>3, <3>2 DEF StoreInv, OrderUnique
    <3>6. RequestsCurrent'
      <4> SUFFICES ASSUME NEW d \in Calls, net[d] = "wire"
                   PROVE  /\ req[d] \in Requests
                          /\ IF req[d].batch THEN BatchCurrent(req[d])'
                                            ELSE RevisionCurrent(req[d])'
        BY <1>3, <2>2 DEF RequestsCurrent
      <4>1. req[d] \in Requests /\ req[d].id \in Ids
            /\ req[d].cseq \in Nat /\ req[d].rseq \in Nat /\ req[d].batch \in BOOLEAN
        BY DEF StoreInv, RequestsCurrent, Requests
      <4>2. CASE req[d].batch
        <5>1. BatchCurrent(req[d])
          BY <4>2 DEF StoreInv, RequestsCurrent
        <5> QED BY <4>1, <4>2, <5>1, <1>3, <2>3, <3>1 DEF BatchCurrent
      <4>3. CASE ~req[d].batch
        <5>1. RevisionCurrent(req[d])
          BY <4>3 DEF StoreInv, RequestsCurrent
        <5> QED BY <4>1, <4>3, <5>1, <1>2, <1>3, <2>3 DEF RevisionCurrent
      <4> QED BY <4>1, <4>2, <4>3
    <3> QED BY <3>3, <3>4, <3>5, <3>6 DEF StoreInv
  <2> QED BY <1>2, <2>4, <2>5
<1> QED BY <1>4, <1>5

\* The names a proof about one call's step needs about the others.
CallTypes ==
  /\ pc' \in [Calls -> {"idle", "enqueue", "queued", "counter", "await", "settle",
                        "resolve", "done"}]
  /\ res' \in [Calls -> Outcomes] /\ ret' \in [Calls -> Records]
  /\ latches' \in [Procs -> [Scopes -> Calls \cup {NoLatch}]]
  /\ refs' \in [Calls -> Int] /\ token' \in [Calls -> BOOLEAN]
  /\ latchOf' \in [Calls -> Calls \cup {NoLatch}]

\* A return that leaves arguments and publish alone, with the stream untouched.
LEMMA ReturnKeeps ==
  ASSUME IndInv, NEW c \in Calls, NEW what \in Outcomes, NEW r \in Records,
         Finish(c, what, r), UNCHANGED storeVars, UNCHANGED <<req, net>>,
         stream' \in {"absent", "ours", "foreign"},
         attempt' \in [Calls -> 0..MaxAttempts],
         arg' \in [Calls -> Args \cup {NoArg}],
         \A d \in Calls : d # c => arg'[d] = arg[d]
  PROVE  IndInv'
<1>1. CallTypes /\ pc' = [pc EXCEPT ![c] = "done"]
  BY FinishTypes DEF IndInv, CallTypes
<1>2. TypeOK'
  BY <1>1 DEF IndInv, TypeOK, CallTypes, storeVars
<1>3. CallsReady'
  BY <1>1 DEF IndInv, TypeOK, CallsReady
<1>4. StoreInv'
  BY StoreUntouched DEF IndInv, StoreInv
<1> QED BY <1>2, <1>3, <1>4 DEF IndInv, StoreInv

\* The stored record of an identity and the arguments of a call are typed.
LEMMA Typed ==
  ASSUME IndInv
  PROVE  /\ \A i \in Ids : rec[i] \in Records /\ recSeq[i] \in Nat
         /\ \A c \in Calls : pc[c] \notin {"idle", "done"} =>
              /\ arg[c] \in Args /\ arg[c].id \in Ids
              /\ arg[c].op \in {"create", "update", "delete"}
              /\ Scope(c) \in Scopes
              /\ Success[arg[c].op] \in Outcomes
  BY ConstantsAssumption
     DEF IndInv, TypeOK, CallsReady, Args, Scope, Success, Outcomes

\* Create's first step.
LEMMA CreateKeeps ==
  ASSUME IndInv, NEW c \in Calls, NEW i \in Ids, NEW v \in Values, NEW k \in Keys,
         NEW valid \in BOOLEAN, Create(c, i, v, k, valid)
  PROVE  IndInv'
<1>1. /\ stream' \in {"absent", "ours", "foreign"}
      /\ arg' \in [Calls -> Args \cup {NoArg}] /\ arg'[c] \in Args
      /\ arg'[c].op = "create" /\ arg'[c].value \in Values
      /\ \A d \in Calls : d # c => arg'[d] = arg[d]
      /\ UNCHANGED storeVars /\ UNCHANGED <<attempt, req, net>>
  BY DEF Create, IndInv, TypeOK, Args
<1>2. CASE CreateRefusal(i, valid) = "none"
  <2>1. Goto(c, "enqueue") /\ UNCHANGED latchVars
    BY <1>2 DEF Create
  <2>2. TypeOK'
    BY <1>1, <2>1 DEF IndInv, TypeOK, Goto, latchVars, storeVars
  <2>3. CallsReady'
    BY <1>1, <2>1 DEF IndInv, TypeOK, CallsReady, Goto
  <2>4. StoreInv'
    BY <1>1, StoreUntouched DEF IndInv, StoreInv
  <2> QED BY <2>2, <2>3, <2>4 DEF IndInv, StoreInv
<1>3. CASE CreateRefusal(i, valid) # "none"
  <2>1. Finish(c, CreateRefusal(i, valid), rec[i])
    BY <1>3 DEF Create
  <2>2. CreateRefusal(i, valid) \in Outcomes /\ rec[i] \in Records
    BY Typed DEF CreateRefusal, Outcomes
  <2>3. attempt' \in [Calls -> 0..MaxAttempts]
    BY <1>1 DEF IndInv, TypeOK
  <2> QED BY <1>1, <2>1, <2>2, <2>3, ReturnKeeps
<1> QED BY <1>2, <1>3

\* The first step of an Update or a Delete, whatever next record it submits, as
\* long as that record is a successor of the live one.
LEMMA ReviseKeeps ==
  ASSUME IndInv, NEW c \in Calls, NEW op \in {"update", "delete"}, NEW i \in Ids,
         NEW expect \in 1..MaxRev, NEW valid \in BOOLEAN, NEW next \in Records,
         Revise(c, op, i, expect, valid, next),
         next.rev = Incr(rec[i].rev, MaxRev), next.order = rec[i].order,
         IF next.deleted THEN next.keys = NoKeys /\ next.value = rec[i].value
                         ELSE next.value \in Values
  PROVE  IndInv'
<1>1. /\ arg' \in [Calls -> Args \cup {NoArg}] /\ arg'[c] \in Args
      /\ arg'[c].op = op
      /\ \A d \in Calls : d # c => arg'[d] = arg[d]
      /\ UNCHANGED storeVars /\ UNCHANGED <<stream, attempt>>
  BY DEF Revise, IndInv, TypeOK, Args, Records
<1>2. CASE RevisionRefusal(op, i, expect, valid) = "none"
  <2> DEFINE r == [batch |-> FALSE, id |-> i, cseq |-> 0, rseq |-> recSeq[i],
                   new |-> next]
  <2>1. Send(c, r) /\ UNCHANGED latchVars
    BY <1>2 DEF Revise
  <2>2. r \in Requests
    BY Typed DEF Requests
  <2>3. RequestCurrent(r)
    <3>1. recSeq[i] # 0 /\ ~rec[i].deleted /\ rec[i].rev # MaxRev
      BY <1>2 DEF RevisionRefusal
    <3>2. rec[i].rev \in 0..MaxRev /\ recSeq[i] \in Nat /\ MaxRev \in Nat
      BY Typed, ConstantsAssumption DEF Records
    <3>3. next.rev = rec[i].rev + 1 /\ rec[i].rev < MaxRev
      BY <3>1, <3>2, IncrBelow
    <3>4. recSeq[i] <= seq
      BY DEF IndInv, SeqsBounded
    <3> QED BY <3>1, <3>2, <3>3, <3>4 DEF RequestCurrent, RevisionCurrent
  <2>4. StoreInv'
    BY <1>1, <2>1, <2>2, <2>3, SendKeeps DEF IndInv, StoreInv
  <2>5. TypeOK'
    BY <1>1, <2>1, <2>2 DEF IndInv, TypeOK, Send, Goto, latchVars, storeVars
  <2>6. CallsReady'
    BY <1>1, <2>1, <2>2 DEF IndInv, TypeOK, CallsReady, Send, Goto
  <2> QED BY <2>4, <2>5, <2>6 DEF IndInv, StoreInv
<1>3. CASE RevisionRefusal(op, i, expect, valid) # "none"
  <2>1. /\ Finish(c, RevisionRefusal(op, i, expect, valid), rec[i])
        /\ UNCHANGED <<req, net>>
    BY <1>3 DEF Revise
  <2>2. RevisionRefusal(op, i, expect, valid) \in Outcomes /\ rec[i] \in Records
    BY Typed DEF RevisionRefusal, Outcomes
  <2>3. /\ attempt' \in [Calls -> 0..MaxAttempts]
        /\ stream' \in {"absent", "ours", "foreign"}
    BY <1>1 DEF IndInv, TypeOK
  <2> QED BY <1>1, <2>1, <2>2, <2>3, ReturnKeeps
<1> QED BY <1>2, <1>3

\* One attempt of a Create: read the counter and publish, or report exhaustion.
LEMMA AllocateKeeps ==
  ASSUME IndInv, NEW c \in Calls, Allocate(c)
  PROVE  IndInv'
<1> DEFINE r == [batch |-> TRUE, id |-> arg[c].id, cseq |-> ctrSeq[Scope(c)],
                 rseq |-> 0, new |-> Candidate(c)]
<1>1. /\ pc[c] = "counter" /\ arg[c] \in Args /\ arg[c].id \in Ids
      /\ Scope(c) \in Scopes /\ arg[c].value \in Values /\ arg[c].keys \in Keys
      /\ UNCHANGED storeVars /\ UNCHANGED <<stream, arg, attempt>>
  BY Typed DEF Allocate, IndInv, CallsReady, Args
<1>2. /\ attempt' \in [Calls -> 0..MaxAttempts]
      /\ stream' \in {"absent", "ours", "foreign"}
      /\ arg' \in [Calls -> Args \cup {NoArg}]
  BY <1>1 DEF IndInv, TypeOK
<1>3. CASE OrderExhausted(c)
  <2>1. Finish(c, "exhausted", Absent) /\ UNCHANGED <<req, net>>
    BY <1>3 DEF Allocate
  <2>2. "exhausted" \in Outcomes
    BY DEF Outcomes
  <2> QED BY <1>1, <1>2, <2>1, <2>2, AbsentIsRecord, ReturnKeeps
<1>4. CASE ~OrderExhausted(c)
  <2>1. Send(c, r) /\ UNCHANGED latchVars
    BY <1>4 DEF Allocate
  <2>2. /\ ctr[Scope(c)] \in 0..MaxOrder /\ MaxOrder \in Nat /\ MaxRev \in Nat \ {0}
        /\ ctrSeq[Scope(c)] \in Nat /\ ctrSeq[Scope(c)] <= seq
    BY <1>1, ConstantsAssumption DEF IndInv, TypeOK, SeqsBounded
  <2>3. /\ Incr(ctr[Scope(c)], MaxOrder) \in 0..MaxOrder
        /\ Incr(ctr[Scope(c)], MaxOrder) = ctr[Scope(c)] + 1
    BY <1>4, <2>2, IncrBelow DEF OrderExhausted
  <2>4. r \in Requests
    BY <1>1, <2>2, <2>3 DEF Requests, Candidate, Records
  <2>5. RequestCurrent(r)
    BY <1>1, <2>2, <2>3 DEF RequestCurrent, BatchCurrent, Candidate, Scope
  <2>6. StoreInv'
    BY <1>1, <2>1, <2>4, <2>5, SendKeeps DEF IndInv, StoreInv
  <2>7. TypeOK'
    BY <1>1, <2>1, <2>4 DEF IndInv, TypeOK, Send, Goto, latchVars, storeVars
  <2>8. CallsReady'
    BY <1>1, <2>1, <2>4 DEF IndInv, TypeOK, CallsReady, Send, Goto
  <2> QED BY <2>6, <2>7, <2>8 DEF IndInv, StoreInv
<1> QED BY <1>3, <1>4

\* The stream serving a publish, of a call under way or of one that returned.
LEMMA ServeStep ==
  ASSUME IndInv, NEW c \in Calls, Serve(c)
  PROVE  IndInv'
<1>1. StoreInv'
  BY ServeKeeps DEF IndInv, StoreInv
<1>2. CallsReady'
  BY DEF Serve, IndInv, CallsReady
<1>3. TypeOK'
  <2>1. net' \in [Calls -> {"none", "wire", "ok", "rejected"}]
    BY DEF Serve, IndInv, TypeOK
  <2>2. CASE ~FenceHolds(req[c])
    BY <2>1, <2>2 DEF Serve, IndInv, TypeOK, storeVars, latchVars
  <2>3. CASE FenceHolds(req[c])
    <3>1. Commit(c, req[c]) /\ req[c] \in Requests
      BY <2>3 DEF Serve, IndInv, RequestsCurrent
    <3>2. /\ req[c].id \in Ids /\ req[c].new \in Records
          /\ req[c].new.order \in 0..MaxOrder
      BY <3>1 DEF Requests, Records
    <3>3. seq' \in Nat /\ ctrSeq' \in [Scopes -> Nat] /\ ctr' \in [Scopes -> 0..MaxOrder]
      <4>1. seq \in Nat /\ ctrSeq \in [Scopes -> Nat] /\ ctr \in [Scopes -> 0..MaxOrder]
        BY DEF IndInv, TypeOK
      <4>2. CASE req[c].batch
        <5>1. /\ seq' = seq + 2
              /\ ctrSeq' = [ctrSeq EXCEPT ![ScopeOf[req[c].id]] = seq + 1]
              /\ ctr' = [ctr EXCEPT ![ScopeOf[req[c].id]] = req[c].new.order]
          BY <3>1, <4>2 DEF Commit
        <5>2. seq' \in Nat /\ seq + 1 \in Nat
          BY <4>1, <5>1
        <5>3. ctrSeq' \in [Scopes -> Nat]
          BY <4>1, <5>1, <5>2
        <5>4. ctr' \in [Scopes -> 0..MaxOrder]
          BY <3>2, <4>1, <5>1
        <5> QED BY <5>2, <5>3, <5>4
      <4>3. CASE ~req[c].batch
        BY <3>1, <4>1, <4>3 DEF Commit
      <4> QED BY <4>2, <4>3
    <3>4. recSeq' \in [Ids -> Nat] /\ rec' \in [Ids -> Records]
      BY <3>1, <3>2 DEF Commit, IndInv, TypeOK
    <3>5. commits' \subseteq [id : Ids, rec : Records, by : Calls]
      BY <3>1, <3>2 DEF Commit, IndInv, TypeOK
    <3> QED BY <2>1, <3>3, <3>4, <3>5 DEF Serve, IndInv, TypeOK, latchVars
  <2> QED BY <2>2, <2>3
<1> QED BY <1>1, <1>2, <1>3 DEF IndInv, StoreInv

\* A move of one call to a later place in its code, nothing else but its latch.
LEMMA MoveKeeps ==
  ASSUME IndInv, NEW c \in Calls, NEW where, Goto(c, where),
         \/ where \in {"queued", "counter"} /\ arg[c].op = "create"
         \/ where \in {"settle", "resolve"} /\ req[c] \in Requests,
         pc[c] \notin {"idle", "done"},
         UNCHANGED storeVars, UNCHANGED <<stream, arg, req, net>>,
         attempt' \in [Calls -> 0..MaxAttempts],
         latches' \in [Procs -> [Scopes -> Calls \cup {NoLatch}]],
         refs' \in [Calls -> Int], token' \in [Calls -> BOOLEAN],
         latchOf' \in [Calls -> Calls \cup {NoLatch}]
  PROVE  IndInv'
<1>1. StoreInv'
  BY StoreUntouched DEF IndInv, StoreInv
<1>2. TypeOK'
  BY DEF IndInv, TypeOK, Goto, storeVars
<1>3. CallsReady'
  BY DEF IndInv, TypeOK, CallsReady, Goto
<1> QED BY <1>1, <1>2, <1>3 DEF IndInv, StoreInv

\* Every step keeps the inductive invariant.
LEMMA Step ==
  ASSUME IndInv, [Next]_vars
  PROVE  IndInv'
<1>1. CASE UNCHANGED vars
  <2>1. StoreInv'
    BY <1>1, StoreUntouched DEF IndInv, StoreInv, vars, callVars
  <2>2. TypeOK' /\ CallsReady'
    BY <1>1 DEF IndInv, TypeOK, CallsReady, vars, storeVars, callVars, latchVars
  <2> QED BY <2>1, <2>2 DEF IndInv, StoreInv
<1>2. CASE ForeignStream
  <2>1. StoreInv'
    BY <1>2, StoreUntouched DEF ForeignStream, IndInv, StoreInv, callVars
  <2>2. TypeOK' /\ CallsReady'
    BY <1>2 DEF ForeignStream, IndInv, TypeOK, CallsReady, storeVars, callVars,
                latchVars
  <2> QED BY <2>1, <2>2 DEF IndInv, StoreInv
<1>3. ASSUME NEW c \in Calls, Begin(c)
      PROVE  IndInv'
  <2>1. PICK i \in Ids, valid \in BOOLEAN, v \in Values, k \in Keys, e \in 1..MaxRev :
          \/ Create(c, i, v, k, valid)
          \/ Update(c, i, e, v, k, valid)
          \/ Delete(c, i, e)
    BY <1>3 DEF Begin
  <2>2. /\ rec[i] \in Records /\ rec[i].rev \in 0..MaxRev /\ MaxRev \in Nat
        /\ Incr(rec[i].rev, MaxRev) \in 0..MaxRev
    BY Typed, IncrBelow, ConstantsAssumption DEF Records
  <2>3. CASE Create(c, i, v, k, valid)
    BY <2>3, CreateKeeps
  <2>4. CASE Update(c, i, e, v, k, valid)
    <3> DEFINE next == [rev |-> Incr(rec[i].rev, MaxRev), order |-> rec[i].order,
                        value |-> v, keys |-> k, deleted |-> FALSE]
    <3>1. next \in Records
      BY <2>2 DEF Records
    <3>2. Revise(c, "update", i, e, valid, next)
      BY <2>4 DEF Update
    <3> QED BY <3>1, <3>2, ReviseKeeps
  <2>5. CASE Delete(c, i, e)
    <3> DEFINE next == [rev |-> Incr(rec[i].rev, MaxRev), order |-> rec[i].order,
                        value |-> rec[i].value, keys |-> NoKeys, deleted |-> TRUE]
    <3>1. next \in Records
      BY <2>2, ConstantsAssumption DEF Records
    <3>2. Revise(c, "delete", i, e, TRUE, next)
      BY <2>5 DEF Delete
    <3> QED BY <3>1, <3>2, ReviseKeeps
  <2> QED BY <2>1, <2>3, <2>4, <2>5
<1>4. ASSUME NEW c \in Calls, Proceed(c)
      PROVE  IndInv'
  <2> USE DEF callVars
  <2>1. /\ attempt \in [Calls -> 0..MaxAttempts]
        /\ latches \in [Procs -> [Scopes -> Calls \cup {NoLatch}]]
        /\ refs \in [Calls -> Int] /\ token \in [Calls -> BOOLEAN]
        /\ latchOf \in [Calls -> Calls \cup {NoLatch}]
        /\ stream \in {"absent", "ours", "foreign"}
        /\ arg \in [Calls -> Args \cup {NoArg}]
    BY DEF IndInv, TypeOK
  <2>2. CASE EnterScope(c)
    <3>1. arg[c].op = "create" /\ pc[c] = "enqueue" /\ JoinLatch(c)
      BY <2>2 DEF EnterScope, IndInv, CallsReady
    <3>2. ProcOf[c] \in Procs /\ Scope(c) \in Scopes
      BY <3>1, Typed, ConstantsAssumption
    <3>3. latches[ProcOf[c]][Scope(c)] \in Calls \cup {NoLatch}
      BY <2>1, <3>2
    <3> DEFINE l == IF latches[ProcOf[c]][Scope(c)] = NoLatch THEN c
                    ELSE latches[ProcOf[c]][Scope(c)]
    <3>4. /\ l \in Calls
          /\ latches' = [latches EXCEPT ![ProcOf[c]][Scope(c)] = l]
          /\ refs' = [refs EXCEPT ![l] = @ + 1]
          /\ latchOf' = [latchOf EXCEPT ![c] = l] /\ token' = token
      BY <3>1, <3>3 DEF JoinLatch
    <3> HIDE DEF l
    <3>5. refs' \in [Calls -> Int] /\ token' \in [Calls -> BOOLEAN]
      BY <2>1, <3>4
    <3>6. latchOf' \in [Calls -> Calls \cup {NoLatch}]
      BY <2>1, <3>4
    <3>7. latches' \in [Procs -> [Scopes -> Calls \cup {NoLatch}]]
      BY <2>1, <3>2, <3>4
    <3> QED BY <2>1, <2>2, <3>1, <3>5, <3>6, <3>7, MoveKeeps DEF EnterScope
  <2>3. CASE TakeToken(c)
    <3>1. arg[c].op = "create" /\ pc[c] = "queued"
      BY <2>3 DEF TakeToken, IndInv, CallsReady
    <3>2. token' \in [Calls -> BOOLEAN]
      BY <2>1, <2>3 DEF TakeToken
    <3>3. attempt' \in [Calls -> 0..MaxAttempts]
      BY <2>1, <2>3, ConstantsAssumption DEF TakeToken
    <3> QED BY <2>1, <2>3, <3>1, <3>2, <3>3, MoveKeeps DEF TakeToken
  <2>4. CASE Allocate(c)
    BY <2>4, AllocateKeeps
  <2>5. CASE Acknowledged(c)
    <3>1. Success[arg[c].op] \in Outcomes /\ req[c].new \in Records
      BY <2>5, Typed DEF Acknowledged, IndInv, CallsReady, Requests
    <3> QED BY <2>1, <2>5, <3>1, ReturnKeeps DEF Acknowledged
  <2>6. CASE PreconditionFailed(c)
    <3>1. req[c] \in Requests /\ pc[c] = "await"
      BY <2>6 DEF PreconditionFailed, IndInv, CallsReady
    <3> QED BY <2>1, <2>6, <3>1, MoveKeeps DEF PreconditionFailed, latchVars
  <2>7. CASE AckLost(c)
    <3>1. req[c] \in Requests /\ pc[c] = "await"
      BY <2>7 DEF AckLost, IndInv, CallsReady
    <3> QED BY <2>1, <2>7, <3>1, MoveKeeps DEF AckLost, latchVars
  <2>8. CASE SettleCreate(c)
    <3>1. /\ pc[c] = "settle" /\ arg[c].op = "create" /\ rec[arg[c].id] \in Records
          /\ UNCHANGED storeVars /\ UNCHANGED <<stream, arg, req, net>>
      BY <2>8, Typed DEF SettleCreate
    <3>2. "existing" \in Outcomes /\ "contention" \in Outcomes
      BY DEF Outcomes
    <3>3. CASE recSeq[arg[c].id] # 0
      BY <2>1, <2>8, <3>1, <3>2, <3>3, ReturnKeeps DEF SettleCreate
    <3>4. CASE recSeq[arg[c].id] = 0 /\ MoreAttempts(c)
      <4>1. /\ attempt' = [attempt EXCEPT ![c] = @ + 1] /\ Goto(c, "counter")
            /\ UNCHANGED latchVars
        BY <2>8, <3>4 DEF SettleCreate
      <4>2. attempt' \in [Calls -> 0..MaxAttempts]
        BY <2>1, <3>4, <4>1, ConstantsAssumption DEF MoreAttempts
      <4> QED BY <2>1, <3>1, <4>1, <4>2, MoveKeeps DEF latchVars
    <3>5. CASE recSeq[arg[c].id] = 0 /\ ~MoreAttempts(c)
      BY <2>1, <2>8, <3>1, <3>2, <3>5, AbsentIsRecord, ReturnKeeps DEF SettleCreate
    <3> QED BY <3>3, <3>4, <3>5
  <2>9. CASE SettleRevision(c)
    <3>1. /\ LostRevision(arg[c].op, arg[c].id) \in Outcomes
          /\ rec[arg[c].id] \in Records
      BY <2>9, Typed DEF SettleRevision, LostRevision, Outcomes
    <3> QED BY <2>1, <2>9, <3>1, ReturnKeeps DEF SettleRevision
  <2>10. CASE Resolve(c)
    <3>1. Resolution(c) \in Outcomes /\ rec[arg[c].id] \in Records
      BY <2>10, Typed DEF Resolve, Resolution, Outcomes
    <3> QED BY <2>1, <2>10, <3>1, ReturnKeeps DEF Resolve
  <2> QED BY <1>4, <2>2, <2>3, <2>4, <2>5, <2>6, <2>7, <2>8, <2>9, <2>10 DEF Proceed
<1>5. ASSUME NEW c \in Calls, Fail(c)
      PROVE  IndInv'
  <2>1. /\ attempt \in [Calls -> 0..MaxAttempts]
        /\ stream \in {"absent", "ours", "foreign"}
        /\ arg \in [Calls -> Args \cup {NoArg}] /\ "error" \in Outcomes
    BY DEF IndInv, TypeOK, Outcomes
  <2> QED BY <1>5, <2>1, AbsentIsRecord, ReturnKeeps DEF Fail, callVars
<1> QED BY <1>1, <1>2, <1>3, <1>4, <1>5, ServeStep DEF Next

\* The initial state satisfies the inductive invariant.
LEMMA Start == Init => IndInv
<1> SUFFICES ASSUME Init PROVE IndInv
  OBVIOUS
<1>1. TypeOK
  BY AbsentIsRecord, ConstantsAssumption DEF Init, TypeOK, Outcomes
<1>2. SeqsBounded /\ CounterCovers /\ RequestsCurrent /\ CallsReady /\ OrderUnique
  BY DEF Init, SeqsBounded, CounterCovers, RequestsCurrent, CallsReady, OrderUnique
<1> QED BY <1>1, <1>2 DEF IndInv

LEMMA Inductive == Spec => []IndInv
<1>1. IndInv /\ [Next]_vars => IndInv'
  BY Step
<1> QED BY <1>1, Start, PTL DEF Spec

\* The store keeps its types, for any number of calls, processes and records.
THEOREM Types == Spec => []TypeOK
<1>1. IndInv => TypeOK
  BY DEF IndInv
<1> QED BY <1>1, Inductive, PTL

\* No two records of a scope ever hold the same order, for any number of racing
\* creators, attempts, lost acknowledgements and late publishes.
THEOREM UniqueOrders == Spec => []OrderUnique
<1>1. IndInv => OrderUnique
  BY DEF IndInv
<1> QED BY <1>1, Inductive, PTL

\* A served publish is one step of the abstract index, or none.
LEMMA ServeImplements ==
  ASSUME IndInv, NEW c \in Calls, Serve(c)
  PROVE  [Index!Next]_rec
<1> DEFINE r == req[c]
<1>1. CASE ~FenceHolds(r)
  BY <1>1 DEF Serve, storeVars
<1>2. CASE FenceHolds(r)
  <2>1. /\ r \in Requests /\ RequestCurrent(r)
        /\ rec' = [rec EXCEPT ![r.id] = r.new]
    BY <1>2 DEF Serve, Commit, IndInv, RequestsCurrent, RequestCurrent
  <2>2. /\ r.id \in Ids /\ r.new \in Records /\ r.batch \in BOOLEAN
        /\ ScopeOf[r.id] \in Scopes
    BY <2>1, ConstantsAssumption DEF Requests
  <2>3. /\ r.new = [rev |-> r.new.rev, order |-> r.new.order, value |-> r.new.value,
                    keys |-> r.new.keys, deleted |-> r.new.deleted]
        /\ r.new.rev \in 0..MaxRev /\ r.new.order \in 0..MaxOrder
        /\ r.new.keys \in Keys /\ r.new.deleted \in BOOLEAN
    BY <2>2 DEF Records
  <2>4. CASE r.batch
    <3>1. /\ recSeq[r.id] = 0 /\ r.new.rev = 1 /\ ~r.new.deleted
          /\ r.new.value \in Values /\ r.new.order = ctr[ScopeOf[r.id]] + 1
      BY <1>2, <2>1, <2>4 DEF FenceHolds, RequestCurrent, BatchCurrent
    <3>2. rec[r.id] = Index!Absent
      BY <2>2, <3>1 DEF IndInv, CounterCovers, Absent, Index!Absent
    <3>3. ctr[ScopeOf[r.id]] \in 0..MaxOrder
      BY <2>2 DEF IndInv, TypeOK
    <3>4. Index!Above(r.id, r.new.order)
      <4> SUFFICES ASSUME NEW j \in Ids, ScopeOf[j] = ScopeOf[r.id]
                   PROVE  rec[j].order < r.new.order
        BY DEF Index!Above
      <4>1. rec[j].order \in 0..MaxOrder
        BY DEF IndInv, TypeOK, Records
      <4>2. CASE recSeq[j] = 0
        BY <3>1, <3>3, <4>2 DEF IndInv, CounterCovers, Absent
      <4>3. CASE recSeq[j] # 0
        BY <3>1, <3>3, <4>1, <4>3 DEF IndInv, CounterCovers
      <4> QED BY <4>2, <4>3
    <3>5. r.new.order \in 1..MaxOrder
      BY <2>3, <3>1, <3>3
    <3>6. Index!Create(r.id, r.new.order, r.new.value, r.new.keys)
      BY <2>1, <2>3, <3>1, <3>2, <3>4 DEF Index!Create
    <3> QED BY <2>2, <2>3, <3>1, <3>5, <3>6 DEF Index!Next
  <2>5. CASE ~r.batch
    <3>1. /\ recSeq[r.id] # 0 /\ ~rec[r.id].deleted /\ rec[r.id].rev < MaxRev
          /\ r.new.rev = rec[r.id].rev + 1 /\ r.new.order = rec[r.id].order
          /\ IF r.new.deleted
             THEN r.new.keys = NoKeys /\ r.new.value = rec[r.id].value
             ELSE r.new.value \in Values
      BY <1>2, <2>1, <2>5 DEF FenceHolds, RequestCurrent, RevisionCurrent, Requests
    <3>2. Index!Live(r.id)
      BY <2>2, <3>1 DEF Index!Live, IndInv, CounterCovers
    <3>3. CASE r.new.deleted
      <4>1. Index!Delete(r.id)
        BY <2>1, <2>3, <3>1, <3>2, <3>3 DEF Index!Delete
      <4> QED BY <2>2, <4>1 DEF Index!Next
    <3>4. CASE ~r.new.deleted
      <4>1. Index!Update(r.id, r.new.value, r.new.keys)
        BY <2>1, <2>3, <3>1, <3>2, <3>4 DEF Index!Update
      <4> QED BY <2>2, <2>3, <3>1, <3>4, <4>1 DEF Index!Next
    <3> QED BY <2>3, <3>3, <3>4
  <2> QED BY <2>2, <2>4, <2>5
<1> QED BY <1>1, <1>2

\* Only the stream changes a record.
LEMMA OnlyServe ==
  ASSUME [Next]_vars, ~\E c \in Calls : Serve(c)
  PROVE  UNCHANGED rec
<1>1. CASE UNCHANGED vars \/ ForeignStream
  BY <1>1 DEF vars, storeVars, ForeignStream
<1>2. ASSUME NEW c \in Calls, Begin(c) PROVE UNCHANGED rec
  <2>1. PICK i \in Ids, valid \in BOOLEAN, v \in Values, k \in Keys, e \in 1..MaxRev :
          \/ Create(c, i, v, k, valid)
          \/ Update(c, i, e, v, k, valid)
          \/ Delete(c, i, e)
    BY <1>2 DEF Begin
  <2>2. UNCHANGED storeVars
    BY <2>1 DEF Create, Update, Delete, Revise
  <2> QED BY <2>2 DEF storeVars
<1>3. ASSUME NEW c \in Calls, Proceed(c) \/ Fail(c) PROVE UNCHANGED rec
  <2>1. UNCHANGED storeVars
    BY <1>3 DEF Proceed, EnterScope, TakeToken, Allocate, Acknowledged,
                PreconditionFailed, AckLost, SettleCreate, SettleRevision, Resolve,
                Fail
  <2> QED BY <2>1 DEF storeVars
<1> QED BY <1>1, <1>2, <1>3 DEF Next

\* The store implements the ordered index of OrderedIndexSpec, for every value of
\* the constants: no interleaving of calls, lost acknowledgements and late
\* publishes shows a reader anything the abstract map could not go through.
THEOREM Refinement == Spec => ImplementsIndex
<1>1. Init => Index!Init
  BY DEF Init, Absent, Index!Init, Index!Absent
<1>2. IndInv /\ [Next]_vars => [Index!Next]_rec
  BY ServeImplements, OnlyServe
<1> QED BY <1>1, <1>2, Inductive, PTL DEF Spec, ImplementsIndex, Index!Spec

-----------------------------------------------------------------------------
(* What calls return *)

Successes == {"created", "existing", "updated", "tombstone"}

\* A return of a call is about that call alone.
LEMMA FinishOwn ==
  ASSUME TypeOK, NEW c \in Calls, NEW what, NEW r, Finish(c, what, r)
  PROVE  /\ pc'[c] = "done" /\ res'[c] = what /\ ret'[c] = r
         /\ \A d \in Calls : d # c => pc'[d] = pc[d] /\ res'[d] = res[d] /\ ret'[d] = ret[d]
  BY DEF Finish, TypeOK

\* Whatever a call does between a publish and its return keeps what is known of
\* the commits.
LEMMA CommitsKept ==
  ASSUME CommitsRequested, UNCHANGED storeVars, UNCHANGED <<req, net>>
  PROVE  CommitsRequested'
  BY DEF CommitsRequested, storeVars

\* A return whose result is justified keeps the invariant of the calls.
LEMMA ReturnJustified ==
  ASSUME TypeOK, CallInv, NEW c \in Calls, NEW what, NEW r, Finish(c, what, r),
         UNCHANGED storeVars, UNCHANGED <<req, net>>,
         \A d \in Calls : d # c => arg'[d] = arg[d],
         what \in Refusals => net[c] \in {"none", "rejected"},
         what \in Successes =>
           \E m \in commits :
             /\ m.id = arg'[c].id /\ m.rec = r
             /\ what \in {"created", "updated"} => m.by = c \/ req[m.by].new = req[c].new
  PROVE  CallInv'
<1>1. /\ pc'[c] = "done" /\ res'[c] = what /\ ret'[c] = r
      /\ \A d \in Calls : d # c => pc'[d] = pc[d] /\ res'[d] = res[d] /\ ret'[d] = ret[d]
  BY FinishOwn
<1>2. CallPhases'
  BY <1>1 DEF CallInv, CallPhases
<1>3. CommitsRequested'
  BY CommitsKept DEF CallInv
<1>4. SuccessIsDurable'
  BY <1>1 DEF CallInv, SuccessIsDurable, Successes, storeVars
<1> QED BY <1>2, <1>3, <1>4 DEF CallInv

\* So does a move to a place in the code that suits what became of the publish.
LEMMA MoveJustified ==
  ASSUME TypeOK, CallInv, NEW c \in Calls, NEW where, Goto(c, where),
         pc[c] # "done", where # "done",
         UNCHANGED storeVars, UNCHANGED <<req, net>>,
         \A d \in Calls : d # c => arg'[d] = arg[d],
         where \in {"idle", "enqueue", "queued"} => net[c] = "none",
         where = "counter" => net[c] \in {"none", "rejected"},
         where = "settle" => net[c] = "rejected",
         where \in {"await", "settle", "resolve"} => req[c].id = arg'[c].id
  PROVE  CallInv'
<1>1. /\ pc'[c] = where /\ res' = res /\ ret' = ret /\ res[c] = "none"
      /\ \A d \in Calls : d # c => pc'[d] = pc[d]
  BY DEF Goto, TypeOK, CallInv, CallPhases
<1>2. CallPhases'
  BY <1>1 DEF CallInv, CallPhases, Refusals
<1>3. CommitsRequested'
  BY CommitsKept DEF CallInv
<1>4. SuccessIsDurable'
  BY <1>1 DEF CallInv, SuccessIsDurable, storeVars
<1> QED BY <1>2, <1>3, <1>4 DEF CallInv

\* A call sends a publish only while none of its own has been served.
LEMMA SendJustified ==
  ASSUME TypeOK, CallInv, NEW c \in Calls, NEW r, Send(c, r),
         pc[c] \in {"idle", "counter"}, UNCHANGED storeVars,
         \A d \in Calls : d # c => arg'[d] = arg[d], r.id = arg'[c].id
  PROVE  CallInv'
<1>1. /\ pc'[c] = "await" /\ res' = res /\ ret' = ret /\ res[c] = "none"
      /\ net'[c] = "wire" /\ req'[c] = r /\ net[c] # "ok"
      /\ \A d \in Calls : d # c => pc'[d] = pc[d] /\ net'[d] = net[d] /\ req'[d] = req[d]
  BY DEF Send, Goto, TypeOK, CallInv, CallPhases
<1>2. \A m \in commits : m.by \in Calls /\ m.by # c
  BY <1>1 DEF CallInv, CommitsRequested, TypeOK
<1>3. CallPhases'
  BY <1>1 DEF CallInv, CallPhases, Refusals
<1>4. CommitsRequested'
  BY <1>1, <1>2 DEF CallInv, CommitsRequested, storeVars
<1>5. SuccessIsDurable'
  BY <1>1, <1>2 DEF CallInv, SuccessIsDurable, storeVars
<1> QED BY <1>3, <1>4, <1>5 DEF CallInv

\* The stream serves a publish: what it stores is what the publish carries.
LEMMA ServeJustified ==
  ASSUME IndInv, CallInv, NEW c \in Calls, Serve(c)
  PROVE  CallInv'
<1>1. /\ net[c] = "wire" /\ net'[c] \in {"ok", "rejected"}
      /\ \A d \in Calls : d # c => net'[d] = net[d]
      /\ UNCHANGED <<pc, arg, req, res, ret>>
  BY DEF Serve, IndInv, TypeOK
<1>2. \A m \in commits : m.by \in Calls /\ m.by # c
  BY <1>1 DEF CallInv, CommitsRequested, IndInv, TypeOK
<1>3. CallPhases'
  BY <1>1 DEF CallInv, CallPhases
<1>4. CASE ~FenceHolds(req[c])
  <2>1. net'[c] = "rejected" /\ UNCHANGED storeVars
    BY <1>4 DEF Serve, IndInv, TypeOK
  <2>2. CommitsRequested'
    BY <1>1, <1>2, <2>1 DEF CallInv, CommitsRequested, storeVars
  <2>3. SuccessIsDurable'
    BY <1>1, <2>1 DEF CallInv, SuccessIsDurable, storeVars
  <2> QED BY <1>3, <2>2, <2>3 DEF CallInv
<1>5. CASE FenceHolds(req[c])
  <2> DEFINE m0 == [id |-> req[c].id, rec |-> req[c].new, by |-> c]
             last == IF req[c].batch THEN seq + 2 ELSE seq + 1
  <2>1. /\ net'[c] = "ok" /\ commits' = commits \cup {m0}
        /\ recSeq' = [recSeq EXCEPT ![req[c].id] = last]
        /\ rec' = [rec EXCEPT ![req[c].id] = req[c].new]
    BY <1>5 DEF Serve, Commit, IndInv, TypeOK
  <2>2. recSeq \in [Ids -> Nat] /\ rec \in [Ids -> Records]
    BY DEF IndInv, TypeOK
  <2>3. CommitsRequested'
    <3>1. \A m \in commits' :
            net'[m.by] = "ok" /\ m.id = req'[m.by].id /\ m.rec = req'[m.by].new
      BY <1>1, <1>2, <2>1 DEF CallInv, CommitsRequested
    <3>2. \A d \in Calls : net'[d] = "ok" => \E m \in commits' : m.by = d
      <4>1. m0 \in commits' /\ m0.by = c
        BY <2>1
      <4> QED BY <1>1, <2>1, <4>1 DEF CallInv, CommitsRequested
    <3>3. ASSUME NEW i \in Ids, recSeq'[i] # 0
          PROVE  \E m \in commits' : m.id = i /\ m.rec = rec'[i]
      <4>1. CASE i = req[c].id
        <5>1. rec'[i] = m0.rec /\ m0.id = i /\ m0 \in commits'
          BY <2>1, <2>2, <4>1
        <5> QED BY <5>1
      <4>2. CASE i # req[c].id
        BY <2>1, <2>2, <3>3, <4>2 DEF CallInv, CommitsRequested
      <4> QED BY <4>1, <4>2
    <3> QED BY <3>1, <3>2, <3>3 DEF CommitsRequested
  <2>4. SuccessIsDurable'
    BY <1>1, <2>1 DEF CallInv, SuccessIsDurable
  <2> QED BY <1>3, <2>3, <2>4 DEF CallInv
<1> QED BY <1>4, <1>5

\* A stored record is a justified answer.
LEMMA StoredIsCommitted ==
  ASSUME CallInv, NEW i \in Ids, recSeq[i] # 0
  PROVE  \E m \in commits : m.id = i /\ m.rec = rec[i]
  BY DEF CallInv, CommitsRequested

\* A call begins.
LEMMA BeginJustified ==
  ASSUME IndInv, CallInv, NEW c \in Calls, Begin(c)
  PROVE  CallInv'
<1>1. PICK i \in Ids, valid \in BOOLEAN, v \in Values, k \in Keys, e \in 1..MaxRev :
        \/ Create(c, i, v, k, valid)
        \/ Update(c, i, e, v, k, valid)
        \/ Delete(c, i, e)
  BY DEF Begin
<1>2. TypeOK /\ arg \in [Calls -> Args \cup {NoArg}]
  BY DEF IndInv, TypeOK
<1>3. CASE Create(c, i, v, k, valid)
  <2>1. /\ arg'[c].id = i /\ \A d \in Calls : d # c => arg'[d] = arg[d]
        /\ UNCHANGED storeVars /\ UNCHANGED <<req, net>> /\ pc[c] = "idle"
    BY <1>2, <1>3 DEF Create
  <2>2. net[c] = "none"
    BY <2>1 DEF CallInv, CallPhases
  <2>3. CASE CreateRefusal(i, valid) = "none"
    <3>1. Goto(c, "enqueue")
      BY <1>3, <2>3 DEF Create
    <3> QED BY <1>2, <2>1, <2>2, <3>1, MoveJustified
  <2>4. CASE CreateRefusal(i, valid) # "none"
    <3>1. Finish(c, CreateRefusal(i, valid), rec[i])
      BY <1>3, <2>4 DEF Create
    <3>2. CreateRefusal(i, valid) \in Successes =>
            CreateRefusal(i, valid) = "existing" /\ recSeq[i] # 0
      BY DEF CreateRefusal, Successes
    <3>3. CreateRefusal(i, valid) \in Successes =>
            \E m \in commits :
              /\ m.id = arg'[c].id /\ m.rec = rec[i]
              /\ CreateRefusal(i, valid) \in {"created", "updated"} =>
                   m.by = c \/ req[m.by].new = req[c].new
      BY <2>1, <3>2, StoredIsCommitted
    <3> QED BY <1>2, <2>1, <2>2, <3>1, <3>3, ReturnJustified
  <2> QED BY <2>3, <2>4
<1>4. ASSUME NEW op, NEW x, NEW ok, NEW next, Revise(c, op, i, x, ok, next)
      PROVE  CallInv'
  <2>1. /\ arg'[c].id = i /\ \A d \in Calls : d # c => arg'[d] = arg[d]
        /\ UNCHANGED storeVars /\ pc[c] = "idle"
    BY <1>2, <1>4 DEF Revise
  <2>2. net[c] = "none"
    BY <2>1 DEF CallInv, CallPhases
  <2> DEFINE what == RevisionRefusal(op, i, x, ok)
  <2>3. CASE what = "none"
    <3> DEFINE r == [batch |-> FALSE, id |-> i, cseq |-> 0, rseq |-> recSeq[i],
                     new |-> next]
    <3>1. Send(c, r) /\ r.id = i
      BY <1>4, <2>3 DEF Revise
    <3> QED BY <1>2, <2>1, <3>1, SendJustified
  <2>4. CASE what # "none"
    <3>1. Finish(c, what, rec[i]) /\ UNCHANGED <<req, net>>
      BY <1>4, <2>4 DEF Revise
    <3>2. what \in Successes => what = "tombstone" /\ recSeq[i] # 0
      BY DEF RevisionRefusal, Successes
    <3>3. what \in Successes =>
            \E m \in commits :
              /\ m.id = arg'[c].id /\ m.rec = rec[i]
              /\ what \in {"created", "updated"} => m.by = c \/ req[m.by].new = req[c].new
      BY <2>1, <3>2, StoredIsCommitted
    <3> HIDE DEF what
    <3> QED BY <1>2, <2>1, <2>2, <3>1, <3>3, ReturnJustified
  <2> QED BY <2>3, <2>4
<1>5. CASE Update(c, i, e, v, k, valid)
  BY <1>4, <1>5 DEF Update
<1>6. CASE Delete(c, i, e)
  BY <1>4, <1>6 DEF Delete
<1> QED BY <1>1, <1>3, <1>5, <1>6

\* A call goes on, or fails.
LEMMA ProceedJustified ==
  ASSUME IndInv, CallInv, NEW c \in Calls, Proceed(c) \/ Fail(c)
  PROVE  CallInv'
<1> USE DEF callVars
<1> DEFINE i == arg[c].id
<1>1. TypeOK
  BY DEF IndInv
<1>2. pc[c] \notin {"idle", "done"} => i \in Ids
  BY Typed
<1>3. CASE EnterScope(c)
  BY <1>1, <1>3, MoveJustified DEF EnterScope, CallInv, CallPhases
<1>4. CASE TakeToken(c)
  BY <1>1, <1>4, MoveJustified DEF TakeToken, CallInv, CallPhases
<1>5. CASE Allocate(c)
  <2>1. pc[c] = "counter" /\ UNCHANGED storeVars /\ UNCHANGED arg
        /\ net[c] \in {"none", "rejected"}
    BY <1>5 DEF Allocate, CallInv, CallPhases
  <2>2. CASE OrderExhausted(c)
    <3>1. Finish(c, "exhausted", Absent) /\ UNCHANGED <<req, net>>
      BY <1>5, <2>2 DEF Allocate
    <3> QED BY <1>1, <2>1, <3>1, ReturnJustified DEF Successes
  <2>3. CASE ~OrderExhausted(c)
    <3> DEFINE r == [batch |-> TRUE, id |-> i, cseq |-> ctrSeq[Scope(c)], rseq |-> 0,
                     new |-> Candidate(c)]
    <3>1. Send(c, r) /\ r.id = i
      BY <1>5, <2>3 DEF Allocate
    <3> QED BY <1>1, <2>1, <3>1, SendJustified
  <2> QED BY <2>2, <2>3
<1>6. CASE Acknowledged(c)
  <2>1. /\ pc[c] = "await" /\ net[c] = "ok" /\ UNCHANGED <<arg, req, net>>
        /\ UNCHANGED storeVars
        /\ Finish(c, Success[arg[c].op], req[c].new) /\ req[c].id = i
    BY <1>6 DEF Acknowledged, CallInv, CallPhases
  <2>2. \E m \in commits : m.by = c /\ m.id = i /\ m.rec = req[c].new
    BY <2>1 DEF CallInv, CommitsRequested
  <2>3. Success[arg[c].op] \notin Refusals
    BY <2>1, Typed DEF Success, Refusals
  <2> QED BY <1>1, <2>1, <2>2, <2>3, ReturnJustified
<1>7. CASE PreconditionFailed(c)
  BY <1>1, <1>7, MoveJustified DEF PreconditionFailed, CallInv, CallPhases
<1>8. CASE AckLost(c)
  BY <1>1, <1>8, MoveJustified DEF AckLost, CallInv, CallPhases
<1>9. CASE SettleCreate(c)
  <2>1. /\ pc[c] = "settle" /\ UNCHANGED <<arg, req, net>> /\ UNCHANGED storeVars
        /\ net[c] = "rejected" /\ i \in Ids
    BY <1>2, <1>9 DEF SettleCreate, CallInv, CallPhases
  <2>2. CASE recSeq[i] # 0
    <3>1. Finish(c, "existing", rec[i])
      BY <1>9, <2>2 DEF SettleCreate
    <3>2. \E m \in commits : m.id = i /\ m.rec = rec[i]
      BY <2>1, <2>2, StoredIsCommitted
    <3> QED BY <1>1, <2>1, <3>1, <3>2, ReturnJustified
  <2>3. CASE recSeq[i] = 0 /\ MoreAttempts(c)
    <3>1. Goto(c, "counter")
      BY <1>9, <2>3 DEF SettleCreate
    <3> QED BY <1>1, <2>1, <3>1, MoveJustified
  <2>4. CASE recSeq[i] = 0 /\ ~MoreAttempts(c)
    <3>1. Finish(c, "contention", Absent)
      BY <1>9, <2>4 DEF SettleCreate
    <3> QED BY <1>1, <2>1, <3>1, ReturnJustified DEF Successes
  <2> QED BY <2>2, <2>3, <2>4
<1>10. CASE SettleRevision(c)
  <2> DEFINE what == LostRevision(arg[c].op, i)
  <2>1. /\ pc[c] = "settle" /\ UNCHANGED <<arg, req, net>> /\ UNCHANGED storeVars
        /\ net[c] = "rejected" /\ i \in Ids /\ Finish(c, what, rec[i])
    BY <1>2, <1>10 DEF SettleRevision, CallInv, CallPhases
  <2>2. what \in Successes => what = "tombstone" /\ recSeq[i] # 0
    BY DEF LostRevision, Successes
  <2>3. what \in Successes =>
          \E m \in commits :
            /\ m.id = arg'[c].id /\ m.rec = rec[i]
            /\ what \in {"created", "updated"} => m.by = c \/ req[m.by].new = req[c].new
    BY <2>1, <2>2, StoredIsCommitted
  <2> HIDE DEF what
  <2> QED BY <1>1, <2>1, <2>3, ReturnJustified
<1>11. CASE Resolve(c)
  <2> DEFINE what == Resolution(c)
  <2>1. /\ pc[c] = "resolve" /\ UNCHANGED <<arg, req, net>> /\ UNCHANGED storeVars
        /\ i \in Ids /\ Finish(c, what, rec[i])
    BY <1>2, <1>11 DEF Resolve
  <2>2. /\ what \notin Refusals
        /\ what \in Successes => recSeq[i] # 0
        /\ what \in {"created", "updated"} => rec[i] = req[c].new
    BY <2>1, Typed DEF Resolution, Success, Successes, Refusals
  <2>3. ASSUME what \in Successes
        PROVE  \E m \in commits :
            /\ m.id = arg'[c].id /\ m.rec = rec[i]
            /\ what \in {"created", "updated"} => m.by = c \/ req[m.by].new = req[c].new
    <3>1. PICK m \in commits : m.id = i /\ m.rec = rec[i]
      BY <2>1, <2>2, <2>3, StoredIsCommitted
    <3>2. m.rec = req[m.by].new
      BY DEF CallInv, CommitsRequested
    <3> QED BY <2>1, <2>2, <3>1, <3>2
  <2> HIDE DEF what
  <2> QED BY <1>1, <2>1, <2>2, <2>3, ReturnJustified
<1>12. CASE Fail(c)
  BY <1>1, <1>12, ReturnJustified DEF Fail, Refusals, Successes
<1> QED BY <1>3, <1>4, <1>5, <1>6, <1>7, <1>8, <1>9, <1>10, <1>11, <1>12 DEF Proceed

LEMMA CallStep ==
  ASSUME IndInv, CallInv, [Next]_vars
  PROVE  CallInv'
<1>1. CASE UNCHANGED vars \/ ForeignStream
  BY <1>1 DEF vars, ForeignStream, callVars, storeVars, CallInv, CallPhases,
              CommitsRequested, SuccessIsDurable
<1> QED BY <1>1, BeginJustified, ProceedJustified, ServeJustified DEF Next

LEMMA CallsInductive == Spec => []CallInv
<1>1. Init => CallInv
  BY DEF Init, CallInv, CallPhases, CommitsRequested, SuccessIsDurable, Refusals
<1>2. IndInv /\ CallInv /\ [Next]_vars => CallInv'
  BY CallStep
<1> QED BY <1>1, <1>2, Inductive, PTL DEF Spec

\* A definite refusal is final: no commit of the call exists and no publish of it
\* is left that the stream may serve, for any number of calls and attempts.
THEOREM FinalRefusals == Spec => []RefusalIsFinal
<1>1. CallInv => RefusalIsFinal
  BY DEF CallInv, CallPhases, CommitsRequested, RefusalIsFinal
<1> QED BY <1>1, CallsInductive, PTL

\* What a successful call returns was committed, by this call or by one that
\* submitted the same record.
THEOREM DurableSuccesses == Spec => []SuccessIsDurable
<1>1. CallInv => SuccessIsDurable
  BY DEF CallInv
<1> QED BY <1>1, CallsInductive, PTL

-----------------------------------------------------------------------------
(* The latch of a scope *)

\* A call that wants a latch, and the latch it wants, belong to one process and to
\* one scope.
LEMMA Latched ==
  ASSUME IndInv, LatchInv, NEW c \in Calls, latchOf[c] # NoLatch
  PROVE  /\ latchOf[c] \in Calls /\ ProcOf[c] \in Procs /\ Scope(c) \in Scopes
         /\ latches[ProcOf[c]][Scope(c)] = latchOf[c]
         /\ ProcOf[latchOf[c]] = ProcOf[c] /\ Scope(latchOf[c]) = Scope(c)
         /\ pc[latchOf[c]] \notin {"idle", "enqueue"}
         /\ pc[c] \in {"queued", "counter", "await", "settle", "resolve"}
<1>1. latchOf[c] \in Calls /\ ProcOf[c] \in Procs
  BY ConstantsAssumption DEF IndInv, TypeOK
<1>2. pc[c] \in {"queued", "counter", "await", "settle", "resolve"}
  BY DEF LatchInv, LatchWanted, InScope
<1>3. Scope(c) \in Scopes
  BY <1>2, Typed
<1>4. latches[ProcOf[c]][Scope(c)] = latchOf[c]
  BY DEF LatchInv, LatchMapped
<1> QED BY <1>1, <1>2, <1>3, <1>4 DEF LatchInv, LatchMapped

\* A step that neither joins, takes nor leaves a latch.
LEMMA LatchUntouched ==
  ASSUME LatchInv, UNCHANGED latchVars,
         \A d \in Calls :
           /\ pc'[d] = "queued" <=> pc[d] = "queued"
           /\ InScope(d)' <=> InScope(d)
           /\ pc[d] # "idle" => arg'[d] = arg[d]
           /\ pc[d] \notin {"idle", "enqueue"} => pc'[d] \notin {"idle", "enqueue"},
         IndInv
  PROVE  LatchInv'
<1>1. LatchWanted'
  BY DEF LatchInv, LatchWanted, latchVars
<1>2. \A d \in Calls : Users(d)' = Users(d)
  BY DEF Users, latchVars
<1>3. RefsCount'
  BY <1>2 DEF LatchInv, RefsCount, latchVars
<1>4. \A d \in Calls : HoldsPermit(d)' <=> HoldsPermit(d)
  BY DEF HoldsPermit, latchVars
<1>5. PermitHeld'
  BY <1>4 DEF LatchInv, PermitHeld, latchVars
<1>6. LatchMapped'
  <2>1. ASSUME NEW d \in Calls, latchOf'[d] # NoLatch
        PROVE  latches'[ProcOf[d]][Scope(d)'] = latchOf'[d]
    <3>1. latchOf[d] # NoLatch
      BY <2>1 DEF latchVars
    <3>2. pc[d] # "idle" /\ latches[ProcOf[d]][Scope(d)] = latchOf[d]
      BY <3>1, Latched
    <3> QED BY <3>2 DEF Scope, latchVars
  <2>2. ASSUME NEW p \in Procs, NEW s \in Scopes, latches'[p][s] # NoLatch
        PROVE  /\ pc'[latches'[p][s]] \notin {"idle", "enqueue"}
               /\ ProcOf[latches'[p][s]] = p /\ ScopeOf[arg'[latches'[p][s]].id] = s
               /\ \E c \in Calls : latchOf'[c] = latches'[p][s]
    <3> DEFINE l == latches[p][s]
    <3>1. l # NoLatch /\ l \in Calls /\ latches'[p][s] = l
      BY <2>2 DEF latchVars, IndInv, TypeOK
    <3>2. /\ pc[l] \notin {"idle", "enqueue"} /\ ProcOf[l] = p /\ Scope(l) = s
          /\ \E c \in Calls : latchOf[c] = l
      BY <3>1 DEF LatchInv, LatchMapped
    <3>3. arg'[l] = arg[l] /\ pc'[l] \notin {"idle", "enqueue"}
      BY <3>1, <3>2
    <3> HIDE DEF l
    <3> QED BY <3>1, <3>2, <3>3 DEF Scope, latchVars
  <2> QED BY <2>1, <2>2 DEF LatchMapped, Scope
<1> QED BY <1>1, <1>3, <1>5, <1>6 DEF LatchInv

\* Entering a scope: the call joins the latch the map leads to, or makes one under
\* its own name, which no call can have joined before.
LEMMA JoinKeeps ==
  ASSUME IndInv, LatchInv, NEW c \in Calls, EnterScope(c)
  PROVE  LatchInv'
<1> DEFINE p == ProcOf[c]
           s == Scope(c)
           known == latches[p][s]
           l == IF known = NoLatch THEN c ELSE known
<1>1. /\ pc[c] = "enqueue" /\ arg' = arg /\ token' = token
      /\ latches' = [latches EXCEPT ![p][s] = l]
      /\ refs' = [refs EXCEPT ![l] = @ + 1]
      /\ latchOf' = [latchOf EXCEPT ![c] = l]
      /\ pc' = [pc EXCEPT ![c] = "queued"]
  BY DEF EnterScope, JoinLatch, Goto, callVars
<1>2. /\ pc \in [Calls -> {"idle", "enqueue", "queued", "counter", "await", "settle",
                           "resolve", "done"}]
      /\ latches \in [Procs -> [Scopes -> Calls \cup {NoLatch}]]
      /\ refs \in [Calls -> Int] /\ latchOf \in [Calls -> Calls \cup {NoLatch}]
  BY DEF IndInv, TypeOK
<1>3. p \in Procs /\ s \in Scopes
  BY <1>1, Typed, ConstantsAssumption
<1>4. l \in Calls /\ l # NoLatch
  BY <1>2, <1>3, ConstantsAssumption
<1>5. latchOf[c] = NoLatch
  BY <1>1 DEF LatchInv, LatchWanted, InScope
<1>6. \A d \in Calls : latchOf[d] # c
  BY <1>1, Latched, ConstantsAssumption
<1>7. /\ latchOf'[c] = l /\ pc'[c] = "queued"
      /\ \A d \in Calls : d # c => latchOf'[d] = latchOf[d] /\ pc'[d] = pc[d]
      /\ \A d \in Calls : Scope(d)' = Scope(d)
  BY <1>1, <1>2 DEF Scope
<1> HIDE DEF l
<1>8. LatchWanted'
  BY <1>1, <1>4, <1>7 DEF LatchInv, LatchWanted, InScope
<1>9. RefsCount'
  <2>1. ASSUME NEW m \in Calls
        PROVE  IsFiniteSet(Users(m)') /\ refs'[m] = Cardinality(Users(m)')
    <3>1. IsFiniteSet(Users(m)) /\ refs[m] = Cardinality(Users(m))
      BY DEF LatchInv, RefsCount
    <3>2. CASE m = l
      <4>1. Users(m)' = Users(m) \cup {c} /\ c \notin Users(m)
        BY <1>5, <1>7, <3>2, <1>4 DEF Users
      <4>2. refs'[m] = refs[m] + 1
        BY <1>1, <1>2, <3>2
      <4> QED BY <3>1, <4>1, <4>2, FS_AddElement
    <3>3. CASE m # l
      <4>1. Users(m)' = Users(m)
        BY <1>5, <1>7, <3>3, ConstantsAssumption DEF Users
      <4>2. refs'[m] = refs[m]
        BY <1>1, <1>2, <3>3
      <4> QED BY <3>1, <4>1, <4>2
    <3> QED BY <3>2, <3>3
  <2> QED BY <2>1 DEF RefsCount
<1>10. PermitHeld'
  <2>1. \A d \in Calls : HoldsPermit(d)' <=> HoldsPermit(d)
    BY <1>5, <1>7 DEF HoldsPermit
  <2>2. \A d \in Calls : HoldsPermit(d) => latchOf'[d] = latchOf[d]
    BY <1>5, <1>7 DEF HoldsPermit
  <2> QED BY <1>1, <2>1, <2>2 DEF LatchInv, PermitHeld
<1>11. LatchMapped'
  <2>1. /\ latches'[p][s] = l
        /\ \A q \in Procs, t \in Scopes : ~(q = p /\ t = s) => latches'[q][t] = latches[q][t]
    BY <1>1, <1>2, <1>3
  <2>2. ASSUME NEW d \in Calls, latchOf'[d] # NoLatch
        PROVE  latches'[ProcOf[d]][Scope(d)'] = latchOf'[d]
    <3>1. CASE d = c
      BY <1>7, <2>1, <3>1
    <3>2. CASE d # c
      <4>1. /\ latchOf[d] # NoLatch /\ latches[ProcOf[d]][Scope(d)] = latchOf[d]
            /\ ProcOf[d] \in Procs /\ Scope(d) \in Scopes
        BY <1>7, <2>2, <3>2, Latched
      <4>2. CASE ProcOf[d] = p /\ Scope(d) = s
        <5>1. l = latchOf[d]
          BY <4>1, <4>2 DEF l
        <5> QED BY <1>7, <2>1, <3>2, <4>2, <5>1
      <4>3. CASE ~(ProcOf[d] = p /\ Scope(d) = s)
        BY <1>7, <2>1, <3>2, <4>1, <4>3
      <4> QED BY <4>2, <4>3
    <3> QED BY <3>1, <3>2
  <2>3. ASSUME NEW q \in Procs, NEW t \in Scopes, latches'[q][t] # NoLatch
        PROVE  /\ pc'[latches'[q][t]] \notin {"idle", "enqueue"}
               /\ ProcOf[latches'[q][t]] = q /\ ScopeOf[arg'[latches'[q][t]].id] = t
               /\ \E d \in Calls : latchOf'[d] = latches'[q][t]
    <3>1. CASE q = p /\ t = s
      <4>1. latches'[q][t] = l
        BY <2>1, <3>1
      <4>2. CASE known = NoLatch
        BY <1>1, <1>7, <3>1, <4>1, <4>2 DEF l, Scope
      <4>3. CASE known # NoLatch
        <5>1. l = known /\ l \in Calls
          BY <1>4, <4>3 DEF l
        <5>2. pc[l] \notin {"idle", "enqueue"} /\ ProcOf[l] = q /\ Scope(l) = t
          BY <1>3, <3>1, <4>3, <5>1 DEF LatchInv, LatchMapped
        <5>3. PICK d \in Calls : latchOf[d] = l
          BY <1>3, <3>1, <4>3, <5>1 DEF LatchInv, LatchMapped
        <5>4. d # c
          BY <1>4, <1>5, <5>3
        <5>5. pc'[l] \notin {"idle", "enqueue"} /\ latchOf'[d] = l
          BY <1>7, <5>1, <5>2, <5>3, <5>4
        <5> QED BY <1>1, <4>1, <5>2, <5>5 DEF Scope
      <4> QED BY <4>2, <4>3
    <3>2. CASE ~(q = p /\ t = s)
      <4> DEFINE m == latches[q][t]
      <4>1. latches'[q][t] = m /\ m # NoLatch /\ m \in Calls
        BY <1>2, <2>1, <2>3, <3>2
      <4>2. /\ pc[m] \notin {"idle", "enqueue"} /\ ProcOf[m] = q /\ Scope(m) = t
            /\ \E d \in Calls : latchOf[d] = m
        BY <4>1 DEF LatchInv, LatchMapped
      <4>3. PICK d \in Calls : latchOf[d] = m
        BY <4>2
      <4>4. d # c
        BY <1>5, <4>1, <4>3
      <4> HIDE DEF m
      <4>5. pc'[m] \notin {"idle", "enqueue"} /\ latchOf'[d] = m
        BY <1>7, <4>1, <4>2, <4>3, <4>4
      <4> QED BY <1>1, <4>1, <4>2, <4>5 DEF Scope
    <3> QED BY <3>1, <3>2
  <2> QED BY <2>2, <2>3 DEF LatchMapped, Scope
<1> QED BY <1>8, <1>9, <1>10, <1>11 DEF LatchInv

\* Taking the permit of a latch that nobody holds.
LEMMA TakeKeeps ==
  ASSUME IndInv, LatchInv, NEW c \in Calls, TakeToken(c)
  PROVE  LatchInv'
<1> DEFINE l == latchOf[c]
<1>1. /\ pc[c] = "queued" /\ ~token[l] /\ UNCHANGED <<arg, latches, refs, latchOf>>
      /\ token' = [token EXCEPT ![l] = TRUE] /\ pc' = [pc EXCEPT ![c] = "counter"]
  BY DEF TakeToken, Goto
<1>2. /\ pc'[c] = "counter" /\ \A d \in Calls : d # c => pc'[d] = pc[d]
      /\ arg[c].op = "create"
  BY <1>1 DEF IndInv, TypeOK, CallsReady
<1>3. l # NoLatch /\ l \in Calls
  BY <1>1 DEF LatchInv, LatchWanted, IndInv, TypeOK
<1>4. token'[l] /\ \A m \in Calls : m # l => token'[m] = token[m]
  BY <1>1, <1>3 DEF IndInv, TypeOK
<1>5. LatchWanted'
  BY <1>1, <1>2 DEF LatchInv, LatchWanted, InScope
<1>6. RefsCount'
  <2>1. \A m \in Calls : Users(m)' = Users(m)
    BY <1>1 DEF Users
  <2> QED BY <1>1, <2>1 DEF LatchInv, RefsCount
<1>7. LatchMapped'
  <2>1. \A d \in Calls : pc[d] \notin {"idle", "enqueue"} => pc'[d] \notin {"idle", "enqueue"}
    BY <1>2
  <2>2. \A q \in Procs, t \in Scopes : latches[q][t] # NoLatch => latches[q][t] \in Calls
    BY DEF IndInv, TypeOK
  <2> QED BY <1>1, <2>1, <2>2 DEF LatchInv, LatchMapped, Scope
<1>8. PermitHeld'
  <2>1. HoldsPermit(c)' /\ ~HoldsPermit(c)
    BY <1>1, <1>2, <1>3 DEF HoldsPermit
  <2>2. \A d \in Calls : d # c => (HoldsPermit(d)' <=> HoldsPermit(d))
    BY <1>1, <1>2 DEF HoldsPermit
  <2>3. \A d \in Calls : HoldsPermit(d) => latchOf[d] # l
    BY <1>1 DEF LatchInv, PermitHeld
  <2>4. \A d \in Calls : HoldsPermit(d) => latchOf[d] \in Calls
    BY DEF HoldsPermit, IndInv, TypeOK
  <2>5. \A d \in Calls : HoldsPermit(d)' => token'[latchOf'[d]]
    BY <1>1, <1>4, <2>1, <2>2, <2>3, <2>4 DEF LatchInv, PermitHeld
  <2>6. \A m \in Calls : token'[m] => \E d \in Calls : HoldsPermit(d)' /\ latchOf'[d] = m
    BY <1>1, <1>4, <2>1, <2>2 DEF LatchInv, PermitHeld
  <2>7. \A d, e \in Calls :
          HoldsPermit(d)' /\ HoldsPermit(e)' /\ latchOf'[d] = latchOf'[e] => d = e
    BY <1>1, <2>1, <2>2, <2>3 DEF LatchInv, PermitHeld
  <2> QED BY <2>5, <2>6, <2>7 DEF PermitHeld
<1> QED BY <1>5, <1>6, <1>7, <1>8 DEF LatchInv

\* Leaving: the call gives back the permit it holds, and the last one to leave takes
\* the latch out of the map.
LEMMA DropKeeps ==
  ASSUME IndInv, LatchInv, NEW c \in Calls, NEW what, NEW r, Finish(c, what, r),
         latchOf[c] # NoLatch, UNCHANGED arg
  PROVE  LatchInv'
<1> DEFINE l == latchOf[c]
           p == ProcOf[c]
           s == Scope(c)
<1>1. /\ pc' = [pc EXCEPT ![c] = "done"]
      /\ token' = [token EXCEPT ![l] = @ /\ ~(pc[c] # "queued")]
      /\ refs' = [refs EXCEPT ![l] = @ - 1]
      /\ latches' = IF Unused(l) THEN [latches EXCEPT ![p][s] = NoLatch] ELSE latches
      /\ latchOf' = [latchOf EXCEPT ![c] = NoLatch]
  BY DEF Finish, DropLatch
<1>2. /\ pc'[c] = "done" /\ latchOf'[c] = NoLatch
      /\ \A d \in Calls : d # c => pc'[d] = pc[d] /\ latchOf'[d] = latchOf[d]
  BY <1>1 DEF IndInv, TypeOK
<1>3. /\ l \in Calls /\ p \in Procs /\ s \in Scopes /\ latches[p][s] = l
      /\ ProcOf[l] = p /\ Scope(l) = s
  BY Latched
<1>4. LatchWanted'
  BY <1>2 DEF LatchInv, LatchWanted, InScope
<1>5. \A m \in Calls : IsFiniteSet(Users(m)) /\ refs[m] = Cardinality(Users(m))
  BY DEF LatchInv, RefsCount
<1>6. RefsCount'
  <2>1. ASSUME NEW m \in Calls
        PROVE  IsFiniteSet(Users(m)') /\ refs'[m] = Cardinality(Users(m)')
    <3>1. CASE m = l
      <4>1. Users(m)' = Users(m) \ {c} /\ c \in Users(m)
        BY <1>2, <1>3, <3>1, ConstantsAssumption DEF Users
      <4>2. refs'[m] = refs[m] - 1
        BY <1>1, <1>3, <3>1 DEF IndInv, TypeOK
      <4> QED BY <1>5, <4>1, <4>2, FS_RemoveElement
    <3>2. CASE m # l
      <4>1. Users(m)' = Users(m)
        BY <1>2, <3>2, ConstantsAssumption DEF Users
      <4>2. refs'[m] = refs[m]
        BY <1>1, <3>2 DEF IndInv, TypeOK
      <4> QED BY <1>5, <4>1, <4>2
    <3> QED BY <3>1, <3>2
  <2> QED BY <2>1 DEF RefsCount
<1>7. Unused(l) <=> \A d \in Calls : latchOf[d] = l => d = c
  <2>1. c \in Users(l)
    BY DEF Users
  <2>2. Unused(l) <=> Cardinality(Users(l)) = 1
    BY <1>3, <1>5 DEF Unused
  <2>3. Cardinality(Users(l)) = 1 <=> \E x : Users(l) = {x}
    BY <1>3, <1>5, FS_Singleton
  <2>4. (\E x : Users(l) = {x}) <=> Users(l) = {c}
    BY <2>1
  <2>5. Users(l) = {c} <=> \A d \in Calls : latchOf[d] = l => d = c
    BY DEF Users
  <2> QED BY <2>2, <2>3, <2>4, <2>5
<1>8. /\ Unused(l) => latches'[p][s] = NoLatch
      /\ ~Unused(l) => latches'[p][s] = l
      /\ \A q \in Procs, t \in Scopes : ~(q = p /\ t = s) => latches'[q][t] = latches[q][t]
  BY <1>1, <1>3 DEF IndInv, TypeOK
<1>9. LatchMapped'
  <2>1. ASSUME NEW d \in Calls, latchOf'[d] # NoLatch
        PROVE  latches'[ProcOf[d]][Scope(d)] = latchOf'[d]
    <3>1. d # c /\ latchOf[d] # NoLatch /\ latchOf'[d] = latchOf[d]
      BY <1>2, <2>1
    <3>2. /\ latches[ProcOf[d]][Scope(d)] = latchOf[d] /\ ProcOf[d] \in Procs
          /\ Scope(d) \in Scopes
      BY <3>1, Latched
    <3>3. CASE ProcOf[d] = p /\ Scope(d) = s
      <4>1. latchOf[d] = l
        BY <1>3, <3>2, <3>3
      <4>2. ~Unused(l)
        BY <1>7, <3>1, <4>1
      <4> QED BY <1>8, <3>1, <3>3, <4>1, <4>2
    <3>4. CASE ~(ProcOf[d] = p /\ Scope(d) = s)
      BY <1>8, <3>1, <3>2, <3>4
    <3> QED BY <3>3, <3>4
  <2>2. ASSUME NEW q \in Procs, NEW t \in Scopes, latches'[q][t] # NoLatch
        PROVE  /\ pc'[latches'[q][t]] \notin {"idle", "enqueue"}
               /\ ProcOf[latches'[q][t]] = q /\ Scope(latches'[q][t]) = t
               /\ \E d \in Calls : latchOf'[d] = latches'[q][t]
    <3> DEFINE m == latches[q][t]
    <3>1. latches'[q][t] = m
      BY <1>3, <1>8, <2>2
    <3>2. m # NoLatch /\ m \in Calls
      BY <2>2, <3>1 DEF IndInv, TypeOK
    <3>3. /\ pc[m] \notin {"idle", "enqueue"} /\ ProcOf[m] = q /\ Scope(m) = t
          /\ \E d \in Calls : latchOf[d] = m
      BY <3>2 DEF LatchInv, LatchMapped
    <3>4. \E d \in Calls : d # c /\ latchOf[d] = m
      <4>1. CASE m = l
        <5>1. ~Unused(l)
          BY <1>3, <1>8, <2>2, <3>3, <4>1
        <5> QED BY <1>7, <4>1, <5>1
      <4>2. CASE m # l
        BY <3>3, <4>2
      <4> QED BY <4>1, <4>2
    <3> HIDE DEF m
    <3>5. pc'[m] \notin {"idle", "enqueue"}
      BY <1>2, <3>2, <3>3
    <3>6. \E d \in Calls : latchOf'[d] = m
      BY <1>2, <3>4
    <3> QED BY <3>1, <3>3, <3>5, <3>6
  <2> QED BY <2>1, <2>2 DEF LatchMapped, Scope
<1>10. PermitHeld'
  <2>1. ~HoldsPermit(c)' /\ \A d \in Calls : d # c => (HoldsPermit(d)' <=> HoldsPermit(d))
    BY <1>2 DEF HoldsPermit
  <2>2. HoldsPermit(c) <=> pc[c] # "queued"
    BY DEF HoldsPermit
  <2>3. /\ \A m \in Calls : m # l => token'[m] = token[m]
        /\ HoldsPermit(c) => ~token'[l]
        /\ ~HoldsPermit(c) => token'[l] = token[l]
    <3>1. token \in [Calls -> BOOLEAN]
      BY DEF IndInv, TypeOK
    <3> QED BY <1>1, <1>3, <2>2, <3>1
  <2>4. \A d \in Calls : HoldsPermit(d) => latchOf[d] \in Calls
    BY DEF HoldsPermit, IndInv, TypeOK
  <2>5. \A d \in Calls : HoldsPermit(d)' => token'[latchOf'[d]]
    BY <1>2, <2>1, <2>3, <2>4 DEF LatchInv, PermitHeld
  <2>6. \A m \in Calls : token'[m] => \E d \in Calls : HoldsPermit(d)' /\ latchOf'[d] = m
    BY <1>2, <1>3, <2>1, <2>3 DEF LatchInv, PermitHeld
  <2>7. \A d, e \in Calls :
          HoldsPermit(d)' /\ HoldsPermit(e)' /\ latchOf'[d] = latchOf'[e] => d = e
    BY <1>2, <2>1 DEF LatchInv, PermitHeld
  <2> QED BY <2>5, <2>6, <2>7 DEF PermitHeld
<1> QED BY <1>4, <1>6, <1>9, <1>10 DEF LatchInv

\* A return of a call with or without a latch.
LEMMA FinishLatch ==
  ASSUME IndInv, LatchInv, NEW c \in Calls, NEW what, NEW r, Finish(c, what, r),
         \A d \in Calls : (d # c \/ pc[c] # "idle") => arg'[d] = arg[d],
         pc[c] # "idle" => arg' = arg
  PROVE  LatchInv'
<1>1. CASE latchOf[c] # NoLatch
  <2>1. pc[c] # "idle"
    BY <1>1, Latched
  <2> QED BY <1>1, <2>1, DropKeeps
<1>2. CASE latchOf[c] = NoLatch
  <2>1. /\ UNCHANGED latchVars /\ pc'[c] = "done"
        /\ \A d \in Calls : d # c => pc'[d] = pc[d]
    BY <1>2 DEF Finish, IndInv, TypeOK
  <2>2. pc[c] # "queued" /\ ~InScope(c)
    BY <1>2 DEF LatchInv, LatchWanted
  <2>3. \A d \in Calls : InScope(d)' <=> InScope(d)
    BY <2>1, <2>2 DEF InScope
  <2> QED BY <2>1, <2>2, <2>3, LatchUntouched
<1> QED BY <1>1, <1>2

\* A move of a call outside the latch's code, or within the section it protects.
LEMMA MoveLatch ==
  ASSUME IndInv, LatchInv, NEW c \in Calls, NEW where, Goto(c, where),
         UNCHANGED latchVars,
         \A d \in Calls : d # c => arg'[d] = arg[d],
         \/ /\ arg'[c] = arg[c] /\ pc[c] \in {"counter", "await", "settle", "resolve"}
            /\ where \in {"counter", "await", "settle", "resolve"}
         \/ pc[c] = "idle" /\ where = "enqueue"
         \/ pc[c] = "idle" /\ where = "await" /\ arg'[c].op # "create"
  PROVE  LatchInv'
<1>1. pc'[c] = where /\ \A d \in Calls : d # c => pc'[d] = pc[d]
  BY DEF Goto, IndInv, TypeOK
<1>2. \A d \in Calls : InScope(d)' <=> InScope(d)
  BY <1>1 DEF InScope
<1> QED BY <1>1, <1>2, LatchUntouched

LEMMA LatchStep ==
  ASSUME IndInv, LatchInv, [Next]_vars
  PROVE  LatchInv'
<1> USE DEF callVars
<1>1. CASE UNCHANGED vars \/ ForeignStream
  <2>1. UNCHANGED <<pc, arg>> /\ UNCHANGED latchVars
    BY <1>1 DEF vars, ForeignStream
  <2> QED BY <2>1, LatchUntouched DEF InScope
<1>2. ASSUME NEW c \in Calls, Serve(c)
      PROVE  LatchInv'
  <2>1. UNCHANGED <<pc, arg>> /\ UNCHANGED latchVars
    BY <1>2 DEF Serve
  <2> QED BY <2>1, LatchUntouched DEF InScope
<1>3. ASSUME NEW c \in Calls, Begin(c)
      PROVE  LatchInv'
  <2>1. PICK i \in Ids, valid \in BOOLEAN, v \in Values, k \in Keys, e \in 1..MaxRev :
          \/ Create(c, i, v, k, valid)
          \/ Update(c, i, e, v, k, valid)
          \/ Delete(c, i, e)
    BY <1>3 DEF Begin
  <2>2. arg \in [Calls -> Args \cup {NoArg}]
    BY DEF IndInv, TypeOK
  <2>3. CASE Create(c, i, v, k, valid)
    <3>1. pc[c] = "idle" /\ \A d \in Calls : d # c => arg'[d] = arg[d]
      BY <2>2, <2>3 DEF Create
    <3>2. CASE CreateRefusal(i, valid) = "none"
      <4>1. Goto(c, "enqueue") /\ UNCHANGED latchVars
        BY <2>3, <3>2 DEF Create
      <4> QED BY <3>1, <4>1, MoveLatch
    <3>3. CASE CreateRefusal(i, valid) # "none"
      <4>1. Finish(c, CreateRefusal(i, valid), rec[i])
        BY <2>3, <3>3 DEF Create
      <4> QED BY <3>1, <4>1, FinishLatch
    <3> QED BY <3>2, <3>3
  <2>4. ASSUME NEW op \in {"update", "delete"}, NEW x, NEW ok, NEW next,
               Revise(c, op, i, x, ok, next)
        PROVE  LatchInv'
    <3>1. /\ pc[c] = "idle" /\ \A d \in Calls : d # c => arg'[d] = arg[d]
          /\ arg'[c].op # "create"
      BY <2>2, <2>4 DEF Revise
    <3>2. CASE RevisionRefusal(op, i, x, ok) = "none"
      <4>1. Goto(c, "await") /\ UNCHANGED latchVars
        BY <2>4, <3>2 DEF Revise, Send
      <4> QED BY <3>1, <4>1, MoveLatch
    <3>3. CASE RevisionRefusal(op, i, x, ok) # "none"
      <4>1. Finish(c, RevisionRefusal(op, i, x, ok), rec[i])
        BY <2>4, <3>3 DEF Revise
      <4> QED BY <3>1, <4>1, FinishLatch
    <3> QED BY <3>2, <3>3
  <2>5. CASE Update(c, i, e, v, k, valid)
    BY <2>4, <2>5 DEF Update
  <2>6. CASE Delete(c, i, e)
    BY <2>4, <2>6 DEF Delete
  <2> QED BY <2>1, <2>3, <2>5, <2>6
<1>4. ASSUME NEW c \in Calls, Proceed(c) \/ Fail(c)
      PROVE  LatchInv'
  <2>1. CASE EnterScope(c)
    BY <2>1, JoinKeeps
  <2>2. CASE TakeToken(c)
    BY <2>2, TakeKeeps
  <2>3. CASE Allocate(c)
    <3>1. pc[c] = "counter" /\ UNCHANGED arg
      BY <2>3 DEF Allocate
    <3>2. CASE OrderExhausted(c)
      <4>1. Finish(c, "exhausted", Absent)
        BY <2>3, <3>2 DEF Allocate
      <4> QED BY <3>1, <4>1, FinishLatch
    <3>3. CASE ~OrderExhausted(c)
      <4>1. Goto(c, "await") /\ UNCHANGED latchVars
        BY <2>3, <3>3 DEF Allocate, Send
      <4> QED BY <3>1, <4>1, MoveLatch
    <3> QED BY <3>2, <3>3
  <2>4. CASE PreconditionFailed(c)
    BY <2>4, MoveLatch DEF PreconditionFailed
  <2>5. CASE AckLost(c)
    BY <2>5, MoveLatch DEF AckLost
  <2>6. CASE SettleCreate(c)
    <3>1. pc[c] = "settle" /\ UNCHANGED arg
      BY <2>6 DEF SettleCreate
    <3>2. CASE recSeq[arg[c].id] = 0 /\ MoreAttempts(c)
      <4>1. Goto(c, "counter") /\ UNCHANGED latchVars
        BY <2>6, <3>2 DEF SettleCreate
      <4> QED BY <3>1, <4>1, MoveLatch
    <3>3. CASE ~(recSeq[arg[c].id] = 0 /\ MoreAttempts(c))
      <4>1. \E what, r : Finish(c, what, r)
        BY <2>6, <3>3 DEF SettleCreate
      <4> QED BY <3>1, <4>1, FinishLatch
    <3> QED BY <3>2, <3>3
  <2>7. CASE Acknowledged(c)
    BY <2>7, FinishLatch DEF Acknowledged
  <2>8. CASE SettleRevision(c)
    BY <2>8, FinishLatch DEF SettleRevision
  <2>9. CASE Resolve(c)
    BY <2>9, FinishLatch DEF Resolve
  <2>10. CASE Fail(c)
    BY <2>10, FinishLatch DEF Fail
  <2> QED BY <1>4, <2>1, <2>2, <2>3, <2>4, <2>5, <2>6, <2>7, <2>8, <2>9, <2>10 DEF Proceed
<1> QED BY <1>1, <1>2, <1>3, <1>4 DEF Next

\* The latch of an order scope does what acquireScope promises for any number of
\* callers and processes: one creator of a process inside it at a time, and an entry
\* in the map exactly while some caller wants it.
THEOREM SoundLatches == Spec => []LatchSound
<1>1. Init => LatchInv
  <2> SUFFICES ASSUME Init PROVE LatchInv
    OBVIOUS
  <2>1. /\ \A c \in Calls : latchOf[c] = NoLatch /\ pc[c] = "idle" /\ refs[c] = 0 /\ ~token[c]
        /\ \A p \in Procs, s \in Scopes : latches[p][s] = NoLatch
    BY DEF Init
  <2>2. \A l \in Calls : Users(l) = {}
    BY <2>1, ConstantsAssumption DEF Users
  <2>3. RefsCount
    BY <2>1, <2>2, FS_EmptySet DEF RefsCount
  <2>4. LatchWanted /\ LatchMapped /\ PermitHeld
    BY <2>1 DEF LatchWanted, InScope, LatchMapped, PermitHeld, HoldsPermit
  <2> QED BY <2>3, <2>4 DEF LatchInv
<1>2. IndInv /\ LatchInv /\ [Next]_vars => LatchInv'
  BY LatchStep
<1>3. IndInv /\ LatchInv => LatchSound
  <2> SUFFICES ASSUME IndInv, LatchInv PROVE LatchSound
    OBVIOUS
  <2>1. ASSUME NEW c \in Calls, NEW d \in Calls, c # d, InScope(c), InScope(d),
               ProcOf[c] = ProcOf[d], Scope(c) = Scope(d)
        PROVE  FALSE
    <3>1. HoldsPermit(c) /\ HoldsPermit(d)
      BY <2>1 DEF LatchInv, LatchWanted, HoldsPermit, InScope
    <3>2. latchOf[c] = latchOf[d]
      BY <2>1, <3>1 DEF LatchInv, LatchMapped, HoldsPermit
    <3> QED BY <2>1, <3>1, <3>2 DEF LatchInv, PermitHeld
  <2>2. ASSUME NEW p \in Procs, NEW s \in Scopes, latches[p][s] # NoLatch
        PROVE  \E c \in Calls : latchOf[c] # NoLatch /\ ProcOf[c] = p /\ Scope(c) = s
    <3>1. PICK c \in Calls : latchOf[c] = latches[p][s]
      BY <2>2 DEF LatchInv, LatchMapped
    <3>2. ProcOf[latchOf[c]] = p /\ Scope(latchOf[c]) = s
      BY <2>2, <3>1 DEF LatchInv, LatchMapped
    <3> QED BY <2>2, <3>1, <3>2, Latched
  <2>3. ASSUME NEW p \in Procs, NEW s \in Scopes, NEW c \in Calls,
               latchOf[c] # NoLatch, ProcOf[c] = p, Scope(c) = s
        PROVE  latches[p][s] # NoLatch
    BY <2>3 DEF LatchInv, LatchMapped
  <2> QED BY <2>1, <2>2, <2>3 DEF LatchSound
<1> QED BY <1>1, <1>2, <1>3, Inductive, PTL DEF Spec
=============================================================================
