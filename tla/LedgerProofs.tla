---------------------------- MODULE LedgerProofs ----------------------------
(* Proofs about Ledger, for every set of appends and readers and all bounds. *)
EXTENDS Ledger, TLAPS

\* The empty sequence and an extended sequence are sequences.
LEMMA SeqFacts ==
  ASSUME NEW S
  PROVE  /\ <<>> \in Seq(S) /\ Len(<<>>) = 0
         /\ \A s \in Seq(S), x \in S :
              /\ Append(s, x) \in Seq(S) /\ Len(Append(s, x)) = Len(s) + 1
              /\ Append(s, x)[Len(s) + 1] = x
              /\ \A k \in 1..Len(s) : Append(s, x)[k] = s[k]
  OBVIOUS

\* Initially nothing is stored, no append has begun and no cursor is open.
LEMMA InitIndInv == Init => IndInv
<1> SUFFICES ASSUME Init PROVE IndInv
  OBVIOUS
<1>1. TypeOK
  <2>1. log \in Seq(Appends) /\ got \in [Readers -> Seq(Appends)]
        /\ snap \in [Readers -> Seq(Appends)]
    BY SeqFacts, Zenon DEF Init
  <2>2. place \in [Appends -> [pos : Nat, deletes : Nat]]
    BY DEF Init, Nowhere
  <2> QED
    BY <2>1, <2>2, ConstantsAssumption DEF Init, TypeOK
<1>2. AppendsSound
  BY DEF Init, AppendsSound, Placed, Answers, Nowhere
<1>3. CursorsSound
  BY DEF Init, CursorsSound, Bounded, Faithful
<1> QED
  BY <1>1, <1>2, <1>3 DEF IndInv

\* Type correctness is preserved by every action.
LEMMA TypesStep == IndInv /\ [Next]_vars => TypeOK'
<1> SUFFICES ASSUME TypeOK, CursorsSound, [Next]_vars PROVE TypeOK'
  BY DEF IndInv
<1> USE ConstantsAssumption DEF TypeOK, TipMatches, PastTip, streamVars, appendVars, cursorVars
<1>1. ASSUME NEW a \in Appends, NEW e \in 0..MaxFrom, BeginAppend(a, e) PROVE TypeOK'
  BY <1>1 DEF BeginAppend
<1>2. ASSUME NEW a \in Appends, Publish(a) PROVE TypeOK'
  BY <1>2 DEF Publish
<1>3. ASSUME NEW a \in Appends, Serve(a) PROVE TypeOK'
  <2>1. CASE stream = "present" /\ TipMatches(a)
    <3>1. /\ log' = Append(log, a) /\ net' = [net EXCEPT ![a] = "ok"]
          /\ place' = [place EXCEPT ![a] = [pos |-> Len(log) + 1, deletes |-> deletes]]
          /\ UNCHANGED <<stream, deletes, pc, expected, res, cursorVars>>
      BY <1>3, <2>1, Zenon DEF Serve
    <3>2. Len(log) \in Nat /\ log' \in Seq(Appends)
      BY <3>1, SeqFacts
    <3>3. [pos |-> Len(log) + 1, deletes |-> deletes] \in [pos : Nat, deletes : Nat]
      BY <3>2
    <3>4. place' \in [Appends -> [pos : Nat, deletes : Nat]]
      BY <3>1, <3>3, Zenon
    <3> QED
      BY <3>1, <3>2, <3>4
  <2>2. CASE ~(stream = "present" /\ TipMatches(a))
    BY <1>3, <2>2 DEF Serve
  <2> QED
    BY <2>1, <2>2
<1>4. ASSUME NEW a \in Appends,
             Acknowledged(a) \/ Conflict(a) \/ AckLost(a) \/ AppendFails(a)
      PROVE TypeOK'
  BY <1>4 DEF Acknowledged, Conflict, AckLost, AppendFails, Return
<1>5. ASSUME NEW r \in Readers, NEW f \in 0..MaxFrom, Read(r, f) PROVE TypeOK'
  <2>1. Len(log) \in Nat /\ snap' \in [Readers -> Seq(Appends)]
    BY <1>5 DEF Read
  <2> QED
    BY <1>5, <2>1 DEF Read
<1>6. ASSUME NEW r \in Readers, CursorNext(r) PROVE TypeOK'
  <2>1. CASE PastTip(r)
    BY <1>6, <2>1 DEF CursorNext
  <2>2. CASE ~PastTip(r) /\ next[r] > Len(log)
    BY <1>6, <2>2 DEF CursorNext, Missing
  <2>3. CASE ~PastTip(r) /\ ~(next[r] > Len(log))
    <3>1. next[r] >= 1
      BY DEF CursorsSound, Bounded
    <3>2. log[next[r]] \in Appends
      BY <2>3, <3>1
    <3>3. Append(got[r], log[next[r]]) \in Seq(Appends)
      BY <3>2, SeqFacts
    <3>4. /\ got' = [got EXCEPT ![r] = Append(got[r], log[next[r]])]
          /\ next' = [next EXCEPT ![r] = next[r] + 1]
          /\ UNCHANGED <<streamVars, appendVars, cur, from, tip, snap, epoch>>
      BY <1>6, <2>3, Zenon DEF CursorNext
    <3>5. got' \in [Readers -> Seq(Appends)]
      BY <3>3, <3>4
    <3>6. next' \in [Readers -> Nat]
      <4>1. next \in [Readers -> Nat] /\ next[r] + 1 \in Nat
        OBVIOUS
      <4> QED
        BY <3>4, <4>1, Zenon
    <3> QED
      BY <3>4, <3>5, <3>6, Zenon
  <2> QED
    BY <2>1, <2>2, <2>3
<1>7. ASSUME NEW r \in Readers, ReadFails(r) PROVE TypeOK'
  BY <1>7 DEF ReadFails, Missing
<1>8. CASE Delete
  <2>1. log' \in Seq(Appends)
    BY <1>8, SeqFacts DEF Delete
  <2> QED
    BY <1>8, <2>1 DEF Delete
<1>9. CASE UNCHANGED vars
  BY <1>9 DEF vars
<1> QED
  BY <1>1, <1>2, <1>3, <1>4, <1>5, <1>6, <1>7, <1>8, <1>9 DEF Next

\* An append's record stays in its place, and its answer tells the truth about
\* it: only Serve places a record, and only Delete takes records away.
LEMMA AppendsStep == IndInv /\ [Next]_vars => AppendsSound'
<1> SUFFICES ASSUME IndInv, [Next]_vars, NEW b \in Appends
             PROVE  Placed(b)' /\ Answers(b)'
  BY DEF AppendsSound
<1>0. TypeOK /\ TypeOK' /\ Placed(b) /\ Answers(b)
  BY TypesStep DEF IndInv, AppendsSound
<1> USE DEF Placed, Answers
<1>1. ASSUME NEW a \in Appends, NEW e \in 0..MaxFrom, BeginAppend(a, e)
      PROVE  Placed(b)' /\ Answers(b)'
  BY <1>0, <1>1 DEF BeginAppend, TypeOK
<1>2. ASSUME NEW a \in Appends, Publish(a) PROVE Placed(b)' /\ Answers(b)'
  BY <1>0, <1>2 DEF Publish, TypeOK, streamVars
<1>3. ASSUME NEW a \in Appends, Serve(a) PROVE Placed(b)' /\ Answers(b)'
  <2>1. CASE stream = "present" /\ TipMatches(a)
    <3>1. /\ log' = Append(log, a) /\ net' = [net EXCEPT ![a] = "ok"]
          /\ place' = [place EXCEPT ![a] = [pos |-> Len(log) + 1, deletes |-> deletes]]
          /\ UNCHANGED <<stream, deletes, pc, expected, res>> /\ net[a] = "wire"
      BY <1>3, <2>1, Zenon DEF Serve
    <3>2. /\ Len(log) \in Nat /\ Len(log') = Len(log) + 1
          /\ log'[Len(log) + 1] = a
          /\ \A k \in 1..Len(log) : log'[k] = log[k]
      <4>1. log \in Seq(Appends) /\ log' = Append(log, a)
        BY <1>0, <3>1 DEF TypeOK
      <4>2. Len(log) \in Nat
        BY <4>1
      <4>3. /\ Len(Append(log, a)) = Len(log) + 1 /\ Append(log, a)[Len(log) + 1] = a
            /\ \A k \in 1..Len(log) : Append(log, a)[k] = log[k]
        BY <4>1, SeqFacts
      <4> QED
        BY <4>1, <4>2, <4>3, Zenon
    <3>3. Answers(b)'
      BY <1>0, <3>1 DEF TypeOK
    <3>4. CASE b = a
      BY <1>0, <2>1, <3>1, <3>2, <3>3, <3>4 DEF TypeOK, TipMatches
    <3>5. CASE b # a
      <4>1. net'[b] = net[b] /\ place'[b] = place[b] /\ expected'[b] = expected[b]
        BY <1>0, <3>1, <3>5 DEF TypeOK
      <4>2. place[b] \in [pos : Nat, deletes : Nat] /\ expected[b] \in Nat
        BY <1>0, ConstantsAssumption DEF TypeOK
      <4> QED
        BY <1>0, <3>1, <3>2, <3>3, <4>1, <4>2
    <3> QED
      BY <3>4, <3>5
  <2>2. CASE ~(stream = "present" /\ TipMatches(a))
    BY <1>0, <1>3, <2>2 DEF Serve, TypeOK
  <2> QED
    BY <2>1, <2>2
<1>4. ASSUME NEW a \in Appends,
             Acknowledged(a) \/ Conflict(a) \/ AckLost(a) \/ AppendFails(a)
      PROVE  Placed(b)' /\ Answers(b)'
  <2>1. /\ UNCHANGED <<stream, log, deletes, expected, net, place>>
        /\ pc' = [pc EXCEPT ![a] = "done"]
    BY <1>4, Zenon
    DEF Acknowledged, Conflict, AckLost, AppendFails, Return, streamVars
  <2>2. PICK what \in {"ok", "conflict", "ambiguous", "error"} :
          /\ res' = [res EXCEPT ![a] = what]
          /\ what = "ok" => net[a] = "ok"
          /\ what = "conflict" => net[a] = "rejected"
    BY <1>4 DEF Acknowledged, Conflict, AckLost, AppendFails, Return
  <2>3. Answers(b)'
    BY <1>0, <2>1, <2>2 DEF TypeOK
  <2> QED
    BY <1>0, <2>1, <2>3
<1>5. ASSUME NEW r \in Readers,
             (\E f \in 0..MaxFrom : Read(r, f)) \/ CursorNext(r) \/ ReadFails(r)
      PROVE  Placed(b)' /\ Answers(b)'
  <2>1. UNCHANGED <<streamVars, appendVars>>
    BY <1>5, Zenon DEF Read, CursorNext, ReadFails
  <2> QED
    BY <1>0, <2>1 DEF streamVars, appendVars
<1>6. CASE Delete
  BY <1>0, <1>6 DEF Delete, TypeOK, appendVars
<1>7. CASE UNCHANGED vars
  BY <1>0, <1>7 DEF vars, streamVars, appendVars
<1> QED
  BY <1>1, <1>2, <1>3, <1>4, <1>5, <1>6, <1>7 DEF Next

\* A cursor keeps to its bound, and as long as the ledger is not deleted it has
\* yielded what it captured: appends only extend the log beyond the capture.
LEMMA CursorsStep == IndInv /\ [Next]_vars => CursorsSound'
<1> SUFFICES ASSUME IndInv, [Next]_vars, NEW q \in Readers
             PROVE  Bounded(q)' /\ Faithful(q)'
  BY DEF CursorsSound
<1>0. TypeOK /\ TypeOK' /\ Bounded(q) /\ Faithful(q)
  BY TypesStep DEF IndInv, CursorsSound
<1>a. /\ from[q] \in Nat /\ next[q] \in Nat /\ tip[q] \in Nat
      /\ got[q] \in Seq(Appends) /\ snap[q] \in Seq(Appends) /\ log \in Seq(Appends)
      /\ epoch[q] \in Nat /\ deletes \in Nat
  BY <1>0, ConstantsAssumption DEF TypeOK
<1> USE DEF Bounded, Faithful
<1>1. ASSUME NEW a \in Appends,
             \/ \E e \in 0..MaxFrom : BeginAppend(a, e)
             \/ Publish(a) \/ Acknowledged(a) \/ Conflict(a) \/ AckLost(a)
             \/ AppendFails(a)
      PROVE  Bounded(q)' /\ Faithful(q)'
  <2>1. UNCHANGED <<log, deletes, cursorVars>>
    BY <1>1, Zenon
    DEF BeginAppend, Publish, Acknowledged, Conflict, AckLost, AppendFails, streamVars
  <2> QED
    BY <1>0, <2>1 DEF cursorVars
<1>2. ASSUME NEW a \in Appends, Serve(a) PROVE Bounded(q)' /\ Faithful(q)'
  <2>1. /\ UNCHANGED <<deletes, cursorVars>>
        /\ log' = log \/ log' = Append(log, a)
    BY <1>2, Zenon DEF Serve
  <2>2. CASE log' = log
    BY <1>0, <2>1, <2>2 DEF cursorVars
  <2>3. CASE log' = Append(log, a)
    <3>1. /\ Len(log') = Len(log) + 1 /\ Len(log) \in Nat /\ Len(snap[q]) \in Nat
          /\ \A k \in 1..Len(log) : log'[k] = log[k]
      BY <1>a, <2>3, SeqFacts
    <3> QED
      BY <1>0, <2>1, <3>1 DEF cursorVars
  <2> QED
    BY <2>1, <2>2, <2>3
<1>3. ASSUME NEW r \in Readers, NEW f \in 0..MaxFrom, Read(r, f)
      PROVE  Bounded(q)' /\ Faithful(q)'
  <2>1. CASE q = r
    <3>1. /\ cur[q] = "idle" /\ cur'[q] = "open" /\ log' = log /\ deletes' = deletes
          /\ from'[q] = IF f < 1 THEN 1 ELSE f
          /\ next'[q] = IF f < 1 THEN 1 ELSE f
          /\ tip'[q] = Len(log) /\ snap'[q] = log /\ epoch'[q] = deletes
          /\ got'[q] = got[q]
      BY <1>0, <1>3, <2>1 DEF Read, TypeOK, streamVars
    <3>2. got[q] = <<>> /\ Len(got'[q]) = 0 /\ Len(log) \in Nat
      BY <1>0, <1>a, <3>1
    <3> QED
      BY <1>a, <3>1, <3>2, ConstantsAssumption
  <2>2. CASE q # r
    <3>1. /\ log' = log /\ deletes' = deletes
          /\ cur'[q] = cur[q] /\ from'[q] = from[q] /\ next'[q] = next[q]
          /\ tip'[q] = tip[q] /\ snap'[q] = snap[q] /\ epoch'[q] = epoch[q]
          /\ got'[q] = got[q]
      BY <1>0, <1>3, <2>2 DEF Read, TypeOK, streamVars
    <3> QED
      BY <1>0, <3>1
  <2> QED
    BY <2>1, <2>2
<1>4. ASSUME NEW r \in Readers, CursorNext(r) PROVE Bounded(q)' /\ Faithful(q)'
  <2>1. UNCHANGED <<log, deletes, from, tip, snap, epoch>> /\ cur[r] = "open"
    BY <1>4, Zenon DEF CursorNext, streamVars
  <2>2. CASE PastTip(r) \/ next[r] > Len(log)
    <3>1. /\ UNCHANGED <<next, got>>
          /\ \/ cur' = [cur EXCEPT ![r] = "eof"] /\ PastTip(r)
             \/ cur' = [cur EXCEPT ![r] = "failed"]
      BY <1>4, <2>2, Zenon DEF CursorNext, Missing
    <3>2. /\ cur'[q] = "eof" => cur[q] = "eof" \/ next[q] > tip[q]
          /\ cur'[q] = "idle" => cur[q] = "idle"
          /\ cur[q] = "idle" => cur'[q] = "idle"
      <4>1. CASE q = r
        <5>1. cur'[q] = "failed" \/ (cur'[q] = "eof" /\ PastTip(r))
          BY <1>0, <3>1, <4>1, Zenon DEF TypeOK
        <5> QED
          BY <2>1, <4>1, <5>1 DEF PastTip
      <4>2. CASE q # r
        <5>1. cur'[q] = cur[q]
          BY <1>0, <3>1, <4>2, Zenon DEF TypeOK
        <5> QED
          BY <5>1
      <4> QED
        BY <4>1, <4>2
    <3> QED
      BY <1>0, <2>1, <3>1, <3>2
  <2>3. CASE ~PastTip(r) /\ ~(next[r] > Len(log))
    <3>1. /\ got' = [got EXCEPT ![r] = Append(got[r], log[next[r]])]
          /\ next' = [next EXCEPT ![r] = next[r] + 1] /\ cur' = cur
      BY <1>4, <2>3, Zenon DEF CursorNext
    <3>2. CASE q = r
      <4>1. /\ log[next[q]] \in Appends /\ next[q] <= tip[q] /\ next[q] <= Len(log)
            /\ Len(got[q]) \in Nat /\ Len(snap[q]) \in Nat /\ Len(log) \in Nat
        BY <1>0, <1>a, <2>3, <3>2 DEF PastTip
      <4>2. got'[q] = Append(got[q], log[next[q]]) /\ next'[q] = next[q] + 1
        BY <1>0, <3>1, <3>2 DEF TypeOK
      <4>3. /\ Len(got'[q]) = Len(got[q]) + 1
            /\ got'[q][Len(got[q]) + 1] = log[next[q]]
            /\ \A k \in 1..Len(got[q]) : got'[q][k] = got[q][k]
        BY <1>a, <4>1, <4>2, SeqFacts
      <4>4. Bounded(q)'
        <5>1. from'[q] >= 1 /\ next'[q] = from'[q] + Len(got'[q])
          BY <1>0, <1>a, <2>1, <4>1, <4>2, <4>3
        <5>2. tip'[q] = Len(snap'[q]) /\ next'[q] <= tip'[q] + 1
          BY <1>0, <1>a, <2>1, <4>1, <4>2
        <5>3. cur'[q] = "open"
          BY <2>1, <3>1, <3>2
        <5> QED
          BY <5>1, <5>2, <5>3
      <4>5. Faithful(q)'
        <5>1. ASSUME epoch[q] = deletes, NEW k \in 1..(Len(got[q]) + 1)
              PROVE  /\ from[q] + k - 1 <= Len(snap[q])
                     /\ got'[q][k] = snap[q][from[q] + k - 1]
          <6>1. CASE k = Len(got[q]) + 1
            BY <1>0, <1>a, <2>1, <3>2, <4>1, <4>3, <5>1, <6>1
          <6>2. CASE k \in 1..Len(got[q])
            BY <1>0, <1>a, <2>1, <3>2, <4>1, <4>3, <5>1, <6>2
          <6>3. k = Len(got[q]) + 1 \/ k \in 1..Len(got[q])
            BY <4>1
          <6> QED
            BY <6>1, <6>2, <6>3, Zenon
        <5> QED
          BY <1>0, <2>1, <3>1, <4>3, <5>1
      <4> QED
        BY <4>4, <4>5
    <3>3. CASE q # r
      <4>1. got'[q] = got[q] /\ next'[q] = next[q]
        BY <1>0, <3>1, <3>3 DEF TypeOK
      <4> QED
        BY <1>0, <2>1, <3>1, <4>1
    <3> QED
      BY <3>2, <3>3
  <2> QED
    BY <2>2, <2>3
<1>5. ASSUME NEW r \in Readers, ReadFails(r) PROVE Bounded(q)' /\ Faithful(q)'
  <2>1. /\ UNCHANGED <<log, deletes, from, next, tip, got, snap, epoch>>
        /\ cur[r] = "open" /\ cur' = [cur EXCEPT ![r] = "failed"]
    BY <1>5, Zenon DEF ReadFails, Missing, streamVars
  <2> QED
    BY <1>0, <2>1 DEF TypeOK
<1>6. CASE Delete
  BY <1>0, <1>a, <1>6 DEF Delete, cursorVars
<1>7. CASE UNCHANGED vars
  BY <1>0, <1>7 DEF vars, streamVars, cursorVars
<1> QED
  BY <1>1, <1>2, <1>3, <1>4, <1>5, <1>6, <1>7 DEF Next

-----------------------------------------------------------------------------

\* The inductive invariant holds throughout.
THEOREM Inductive == Spec => []IndInv
<1>1. IndInv /\ [Next]_vars => IndInv'
  BY TypesStep, AppendsStep, CursorsStep DEF IndInv
<1> QED
  BY InitIndInv, <1>1, PTL DEF Spec

\* Every variable of the ledger keeps its type.
THEOREM Types == Spec => []TypeOK
<1>1. IndInv => TypeOK
  BY DEF IndInv
<1> QED
  BY Inductive, <1>1, PTL

\* An acknowledged append holds the position after its expected tip until the
\* ledger is deleted, for any number of racing appends (Append).
THEOREM Acked == Spec => []AckedInPlace
<1>1. IndInv => AckedInPlace
  <2> SUFFICES ASSUME IndInv, NEW a \in Appends, res[a] = "ok"
               PROVE  /\ place[a].pos = expected[a] + 1
                      /\ place[a].deletes = deletes =>
                           Len(log) >= place[a].pos /\ log[place[a].pos] = a
    BY DEF AckedInPlace
  <2>1. Placed(a) /\ Answers(a) /\ log \in Seq(Appends)
        /\ place[a] \in [pos : Nat, deletes : Nat]
    BY DEF IndInv, AppendsSound, TypeOK
  <2> QED
    BY <2>1 DEF Placed, Answers
<1> QED
  BY Inductive, <1>1, PTL

\* A conflict is definite: the record has not landed and never will (Append).
THEOREM Conflicts == Spec => []ConflictIsFinal
<1>1. IndInv => ConflictIsFinal
  BY DEF IndInv, AppendsSound, Placed, Answers, ConflictIsFinal
<1> QED
  BY Inductive, <1>1, PTL

\* A cursor of a ledger not deleted since yields what was there at Read.
THEOREM Snapshot == Spec => []CursorSnapshot
<1>1. IndInv => CursorSnapshot
  BY DEF IndInv, CursorsSound, Faithful, CursorSnapshot
<1> QED
  BY Inductive, <1>1, PTL

\* A cursor that reports the end has left nothing out, deleted ledger or not.
THEOREM Complete == Spec => []CursorComplete
<1>1. IndInv => CursorComplete
  <2> SUFFICES ASSUME IndInv, NEW r \in Readers, cur[r] = "eof", from[r] <= tip[r]
               PROVE  Len(got[r]) = tip[r] - from[r] + 1
    BY DEF CursorComplete
  <2>1. Bounded(r) /\ got[r] \in Seq(Appends) /\ from[r] \in Nat /\ tip[r] \in Nat
    BY DEF IndInv, CursorsSound, TypeOK
  <2> QED
    BY <2>1 DEF Bounded
<1> QED
  BY Inductive, <1>1, PTL
=============================================================================
