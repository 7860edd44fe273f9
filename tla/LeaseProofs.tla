----------------------------- MODULE LeaseProofs -----------------------------
(***************************************************************************)
(* For any number of holders, writes and ticks, and any lease window: at   *)
(* most one holder can prove ownership, epochs rise with every takeover    *)
(* and no two leases between reaps share one, a release is not undone by   *)
(* the releaser's late writes, and the bucket reaps only expired entries.  *)
(***************************************************************************)
EXTENDS Lease, TLAPS

\* Constants that are numbers.
LEMMA Numbers == TTL \in Nat /\ TTL > 0
  BY ConstantsAssumption

\* The write a holder starts with is a write.
LEMMA NoWriteTyped == \A h \in Holders : NoWrite(h) \in Writes
  BY DEF NoWrite, Write, Writes

\* Acquire reads the entry.
LEMMA GetKeeps ==
  ASSUME IndInv, NEW h \in Holders, Get(h)
  PROVE  IndInv'
<1> USE Numbers DEF IndInv, Get, bucketVars, leaseVars
<1>1. TypeOK'
  BY DEF TypeOK, Phases, Writes, Write
<1>2. Phases'
  BY DEF TypeOK, Phases, Write
<1>3. Bounds'
  BY DEF TypeOK, Phases, Bounds
<1>4. Unwritten'
  BY DEF TypeOK, Bounds, Unwritten
<1>5. PendingFair'
  BY DEF TypeOK, Phases, PendingFair, WriteBounded, WriteFair, FenceHolds, Expired
<1>6. LeaseCurrent'
  BY DEF TypeOK, Phases, LeaseCurrent
<1>7. AckCurrent'
  BY DEF TypeOK, Phases, AckCurrent
<1>8. OwnerInEntry'
  BY DEF TypeOK, Phases, OwnerInEntry, ProvesOwnership
<1> QED BY <1>1, <1>2, <1>3, <1>4, <1>5, <1>6, <1>7, <1>8

\* Acquire finds the entry live, or sends its takeover.
LEMMA DecideKeeps ==
  ASSUME IndInv, NEW h \in Holders, Decide(h)
  PROVE  IndInv'
<1> USE Numbers DEF IndInv, Decide, bucketVars, leaseVars, Send, Return, Expired, NextEpoch
<1>1. TypeOK'
  <2>1. clock + TTL \in Nat /\ seen[h].epoch + 1 \in Nat /\ seen[h].rev \in Nat
    BY DEF TypeOK, Entries
  <2>2. Write(h, seen[h].rev, seen[h].epoch + 1, clock + TTL) \in Writes
    BY <2>1 DEF Writes, Write
  <2>3. seen' \in [Holders -> Entries]
    BY DEF TypeOK, Entries, Absent
  <2> QED BY <2>2, <2>3 DEF TypeOK
<1>2. Phases'
  BY DEF TypeOK, Phases, Write
<1>3. Bounds'
  BY DEF TypeOK, Bounds, Absent
<1>4. Unwritten'
  BY DEF TypeOK, Phases, Unwritten
<1>5. PendingFair'
  <2>1. CASE ~Expired(seen[h])
    BY <2>1 DEF TypeOK, PendingFair, WriteBounded, WriteFair, FenceHolds, Expired
  <2>2. CASE Expired(seen[h])
    <3> DEFINE w == Write(h, seen[h].rev, seen[h].epoch + 1, clock + TTL)
    <3>1. req' = [req EXCEPT ![h] = w] /\ net' = [net EXCEPT ![h] = "wire"]
      BY <2>2
    <3>2. /\ seen[h].rev <= lastRev /\ seen[h].epoch \in Nat /\ clock \in Nat
          /\ seen[h].rev = entry.rev => seen[h] = entry
          /\ entry.holder # h
      BY DEF TypeOK, Entries, Bounds, Unwritten
    <3>3. WriteBounded(w) /\ WriteFair(w)
      BY <2>2, <3>2 DEF WriteBounded, WriteFair, FenceHolds, Expired, Write
    <3>4. \A x \in Writes : WriteBounded(x) /\ WriteFair(x) => (WriteBounded(x) /\ WriteFair(x))'
      BY DEF WriteBounded, WriteFair, FenceHolds, Expired
    <3>5. w \in Writes /\ orphans \subseteq Writes
      BY DEF TypeOK, Entries, Writes, Write
    <3>6. \A g \in Holders : net'[g] = "wire" =>
            req'[g] \in Writes /\ WriteBounded(req'[g]) /\ WriteFair(req'[g])
      <4> HIDE DEF w
      <4> QED BY <3>1, <3>3, <3>5 DEF TypeOK, PendingFair
    <3> QED BY <3>4, <3>5, <3>6 DEF PendingFair
  <2> QED BY <2>1, <2>2
<1>6. LeaseCurrent'
  BY DEF TypeOK, Phases, LeaseCurrent
<1>7. AckCurrent'
  BY DEF TypeOK, Phases, AckCurrent
<1>8. OwnerInEntry'
  BY DEF TypeOK, Phases, OwnerInEntry, ProvesOwnership
<1> QED BY <1>1, <1>2, <1>3, <1>4, <1>5, <1>6, <1>7, <1>8

\* The takeover was acknowledged: the lease starts.
LEMMA GrantedKeeps ==
  ASSUME IndInv, NEW h \in Holders, Granted(h)
  PROVE  IndInv'
<1> USE Numbers DEF IndInv, Granted, bucketVars, leaseVars, Answered, Forget, NoWrite
<1>1. TypeOK'
  BY DEF TypeOK, Phases, Writes, Write
<1>2. Phases'
  BY DEF TypeOK, Phases, Write
<1>3. Bounds'
  BY DEF TypeOK, Phases, Bounds, AckCurrent
<1>4. Unwritten'
  BY DEF TypeOK, Phases, Unwritten
<1>5. PendingFair'
  BY DEF TypeOK, Phases, PendingFair, WriteBounded, WriteFair, FenceHolds, Expired
<1>6. LeaseCurrent'
  BY DEF TypeOK, Phases, LeaseCurrent, AckCurrent
<1>7. AckCurrent'
  BY DEF TypeOK, Phases, AckCurrent
<1>8. OwnerInEntry'
  <2> SUFFICES ASSUME NEW g \in Holders, ProvesOwnership(g)'
               PROVE  entry.holder = g /\ entry.expires >= validUntil'[g]
    BY DEF OwnerInEntry
  <2>1. CASE g = h
    <3>1. validUntil'[h] = req[h].expires /\ clock < req[h].expires
      BY <2>1 DEF TypeOK, ProvesOwnership
    <3>2. entry.holder = h /\ entry.expires = req[h].expires
      BY <3>1 DEF AckCurrent
    <3>3. req[h].expires \in Nat
      BY DEF TypeOK, Writes
    <3> QED BY <2>1, <3>1, <3>2, <3>3
  <2>2. CASE g # h
    BY <2>2 DEF TypeOK, OwnerInEntry, ProvesOwnership
  <2> QED BY <2>1, <2>2
<1> QED BY <1>1, <1>2, <1>3, <1>4, <1>5, <1>6, <1>7, <1>8

\* The takeover lost the race.
LEMMA BeatenKeeps ==
  ASSUME IndInv, NEW h \in Holders, Beaten(h)
  PROVE  IndInv'
<1> USE Numbers DEF IndInv, Beaten, bucketVars, leaseVars, Return, Answered, Forget, NoWrite
<1>1. TypeOK'
  BY DEF TypeOK, Phases, Writes, Write
<1>2. Phases'
  BY DEF TypeOK, Phases, Write
<1>3. Bounds'
  BY DEF TypeOK, Phases, Bounds
<1>4. Unwritten'
  BY DEF TypeOK, Phases, Unwritten
<1>5. PendingFair'
  BY DEF TypeOK, Phases, PendingFair, WriteBounded, WriteFair, FenceHolds, Expired
<1>6. LeaseCurrent'
  BY DEF TypeOK, Phases, LeaseCurrent
<1>7. AckCurrent'
  BY DEF TypeOK, Phases, AckCurrent
<1>8. OwnerInEntry'
  BY DEF TypeOK, Phases, OwnerInEntry, ProvesOwnership
<1> QED BY <1>1, <1>2, <1>3, <1>4, <1>5, <1>6, <1>7, <1>8

\* Acquire gives up; its write may still be served.
LEMMA AcquireFailsKeeps ==
  ASSUME IndInv, NEW h \in Holders, AcquireFails(h)
  PROVE  IndInv'
<1> USE Numbers DEF IndInv, AcquireFails, bucketVars, leaseVars, Return, GiveUp, Forget, NoWrite
<1>1. TypeOK'
  BY DEF TypeOK, Phases, Writes, Write
<1>2. Phases'
  BY DEF TypeOK, Phases, Write
<1>3. Bounds'
  BY DEF TypeOK, Phases, Bounds
<1>4. Unwritten'
  BY DEF TypeOK, Phases, Unwritten
<1>5. PendingFair'
  BY DEF TypeOK, Phases, PendingFair, WriteBounded, WriteFair, FenceHolds, Expired
<1>6. LeaseCurrent'
  BY DEF TypeOK, Phases, LeaseCurrent
<1>7. AckCurrent'
  BY DEF TypeOK, Phases, AckCurrent
<1>8. OwnerInEntry'
  BY DEF TypeOK, Phases, OwnerInEntry, ProvesOwnership
<1> QED BY <1>1, <1>2, <1>3, <1>4, <1>5, <1>6, <1>7, <1>8

\* The heartbeat sends a renewal.
LEMMA RenewKeeps ==
  ASSUME IndInv, NEW h \in Holders, Renew(h)
  PROVE  IndInv'
<1> USE Numbers DEF IndInv, Renew, bucketVars, leaseVars, Send
<1>1. TypeOK'
  BY DEF TypeOK, Phases, Writes, Write
<1>2. Phases'
  BY DEF TypeOK, Phases, Write
<1>3. Bounds'
  BY DEF TypeOK, Phases, Bounds
<1>4. Unwritten'
  BY DEF TypeOK, Phases, Unwritten
<1>5. PendingFair'
  <2> DEFINE w == Write(h, rev[h], epoch[h], clock + TTL)
  <2>1. /\ req' = [req EXCEPT ![h] = w] /\ net' = [net EXCEPT ![h] = "wire"]
        /\ pc[h] \in {"holding", "stopping"}
    BY DEF Phases
  <2>2. /\ rev[h] <= lastRev /\ epoch[h] > 0 /\ clock \in Nat
        /\ rev[h] = entry.rev => entry.holder = h /\ entry.epoch = epoch[h]
        /\ entry.expires \in Nat /\ entry.written \in Nat
        /\ entry.written <= clock /\ entry.expires <= entry.written + TTL
    BY <2>1 DEF TypeOK, Entries, Bounds, LeaseCurrent
  <2>3. WriteBounded(w) /\ WriteFair(w)
    BY <2>2 DEF WriteBounded, WriteFair, FenceHolds, Expired, Write
  <2>4. (WriteBounded(w) /\ WriteFair(w))'
    BY <2>3 DEF WriteBounded, WriteFair, FenceHolds, Expired, Write
  <2> QED BY <2>1, <2>4
          DEF TypeOK, PendingFair, WriteBounded, WriteFair, FenceHolds, Expired
<1>6. LeaseCurrent'
  BY DEF TypeOK, Phases, LeaseCurrent
<1>7. AckCurrent'
  BY DEF TypeOK, Phases, AckCurrent
<1>8. OwnerInEntry'
  BY DEF TypeOK, Phases, OwnerInEntry, ProvesOwnership
<1> QED BY <1>1, <1>2, <1>3, <1>4, <1>5, <1>6, <1>7, <1>8

\* The renewal was acknowledged.
LEMMA RenewedKeeps ==
  ASSUME IndInv, NEW h \in Holders, Renewed(h)
  PROVE  IndInv'
<1> USE Numbers DEF IndInv, Renewed, bucketVars, leaseVars, Answered, Forget, NoWrite
<1>1. TypeOK'
  BY DEF TypeOK, Phases, Writes, Write
<1>2. Phases'
  BY DEF TypeOK, Phases, Write
<1>3. Bounds'
  BY DEF TypeOK, Phases, Bounds, AckCurrent
<1>4. Unwritten'
  BY DEF TypeOK, Phases, Unwritten
<1>5. PendingFair'
  BY DEF TypeOK, Phases, PendingFair, WriteBounded, WriteFair, FenceHolds, Expired
<1>6. LeaseCurrent'
  BY DEF TypeOK, Phases, LeaseCurrent, AckCurrent
<1>7. AckCurrent'
  BY DEF TypeOK, Phases, AckCurrent
<1>8. OwnerInEntry'
  <2> SUFFICES ASSUME NEW g \in Holders, ProvesOwnership(g)'
               PROVE  entry.holder = g /\ entry.expires >= validUntil'[g]
    BY DEF OwnerInEntry
  <2>1. CASE g = h
    <3>1. validUntil'[h] = req[h].expires /\ clock < req[h].expires
      BY <2>1 DEF TypeOK, ProvesOwnership
    <3>2. entry.holder = h /\ entry.expires = req[h].expires
      BY <3>1 DEF AckCurrent
    <3>3. req[h].expires \in Nat
      BY DEF TypeOK, Writes
    <3> QED BY <2>1, <3>1, <3>2, <3>3
  <2>2. CASE g # h
    BY <2>2 DEF TypeOK, OwnerInEntry, ProvesOwnership
  <2> QED BY <2>1, <2>2
<1> QED BY <1>1, <1>2, <1>3, <1>4, <1>5, <1>6, <1>7, <1>8

\* The renewal was refused: the lease is surrendered.
LEMMA RenewLostKeeps ==
  ASSUME IndInv, NEW h \in Holders, RenewLost(h)
  PROVE  IndInv'
<1> USE Numbers DEF IndInv, RenewLost, bucketVars, leaseVars, Surrender, Answered, Forget, NoWrite
<1>1. TypeOK'
  BY DEF TypeOK, Phases, Writes, Write
<1>2. Phases'
  BY DEF TypeOK, Phases, Write
<1>3. Bounds'
  BY DEF TypeOK, Phases, Bounds
<1>4. Unwritten'
  BY DEF TypeOK, Phases, Unwritten
<1>5. PendingFair'
  BY DEF TypeOK, Phases, PendingFair, WriteBounded, WriteFair, FenceHolds, Expired
<1>6. LeaseCurrent'
  BY DEF TypeOK, Phases, LeaseCurrent
<1>7. AckCurrent'
  BY DEF TypeOK, Phases, AckCurrent
<1>8. OwnerInEntry'
  BY DEF TypeOK, Phases, OwnerInEntry, ProvesOwnership
<1> QED BY <1>1, <1>2, <1>3, <1>4, <1>5, <1>6, <1>7, <1>8

\* The renewal was not answered: keep the lease, or fence oneself.
LEMMA RenewFailsKeeps ==
  ASSUME IndInv, NEW h \in Holders, RenewFails(h)
  PROVE  IndInv'
<1> USE DEF IndInv
<1>1. /\ beat[h] = "renewing" /\ pc[h] \in {"holding", "stopping"}
      /\ UNCHANGED <<clock, entry, lastRev, reaps, era, pc, seen, res, epoch, rev, validUntil>>
      /\ req' = [req EXCEPT ![h] = NoWrite(h)] /\ net' = [net EXCEPT ![h] = "none"]
      /\ got' = [got EXCEPT ![h] = 0]
      /\ lost' = lost \/ lost' = [lost EXCEPT ![h] = TRUE]
      /\ beat' = [beat EXCEPT ![h] = "off"] \/ beat' = [beat EXCEPT ![h] = "waiting"]
      /\ orphans' = orphans \/ (net[h] = "wire" /\ orphans' = orphans \cup {req[h]})
  <2>1. /\ beat[h] = "renewing" /\ pc[h] \in {"holding", "stopping"}
        /\ UNCHANGED <<clock, entry, lastRev, reaps, era, pc, seen, res>>
    BY DEF RenewFails, bucketVars, Phases
  <2>2. /\ UNCHANGED <<epoch, rev, validUntil>>
        /\ lost' = lost \/ lost' = [lost EXCEPT ![h] = TRUE]
        /\ beat' = [beat EXCEPT ![h] = "off"] \/ beat' = [beat EXCEPT ![h] = "waiting"]
    BY DEF RenewFails, Surrender, leaseVars
  <2>3. /\ req' = [req EXCEPT ![h] = NoWrite(h)] /\ net' = [net EXCEPT ![h] = "none"]
        /\ got' = [got EXCEPT ![h] = 0]
    BY DEF RenewFails, GiveUp, Forget
  <2>4. orphans' = orphans \/ (net[h] = "wire" /\ orphans' = orphans \cup {req[h]})
    BY DEF RenewFails, GiveUp
  <2> QED BY <2>1, <2>2, <2>3, <2>4
<1>2. \A g \in Holders : lost[g] => lost'[g]
  BY <1>1 DEF TypeOK
<1>3. TypeOK'
  <2>1. lost' \in [Holders -> BOOLEAN] /\ beat' \in [Holders -> {"off", "waiting", "renewing"}]
    BY <1>1 DEF TypeOK
  <2>2. orphans' \subseteq Writes
    BY <1>1 DEF TypeOK
  <2>3. /\ req' \in [Holders -> Writes] /\ got' \in [Holders -> Nat]
        /\ net' \in [Holders -> {"none", "wire", "ok", "conflict"}]
    BY <1>1, NoWriteTyped DEF TypeOK
  <2> QED BY <1>1, <2>1, <2>2, <2>3 DEF TypeOK
<1>4. Phases'
  BY <1>1, <1>2 DEF TypeOK, Phases, NoWrite, Write
<1>5. Bounds'
  BY <1>1 DEF TypeOK, Bounds
<1>6. Unwritten'
  BY <1>1 DEF TypeOK, Phases, Unwritten
<1>7. PendingFair'
  <2>1. \A w \in Writes : WriteBounded(w) /\ WriteFair(w) => (WriteBounded(w) /\ WriteFair(w))'
    BY <1>1, <1>2 DEF WriteBounded, WriteFair, FenceHolds, Expired, Writes
  <2>2. \A w \in orphans' : WriteBounded(w) /\ WriteFair(w)
    BY <1>1 DEF PendingFair
  <2>3. \A g \in Holders : net'[g] = "wire" =>
          req'[g] = req[g] /\ WriteBounded(req[g]) /\ WriteFair(req[g])
    BY <1>1 DEF TypeOK, PendingFair
  <2> QED BY <1>3, <2>1, <2>2, <2>3 DEF TypeOK, PendingFair
<1>8. LeaseCurrent'
  BY <1>1 DEF LeaseCurrent
<1>9. AckCurrent'
  BY <1>1 DEF TypeOK, AckCurrent, Phases
<1>10. OwnerInEntry'
  BY <1>1, <1>2 DEF TypeOK, OwnerInEntry, ProvesOwnership
<1> QED BY <1>3, <1>4, <1>5, <1>6, <1>7, <1>8, <1>9, <1>10

\* The heartbeat exits on stop.
LEMMA HeartbeatStopsKeeps ==
  ASSUME IndInv, NEW h \in Holders, HeartbeatStops(h)
  PROVE  IndInv'
<1> USE Numbers DEF IndInv, HeartbeatStops, bucketVars, leaseVars
<1>1. TypeOK'
  BY DEF TypeOK, Phases, Writes, Write
<1>2. Phases'
  BY DEF TypeOK, Phases, Write
<1>3. Bounds'
  BY DEF TypeOK, Phases, Bounds
<1>4. Unwritten'
  BY DEF TypeOK, Phases, Unwritten
<1>5. PendingFair'
  BY DEF TypeOK, Phases, PendingFair, WriteBounded, WriteFair, FenceHolds, Expired
<1>6. LeaseCurrent'
  BY DEF TypeOK, Phases, LeaseCurrent
<1>7. AckCurrent'
  BY DEF TypeOK, Phases, AckCurrent
<1>8. OwnerInEntry'
  BY DEF TypeOK, Phases, OwnerInEntry, ProvesOwnership
<1> QED BY <1>1, <1>2, <1>3, <1>4, <1>5, <1>6, <1>7, <1>8

\* Release begins.
LEMMA ReleaseKeeps ==
  ASSUME IndInv, NEW h \in Holders, Release(h)
  PROVE  IndInv'
<1> USE Numbers DEF IndInv, Release, bucketVars, leaseVars
<1>1. TypeOK'
  BY DEF TypeOK, Phases, Writes, Write
<1>2. Phases'
  BY DEF TypeOK, Phases, Write
<1>3. Bounds'
  BY DEF TypeOK, Phases, Bounds
<1>4. Unwritten'
  BY DEF TypeOK, Phases, Unwritten
<1>5. PendingFair'
  BY DEF TypeOK, Phases, PendingFair, WriteBounded, WriteFair, FenceHolds, Expired
<1>6. LeaseCurrent'
  BY DEF TypeOK, Phases, LeaseCurrent
<1>7. AckCurrent'
  BY DEF TypeOK, Phases, AckCurrent
<1>8. OwnerInEntry'
  BY DEF TypeOK, Phases, OwnerInEntry, ProvesOwnership
<1> QED BY <1>1, <1>2, <1>3, <1>4, <1>5, <1>6, <1>7, <1>8

\* Release writes the expired entry.
LEMMA RelinquishKeeps ==
  ASSUME IndInv, NEW h \in Holders, Relinquish(h)
  PROVE  IndInv'
<1> USE Numbers DEF IndInv, Relinquish, bucketVars, leaseVars, Send, Relinquished
<1>1. TypeOK'
  BY DEF TypeOK, Phases, Writes, Write
<1>2. Phases'
  BY DEF TypeOK, Phases, Write
<1>3. Bounds'
  BY DEF TypeOK, Phases, Bounds
<1>4. Unwritten'
  BY DEF TypeOK, Phases, Unwritten
<1>5. PendingFair'
  BY DEF TypeOK, Phases, PendingFair, Bounds, LeaseCurrent, Write, WriteBounded, WriteFair, FenceHolds, Expired
<1>6. LeaseCurrent'
  BY DEF TypeOK, Phases, LeaseCurrent
<1>7. AckCurrent'
  BY DEF TypeOK, Phases, AckCurrent
<1>8. OwnerInEntry'
  BY DEF TypeOK, Phases, OwnerInEntry, ProvesOwnership
<1> QED BY <1>1, <1>2, <1>3, <1>4, <1>5, <1>6, <1>7, <1>8

\* Release returns nil.
LEMMA ReleasedKeeps ==
  ASSUME IndInv, NEW h \in Holders, Released(h)
  PROVE  IndInv'
<1> USE Numbers DEF IndInv, Released, bucketVars, leaseVars, Return, Answered, Forget, NoWrite
<1>1. TypeOK'
  BY DEF TypeOK, Phases, Writes, Write
<1>2. Phases'
  BY DEF TypeOK, Phases, Write
<1>3. Bounds'
  BY DEF TypeOK, Phases, Bounds
<1>4. Unwritten'
  BY DEF TypeOK, Phases, Unwritten
<1>5. PendingFair'
  BY DEF TypeOK, Phases, PendingFair, WriteBounded, WriteFair, FenceHolds, Expired
<1>6. LeaseCurrent'
  BY DEF TypeOK, Phases, LeaseCurrent
<1>7. AckCurrent'
  BY DEF TypeOK, Phases, AckCurrent
<1>8. OwnerInEntry'
  BY DEF TypeOK, Phases, OwnerInEntry, ProvesOwnership
<1> QED BY <1>1, <1>2, <1>3, <1>4, <1>5, <1>6, <1>7, <1>8

\* Release gives up; its write may still be served.
LEMMA ReleaseFailsKeeps ==
  ASSUME IndInv, NEW h \in Holders, ReleaseFails(h)
  PROVE  IndInv'
<1> USE Numbers DEF IndInv, ReleaseFails, bucketVars, leaseVars, Return, GiveUp, Forget, NoWrite
<1>1. TypeOK'
  BY DEF TypeOK, Phases, Writes, Write
<1>2. Phases'
  BY DEF TypeOK, Phases, Write
<1>3. Bounds'
  BY DEF TypeOK, Phases, Bounds
<1>4. Unwritten'
  BY DEF TypeOK, Phases, Unwritten
<1>5. PendingFair'
  BY DEF TypeOK, Phases, PendingFair, WriteBounded, WriteFair, FenceHolds, Expired
<1>6. LeaseCurrent'
  BY DEF TypeOK, Phases, LeaseCurrent
<1>7. AckCurrent'
  BY DEF TypeOK, Phases, AckCurrent
<1>8. OwnerInEntry'
  BY DEF TypeOK, Phases, OwnerInEntry, ProvesOwnership
<1> QED BY <1>1, <1>2, <1>3, <1>4, <1>5, <1>6, <1>7, <1>8

\* The process dies.
LEMMA CrashKeeps ==
  ASSUME IndInv, NEW h \in Holders, Crash(h)
  PROVE  IndInv'
<1> USE Numbers DEF IndInv, Crash, bucketVars, leaseVars, Return, GiveUp, Forget, NoWrite
<1>1. TypeOK'
  BY DEF TypeOK, Phases, Writes, Write
<1>2. Phases'
  BY DEF TypeOK, Phases, Write
<1>3. Bounds'
  BY DEF TypeOK, Phases, Bounds
<1>4. Unwritten'
  BY DEF TypeOK, Phases, Unwritten
<1>5. PendingFair'
  BY DEF TypeOK, Phases, PendingFair, WriteBounded, WriteFair, FenceHolds, Expired
<1>6. LeaseCurrent'
  BY DEF TypeOK, Phases, LeaseCurrent
<1>7. AckCurrent'
  BY DEF TypeOK, Phases, AckCurrent
<1>8. OwnerInEntry'
  BY DEF TypeOK, Phases, OwnerInEntry, ProvesOwnership
<1> QED BY <1>1, <1>2, <1>3, <1>4, <1>5, <1>6, <1>7, <1>8

\* What the bucket does with a write whose fence holds, of a call under way or of
\* one given up on.  Its new revision makes the fence of every other write fail.
LEMMA ApplyFacts ==
  ASSUME IndInv, NEW w \in Writes, WriteBounded(w), WriteFair(w), FenceHolds(w),
         Apply(w), UNCHANGED <<clock, pc, seen, beat, req, leaseVars, res>>
  PROVE  /\ entry' \in Entries /\ lastRev' \in Nat /\ reaps' \in Nat
         /\ era' \in [Holders -> Nat]
         /\ entry'.rev = lastRev + 1 /\ lastRev' = lastRev + 1
         /\ entry'.holder = w.holder /\ entry'.epoch = w.epoch
         /\ entry'.expires = w.expires /\ entry'.written = clock
         /\ w.expires <= clock + TTL /\ w.epoch > 0
         /\ OwnerInEntry'
         /\ LeaseCurrent'
<1>1. /\ entry' = [rev |-> lastRev + 1, epoch |-> w.epoch, holder |-> w.holder,
                   expires |-> w.expires, written |-> clock]
      /\ lastRev' = lastRev + 1 /\ reaps' = reaps
      /\ era' = [era EXCEPT ![w.holder] = reaps]
      /\ UNCHANGED <<epoch, rev, validUntil, lost>>
  BY DEF Apply, leaseVars
<1>2. /\ w.holder \in Holders /\ w.rev \in Nat /\ w.epoch \in Nat /\ w.expires \in Nat
      /\ clock \in Nat /\ lastRev \in Nat
      /\ entry.expires \in Nat
  BY DEF IndInv, TypeOK, Entries, Writes
<1>3. entry' \in Entries /\ lastRev' \in Nat /\ reaps' \in Nat /\ era' \in [Holders -> Nat]
  BY <1>1, <1>2 DEF IndInv, TypeOK, Entries
<1>4. OwnerInEntry'
  <2> SUFFICES ASSUME NEW g \in Holders, ProvesOwnership(g)
               PROVE  w.holder = g /\ w.expires >= validUntil[g]
    BY <1>1 DEF OwnerInEntry, ProvesOwnership
  <2>1. /\ entry.holder = g /\ entry.expires >= validUntil[g] /\ ~lost[g]
        /\ clock < validUntil[g] /\ validUntil[g] \in Nat
    BY DEF IndInv, TypeOK, OwnerInEntry, ProvesOwnership
  <2>2. w.holder = g
    BY <1>2, <2>1 DEF WriteFair, Expired
  <2>3. w.expires >= entry.expires
    BY <2>1, <2>2 DEF WriteFair
  <2> QED BY <1>2, <2>1, <2>2, <2>3
<1>5. LeaseCurrent'
  <2>1. \A g \in Holders : rev[g] # lastRev + 1
    BY <1>2 DEF IndInv, TypeOK, Bounds
  <2> QED BY <1>1, <2>1 DEF IndInv, LeaseCurrent
<1> QED BY <1>1, <1>3, <1>4, <1>5 DEF WriteBounded

\* The bucket serves a write somebody waits for.
LEMMA ServeKeeps ==
  ASSUME IndInv, NEW h \in Holders, Serve(h)
  PROVE  IndInv'
<1> USE Numbers
<1>1. /\ net[h] = "wire" /\ req[h] \in Writes /\ req[h].holder = h
      /\ WriteBounded(req[h]) /\ WriteFair(req[h])
      /\ UNCHANGED <<clock, pc, seen, beat, req, orphans, leaseVars, res>>
      /\ clock \in Nat /\ lastRev \in Nat
  BY DEF Serve, IndInv, TypeOK, Phases, PendingFair
<1>2. CASE ~FenceHolds(req[h])
  <2>1. UNCHANGED <<bucketVars, got>> /\ net' = [net EXCEPT ![h] = "conflict"]
    BY <1>2 DEF Serve
  <2> USE <1>1, <2>1 DEF IndInv, bucketVars, leaseVars
  <2>2. TypeOK' /\ Phases'
    BY DEF TypeOK, Phases
  <2>3. Bounds' /\ Unwritten' /\ LeaseCurrent'
    BY DEF Bounds, Unwritten, LeaseCurrent
  <2>4. PendingFair'
    BY DEF TypeOK, PendingFair, WriteBounded, WriteFair, FenceHolds, Expired
  <2>5. AckCurrent'
    BY DEF TypeOK, AckCurrent
  <2>6. OwnerInEntry'
    BY DEF OwnerInEntry, ProvesOwnership
  <2> QED BY <2>2, <2>3, <2>4, <2>5, <2>6
<1>3. CASE FenceHolds(req[h])
  <2> DEFINE w == req[h]
  <2>1. /\ Apply(w) /\ net' = [net EXCEPT ![h] = "ok"]
        /\ got' = [got EXCEPT ![h] = lastRev + 1]
    BY <1>3 DEF Serve
  <2>2. /\ entry' \in Entries /\ lastRev' \in Nat /\ reaps' \in Nat
        /\ era' \in [Holders -> Nat]
        /\ entry'.rev = lastRev + 1 /\ lastRev' = lastRev + 1
        /\ entry'.holder = h /\ entry'.epoch = w.epoch
        /\ entry'.expires = w.expires /\ entry'.written = clock
        /\ w.expires <= clock + TTL /\ w.epoch > 0
        /\ OwnerInEntry' /\ LeaseCurrent'
    BY <1>1, <1>3, <2>1, ApplyFacts
  <2> HIDE DEF w
  <2>3. TypeOK'
    BY <1>1, <2>1, <2>2 DEF IndInv, TypeOK, leaseVars
  <2>4. Phases'
    BY <1>1, <2>1 DEF IndInv, TypeOK, Phases, leaseVars
  <2>5. Bounds'
    BY <1>1, <2>1, <2>2 DEF IndInv, TypeOK, Entries, Bounds, leaseVars
  <2>6. Unwritten'
    <3>1. pc[h] \notin {"idle", "decide"}
      BY <1>1 DEF IndInv, Phases
    <3>2. \A g \in Holders : seen[g].rev \in Nat /\ seen[g].rev # lastRev + 1
      BY <1>1 DEF IndInv, TypeOK, Entries, Bounds
    <3> QED BY <1>1, <2>2, <3>1, <3>2 DEF IndInv, Unwritten
  <2>7. PendingFair'
    <3>1. \A x \in Writes : WriteBounded(x) => (WriteBounded(x) /\ WriteFair(x))'
      BY <1>1, <2>2 DEF WriteBounded, WriteFair, FenceHolds, Writes
    <3>2. orphans \subseteq Writes /\ \A g \in Holders : req[g] \in Writes
      BY DEF IndInv, TypeOK
    <3> QED BY <1>1, <2>1, <3>1, <3>2 DEF IndInv, TypeOK, PendingFair
  <2>8. AckCurrent'
    <3> SUFFICES ASSUME NEW g \in Holders, net'[g] = "ok"
                 PROVE  (/\ got[g] > 0 /\ req[g].epoch > 0
                         /\ \A x \in orphans : x.holder = g => x.rev < got[g]
                         /\ got[g] = entry.rev =>
                              /\ entry.holder = g /\ entry.epoch = req[g].epoch
                              /\ entry.expires = req[g].expires
                         /\ clock < req[g].expires => got[g] = entry.rev)'
      BY DEF AckCurrent
    <3>1. CASE g = h
      <4>1. got'[h] = lastRev + 1
        BY <2>1 DEF IndInv, TypeOK
      <4>2. \A x \in orphans : x.rev < lastRev + 1
        BY <1>1 DEF IndInv, TypeOK, PendingFair, WriteBounded, Writes
      <4> QED BY <1>1, <2>2, <3>1, <4>1, <4>2 DEF w
    <3>2. CASE g # h
      <4>1. /\ net[g] = "ok" /\ got'[g] = got[g] /\ got[g] \in Nat /\ got[g] <= lastRev
            /\ req[g].expires \in Nat
        BY <2>1, <3>2 DEF IndInv, TypeOK, Bounds, Writes
      <4>2. ~(clock < req[g].expires)
        <5> SUFFICES ASSUME clock < req[g].expires PROVE FALSE
          OBVIOUS
        <5>1. /\ got[g] = entry.rev /\ entry.holder = g
              /\ entry.expires = req[g].expires
          BY <4>1 DEF IndInv, AckCurrent
        <5>2. Expired(entry)
          BY <1>1, <1>3, <3>2, <5>1 DEF WriteFair
        <5> QED BY <1>1, <4>1, <5>1, <5>2 DEF Expired
      <4> QED BY <1>1, <2>2, <4>1, <4>2 DEF IndInv, AckCurrent
    <3> QED BY <3>1, <3>2
  <2> QED BY <2>2, <2>3, <2>4, <2>5, <2>6, <2>7, <2>8 DEF IndInv
<1> QED BY <1>2, <1>3

\* The bucket serves a write nobody waits for any more.
LEMMA ServeOrphanKeeps ==
  ASSUME IndInv, NEW w \in orphans, ServeOrphan(w)
  PROVE  IndInv'
<1> USE Numbers
<1>1. /\ w \in Writes /\ w.holder \in Holders /\ WriteBounded(w) /\ WriteFair(w)
      /\ UNCHANGED <<clock, pc, seen, beat, req, net, got, leaseVars, res>>
      /\ orphans' = orphans \ {w}
      /\ clock \in Nat /\ lastRev \in Nat
  BY DEF ServeOrphan, IndInv, TypeOK, PendingFair, Writes
<1>2. CASE ~FenceHolds(w)
  <2>1. UNCHANGED bucketVars
    BY <1>2 DEF ServeOrphan
  <2> USE <1>1, <2>1 DEF IndInv, bucketVars, leaseVars
  <2>2. TypeOK' /\ Phases'
    BY DEF TypeOK, Phases
  <2>3. Bounds' /\ Unwritten' /\ LeaseCurrent'
    BY DEF Bounds, Unwritten, LeaseCurrent
  <2>4. PendingFair'
    BY DEF PendingFair, WriteBounded, WriteFair, FenceHolds, Expired
  <2>5. AckCurrent' /\ OwnerInEntry'
    BY DEF AckCurrent, OwnerInEntry, ProvesOwnership
  <2> QED BY <2>2, <2>3, <2>4, <2>5
<1>3. CASE FenceHolds(w)
  <2>1. Apply(w)
    BY <1>3 DEF ServeOrphan
  <2>2. /\ entry' \in Entries /\ lastRev' \in Nat /\ reaps' \in Nat
        /\ era' \in [Holders -> Nat]
        /\ entry'.rev = lastRev + 1 /\ lastRev' = lastRev + 1
        /\ entry'.holder = w.holder /\ entry'.epoch = w.epoch
        /\ entry'.expires = w.expires /\ entry'.written = clock
        /\ w.expires <= clock + TTL /\ w.epoch > 0
        /\ OwnerInEntry' /\ LeaseCurrent'
    BY <1>1, <1>3, <2>1, ApplyFacts
  <2>3. TypeOK' /\ Phases'
    BY <1>1, <2>2 DEF IndInv, TypeOK, Phases, leaseVars
  <2>4. Bounds'
    BY <1>1, <2>2 DEF IndInv, TypeOK, Entries, Bounds, leaseVars
  <2>5. Unwritten'
    <3>1. pc[w.holder] \notin {"idle", "decide"}
      BY <1>1 DEF IndInv, Unwritten
    <3>2. \A g \in Holders : seen[g].rev \in Nat /\ seen[g].rev # lastRev + 1
      BY <1>1 DEF IndInv, TypeOK, Entries, Bounds
    <3> QED BY <1>1, <2>2, <3>1, <3>2 DEF IndInv, Unwritten
  <2>6. PendingFair'
    <3>1. \A x \in Writes : WriteBounded(x) => (WriteBounded(x) /\ WriteFair(x))'
      BY <1>1, <2>2 DEF WriteBounded, WriteFair, FenceHolds, Writes
    <3>2. orphans \subseteq Writes /\ \A g \in Holders : req[g] \in Writes
      BY DEF IndInv, TypeOK
    <3> QED BY <1>1, <3>1, <3>2 DEF IndInv, PendingFair
  <2>7. AckCurrent'
    <3> SUFFICES ASSUME NEW g \in Holders, net[g] = "ok"
                 PROVE  (/\ got[g] > 0 /\ req[g].epoch > 0
                         /\ \A x \in orphans : x.holder = g => x.rev < got[g]
                         /\ got[g] = entry.rev =>
                              /\ entry.holder = g /\ entry.epoch = req[g].epoch
                              /\ entry.expires = req[g].expires
                         /\ clock < req[g].expires => got[g] = entry.rev)'
      BY <1>1 DEF AckCurrent
    <3>1. got[g] \in Nat /\ got[g] <= lastRev /\ req[g].expires \in Nat
      BY DEF IndInv, TypeOK, Bounds, Writes
    <3>2. ~(clock < req[g].expires)
      <4> SUFFICES ASSUME clock < req[g].expires PROVE FALSE
        OBVIOUS
      <4>1. /\ got[g] = entry.rev /\ entry.holder = g
            /\ entry.expires = req[g].expires
            /\ w.holder = g => w.rev < got[g]
        BY DEF IndInv, AckCurrent
      <4>2. w.holder # g
        BY <1>1, <1>3, <3>1, <4>1 DEF FenceHolds
      <4>3. Expired(entry)
        BY <1>1, <1>3, <4>1, <4>2 DEF WriteFair
      <4> QED BY <1>1, <3>1, <4>1, <4>3 DEF Expired
    <3> QED BY <1>1, <2>2, <3>1, <3>2 DEF IndInv, AckCurrent
  <2> QED BY <2>2, <2>3, <2>4, <2>5, <2>6, <2>7 DEF IndInv
<1> QED BY <1>2, <1>3

\* The backstop is never shorter than the lease window.
LEMMA BackstopLong == BackstopTTL \in Nat /\ BackstopTTL >= TTL
<1>1. TTLMultiple * TTL \in Nat /\ TTLMultiple * TTL >= TTL
  BY ConstantsAssumption, SMT
<1> HIDE DEF BackstopTTL
<1>2. CASE TTLMultiple * TTL > BackstopFloor
  BY <1>1, <1>2 DEF BackstopTTL
<1>3. CASE ~(TTLMultiple * TTL > BackstopFloor)
  BY <1>1, <1>3, ConstantsAssumption DEF BackstopTTL
<1> QED BY <1>2, <1>3

\* So what the bucket reaps has expired.
LEMMA ReapedExpired ==
  ASSUME IndInv, Reap
  PROVE  Expired(entry)
<1>1. /\ clock \in Nat /\ entry.written \in Nat /\ entry.expires \in Nat
      /\ entry.expires <= entry.written + TTL /\ clock >= entry.written + BackstopTTL
  BY DEF Reap, IndInv, TypeOK, Entries, Bounds
<1> QED BY <1>1, BackstopLong, Numbers DEF Expired

\* Reaping.
LEMMA ReapKeeps ==
  ASSUME IndInv, Reap
  PROVE  IndInv'
<1> USE Numbers
<1>1. /\ entry' = Absent /\ reaps' = reaps + 1 /\ Expired(entry)
      /\ UNCHANGED <<clock, lastRev, era, pc, seen, beat, req, net, got, orphans>>
      /\ UNCHANGED <<epoch, rev, validUntil, lost, res>>
  BY ReapedExpired DEF Reap, leaseVars
<1>2. /\ Absent.rev = 0 /\ Absent.epoch = 0 /\ Absent.holder = NoHolder
      /\ Absent.expires = 0 /\ Absent.written = 0 /\ Absent \in Entries
      /\ clock \in Nat /\ lastRev \in Nat /\ entry.expires \in Nat
  BY DEF Absent, Entries, IndInv, TypeOK
<1>3. TypeOK' /\ Phases'
  BY <1>1, <1>2 DEF IndInv, TypeOK, Phases
<1>4. Bounds'
  BY <1>1, <1>2 DEF IndInv, TypeOK, Bounds
<1>5. Unwritten'
  BY <1>1, <1>2, ConstantsAssumption DEF IndInv, Unwritten
<1>6. PendingFair'
  <2>1. \A x \in Writes : WriteBounded(x) => (WriteBounded(x) /\ WriteFair(x))'
    BY <1>1, <1>2, ConstantsAssumption
       DEF WriteBounded, WriteFair, FenceHolds, Expired, Writes
  <2>2. orphans \subseteq Writes /\ \A g \in Holders : req[g] \in Writes
    BY DEF IndInv, TypeOK
  <2> QED BY <1>1, <2>1, <2>2 DEF IndInv, PendingFair
<1>7. LeaseCurrent'
  BY <1>1, <1>2 DEF IndInv, TypeOK, LeaseCurrent
<1>8. AckCurrent'
  <2>1. \A h \in Holders : net[h] = "ok" => ~(clock < req[h].expires)
    BY <1>1, <1>2 DEF IndInv, TypeOK, AckCurrent, Expired, Writes
  <2> QED BY <1>1, <1>2, <2>1 DEF IndInv, TypeOK, AckCurrent
<1>9. OwnerInEntry'
  <2>1. \A h \in Holders : ~ProvesOwnership(h)
    BY <1>1, <1>2 DEF IndInv, TypeOK, OwnerInEntry, ProvesOwnership, Expired
  <2> QED BY <1>1, <2>1 DEF OwnerInEntry, ProvesOwnership
<1> QED BY <1>3, <1>4, <1>5, <1>6, <1>7, <1>8, <1>9 DEF IndInv

\* Time passing.
LEMMA TickKeeps ==
  ASSUME IndInv, Tick
  PROVE  IndInv'
<1> USE Numbers
<1>1. /\ clock' = clock + 1 /\ clock \in Nat /\ entry \in Entries
      /\ UNCHANGED <<entry, lastRev, reaps, era, pc, seen, beat, req, net, got, orphans>>
      /\ UNCHANGED <<epoch, rev, validUntil, lost, res>>
  BY DEF Tick, bucketVars, leaseVars, IndInv, TypeOK
<1>2. TypeOK' /\ Phases'
  BY <1>1 DEF IndInv, TypeOK, Phases
<1>3. Bounds' /\ Unwritten' /\ LeaseCurrent'
  BY <1>1 DEF IndInv, Bounds, Unwritten, LeaseCurrent, Entries
<1>4. PendingFair'
  <2>1. \A x \in Writes : WriteBounded(x) /\ WriteFair(x) => (WriteBounded(x) /\ WriteFair(x))'
    BY <1>1 DEF WriteBounded, WriteFair, FenceHolds, Expired, Writes, Entries
  <2>2. orphans \subseteq Writes /\ \A g \in Holders : req[g] \in Writes
    BY DEF IndInv, TypeOK
  <2> QED BY <1>1, <2>1, <2>2 DEF IndInv, PendingFair
<1>5. AckCurrent'
  BY <1>1 DEF IndInv, TypeOK, AckCurrent, Writes
<1>6. OwnerInEntry'
  BY <1>1 DEF IndInv, TypeOK, OwnerInEntry, ProvesOwnership
<1> QED BY <1>2, <1>3, <1>4, <1>5, <1>6 DEF IndInv

\* Every step keeps the inductive invariant.
LEMMA Step ==
  ASSUME IndInv, [Next]_vars
  PROVE  IndInv'
<1>1. CASE UNCHANGED vars
  <2> USE <1>1 DEF IndInv, vars, bucketVars, leaseVars
  <2>1. TypeOK' /\ Phases'
    BY DEF TypeOK, Phases
  <2>2. Bounds' /\ Unwritten' /\ LeaseCurrent' /\ AckCurrent'
    BY DEF Bounds, Unwritten, LeaseCurrent, AckCurrent
  <2>3. PendingFair'
    BY DEF PendingFair, WriteBounded, WriteFair, FenceHolds, Expired
  <2>4. OwnerInEntry'
    BY DEF OwnerInEntry, ProvesOwnership
  <2> QED BY <2>1, <2>2, <2>3, <2>4
<1>2. ASSUME NEW h \in Holders, Acquiring(h) PROVE IndInv'
  BY <1>2, GetKeeps, DecideKeeps, GrantedKeeps, BeatenKeeps, AcquireFailsKeeps
     DEF Acquiring
<1>3. ASSUME NEW h \in Holders, Heartbeat(h) PROVE IndInv'
  BY <1>3, RenewKeeps, RenewedKeeps, RenewLostKeeps, RenewFailsKeeps,
     HeartbeatStopsKeeps DEF Heartbeat
<1>4. ASSUME NEW h \in Holders, Release(h) \/ Releasing(h) \/ Crash(h) \/ Serve(h)
      PROVE  IndInv'
  BY <1>4, ReleaseKeeps, RelinquishKeeps, ReleasedKeeps, ReleaseFailsKeeps, CrashKeeps,
     ServeKeeps DEF Releasing
<1>5. ASSUME NEW w \in orphans, ServeOrphan(w) PROVE IndInv'
  BY <1>5, ServeOrphanKeeps
<1> QED BY <1>1, <1>2, <1>3, <1>4, <1>5, ReapKeeps, TickKeeps DEF Next

\* It holds initially.
LEMMA Start == Init => IndInv
<1> SUFFICES ASSUME Init PROVE IndInv
  OBVIOUS
<1> USE Numbers, ConstantsAssumption
<1>1. Absent \in Entries
  BY DEF Absent, Entries
<1>2. TypeOK
  BY <1>1, NoWriteTyped DEF Init, TypeOK
<1>3. Phases /\ Bounds /\ Unwritten
  BY DEF Init, Phases, Bounds, Unwritten, NoWrite, Write, Absent
<1>4. PendingFair /\ LeaseCurrent /\ AckCurrent
  BY DEF Init, PendingFair, LeaseCurrent, AckCurrent
<1>5. OwnerInEntry
  BY DEF Init, OwnerInEntry, ProvesOwnership
<1> QED BY <1>2, <1>3, <1>4, <1>5 DEF IndInv

LEMMA Inductive == Spec => []IndInv
<1>1. IndInv /\ [Next]_vars => IndInv'
  BY Step
<1> QED BY <1>1, Start, PTL DEF Spec

\* The entry, the writes in flight and the leases keep their types.
THEOREM Types == Spec => []TypeOK
<1>1. IndInv => TypeOK
  BY DEF IndInv
<1> QED BY <1>1, Inductive, PTL

\* At most one holder can prove that it owns the name, for any number of holders,
\* any lease window, and any pattern of lost, late and duplicated attempts.
THEOREM Exclusive == Spec => []OwnershipExclusive
<1>1. IndInv => OwnershipExclusive
  BY DEF IndInv, OwnerInEntry, OwnershipExclusive
<1> QED BY <1>1, Inductive, PTL

\* The bucket reaps only entries the expiry check calls expired, for any window
\* and any backstop factor and floor.
THEOREM Reaps == Spec => ReapsOnlyExpired
<1>1. IndInv /\ [Next]_vars => [entry.rev # 0 /\ entry'.rev = 0 => Expired(entry)]_vars
  <2> SUFFICES ASSUME IndInv, Next, entry.rev # 0, entry'.rev = 0
               PROVE  Expired(entry)
    OBVIOUS
  <2>1. \A w : Apply(w) => entry'.rev # 0
    BY DEF Apply, IndInv, TypeOK
  <2>2. CASE Reap
    BY <2>2, ReapedExpired
  <2>3. ASSUME NEW h \in Holders, Serve(h) PROVE FALSE
    BY <2>1, <2>3 DEF Serve, bucketVars
  <2>4. ASSUME NEW w \in orphans, ServeOrphan(w) PROVE FALSE
    BY <2>1, <2>4 DEF ServeOrphan, bucketVars
  <2>5. ASSUME Tick \/ \E h \in Holders : \/ Acquiring(h) \/ Heartbeat(h) \/ Release(h)
                                        \/ Releasing(h) \/ Crash(h)
        PROVE  FALSE
    BY <2>5 DEF Tick, Acquiring, Heartbeat, Releasing, Get, Decide, Granted, Beaten,
                AcquireFails, Renew, Renewed, RenewLost, RenewFails, HeartbeatStops,
                Release, Relinquish, Released, ReleaseFails, Crash, bucketVars
  <2> QED BY <2>2, <2>3, <2>4, <2>5 DEF Next
<1> QED BY <1>1, Inductive, PTL DEF Spec, ReapsOnlyExpired

\* A change of holder raises the epoch and no write lowers it, until a reap.
THEOREM Epochs == Spec => EpochMonotonic
<1> DEFINE Mono == entry'.rev # 0 =>
                     /\ entry'.epoch >= entry.epoch
                     /\ entry'.holder # entry.holder => entry'.epoch > entry.epoch
<1>1. IndInv /\ [Next]_vars => [Mono]_vars
  <2> SUFFICES ASSUME IndInv, Next PROVE Mono
    OBVIOUS
  <2>1. entry.epoch \in Nat /\ orphans \subseteq Writes /\ \A h \in Holders : req[h] \in Writes
    BY DEF IndInv, TypeOK, Entries
  <2>2. \A w \in Writes : Apply(w) /\ FenceHolds(w) /\ WriteFair(w) => Mono
    BY <2>1 DEF Apply, WriteFair, Writes
  <2>3. CASE entry' = entry
    BY <2>1, <2>3
  <2>4. CASE Reap
    BY <2>4 DEF Reap, Absent
  <2>5. ASSUME NEW h \in Holders, Serve(h) PROVE Mono
    <3>1. WriteFair(req[h])
      BY <2>5 DEF Serve, IndInv, PendingFair
    <3>2. CASE FenceHolds(req[h])
      BY <2>1, <2>2, <2>5, <3>1, <3>2 DEF Serve
    <3>3. CASE ~FenceHolds(req[h])
      BY <2>3, <2>5, <3>3 DEF Serve, bucketVars
    <3> QED BY <3>2, <3>3
  <2>6. ASSUME NEW w \in orphans, ServeOrphan(w) PROVE Mono
    <3>1. WriteFair(w)
      BY <2>6 DEF IndInv, PendingFair
    <3>2. CASE FenceHolds(w)
      BY <2>1, <2>2, <2>6, <3>1, <3>2 DEF ServeOrphan
    <3>3. CASE ~FenceHolds(w)
      BY <2>3, <2>6, <3>3 DEF ServeOrphan, bucketVars
    <3> QED BY <3>2, <3>3
  <2>7. ASSUME Tick \/ \E h \in Holders : \/ Acquiring(h) \/ Heartbeat(h) \/ Release(h)
                                        \/ Releasing(h) \/ Crash(h)
        PROVE  entry' = entry
    BY <2>7 DEF Tick, Acquiring, Heartbeat, Releasing, Get, Decide, Granted, Beaten,
                AcquireFails, Renew, Renewed, RenewLost, RenewFails, HeartbeatStops,
                Release, Relinquish, Released, ReleaseFails, Crash, bucketVars
  <2> QED BY <2>3, <2>4, <2>5, <2>6, <2>7 DEF Next
<1> QED BY <1>1, Inductive, PTL DEF Spec, EpochMonotonic

-----------------------------------------------------------------------------
(* Releases and fencing epochs *)

\* What a holder does without the bucket keeps what is known of its own writes.
LEMMA HolderOwn ==
  ASSUME IndInv, WritesOwn, NEW h \in Holders,
         Acquiring(h) \/ Heartbeat(h) \/ Release(h) \/ Releasing(h) \/ Crash(h)
  PROVE  WritesOwn'
<1> USE Numbers DEF IndInv, TypeOK, Phases, LeaseCurrent, Unwritten, WritesOwn, OwnWrite, FenceHolds,
                    bucketVars, leaseVars
<1>1. CASE Get(h)
  BY <1>1 DEF Get
<1>2. CASE Decide(h)
  BY <1>2 DEF Decide, Send, Return, Write
<1>3. CASE Granted(h)
  BY <1>3 DEF Granted, Answered, Forget, NoWrite, Write
<1>4. CASE Beaten(h)
  BY <1>4 DEF Beaten, Return, Answered, Forget, NoWrite, Write
<1>5. CASE AcquireFails(h)
  BY <1>5 DEF AcquireFails, Return, GiveUp, Forget, NoWrite, Write
<1>6. CASE Renew(h)
  BY <1>6 DEF Renew, Send, Write
<1>7. CASE Renewed(h)
  BY <1>7 DEF Renewed, Answered, Forget, NoWrite, Write
<1>8. CASE RenewLost(h)
  BY <1>8 DEF RenewLost, Surrender, Answered, Forget, NoWrite, Write
<1>9. CASE RenewFails(h)
  BY <1>9 DEF RenewFails, Surrender, GiveUp, Forget, NoWrite, Write
<1>10. CASE HeartbeatStops(h)
  BY <1>10 DEF HeartbeatStops
<1>11. CASE Release(h)
  BY <1>11 DEF Release
<1>12. CASE Relinquish(h)
  BY <1>12 DEF Relinquish, Send, Relinquished, Write
<1>13. CASE Released(h)
  BY <1>13 DEF Released, Return, Answered, Forget, NoWrite, Write
<1>14. CASE ReleaseFails(h)
  BY <1>14 DEF ReleaseFails, Return, GiveUp, Forget, NoWrite, Write
<1>15. CASE Crash(h)
  BY <1>15 DEF Crash, Return, GiveUp, Forget, NoWrite, Write
<1> QED BY <1>1, <1>2, <1>3, <1>4, <1>5, <1>6, <1>7, <1>8, <1>9, <1>10, <1>11, <1>12, <1>13, <1>14, <1>15
       DEF Acquiring, Heartbeat, Releasing

\* The bucket accepts a write: no fence held so far holds any more.
LEMMA ApplyOwn ==
  ASSUME IndInv, NEW w \in Writes, Apply(w),
         UNCHANGED <<epoch>>, NEW x \in Writes, x.rev <= lastRev
  PROVE  ~FenceHolds(x)' /\ (OwnWrite(x) => OwnWrite(x)')
<1>1. entry'.rev = lastRev + 1 /\ lastRev \in Nat /\ x.rev \in Nat
  BY DEF Apply, IndInv, TypeOK, Writes
<1> QED BY <1>1 DEF OwnWrite, FenceHolds

LEMMA ServeOwn ==
  ASSUME IndInv, WritesOwn, NEW h \in Holders, Serve(h)
  PROVE  WritesOwn'
<1>1. /\ net[h] = "wire" /\ UNCHANGED <<clock, pc, beat, req, orphans, epoch, lost, res>>
      /\ req[h] \in Writes /\ req[h].holder = h /\ req[h].rev <= lastRev
      /\ \A g \in Holders : g # h => net'[g] = net[g]
      /\ net'[h] \in {"ok", "conflict"}
  BY DEF Serve, leaseVars, IndInv, TypeOK, Phases, PendingFair, WriteBounded
<1>2. CASE ~FenceHolds(req[h])
  <2>1. UNCHANGED entry
    BY <1>2 DEF Serve, bucketVars
  <2> QED BY <1>1, <2>1 DEF WritesOwn, OwnWrite, FenceHolds
<1>3. CASE FenceHolds(req[h])
  <2>1. Apply(req[h]) /\ entry'.holder = h /\ net'[h] = "ok"
    BY <1>1, <1>3 DEF Serve, Apply, IndInv, TypeOK
  <2>2. \A w \in orphans : w \in Writes /\ (OwnWrite(w) => OwnWrite(w)')
    BY <1>1, <2>1, ApplyOwn DEF IndInv, TypeOK, PendingFair, WriteBounded
  <2>3. \A g \in Holders : net[g] = "wire" => (OwnWrite(req[g]) => OwnWrite(req[g])')
    <3> SUFFICES ASSUME NEW g \in Holders, net[g] = "wire", OwnWrite(req[g])
                 PROVE  OwnWrite(req[g])'
      OBVIOUS
    <3>1. req[g] \in Writes /\ req[g].rev <= lastRev /\ req[g].rev \in Nat
          /\ lastRev \in Nat /\ entry'.rev = lastRev + 1
      BY <2>1 DEF IndInv, TypeOK, PendingFair, WriteBounded, Writes, Apply
    <3> QED BY <1>1, <3>1 DEF OwnWrite, FenceHolds
  <2> QED BY <1>1, <2>1, <2>2, <2>3 DEF WritesOwn
<1> QED BY <1>2, <1>3

LEMMA ServeOrphanOwn ==
  ASSUME IndInv, WritesOwn, NEW w \in orphans, ServeOrphan(w)
  PROVE  WritesOwn'
<1>1. /\ UNCHANGED <<clock, pc, beat, req, net, epoch, lost, res>>
      /\ orphans' \subseteq orphans
      /\ w \in Writes /\ w.holder \in Holders
  BY DEF ServeOrphan, leaseVars, IndInv, TypeOK, Writes
<1>2. CASE ~FenceHolds(w)
  <2>1. UNCHANGED entry
    BY <1>2 DEF ServeOrphan, bucketVars
  <2> QED BY <1>1, <2>1 DEF WritesOwn, OwnWrite, FenceHolds
<1>3. CASE FenceHolds(w)
  <2>1. Apply(w) /\ entry'.holder = w.holder
    BY <1>1, <1>3 DEF ServeOrphan, Apply
  <2>2. \A x \in orphans : x \in Writes /\ (OwnWrite(x) => OwnWrite(x)')
    BY <1>1, <2>1, ApplyOwn DEF IndInv, TypeOK, PendingFair, WriteBounded
  <2>3. \A g \in Holders : net[g] = "wire" => (OwnWrite(req[g]) => OwnWrite(req[g])')
    <3> SUFFICES ASSUME NEW g \in Holders, net[g] = "wire", OwnWrite(req[g])
                 PROVE  OwnWrite(req[g])'
      OBVIOUS
    <3>1. req[g] \in Writes /\ req[g].rev <= lastRev /\ req[g].rev \in Nat
          /\ lastRev \in Nat /\ entry'.rev = lastRev + 1
      BY <2>1 DEF IndInv, TypeOK, PendingFair, WriteBounded, Writes, Apply
    <3> QED BY <1>1, <3>1 DEF OwnWrite, FenceHolds
  <2> QED BY <1>1, <2>1, <2>2, <2>3 DEF WritesOwn
<1> QED BY <1>2, <1>3

LEMMA TimeOwn ==
  ASSUME IndInv, WritesOwn, Reap \/ Tick \/ UNCHANGED vars
  PROVE  WritesOwn'
<1>1. CASE Reap
  <2>1. entry'.rev = 0 /\ entry'.holder = NoHolder
        /\ UNCHANGED <<clock, pc, req, net, orphans, epoch, res>>
    BY <1>1 DEF Reap, Absent, leaseVars
  <2>2. \A h \in Holders : req[h].rev \in Nat /\ \A x \in orphans : x.rev \in Nat
    BY DEF IndInv, TypeOK, Writes
  <2> QED BY <2>1, <2>2, ConstantsAssumption DEF WritesOwn, OwnWrite, FenceHolds
<1>2. CASE Tick
  <2>1. clock' = clock + 1 /\ UNCHANGED <<entry, pc, req, net, orphans, epoch, res>>
    BY <1>2 DEF Tick, bucketVars, leaseVars
  <2>2. clock \in Nat /\ \A h \in Holders : req[h].expires \in Nat
    BY DEF IndInv, TypeOK, Writes
  <2> QED BY <2>1, <2>2 DEF WritesOwn, OwnWrite, FenceHolds
<1>3. CASE UNCHANGED vars
  BY <1>3 DEF vars, bucketVars, leaseVars, WritesOwn, OwnWrite, FenceHolds
<1> QED BY <1>1, <1>2, <1>3

\* What a holder does without the bucket keeps accepted releases final: what it
\* gives up on is a write of its own, and it has none left once it has released.
LEMMA HolderFinal ==
  ASSUME IndInv, WritesOwn, ReleaseFinal, NEW h \in Holders,
         Acquiring(h) \/ Heartbeat(h) \/ Release(h) \/ Releasing(h) \/ Crash(h)
  PROVE  ReleaseFinal'
<1> USE DEF IndInv, TypeOK, Phases, WritesOwn, ReleaseFinal, Settled, Holds, Expired,
            FenceHolds, bucketVars, leaseVars
<1>1. CASE Get(h)
  BY <1>1 DEF Get
<1>2. CASE Decide(h)
  BY <1>2 DEF Decide, Send, Return
<1>3. CASE Granted(h)
  BY <1>3 DEF Granted, Answered, Forget
<1>4. CASE Beaten(h)
  BY <1>4 DEF Beaten, Return, Answered, Forget
<1>5. CASE AcquireFails(h)
  BY <1>5 DEF AcquireFails, Return, GiveUp, Forget
<1>6. CASE Renew(h)
  BY <1>6 DEF Renew, Send
<1>7. CASE Renewed(h)
  BY <1>7 DEF Renewed, Answered, Forget
<1>8. CASE RenewLost(h)
  BY <1>8 DEF RenewLost, Surrender, Answered, Forget
<1>9. CASE RenewFails(h)
  BY <1>9 DEF RenewFails, Surrender, GiveUp, Forget
<1>10. CASE HeartbeatStops(h)
  BY <1>10 DEF HeartbeatStops
<1>11. CASE Release(h)
  BY <1>11 DEF Release
<1>12. CASE Relinquish(h)
  BY <1>12 DEF Relinquish, Send
<1>13. CASE Released(h)
  BY <1>13 DEF Released, Return, Answered, Forget
<1>14. CASE ReleaseFails(h)
  BY <1>14 DEF ReleaseFails, Return, GiveUp, Forget
<1>15. CASE Crash(h)
  BY <1>15 DEF Crash, Return, GiveUp, Forget
<1> QED BY <1>1, <1>2, <1>3, <1>4, <1>5, <1>6, <1>7, <1>8, <1>9, <1>10, <1>11, <1>12, <1>13, <1>14, <1>15
       DEF Acquiring, Heartbeat, Releasing

\* So does the bucket: it accepts no write of a holder that has released.
LEMMA BucketFinal ==
  ASSUME IndInv, WritesOwn, ReleaseFinal,
         \/ \E h \in Holders : Serve(h)
         \/ \E w \in orphans : ServeOrphan(w)
  PROVE  ReleaseFinal'
<1>1. ASSUME NEW w \in Writes, Apply(w), UNCHANGED <<clock, epoch>>, orphans' \subseteq orphans,
             NEW g \in Holders, epoch[g] > 0, w.holder # g \/ w.expires <= clock
      PROVE  (/\ ~Holds(g) /\ epoch[g] > 0
              /\ \A x \in orphans : x.holder = g => ~FenceHolds(x))'
  <2>1. \A x \in orphans : ~FenceHolds(x)'
    BY <1>1, ApplyOwn DEF IndInv, TypeOK, PendingFair, WriteBounded
  <2> QED BY <1>1, <2>1 DEF Apply, Holds, Expired
<1>2. ASSUME NEW h \in Holders, Serve(h)
      PROVE  ReleaseFinal'
  <2>1. /\ net[h] = "wire" /\ UNCHANGED <<clock, pc, req, orphans, epoch, res>>
        /\ req[h] \in Writes /\ req[h].holder = h
        /\ \A g \in Holders : g # h => net'[g] = net[g]
    BY <1>2 DEF Serve, leaseVars, IndInv, TypeOK, Phases
  <2>2. \A g \in Holders : g # h => (Settled(g)' <=> Settled(g))
    BY <2>1 DEF Settled
  <2>3. res[h] # "released"
    BY <2>1 DEF IndInv, Phases, WritesOwn
  <2>4. CASE ~FenceHolds(req[h])
    <3>1. UNCHANGED entry /\ net'[h] = "conflict"
      BY <1>2, <2>4 DEF Serve, bucketVars, IndInv, TypeOK
    <3>2. ~Settled(h)'
      BY <2>1, <2>3, <3>1 DEF Settled
    <3> QED BY <2>1, <2>2, <3>1, <3>2 DEF ReleaseFinal, Holds, Expired, FenceHolds
  <2>5. CASE FenceHolds(req[h])
    <3>1. Apply(req[h])
      BY <1>2, <2>5 DEF Serve
    <3>2. Settled(h)' => req[h].expires <= clock /\ epoch[h] > 0
      BY <2>1, <2>3 DEF Settled, WritesOwn, IndInv, LeaseCurrent
    <3>3. \A g \in Holders : Settled(g)' =>
            epoch[g] > 0 /\ (req[h].holder # g \/ req[h].expires <= clock)
      BY <2>1, <2>2, <3>2 DEF ReleaseFinal
    <3> QED BY <1>1, <2>1, <3>1, <3>3 DEF ReleaseFinal
  <2> QED BY <2>4, <2>5
<1>3. ASSUME NEW w \in orphans, ServeOrphan(w)
      PROVE  ReleaseFinal'
  <2>1. /\ UNCHANGED <<clock, pc, req, net, epoch, res>> /\ w \in Writes
        /\ orphans' \subseteq orphans
    BY <1>3 DEF ServeOrphan, leaseVars, IndInv, TypeOK
  <2>2. \A g \in Holders : Settled(g)' <=> Settled(g)
    BY <2>1 DEF Settled
  <2>3. CASE ~FenceHolds(w)
    <3>1. UNCHANGED entry
      BY <1>3, <2>3 DEF ServeOrphan, bucketVars
    <3> QED BY <2>1, <2>2, <3>1 DEF ReleaseFinal, Holds, Expired, FenceHolds
  <2>4. CASE FenceHolds(w)
    <3>1. Apply(w)
      BY <1>3, <2>4 DEF ServeOrphan
    <3>2. \A g \in Holders : Settled(g)' => epoch[g] > 0 /\ w.holder # g
      BY <2>2, <2>4 DEF ReleaseFinal
    <3> QED BY <1>1, <2>1, <3>1, <3>2 DEF ReleaseFinal
  <2> QED BY <2>3, <2>4
<1> QED BY <1>2, <1>3

LEMMA TimeFinal ==
  ASSUME IndInv, WritesOwn, ReleaseFinal, Reap \/ Tick \/ UNCHANGED vars
  PROVE  ReleaseFinal'
<1>1. UNCHANGED <<pc, req, net, orphans, epoch, res>>
  BY DEF Reap, Tick, vars, leaseVars
<1>2. \A h \in Holders : Settled(h)' <=> Settled(h)
  BY <1>1 DEF Settled
<1>3. CASE Reap
  <2>1. entry'.rev = 0 /\ entry'.holder = NoHolder
    BY <1>3 DEF Reap, Absent
  <2>2. \A h \in Holders : Settled(h) => \A x \in orphans : x.holder = h => x.rev # 0
    BY DEF ReleaseFinal, WritesOwn, OwnWrite, IndInv, TypeOK, Writes
  <2> QED BY <1>1, <1>2, <2>1, <2>2, ConstantsAssumption
          DEF ReleaseFinal, Holds, FenceHolds
<1>4. CASE Tick
  <2>1. clock' = clock + 1 /\ UNCHANGED entry /\ clock \in Nat /\ entry.expires \in Nat
    BY <1>4 DEF Tick, bucketVars, IndInv, TypeOK, Entries
  <2> QED BY <1>1, <1>2, <2>1 DEF ReleaseFinal, Holds, Expired, FenceHolds
<1>5. CASE UNCHANGED vars
  BY <1>1, <1>2, <1>5 DEF vars, bucketVars, ReleaseFinal, Holds, Expired, FenceHolds
<1> QED BY <1>3, <1>4, <1>5

LEMMA ClaimedTyped ==
  ASSUME TypeOK
  PROVE  \A h \in Holders : Claimed(h) \in Nat
  BY DEF TypeOK, Claimed, Writes

\* A step that leaves the bucket alone, in which claims at most vanish.
LEMMA ClaimsKept ==
  ASSUME IndInv, EpochsOrdered, UNCHANGED bucketVars,
         \A g \in Holders : Claimed(g)' = Claimed(g) \/ Claimed(g)' = 0
  PROVE  EpochsOrdered'
<1>1. \A g \in Holders : Claimed(g) \in Nat
  BY ClaimedTyped DEF IndInv
<1>2. UNCHANGED <<entry, reaps, era>>
  BY DEF bucketVars
<1>3. \A h \in Holders :
        /\ era'[h] <= reaps'
        /\ entry'.holder = h => era'[h] = reaps'
        /\ Claimed(h)' > 0 /\ era'[h] = reaps' =>
             /\ entry'.rev # 0
             /\ IF entry'.holder = h THEN Claimed(h)' = entry'.epoch
                                     ELSE Claimed(h)' < entry'.epoch
  BY <1>1, <1>2 DEF EpochsOrdered
<1>4. \A g, h \in Holders :
        g # h /\ Claimed(g)' > 0 /\ Claimed(h)' > 0 /\ era'[g] = era'[h] =>
          Claimed(g)' # Claimed(h)'
  BY <1>1, <1>2 DEF EpochsOrdered
<1> QED BY <1>3, <1>4 DEF EpochsOrdered

\* What a holder does without the bucket: a claim becomes a lease, or is dropped.
LEMMA HolderEpochs ==
  ASSUME IndInv, WritesOwn, EpochsOrdered, NEW h \in Holders,
         Acquiring(h) \/ Heartbeat(h) \/ Release(h) \/ Releasing(h) \/ Crash(h)
  PROVE  EpochsOrdered'
<1>1. /\ UNCHANGED bucketVars
      /\ \A g \in Holders : Claimed(g)' = Claimed(g) \/ Claimed(g)' = 0
  <2> USE DEF IndInv, TypeOK, Phases, WritesOwn, Claimed, leaseVars
  <2>1. CASE Get(h)
    BY <2>1 DEF Get
  <2>2. CASE Decide(h)
    BY <2>2 DEF Decide, Send, Return
  <2>3. CASE Granted(h)
    BY <2>3 DEF Granted, Answered, Forget
  <2>4. CASE Beaten(h)
    BY <2>4 DEF Beaten, Return, Answered, Forget
  <2>5. CASE AcquireFails(h)
    BY <2>5 DEF AcquireFails, Return, GiveUp, Forget
  <2>6. CASE Renew(h)
    BY <2>6 DEF Renew, Send
  <2>7. CASE Renewed(h)
    BY <2>7 DEF Renewed, Answered, Forget
  <2>8. CASE RenewLost(h)
    BY <2>8 DEF RenewLost, Surrender, Answered, Forget
  <2>9. CASE RenewFails(h)
    BY <2>9 DEF RenewFails, Surrender, GiveUp, Forget
  <2>10. CASE HeartbeatStops(h)
    BY <2>10 DEF HeartbeatStops
  <2>11. CASE Release(h)
    BY <2>11 DEF Release
  <2>12. CASE Relinquish(h)
    BY <2>12 DEF Relinquish, Send
  <2>13. CASE Released(h)
    BY <2>13 DEF Released, Return, Answered, Forget
  <2>14. CASE ReleaseFails(h)
    BY <2>14 DEF ReleaseFails, Return, GiveUp, Forget
  <2>15. CASE Crash(h)
    BY <2>15 DEF Crash, Return, GiveUp, Forget
  <2> QED BY <2>1, <2>2, <2>3, <2>4, <2>5, <2>6, <2>7, <2>8, <2>9, <2>10, <2>11, <2>12, <2>13, <2>14, <2>15
         DEF Acquiring, Heartbeat, Releasing
<1> QED BY <1>1, ClaimsKept

\* The bucket accepts a write: one more of the entry's holder, or a takeover above
\* every epoch claimed since the last reap.
LEMMA ApplyEpochs ==
  ASSUME IndInv, EpochsOrdered, NEW w \in Writes, Apply(w), FenceHolds(w), WriteFair(w),
         \A g \in Holders : g # w.holder => Claimed(g)' = Claimed(g),
         IF entry.holder = w.holder THEN Claimed(w.holder)' = Claimed(w.holder)
                                    ELSE Claimed(w.holder)' \in {0, w.epoch}
  PROVE  EpochsOrdered'
<1> DEFINE k == w.holder
<1>1. /\ k \in Holders /\ w.epoch \in Nat /\ entry.epoch \in Nat /\ lastRev \in Nat
      /\ reaps \in Nat /\ era \in [Holders -> Nat]
  BY DEF IndInv, TypeOK, Writes, Entries
<1>2. /\ entry'.rev = lastRev + 1 /\ entry'.epoch = w.epoch /\ entry'.holder = k
      /\ reaps' = reaps /\ era'[k] = reaps
      /\ \A g \in Holders : g # k => era'[g] = era[g]
  BY <1>1 DEF Apply
<1>3. \A g \in Holders : Claimed(g) \in Nat
  BY ClaimedTyped DEF IndInv
<1>4. IF entry.holder = k THEN w.epoch = entry.epoch ELSE w.epoch > entry.epoch
  BY DEF WriteFair
<1>5. \A g \in Holders : g # k /\ Claimed(g) > 0 /\ era[g] = reaps => Claimed(g) < w.epoch
  BY <1>1, <1>3, <1>4 DEF EpochsOrdered
<1>6. entry.holder = k => era[k] = reaps /\ (Claimed(k) > 0 => Claimed(k) = w.epoch)
  BY <1>1, <1>4 DEF EpochsOrdered
<1>7. Claimed(k)' \in Nat /\ (Claimed(k)' > 0 => Claimed(k)' = w.epoch)
  BY <1>1, <1>3, <1>6
<1> HIDE DEF k
<1>8. \A h \in Holders :
        /\ era'[h] <= reaps'
        /\ entry'.holder = h => era'[h] = reaps'
        /\ Claimed(h)' > 0 /\ era'[h] = reaps' =>
             /\ entry'.rev # 0
             /\ IF entry'.holder = h THEN Claimed(h)' = entry'.epoch
                                     ELSE Claimed(h)' < entry'.epoch
  <2> SUFFICES ASSUME NEW h \in Holders
      PROVE
        /\ era'[h] <= reaps'
        /\ entry'.holder = h => era'[h] = reaps'
        /\ Claimed(h)' > 0 /\ era'[h] = reaps' =>
             /\ entry'.rev # 0
             /\ IF entry'.holder = h THEN Claimed(h)' = entry'.epoch
                                     ELSE Claimed(h)' < entry'.epoch
    OBVIOUS
  <2>1. CASE h = k
    BY <1>1, <1>2, <1>7, <2>1
  <2>2. CASE h # k
    <3>1. Claimed(h)' = Claimed(h)
      BY <2>2 DEF k
    <3> QED BY <1>1, <1>2, <1>5, <2>2, <3>1 DEF EpochsOrdered
  <2> QED BY <2>1, <2>2
<1>9. ASSUME NEW g \in Holders, NEW h \in Holders, g # h, Claimed(g)' > 0, Claimed(h)' > 0,
             era'[g] = era'[h]
      PROVE  Claimed(g)' # Claimed(h)'
  <2>0. \A f \in Holders : f # k => Claimed(f)' = Claimed(f)
    BY DEF k
  <2>1. CASE g # k /\ h # k
    BY <1>2, <1>9, <2>0, <2>1 DEF EpochsOrdered
  <2>2. CASE g = k
    <3>1. Claimed(h) < w.epoch /\ Claimed(h)' = Claimed(h)
      BY <1>2, <1>5, <1>9, <2>0, <2>2
    <3> QED BY <1>1, <1>3, <1>7, <1>9, <2>2, <3>1
  <2>3. CASE h = k
    <3>1. Claimed(g) < w.epoch /\ Claimed(g)' = Claimed(g)
      BY <1>2, <1>5, <1>9, <2>0, <2>3
    <3> QED BY <1>1, <1>3, <1>7, <1>9, <2>3, <3>1
  <2> QED BY <2>1, <2>2, <2>3
<1> QED BY <1>8, <1>9 DEF EpochsOrdered

LEMMA BucketEpochs ==
  ASSUME IndInv, WritesOwn, EpochsOrdered,
         \/ \E h \in Holders : Serve(h)
         \/ \E w \in orphans : ServeOrphan(w)
  PROVE  EpochsOrdered'
<1>1. ASSUME NEW h \in Holders, Serve(h)
      PROVE  EpochsOrdered'
  <2>1. /\ net[h] = "wire" /\ UNCHANGED <<pc, req, epoch>>
        /\ req[h] \in Writes /\ req[h].holder = h /\ WriteFair(req[h])
        /\ \A g \in Holders : g # h => net'[g] = net[g]
    BY <1>1 DEF Serve, leaseVars, IndInv, TypeOK, Phases, PendingFair
  <2>2. \A g \in Holders : g # h => Claimed(g)' = Claimed(g)
    BY <2>1 DEF Claimed
  <2>3. CASE ~FenceHolds(req[h])
    <3>1. UNCHANGED bucketVars /\ net'[h] = "conflict"
      BY <1>1, <2>3 DEF Serve, IndInv, TypeOK
    <3>2. Claimed(h)' = Claimed(h)
      BY <2>1, <3>1 DEF Claimed
    <3> QED BY <2>2, <3>1, <3>2, ClaimsKept
  <2>4. CASE FenceHolds(req[h])
    <3>1. Apply(req[h]) /\ net'[h] = "ok"
      BY <1>1, <2>4 DEF Serve, IndInv, TypeOK
    <3>2. CASE entry.holder = h
      <4>1. pc[h] # "acquire"
        BY <2>1, <3>2 DEF WritesOwn
      <4>2. Claimed(h)' = Claimed(h)
        BY <2>1, <4>1 DEF Claimed
      <4> QED BY <2>1, <2>2, <2>4, <3>1, <3>2, <4>2, ApplyEpochs
    <3>3. CASE entry.holder # h
      <4>1. epoch[h] = 0
        BY <2>1, <2>4, <3>3 DEF WritesOwn, OwnWrite, IndInv, TypeOK
      <4>2. Claimed(h)' \in {0, req[h].epoch}
        BY <2>1, <4>1 DEF Claimed
      <4> QED BY <2>1, <2>2, <2>4, <3>1, <3>3, <4>2, ApplyEpochs
    <3> QED BY <3>2, <3>3
  <2> QED BY <2>3, <2>4
<1>2. ASSUME NEW w \in orphans, ServeOrphan(w)
      PROVE  EpochsOrdered'
  <2>1. /\ UNCHANGED <<pc, req, net, epoch>>
        /\ w \in Writes /\ w.holder \in Holders /\ WriteFair(w)
    BY <1>2 DEF ServeOrphan, leaseVars, IndInv, TypeOK, PendingFair, Writes
  <2>2. \A g \in Holders : Claimed(g)' = Claimed(g)
    BY <2>1 DEF Claimed
  <2>3. CASE ~FenceHolds(w)
    BY <1>2, <2>2, <2>3, ClaimsKept DEF ServeOrphan
  <2>4. CASE FenceHolds(w)
    <3>1. Apply(w)
      BY <1>2, <2>4 DEF ServeOrphan
    <3>2. entry.holder # w.holder => Claimed(w.holder) = 0
      BY <2>1, <2>4 DEF Claimed, WritesOwn, OwnWrite, IndInv, TypeOK
    <3> QED BY <2>1, <2>2, <2>4, <3>1, <3>2, ApplyEpochs
  <2> QED BY <2>3, <2>4
<1> QED BY <1>1, <1>2

LEMMA TimeEpochs ==
  ASSUME IndInv, EpochsOrdered, Reap \/ Tick \/ UNCHANGED vars
  PROVE  EpochsOrdered'
<1>1. \A h \in Holders : Claimed(h)' = Claimed(h)
  BY DEF Reap, Tick, vars, leaseVars, Claimed
<1>2. CASE Tick \/ UNCHANGED vars
  <2>1. UNCHANGED bucketVars
    BY <1>2 DEF Tick, vars
  <2> QED BY <1>1, <2>1, ClaimsKept
<1>3. CASE Reap
  <2>1. /\ entry'.holder = NoHolder /\ reaps' = reaps + 1 /\ era' = era
        /\ reaps \in Nat /\ \A h \in Holders : era[h] \in Nat /\ era[h] <= reaps
    BY <1>3 DEF Reap, Absent, IndInv, TypeOK, EpochsOrdered
  <2>2. \A h \in Holders :
          /\ era'[h] <= reaps' /\ era'[h] # reaps' /\ entry'.holder # h
    BY <2>1, ConstantsAssumption
  <2>3. \A g, h \in Holders :
          g # h /\ Claimed(g)' > 0 /\ Claimed(h)' > 0 /\ era'[g] = era'[h] =>
            Claimed(g)' # Claimed(h)'
    BY <1>1, <2>1 DEF EpochsOrdered
  <2> QED BY <2>2, <2>3 DEF EpochsOrdered
<1> QED BY <1>2, <1>3

LEMMA HistoryInductive == Spec => []HistoryInv
<1>1. Init => HistoryInv
  BY ConstantsAssumption
     DEF Init, HistoryInv, WritesOwn, ReleaseFinal, Settled, EpochsOrdered, Claimed, Absent
<1>2. IndInv /\ HistoryInv /\ [Next]_vars => HistoryInv'
  <2> SUFFICES ASSUME IndInv, HistoryInv, [Next]_vars PROVE HistoryInv'
    OBVIOUS
  <2> USE DEF HistoryInv
  <2>1. ASSUME NEW h \in Holders,
               Acquiring(h) \/ Heartbeat(h) \/ Release(h) \/ Releasing(h) \/ Crash(h)
        PROVE  HistoryInv'
    BY <2>1, HolderOwn, HolderFinal, HolderEpochs
  <2>2. ASSUME NEW h \in Holders, Serve(h)
        PROVE  HistoryInv'
    BY <2>2, ServeOwn, BucketFinal, BucketEpochs
  <2>3. ASSUME NEW w \in orphans, ServeOrphan(w)
        PROVE  HistoryInv'
    BY <2>3, ServeOrphanOwn, BucketFinal, BucketEpochs
  <2>4. CASE Reap \/ Tick \/ UNCHANGED vars
    BY <2>4, TimeOwn, TimeFinal, TimeEpochs
  <2> QED BY <2>1, <2>2, <2>3, <2>4 DEF Next
<1> QED BY <1>1, <1>2, Inductive, PTL DEF Spec

\* After an acknowledged release no write of that holder, however late it is served,
\* makes it the live holder again, for any number of holders and writes in flight.
THEOREM ReleasesStick == Spec => []ReleaseSticks
<1>1. HistoryInv => ReleaseSticks
  BY DEF HistoryInv, ReleaseFinal, Settled, ReleaseSticks
<1> QED BY <1>1, HistoryInductive, PTL

\* No two leases granted between two reaps share a fencing epoch.
THEOREM DistinctEpochs == Spec => []EpochsDistinct
<1>1. IndInv /\ HistoryInv => EpochsDistinct
  <2> SUFFICES ASSUME IndInv, HistoryInv PROVE EpochsDistinct
    OBVIOUS
  <2>1. \A h \in Holders : WasGranted(h) => Claimed(h) = epoch[h]
    BY DEF HistoryInv, WritesOwn, WasGranted, Claimed, IndInv, TypeOK
  <2> QED BY <2>1 DEF HistoryInv, EpochsOrdered, EpochsDistinct, WasGranted
<1> QED BY <1>1, Inductive, HistoryInductive, PTL
=============================================================================
