------------------------------- MODULE Lease -------------------------------
(***************************************************************************)
(* The leaser (lease.go) of one name: acquisitions that race for the KV    *)
(* entry by compare-and-swap, the heartbeat goroutine of each granted      *)
(* lease, its release, and the bucket's server-side reaping.               *)
(*                                                                         *)
(* A holder is one Acquire call and the lease it may yield; holder ids are *)
(* drawn at random, so no two acquisitions share one.  A write is sent,    *)
(* served by the bucket later or never, and its answer may be lost; a      *)
(* write given up on may still be served.  All holders and the server read *)
(* the same clock.                                                         *)
(***************************************************************************)
EXTENDS Integers, FiniteSets

CONSTANTS Holders,
          NoHolder,
          TTL,             \* the application-level lease window
          TTLMultiple,     \* the factor 100 of backstopBucketTTL
          BackstopFloor,   \* its floor of one hour
          MaxClock,        \* bound: the clock stops here
          MaxRevision,     \* bound: writes the bucket accepts
          MaxOrphans       \* bound: writes given up on that may still be served

ASSUME ConstantsAssumption ==
  /\ NoHolder \notin Holders
  /\ TTL \in Nat \ {0} /\ TTLMultiple \in Nat \ {0} /\ BackstopFloor \in Nat
  /\ MaxClock \in Nat /\ MaxRevision \in Nat /\ MaxOrphans \in Nat

VARIABLES
  clock,
  entry,       \* the name's KV entry; revision 0 when there is none
  lastRev,     \* last revision the bucket assigned
  pc,          \* where the holder's Acquire or Release is
  seen,        \* the entry an Acquire read
  beat,        \* the heartbeat goroutine: "off", "waiting" or "renewing"
  req,         \* the write the holder is waiting on
  net,         \* what became of it: "none", "wire", "ok" or "conflict"
  got,         \* the revision its answer carries
  orphans,     \* writes given up on that may still be served
  epoch,       \* of the lease: its fencing epoch,
  rev,         \*   its own revision,
  validUntil,  \*   the expiry of its last acknowledged write,
  lost,        \*   and whether Lost is closed
  res,         \* what Acquire or Release returned
  reaps,       \* history: how often the bucket reaped the entry
  era          \* history: the reaps before the lease was written

leaseVars == <<epoch, rev, validUntil, lost>>
bucketVars == <<entry, lastRev, reaps, era>>
vars == <<clock, bucketVars, pc, seen, beat, req, net, got, orphans, leaseVars, res>>

\* An absent entry reads as one at epoch 0 that expired long ago: createLease
\* writes epoch 1 under "must not exist", updateLease prev+1 under the revision.
Absent == [rev |-> 0, epoch |-> 0, holder |-> NoHolder, expires |-> 0, written |-> 0]

Entries == [rev : Nat, epoch : Nat, holder : Holders \cup {NoHolder},
            expires : Nat, written : Nat]
Writes == [holder : Holders, rev : Nat, epoch : Nat, expires : Nat]

Write(h, r, e, x) == [holder |-> h, rev |-> r, epoch |-> e, expires |-> x]

NoWrite(h) == Write(h, 0, 0, 0)

Init ==
  /\ clock = 0 /\ entry = Absent /\ lastRev = 0
  /\ pc = [h \in Holders |-> "idle"] /\ seen = [h \in Holders |-> Absent]
  /\ beat = [h \in Holders |-> "off"]
  /\ req = [h \in Holders |-> NoWrite(h)] /\ net = [h \in Holders |-> "none"]
  /\ got = [h \in Holders |-> 0]
  /\ orphans = {}
  /\ epoch = [h \in Holders |-> 0] /\ rev = [h \in Holders |-> 0]
  /\ validUntil = [h \in Holders |-> 0] /\ lost = [h \in Holders |-> FALSE]
  /\ res = [h \in Holders |-> "none"]
  /\ reaps = 0 /\ era = [h \in Holders |-> 0]

Send(h, w) ==
  /\ req' = [req EXCEPT ![h] = w]
  /\ net' = [net EXCEPT ![h] = "wire"]

Forget(h) ==
  /\ req' = [req EXCEPT ![h] = NoWrite(h)]
  /\ net' = [net EXCEPT ![h] = "none"]
  /\ got' = [got EXCEPT ![h] = 0]

Answered(h) == Forget(h) /\ UNCHANGED orphans

\* Stop waiting for the answer; an unserved write stays in flight, or is lost.
GiveUp(h) ==
  /\ Forget(h)
  /\ orphans' = IF net[h] = "wire" /\ Cardinality(orphans) < MaxOrphans
                THEN orphans \cup {req[h]} ELSE orphans

Return(h, what) ==
  /\ pc' = [pc EXCEPT ![h] = "done"]
  /\ res' = [res EXCEPT ![h] = what]

-----------------------------------------------------------------------------
(* Acquire *)

ExpiredEarly(e) == e.expires <= clock + 1
Expired(e) == e.expires <= clock

Get(h) ==
  /\ pc[h] = "idle"
  /\ pc' = [pc EXCEPT ![h] = "decide"]
  /\ seen' = [seen EXCEPT ![h] = entry]
  /\ UNCHANGED <<clock, bucketVars, beat, req, net, got, orphans, leaseVars, res>>

NextEpochReused(e) == IF e.rev = 0 THEN 1 ELSE e.epoch
NextEpoch(e) == e.epoch + 1

\* A live entry is held by another; an absent or expired one is fought for.
Decide(h) ==
  /\ pc[h] = "decide"
  /\ IF Expired(seen[h])
     THEN /\ Send(h, Write(h, seen[h].rev, NextEpoch(seen[h]), clock + TTL))
          /\ pc' = [pc EXCEPT ![h] = "acquire"] /\ UNCHANGED res
     ELSE Return(h, "held") /\ UNCHANGED <<req, net>>
  /\ seen' = [seen EXCEPT ![h] = Absent]
  /\ UNCHANGED <<clock, bucketVars, beat, got, orphans, leaseVars>>

Granted(h) ==
  /\ pc[h] = "acquire" /\ net[h] = "ok"
  /\ pc' = [pc EXCEPT ![h] = "holding"]
  /\ beat' = [beat EXCEPT ![h] = "waiting"]
  /\ epoch' = [epoch EXCEPT ![h] = req[h].epoch]
  /\ rev' = [rev EXCEPT ![h] = got[h]]
  /\ validUntil' = [validUntil EXCEPT ![h] = req[h].expires]
  /\ Answered(h)
  /\ UNCHANGED <<clock, bucketVars, seen, lost, res>>

Beaten(h) ==
  /\ pc[h] = "acquire" /\ net[h] = "conflict"
  /\ Return(h, "held")
  /\ Answered(h)
  /\ UNCHANGED <<clock, bucketVars, seen, beat, leaseVars>>

AcquireFails(h) ==
  /\ pc[h] \in {"decide", "acquire"}
  /\ Return(h, "error")
  /\ GiveUp(h)
  /\ UNCHANGED <<clock, bucketVars, seen, beat, leaseVars>>

-----------------------------------------------------------------------------
(* The heartbeat *)

Renew(h) ==
  /\ beat[h] = "waiting"
  /\ beat' = [beat EXCEPT ![h] = "renewing"]
  /\ Send(h, Write(h, rev[h], epoch[h], clock + TTL))
  /\ UNCHANGED <<clock, bucketVars, pc, seen, got, orphans, leaseVars, res>>

Renewed(h) ==
  /\ beat[h] = "renewing" /\ net[h] = "ok"
  /\ beat' = [beat EXCEPT ![h] = "waiting"]
  /\ rev' = [rev EXCEPT ![h] = got[h]]
  /\ validUntil' = [validUntil EXCEPT ![h] = req[h].expires]
  /\ Answered(h)
  /\ UNCHANGED <<clock, bucketVars, pc, seen, epoch, lost, res>>

\* markLost, and the goroutine returns.
Surrender(h) ==
  /\ lost' = [lost EXCEPT ![h] = TRUE]
  /\ beat' = [beat EXCEPT ![h] = "off"]
  /\ UNCHANGED <<epoch, rev, validUntil>>

RenewLost(h) ==
  /\ beat[h] = "renewing" /\ net[h] = "conflict"
  /\ Surrender(h)
  /\ Answered(h)
  /\ UNCHANGED <<clock, bucketVars, pc, seen, res>>

ProvablyExpiredNever(h) == FALSE
ProvablyExpired(h) == clock >= validUntil[h]

\* A transient error keeps the lease only while ownership can be proved.
RenewFails(h) ==
  /\ beat[h] = "renewing"
  /\ IF ProvablyExpired(h)
     THEN Surrender(h)
     ELSE beat' = [beat EXCEPT ![h] = "waiting"] /\ UNCHANGED leaseVars
  /\ GiveUp(h)
  /\ UNCHANGED <<clock, bucketVars, pc, seen, res>>

HeartbeatIgnoresStop(h) == FALSE
HeartbeatStops(h) ==
  /\ beat[h] = "waiting" /\ pc[h] = "stopping"
  /\ beat' = [beat EXCEPT ![h] = "off"]
  /\ UNCHANGED <<clock, bucketVars, pc, seen, req, net, got, orphans, leaseVars, res>>

-----------------------------------------------------------------------------
(* Release *)

Release(h) ==
  /\ pc[h] = "holding"
  /\ pc' = [pc EXCEPT ![h] = "stopping"]
  /\ UNCHANGED <<clock, bucketVars, seen, beat, req, net, got, orphans, leaseVars, res>>

RelinquishedFullTerm(h) == Write(h, rev[h], epoch[h], clock + TTL)
Relinquished(h) == Write(h, rev[h], epoch[h], clock)

\* Once the heartbeat has exited: close Lost, and write an entry that has already
\* expired and keeps the epoch.
Relinquish(h) ==
  /\ pc[h] = "stopping" /\ beat[h] = "off"
  /\ lost' = [lost EXCEPT ![h] = TRUE]
  /\ Send(h, Relinquished(h))
  /\ pc' = [pc EXCEPT ![h] = "releasing"]
  /\ UNCHANGED <<clock, bucketVars, seen, beat, got, orphans, epoch, rev, validUntil, res>>

\* Both answers make Release return nil; the result keeps them apart.
Released(h) ==
  /\ pc[h] = "releasing" /\ net[h] \in {"ok", "conflict"}
  /\ Return(h, IF net[h] = "ok" THEN "released" ELSE "superseded")
  /\ Answered(h)
  /\ UNCHANGED <<clock, bucketVars, seen, beat, leaseVars>>

ReleaseFails(h) ==
  /\ pc[h] = "releasing"
  /\ Return(h, "error")
  /\ GiveUp(h)
  /\ UNCHANGED <<clock, bucketVars, seen, beat, leaseVars>>

\* The process dies, and with it the heartbeat.
Crash(h) ==
  /\ pc[h] \in {"acquire", "holding", "stopping", "releasing"}
  /\ Return(h, "crashed")
  /\ beat' = [beat EXCEPT ![h] = "off"]
  /\ GiveUp(h)
  /\ UNCHANGED <<clock, bucketVars, seen, leaseVars>>

-----------------------------------------------------------------------------
(* The bucket *)

FenceHolds(w) == w.rev = entry.rev

Apply(w) ==
  /\ entry' = [rev |-> lastRev + 1, epoch |-> w.epoch, holder |-> w.holder,
               expires |-> w.expires, written |-> clock]
  /\ lastRev' = lastRev + 1
  /\ era' = [era EXCEPT ![w.holder] = reaps]
  /\ UNCHANGED reaps

Serve(h) ==
  /\ net[h] = "wire" /\ lastRev < MaxRevision
  /\ IF FenceHolds(req[h])
     THEN /\ Apply(req[h])
          /\ net' = [net EXCEPT ![h] = "ok"]
          /\ got' = [got EXCEPT ![h] = lastRev + 1]
     ELSE /\ net' = [net EXCEPT ![h] = "conflict"]
          /\ UNCHANGED <<bucketVars, got>>
  /\ UNCHANGED <<clock, pc, seen, beat, req, orphans, leaseVars, res>>

ServeOrphan(w) ==
  /\ lastRev < MaxRevision
  /\ orphans' = orphans \ {w}
  /\ IF FenceHolds(w) THEN Apply(w) ELSE UNCHANGED bucketVars
  /\ UNCHANGED <<clock, pc, seen, beat, req, net, got, leaseVars, res>>

BackstopTTL ==
  IF TTLMultiple * TTL > BackstopFloor THEN TTLMultiple * TTL ELSE BackstopFloor

Reap ==
  /\ entry.rev # 0 /\ clock >= entry.written + BackstopTTL
  /\ entry' = Absent
  /\ reaps' = reaps + 1
  /\ UNCHANGED <<clock, lastRev, era, pc, seen, beat, req, net, got, orphans,
                 leaseVars, res>>

Tick ==
  /\ clock < MaxClock
  /\ clock' = clock + 1
  /\ UNCHANGED <<bucketVars, pc, seen, beat, req, net, got, orphans, leaseVars, res>>

-----------------------------------------------------------------------------
Acquiring(h) == Get(h) \/ Decide(h) \/ Granted(h) \/ Beaten(h) \/ AcquireFails(h)
Heartbeat(h) ==
  Renew(h) \/ Renewed(h) \/ RenewLost(h) \/ RenewFails(h) \/ HeartbeatStops(h)
Releasing(h) == Relinquish(h) \/ Released(h) \/ ReleaseFails(h)

Next ==
  \/ \E h \in Holders :
       Acquiring(h) \/ Heartbeat(h) \/ Release(h) \/ Releasing(h) \/ Crash(h) \/ Serve(h)
  \/ \E w \in orphans : ServeOrphan(w)
  \/ Reap \/ Tick

\* The ticker keeps firing and every request of the client times out, so the
\* heartbeat and a begun Release keep moving; once stop is closed the heartbeat's
\* select takes it sooner or later.
Fairness ==
  \A h \in Holders :
    WF_vars(Heartbeat(h)) /\ SF_vars(HeartbeatStops(h)) /\ WF_vars(Releasing(h))

Spec == Init /\ [][Next]_vars
FairSpec == Spec /\ Fairness

-----------------------------------------------------------------------------
(* Properties *)

\* Type invariant of the entry, the writes in flight and the leases.
TypeOK ==
  /\ clock \in Nat /\ entry \in Entries /\ lastRev \in Nat
  /\ pc \in [Holders -> {"idle", "decide", "acquire", "holding", "stopping",
                         "releasing", "done"}]
  /\ seen \in [Holders -> Entries]
  /\ beat \in [Holders -> {"off", "waiting", "renewing"}]
  /\ req \in [Holders -> Writes]
  /\ net \in [Holders -> {"none", "wire", "ok", "conflict"}]
  /\ got \in [Holders -> Nat] /\ orphans \subseteq Writes
  /\ epoch \in [Holders -> Nat] /\ rev \in [Holders -> Nat]
  /\ validUntil \in [Holders -> Nat] /\ lost \in [Holders -> BOOLEAN]
  /\ res \in [Holders -> {"none", "held", "error", "released", "superseded", "crashed"}]
  /\ reaps \in Nat /\ era \in [Holders -> Nat]

\* A holder whose Lost is open and that is within the expiry of its last
\* acknowledged write.
ProvesOwnership(h) ==
  pc[h] \in {"holding", "stopping"} /\ ~lost[h] /\ clock < validUntil[h]

\* At most one holder can prove that it owns the name, whatever writes were lost,
\* delayed, served after they were given up on, or reaped (Acquire's compare-and-swap
\* on an expired entry, and the expiry that each acknowledged write carries).
OwnershipExclusive ==
  \A g, h \in Holders : ProvesOwnership(g) /\ ProvesOwnership(h) => g = h

\* A change of holder raises the epoch and no other write lowers it, until the
\* bucket reaps the entry.
EpochMonotonic ==
  [][entry'.rev # 0 =>
       /\ entry'.epoch >= entry.epoch
       /\ entry'.holder # entry.holder => entry'.epoch > entry.epoch]_vars

\* The backstop never removes an entry that the expiry check still calls live.
ReapsOnlyExpired ==
  [][entry.rev # 0 /\ entry'.rev = 0 => Expired(entry)]_vars

\* After an acknowledged release the entry never again shows the releaser as a
\* live holder: no renewal sent earlier is served after it.
Holds(h) == entry.holder = h /\ ~Expired(entry)
ReleaseSticks == \A h \in Holders : res[h] = "released" => ~Holds(h)

\* No two leases between two reaps carry the same fencing epoch.
WasGranted(h) == epoch[h] > 0
EpochsDistinct ==
  \A g, h \in Holders :
    g # h /\ WasGranted(g) /\ WasGranted(h) /\ era[g] = era[h] => epoch[g] # epoch[h]

\* A holder that lost the entry to another learns of it, also when every one of
\* its requests times out (renew's self-fence).
TakeoverNoticed ==
  \A h \in Holders :
    (pc[h] = "holding" /\ entry.holder # h) ~> (lost[h] \/ pc[h] = "done")

\* Release returns: the heartbeat it waits for exits.
ReleaseReturns == \A h \in Holders : (pc[h] = "stopping") ~> (pc[h] = "done")

-----------------------------------------------------------------------------
(* The inductive invariant behind OwnershipExclusive and EpochMonotonic *)

\* Which combinations of the call, the heartbeat and the network occur.
Phases ==
  \A h \in Holders :
    /\ req[h].holder = h
    /\ beat[h] # "off" => pc[h] \in {"holding", "stopping"}
    /\ net[h] # "none" => pc[h] \in {"acquire", "releasing"} \/ beat[h] = "renewing"
    /\ pc[h] = "releasing" => lost[h]
    /\ beat[h] = "renewing" /\ net[h] # "none" => req[h].epoch = epoch[h]

\* Revisions come from the bucket, times from the clock.
Bounds ==
  /\ entry.rev <= lastRev
  /\ entry.written <= clock /\ entry.expires <= entry.written + TTL
  /\ entry.rev = 0 => entry = Absent
  /\ \A h \in Holders : seen[h].rev <= lastRev /\ rev[h] <= lastRev /\ got[h] <= lastRev

WriteBounded(w) == w.rev <= lastRev /\ w.expires <= clock + TTL /\ w.epoch > 0

\* An Acquire that has not written yet: its snapshot is the entry or is stale.
Unwritten ==
  \A h \in Holders : pc[h] \in {"idle", "decide"} =>
    /\ entry.holder # h /\ seen[h].holder # h
    /\ \A w \in orphans : w.holder # h
    /\ seen[h].rev = 0 => seen[h] = Absent
    /\ seen[h].rev = entry.rev /\ pc[h] = "decide" => seen[h] = entry

\* A write whose fence would hold either extends the entry of its own holder or
\* takes over an expired one at a higher epoch.
WriteFair(w) ==
  FenceHolds(w) =>
    IF w.holder = entry.holder
    THEN w.epoch = entry.epoch /\ (w.expires >= entry.expires \/ lost[w.holder])
    ELSE Expired(entry) /\ w.epoch > entry.epoch

\* So does every write in flight, of a call under way or given up on.
PendingFair ==
  /\ \A w \in orphans : WriteBounded(w) /\ WriteFair(w)
  /\ \A h \in Holders : net[h] = "wire" => WriteBounded(req[h]) /\ WriteFair(req[h])

\* A lease whose own revision is the entry's owns the entry.
LeaseCurrent ==
  \A h \in Holders : pc[h] \in {"holding", "stopping", "releasing"} =>
    /\ epoch[h] > 0 /\ rev[h] > 0
    /\ rev[h] = entry.rev => entry.holder = h /\ entry.epoch = epoch[h]

\* A served write whose answer is on its way is the entry until it expires.
AckCurrent ==
  \A h \in Holders : net[h] = "ok" =>
    /\ got[h] > 0 /\ req[h].epoch > 0
    /\ \A w \in orphans : w.holder = h => w.rev < got[h]
    /\ got[h] = entry.rev =>
         entry.holder = h /\ entry.epoch = req[h].epoch /\ entry.expires = req[h].expires
    /\ clock < req[h].expires => got[h] = entry.rev

\* A holder that can prove ownership is the one in the entry.
OwnerInEntry ==
  \A h \in Holders : ProvesOwnership(h) =>
    entry.holder = h /\ entry.expires >= validUntil[h]

IndInv == TypeOK /\ Phases /\ Bounds /\ Unwritten /\ PendingFair /\ LeaseCurrent
          /\ AckCurrent /\ OwnerInEntry

-----------------------------------------------------------------------------
(* The inductive invariants behind ReleaseSticks and EpochsDistinct *)

\* A write of a granted lease: it carries the lease's epoch, and its fence holds
\* only on an entry of the same holder.
OwnWrite(w) ==
  w.rev > 0 /\ w.epoch = epoch[w.holder] /\ (FenceHolds(w) => entry.holder = w.holder)

WritesOwn ==
  \A h \in Holders :
    /\ pc[h] # "done" => res[h] = "none"
    /\ pc[h] \in {"idle", "decide", "acquire"} =>
         epoch[h] = 0 /\ \A w \in orphans : w.holder # h
    /\ pc[h] = "acquire" /\ net[h] # "ok" => entry.holder # h
    /\ epoch[h] > 0 => \A w \in orphans : w.holder = h => OwnWrite(w)
    /\ epoch[h] > 0 /\ net[h] = "wire" => OwnWrite(req[h])
    /\ pc[h] = "releasing" /\ net[h] # "none" => req[h].expires <= clock

\* The bucket has accepted the release of h: the entry does not show it as live, and
\* no write left of it can ever be accepted.
Settled(h) == res[h] = "released" \/ (pc[h] = "releasing" /\ net[h] = "ok")

ReleaseFinal ==
  \A h \in Holders : Settled(h) =>
    /\ ~Holds(h) /\ epoch[h] > 0
    /\ \A w \in orphans : w.holder = h => ~FenceHolds(w)

\* The epoch the bucket accepted for h, from the takeover on, the answer received
\* or not.
Claimed(h) == IF pc[h] = "acquire" /\ net[h] = "ok" THEN req[h].epoch ELSE epoch[h]

\* Since the last reap the claimed epochs are below that of the entry, but for the
\* one of its holder; and those of any one era differ.
EpochsOrdered ==
  /\ \A h \in Holders :
       /\ era[h] <= reaps
       /\ entry.holder = h => era[h] = reaps
       /\ Claimed(h) > 0 /\ era[h] = reaps =>
            /\ entry.rev # 0
            /\ IF entry.holder = h THEN Claimed(h) = entry.epoch
                                   ELSE Claimed(h) < entry.epoch
  /\ \A g, h \in Holders :
       g # h /\ Claimed(g) > 0 /\ Claimed(h) > 0 /\ era[g] = era[h] => Claimed(g) # Claimed(h)

HistoryInv == WritesOwn /\ ReleaseFinal /\ EpochsOrdered
=============================================================================
