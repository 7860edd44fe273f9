------------------------------- MODULE Ledger -------------------------------
(***************************************************************************)
(* The ledger (ledger.go) of one name: appends fenced on the tip of its    *)
(* stream, bounded cursors that fetch one record at a time, and Delete,    *)
(* which drops the stream under all of them.                               *)
(*                                                                         *)
(* An append provisions the stream and then publishes.  The publish is     *)
(* served later or never and its answer may be lost, so a record may land  *)
(* after its append has returned.  A record is named by the append that    *)
(* wrote it.                                                               *)
(***************************************************************************)
EXTENDS Integers, Sequences

CONSTANTS Appends, Readers,
          MaxFrom,     \* bound: expected tips and start positions callers pass
          MaxDeletes   \* bound: times the ledger is deleted

ASSUME ConstantsAssumption == MaxFrom \in Nat /\ MaxDeletes \in Nat

VARIABLES
  stream,   \* "absent" or "present"
  log,      \* its messages; the tip is its length
  deletes,  \* how often it was deleted
  pc,       \* where each Append is
  expected, \* the tip it is fenced on
  net,      \* its publish: "none", "wire", "ok", "rejected" or "absent"
  res,      \* what it returned
  place,    \* history: the position and the deletes before it of its record
  cur,      \* each cursor: "idle", "open", "eof" or "failed"
  from,     \* the position it starts at
  next,     \* the next sequence it fetches
  tip,      \* the bound captured at Read
  got,      \* the records it has yielded
  snap,     \* history: the ledger at Read
  epoch     \* history: the deletes before Read

streamVars == <<stream, log, deletes>>
appendVars == <<pc, expected, net, res, place>>
cursorVars == <<cur, from, next, tip, got, snap, epoch>>
vars == <<streamVars, appendVars, cursorVars>>

Nowhere == [pos |-> 0, deletes |-> 0]

Init ==
  /\ stream = "absent" /\ log = <<>> /\ deletes = 0
  /\ pc = [a \in Appends |-> "idle"] /\ expected = [a \in Appends |-> 0]
  /\ net = [a \in Appends |-> "none"] /\ res = [a \in Appends |-> "none"]
  /\ place = [a \in Appends |-> Nowhere]
  /\ cur = [r \in Readers |-> "idle"] /\ from = [r \in Readers |-> 1]
  /\ next = [r \in Readers |-> 1] /\ tip = [r \in Readers |-> 0]
  /\ got = [r \in Readers |-> <<>>] /\ snap = [r \in Readers |-> <<>>]
  /\ epoch = [r \in Readers |-> 0]

-----------------------------------------------------------------------------
(* Append *)

Return(a, what) ==
  /\ pc' = [pc EXCEPT ![a] = "done"]
  /\ res' = [res EXCEPT ![a] = what]

\* ensureStream: create the stream, or find it there.
BeginAppend(a, e) ==
  /\ pc[a] = "idle"
  /\ stream' = "present"
  /\ expected' = [expected EXCEPT ![a] = e]
  /\ pc' = [pc EXCEPT ![a] = "publish"]
  /\ UNCHANGED <<log, deletes, net, res, place, cursorVars>>

Publish(a) ==
  /\ pc[a] = "publish"
  /\ net' = [net EXCEPT ![a] = "wire"]
  /\ pc' = [pc EXCEPT ![a] = "await"]
  /\ UNCHANGED <<streamVars, expected, res, place, cursorVars>>

TipMatchesAtLeast(a) == Len(log) >= expected[a]

\* The expected-last-sequence fence.
TipMatches(a) == Len(log) = expected[a]

Serve(a) ==
  /\ net[a] = "wire"
  /\ IF stream = "present" /\ TipMatches(a)
     THEN /\ log' = Append(log, a)
          /\ place' = [place EXCEPT ![a] = [pos |-> Len(log) + 1, deletes |-> deletes]]
          /\ net' = [net EXCEPT ![a] = "ok"]
     ELSE /\ net' = [net EXCEPT ![a] = IF stream = "present" THEN "rejected" ELSE "absent"]
          /\ UNCHANGED <<log, place>>
  /\ UNCHANGED <<stream, deletes, pc, expected, res, cursorVars>>

Acknowledged(a) ==
  /\ pc[a] = "await" /\ net[a] = "ok"
  /\ Return(a, "ok")
  /\ UNCHANGED <<streamVars, expected, net, place, cursorVars>>

\* isWrongLastSequence
Conflict(a) ==
  /\ pc[a] = "await" /\ net[a] = "rejected"
  /\ Return(a, "conflict")
  /\ UNCHANGED <<streamVars, expected, net, place, cursorVars>>

AckLostIsConflict(a) ==
  /\ pc[a] = "await"
  /\ Return(a, "conflict")
  /\ UNCHANGED <<streamVars, expected, net, place, cursorVars>>

\* isAmbiguous: a timeout, a deadline, or no stream to answer.
AckLost(a) ==
  /\ pc[a] = "await"
  /\ Return(a, "ambiguous")
  /\ UNCHANGED <<streamVars, expected, net, place, cursorVars>>

\* Any other error, a cancelled caller's included: returned raw, though the
\* record may have landed or may still land.
AppendFails(a) ==
  /\ pc[a] \in {"publish", "await"}
  /\ Return(a, "error")
  /\ UNCHANGED <<streamVars, expected, net, place, cursorVars>>

-----------------------------------------------------------------------------
(* Read, the cursor's Next, and Delete *)

Read(r, f) ==
  /\ cur[r] = "idle"
  /\ cur' = [cur EXCEPT ![r] = "open"]
  /\ from' = [from EXCEPT ![r] = IF f < 1 THEN 1 ELSE f]
  /\ next' = [next EXCEPT ![r] = IF f < 1 THEN 1 ELSE f]
  /\ tip' = [tip EXCEPT ![r] = Len(log)]
  /\ snap' = [snap EXCEPT ![r] = log]
  /\ epoch' = [epoch EXCEPT ![r] = deletes]
  /\ UNCHANGED <<streamVars, appendVars, got>>

PastTipLive(r) == next[r] > Len(log)

\* The cursor's bound is the tip at Read, not the tip now.
PastTip(r) == next[r] > tip[r]

MissingIsEOF(r) == "eof"

\* What a cursor reports for a record that cannot be fetched.
Missing(r) == "failed"

CursorNext(r) ==
  /\ cur[r] = "open"
  /\ IF PastTip(r)
     THEN cur' = [cur EXCEPT ![r] = "eof"] /\ UNCHANGED <<next, got>>
     ELSE IF next[r] > Len(log)
     THEN cur' = [cur EXCEPT ![r] = Missing(r)] /\ UNCHANGED <<next, got>>
     ELSE /\ got' = [got EXCEPT ![r] = Append(@, log[next[r]])]
          /\ next' = [next EXCEPT ![r] = @ + 1]
          /\ UNCHANGED cur
  /\ UNCHANGED <<streamVars, appendVars, from, tip, snap, epoch>>

\* getMsg fails although the record is there.
ReadFails(r) ==
  /\ cur[r] = "open" /\ ~PastTip(r)
  /\ cur' = [cur EXCEPT ![r] = Missing(r)]
  /\ UNCHANGED <<streamVars, appendVars, from, next, tip, got, snap, epoch>>

Delete ==
  /\ stream = "present" /\ deletes < MaxDeletes
  /\ stream' = "absent" /\ log' = <<>> /\ deletes' = deletes + 1
  /\ UNCHANGED <<appendVars, cursorVars>>

-----------------------------------------------------------------------------

Next ==
  \/ \E a \in Appends :
       \/ \E e \in 0..MaxFrom : BeginAppend(a, e)
       \/ Publish(a) \/ Serve(a)
       \/ Acknowledged(a) \/ Conflict(a) \/ AckLost(a) \/ AppendFails(a)
  \/ \E r \in Readers : (\E f \in 0..MaxFrom : Read(r, f)) \/ CursorNext(r) \/ ReadFails(r)
  \/ Delete

Spec == Init /\ [][Next]_vars

-----------------------------------------------------------------------------
(* Properties *)

\* Type invariant of the stream, the appends and the cursors.
TypeOK ==
  /\ stream \in {"absent", "present"} /\ log \in Seq(Appends) /\ deletes \in 0..MaxDeletes
  /\ pc \in [Appends -> {"idle", "publish", "await", "done"}]
  /\ expected \in [Appends -> 0..MaxFrom]
  /\ net \in [Appends -> {"none", "wire", "ok", "rejected", "absent"}]
  /\ res \in [Appends -> {"none", "ok", "conflict", "ambiguous", "error"}]
  /\ place \in [Appends -> [pos : Nat, deletes : Nat]]
  /\ cur \in [Readers -> {"idle", "open", "eof", "failed"}]
  /\ from \in [Readers -> Nat] /\ next \in [Readers -> Nat] /\ tip \in [Readers -> Nat]
  /\ got \in [Readers -> Seq(Appends)] /\ snap \in [Readers -> Seq(Appends)]
  /\ epoch \in [Readers -> 0..MaxDeletes]

\* An acknowledged append holds the position right after the tip it was fenced
\* on, until the ledger is deleted, whichever appends raced with it or landed
\* after they had returned (Append).
AckedInPlace ==
  \A a \in Appends : res[a] = "ok" =>
    /\ place[a].pos = expected[a] + 1
    /\ place[a].deletes = deletes => Len(log) >= place[a].pos /\ log[place[a].pos] = a

\* A ConflictError is definite: the record has not landed and never will.
ConflictIsFinal ==
  \A a \in Appends : res[a] = "conflict" => net[a] # "wire" /\ place[a] = Nowhere

\* A cursor of a ledger that was not deleted yields the records there were at
\* Read, in order and without a gap, whatever was appended since (ledgerCursor.Next).
CursorSnapshot ==
  \A r \in Readers : cur[r] # "idle" /\ epoch[r] = deletes =>
    \A k \in 1..Len(got[r]) :
      from[r] + k - 1 <= Len(snap[r]) /\ got[r][k] = snap[r][from[r] + k - 1]

\* A cursor at its end has yielded everything between its start and its bound;
\* a record it could not fetch is never taken for the end (ledgerCursor.Next).
CursorComplete ==
  \A r \in Readers : cur[r] = "eof" /\ from[r] <= tip[r] =>
    Len(got[r]) = tip[r] - from[r] + 1

-----------------------------------------------------------------------------
(* The inductive invariant behind them *)

\* A publish is answered "ok" exactly when its record was placed, right after the
\* tip it was fenced on, and the record stays there until the ledger is deleted.
Placed(a) ==
  IF net[a] = "ok"
  THEN /\ place[a].pos = expected[a] + 1 /\ place[a].deletes <= deletes
       /\ place[a].deletes = deletes =>
            place[a].pos <= Len(log) /\ log[place[a].pos] = a
  ELSE place[a] = Nowhere

Answers(a) ==
  /\ pc[a] \in {"idle", "publish"} => net[a] = "none" /\ res[a] = "none"
  /\ pc[a] = "await" => res[a] = "none"
  /\ res[a] = "ok" => net[a] = "ok"
  /\ res[a] = "conflict" => net[a] = "rejected"

AppendsSound == \A a \in Appends : Placed(a) /\ Answers(a)

\* A cursor has yielded from[r] to next[r] - 1 and never went past its bound.
Bounded(r) ==
  /\ from[r] >= 1 /\ next[r] = from[r] + Len(got[r])
  /\ tip[r] = Len(snap[r])
  /\ Len(got[r]) > 0 => next[r] <= tip[r] + 1
  /\ cur[r] = "eof" => next[r] > tip[r]
  /\ cur[r] = "idle" => got[r] = <<>>

\* Until the ledger is deleted it only grows, so what a cursor bounded itself to
\* is still there and is what it yielded.
Faithful(r) ==
  /\ epoch[r] <= deletes
  /\ cur[r] # "idle" /\ epoch[r] = deletes =>
       /\ Len(snap[r]) <= Len(log)
       /\ \A j \in 1..Len(snap[r]) : log[j] = snap[r][j]
       /\ \A k \in 1..Len(got[r]) :
            from[r] + k - 1 <= Len(snap[r]) /\ got[r][k] = snap[r][from[r] + k - 1]

CursorsSound == \A r \in Readers : Bounded(r) /\ Faithful(r)

IndInv == TypeOK /\ AppendsSound /\ CursorsSound
=============================================================================
