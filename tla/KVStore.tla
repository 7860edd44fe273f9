------------------------------ MODULE KVStore -------------------------------
(***************************************************************************)
(* The key-value store (kv.go) over one JetStream KV bucket (seam.go).     *)
(*                                                                         *)
(* A bucket is a stream: a write or a deletion appends an entry, the       *)
(* position of the entry is its revision, and the stream keeps only the    *)
(* last entry of a key (History 1).  A deletion is a marker, so the        *)
(* revision of a key never goes back.                                      *)
(*                                                                         *)
(* A call sends a request and waits for its reply.  The request may be     *)
(* served late or never; the caller may stop waiting at any time while its *)
(* request goes on.  Two operations of the client library take more:       *)
(*   - creating a key tries to write it as one that never was; if that     *)
(*     fails it looks for a deletion marker, and writes over that;         *)
(*   - listing the keys is no snapshot.  It goes through the stream entry  *)
(*     by entry while other calls run, for as many entries as there were   *)
(*     when it began, so that it may meet a key twice, and miss one.       *)
(*                                                                         *)
(* Whether the bucket can be reached is for the module that extends this   *)
(* one to say.                                                             *)
(***************************************************************************)
EXTENDS Integers, Sequences, SequencesExt, FiniteSets

CONSTANTS Calls,
          Keys,       \* valid names, as integers in their order
          BadKeys,    \* names storage.ValidateName refuses
          Listings,   \* each prefix listed by, as the keys that begin with it
          Expected,   \* the revisions callers expect
          Requests,   \* the operations each call may ask for
          Pasts,      \* what earlier runs may have left in the bucket
          Deleted,    \* the value of a deletion marker
          None

Ops == [kind : {"put"}, key : Keys \cup BadKeys, exp : Expected]
         \cup [kind : {"get", "delete"}, key : Keys \cup BadKeys]
         \cup [kind : {"keys"}, prefix : Listings]

\* What the server may answer.
Replies == [is : {"ok", "marker"}, rev : Nat]
             \cup [is : {"ok"}, rev : Nat, val : Calls \cup {Deleted, None}]
             \cup [is : {"ok", "wrongLast", "noMarker", "notFound", "listing"}]

ASSUME KVConstants ==
  /\ Requests \in [Calls -> SUBSET Ops]
  /\ Keys \subseteq Nat /\ Keys \cap BadKeys = {}
  /\ \A p \in Listings : p \subseteq Keys
  /\ Pasts \subseteq Seq([key : Keys, val : {Deleted, None}, by : {None}])
  /\ None \notin Calls /\ None \notin Ops /\ None \notin Replies
  /\ None \notin {"conflict", "fault"} /\ Deleted \notin Calls

VARIABLES
  bucket,   \* the entries [key, val, by], by revision
  pc,       \* "new", "sent", "done", or "dead" with its process
  op,       \* the operation and its arguments
  pending,  \* calls whose request is under way and not served
  reply,    \* what the server answered
  err,      \* of a create, the error its first request ended with
  named,    \* of a create, the revision of the marker it found
  late,     \* creates that went on while their first request is under way
  passed,   \* of a listing, the revision of the last entry it was sent
  left,     \* of a listing, how many entries it waits for still
  listed,   \* of a listing, the keys handed over
  answer,   \* what the call returned
  began, ended  \* history: the length of the bucket when it began, and ended

creates == <<err, named, late>>
listing == <<passed, left, listed>>
kvVars == <<bucket, pc, op, pending, reply, creates, listing, answer, began, ended>>

KVInit ==
  /\ bucket \in Pasts
  /\ pc = [c \in Calls |-> "new"] /\ op = [c \in Calls |-> None]
  /\ pending = {}
  /\ reply = [c \in Calls |-> None]
  /\ err = [c \in Calls |-> None] /\ named = [c \in Calls |-> 0] /\ late = {}
  /\ passed = [c \in Calls |-> 0] /\ left = [c \in Calls |-> 0]
  /\ listed = [c \in Calls |-> <<>>]
  /\ answer = [c \in Calls |-> None]
  /\ began = [c \in Calls |-> 0] /\ ended = [c \in Calls |-> 0]

-----------------------------------------------------------------------------
(* The bucket *)

\* The revision of key k when the bucket had n entries, 0 if it had none then.
Revs(k, n) == {i \in 1..n : bucket[i].key = k}
RevAt(k, n) == IF Revs(k, n) = {} THEN 0 ELSE Max(Revs(k, n))

LiveAt(k, n) == RevAt(k, n) # 0 /\ bucket[RevAt(k, n)].val # Deleted

Rev(k) == RevAt(k, Len(bucket))
Live(k) == LiveAt(k, Len(bucket))

\* The entries the stream still has: the last one of each key.
Kept == {n \in 1..Len(bucket) : Rev(bucket[n].key) = n}

-----------------------------------------------------------------------------
(* Calls *)

\* The calls in cs no longer wait: what comes for them is dropped.
Forget(cs) ==
  /\ reply' = [c \in Calls |-> IF c \in cs THEN None ELSE reply[c]]
  /\ passed' = [c \in Calls |-> IF c \in cs THEN 0 ELSE passed[c]]
  /\ left' = [c \in Calls |-> IF c \in cs THEN 0 ELSE left[c]]
  /\ listed' = [c \in Calls |-> IF c \in cs THEN <<>> ELSE listed[c]]

Return(c, what) ==
  /\ pc' = [pc EXCEPT ![c] = "done"]
  /\ answer' = [answer EXCEPT ![c] = what]
  /\ ended' = [ended EXCEPT ![c] = Len(bucket)]
  /\ Forget({c})

\* kvKeyForName refuses an invalid key before anything is sent.
Refused(o) == o.kind # "keys" /\ o.key \in BadKeys

Call(c, o) ==
  /\ pc[c] = "new"
  /\ op' = [op EXCEPT ![c] = o]
  /\ began' = [began EXCEPT ![c] = Len(bucket)]
  /\ IF Refused(o)
     THEN Return(c, [is |-> "invalid"]) /\ UNCHANGED pending
     ELSE /\ pc' = [pc EXCEPT ![c] = "sent"]
          /\ pending' = pending \cup {c}
          /\ UNCHANGED <<answer, ended, reply, listing>>
  /\ UNCHANGED <<bucket, creates>>

Creates(c) == op[c].kind = "put" /\ op[c].exp = 0

\* A create whose first request failed asks for what the key holds.
Looking(c) == Creates(c) /\ err[c] # None /\ named[c] = 0

\* An update names the revision the caller expects; a create names no revision, or
\* that of the marker it found.
Fence(c) == Rev(op[c].key) = IF Creates(c) THEN named[c] ELSE op[c].exp

Reply(c, what) ==
  /\ reply' = [reply EXCEPT ![c] = IF pc[c] = "sent" THEN what ELSE None]
  /\ pending' = pending \ {c}

WriteEntry(c, val) == bucket' = Append(bucket, [key |-> op[c].key, val |-> val, by |-> c])

ServePut(c) ==
  /\ c \in pending /\ op[c].kind = "put" /\ ~Looking(c)
  /\ IF Fence(c)
     THEN WriteEntry(c, c) /\ Reply(c, [is |-> "ok", rev |-> Len(bucket) + 1])
     ELSE UNCHANGED bucket /\ Reply(c, [is |-> "wrongLast"])
  /\ UNCHANGED <<pc, op, creates, listing, answer, began, ended>>

ServeLook(c) ==
  /\ c \in pending /\ Looking(c)
  /\ LET r == Rev(op[c].key) IN
     Reply(c, IF r # 0 /\ bucket[r].val = Deleted THEN [is |-> "marker", rev |-> r]
                                                  ELSE [is |-> "noMarker"])
  /\ UNCHANGED <<bucket, pc, op, creates, listing, answer, began, ended>>

\* The first request of a create that gave up on it: nobody waits for the reply.
ServeLate(c) ==
  /\ c \in late
  /\ late' = late \ {c}
  /\ IF Rev(op[c].key) = 0 THEN WriteEntry(c, c) ELSE UNCHANGED bucket
  /\ UNCHANGED <<pc, op, pending, reply, err, named, listing, answer, began, ended>>

ServeGet(c) ==
  /\ c \in pending /\ op[c].kind = "get"
  /\ Reply(c, IF Live(op[c].key)
              THEN [is |-> "ok", rev |-> Rev(op[c].key), val |-> bucket[Rev(op[c].key)].val]
              ELSE [is |-> "notFound"])
  /\ UNCHANGED <<bucket, pc, op, creates, listing, answer, began, ended>>

\* Unconditional: an absent key gets a marker too.
ServeDelete(c) ==
  /\ c \in pending /\ op[c].kind = "delete"
  /\ WriteEntry(c, Deleted)
  /\ Reply(c, [is |-> "ok"])
  /\ UNCHANGED <<pc, op, creates, listing, answer, began, ended>>

\* A consumer is made that starts with the first entry; the listing waits for as many
\* entries as there are now.
ServeKeys(c) ==
  /\ c \in pending /\ op[c].kind = "keys"
  /\ left' = [left EXCEPT ![c] = IF pc[c] = "sent" THEN Cardinality(Kept) ELSE 0]
  /\ Reply(c, [is |-> "listing"])
  /\ UNCHANGED <<bucket, pc, op, creates, passed, listed, answer, began, ended>>

Ahead(c) == {n \in Kept : n > passed[c]}

\* The next entry comes, of an old key or a new one; a marker counts but is not handed
\* over.  The listing is over with the last entry it waits for, or that there is.
Deliver(c, n) ==
  /\ left[c] > 0
  /\ n \in Ahead(c) /\ \A m \in Ahead(c) : n <= m
  /\ passed' = [passed EXCEPT ![c] = n]
  /\ left' = [left EXCEPT ![c] = IF Ahead(c) = {n} THEN 0 ELSE @ - 1]
  /\ listed' = [listed EXCEPT ![c] = IF bucket[n].val = Deleted THEN @
                                                               ELSE Append(@, bucket[n].key)]
  /\ UNCHANGED <<bucket, pc, op, pending, reply, creates, answer, began, ended>>

SortedWithRepeats(all, prefix) == SortSeq(SelectSeq(all, LAMBDA k : k \in prefix), <)

\* sortedDedupFiltered: each key once, ascending.
SortedDedupFiltered(all, prefix) ==
  CHOOSE s \in SetToSeqs(ToSet(all) \cap prefix) : \A m, n \in DOMAIN s : m < n => s[m] < s[n]

\* The first request of a create failed: refused, as the key has an entry, or timed
\* out on its own while the caller, who set no deadline, still waits.
Look(c) ==
  /\ pc[c] = "sent" /\ Creates(c) /\ err[c] = None
  /\ \/ /\ reply[c] # None /\ reply[c].is = "wrongLast"
        /\ err' = [err EXCEPT ![c] = "conflict"]
        /\ UNCHANGED late
     \/ /\ err' = [err EXCEPT ![c] = "fault"]
        /\ late' = late \cup (pending \cap {c})
  /\ pending' = pending \cup {c}
  /\ reply' = [reply EXCEPT ![c] = None]
  /\ UNCHANGED <<bucket, pc, op, named, listing, answer, began, ended>>

\* A marker was found: write over it.
Overwrite(c) ==
  /\ pc[c] = "sent" /\ reply[c] # None /\ reply[c].is = "marker"
  /\ named' = [named EXCEPT ![c] = reply[c].rev]
  /\ pending' = pending \cup {c}
  /\ reply' = [reply EXCEPT ![c] = None]
  /\ UNCHANGED <<bucket, pc, op, err, late, listing, answer, began, ended>>

\* How kvStore reports the seam's reply: a lost fence is a conflict, a missing
\* value is not found, and neither is anything else.  A create that found no marker
\* ends with the error of its first request.
Outcome(c) ==
  CASE reply[c].is = "wrongLast" -> [is |-> "conflict"]
    [] reply[c].is = "noMarker" -> [is |-> err[c]]
    [] reply[c].is = "notFound" -> [is |-> "keyNotFound"]
    [] reply[c].is = "listing" ->
         [is |-> "keys", keys |-> SortedDedupFiltered(listed[c], op[c].prefix)]
    [] OTHER -> reply[c]

\* The reply a create goes on from.
GoesOn(c) ==
  \/ reply[c].is = "marker"
  \/ reply[c].is = "wrongLast" /\ Creates(c) /\ err[c] = None

Answered(c) ==
  /\ pc[c] = "sent" /\ reply[c] # None /\ left[c] = 0 /\ ~GoesOn(c)
  /\ Return(c, Outcome(c))
  /\ UNCHANGED <<bucket, op, pending, creates, began>>

FaultIsConflict(c) ==
  /\ pc[c] = "sent"
  /\ Return(c, IF op[c].kind = "put" THEN [is |-> "conflict"] ELSE [is |-> "fault"])
  /\ UNCHANGED <<bucket, op, pending, creates, began>>

\* A deadline, a cancelled caller, a closed connection or a server error: a
\* KVOpError, which promises nothing about the request.  A create that cannot look
\* ends with the error of its first request.
Fault(c) ==
  /\ pc[c] = "sent"
  /\ Return(c, [is |-> IF Looking(c) THEN err[c] ELSE "fault"])
  /\ UNCHANGED <<bucket, op, pending, creates, began>>

ServerStep(c) ==
  \/ ServePut(c) \/ ServeLook(c) \/ ServeLate(c)
  \/ ServeGet(c) \/ ServeDelete(c) \/ ServeKeys(c)
  \/ \E n \in Ahead(c) : Deliver(c, n)

ClientStep(c) == Look(c) \/ Overwrite(c) \/ Answered(c) \/ Fault(c)

-----------------------------------------------------------------------------
(* Properties *)

KVTypeOK ==
  /\ bucket \in Seq([key : Keys, val : Calls \cup {Deleted, None}, by : Calls \cup {None}])
  /\ pc \in [Calls -> {"new", "sent", "done", "dead"}]
  /\ op \in [Calls -> Ops \cup {None}]
  /\ pending \subseteq Calls
  /\ err \in [Calls -> {"conflict", "fault", None}] /\ late \subseteq Calls
  /\ passed \in [Calls -> Nat] /\ left \in [Calls -> Nat]
  /\ listed \in [Calls -> Seq(Keys)]

Wrote(c) == {n \in 1..Len(bucket) : bucket[n].by = c}

\* What a Put was told is so, whatever raced it or was lost or came late: every entry
\* it wrote replaced exactly the revision it named (no value at all, for revision 0);
\* after a success its last entry is at the returned revision; after a conflict the
\* store has nothing of it: it wrote nothing, or it is a create whose first request was
\* applied unheard and has been replaced since, and it never writes again.  A Put is
\* applied once at most, and a create twice.
PutAnswers ==
  \A c \in Calls : op[c] # None /\ op[c].kind = "put" =>
    /\ Cardinality(Wrote(c)) <= IF Creates(c) THEN 2 ELSE 1
    /\ \A n \in Wrote(c) : IF Creates(c) THEN ~LiveAt(op[c].key, n - 1)
                                        ELSE RevAt(op[c].key, n - 1) = op[c].exp
    /\ answer[c] # None =>
         /\ answer[c].is = "ok" =>
              answer[c].rev \in Wrote(c) /\ \A n \in Wrote(c) : n <= answer[c].rev
         /\ answer[c].is = "conflict" =>
              \A n \in Wrote(c) : Creates(c) /\ n < RevAt(op[c].key, ended[c])
         /\ answer[c].is = "invalid" => Wrote(c) = {}

During(c) == began[c]..ended[c]

\* A value was the key's at its revision, and a key not found had none, at some moment
\* while the caller asked.
GetAnswered(c) ==
  answer[c] # None =>
    /\ answer[c].is = "keyNotFound" => \E n \in During(c) : ~LiveAt(op[c].key, n)
    /\ op[c].kind = "get" /\ answer[c].is = "ok" =>
         \E n \in During(c) :
           /\ LiveAt(op[c].key, n) /\ RevAt(op[c].key, n) = answer[c].rev
           /\ bucket[answer[c].rev].val = answer[c].val

\* Key k had a value when call c began, and nobody wrote or deleted it until the call
\* ended.
Untouched(c, k) == LiveAt(k, began[c]) /\ RevAt(k, ended[c]) = RevAt(k, began[c])

\* A listing is ascending without repeats; it has every key under the prefix that had a
\* value and was left alone meanwhile, whatever became of the others, and none that
\* never had a value meanwhile.  A key that was rewritten meanwhile may be missing.
KeysAnswered(c) ==
  answer[c] # None /\ answer[c].is = "keys" =>
    LET keys == answer[c].keys IN
    /\ \A m, n \in 1..Len(keys) : m < n => keys[m] < keys[n]
    /\ \A k \in op[c].prefix : Untouched(c, k) => k \in ToSet(keys)
    /\ \A k \in ToSet(keys) : k \in op[c].prefix /\ \E n \in During(c) : LiveAt(k, n)

\* What a reader was told was so at some moment while it asked, whatever was written,
\* deleted and listed meanwhile (Get), and a listing lacks no key that stood still
\* (Keys).
ReadAnswers == \A c \in Calls : GetAnswered(c) /\ KeysAnswered(c)

-----------------------------------------------------------------------------
(* The inductive invariant behind PutAnswers and ReadAnswers *)

\* What is sent was checked first.
RequestsSent ==
  \A c \in Calls : pc[c] = "sent" \/ c \in pending \cup late =>
    /\ op[c] \in Ops /\ ~Refused(op[c]) /\ pc[c] # "new"
    /\ c \in late => op[c].kind = "put"

AnswerTypes ==
  /\ reply \in [Calls -> Replies \cup {None}] /\ DOMAIN answer = Calls
  /\ named \in [Calls -> Nat]
  /\ began \in [Calls -> Nat] /\ ended \in [Calls -> Nat]

\* A call has one operation and one answer: it is answered once, and not before the
\* server has served its request.
CallSteps(c) ==
  /\ pc[c] = "new" => op[c] = None
  /\ pc[c] \in {"new", "sent", "dead"} => answer[c] = None
  /\ pc[c] # "sent" => reply[c] = None
  /\ pc[c] = "sent" => op[c] # None
  /\ c \in pending => reply[c] = None
  /\ began[c] <= Len(bucket) /\ ended[c] <= Len(bucket)

Marker(c, n) == n \in Revs(op[c].key, Len(bucket)) /\ bucket[n].val = Deleted

\* How far a create has come: it has an error from when its first request failed, and
\* names a marker of its key from when it found one.
CreateSteps(c) ==
  /\ pc[c] = "new" => err[c] = None
  /\ err[c] # None => op[c] # None /\ Creates(c)
  /\ named[c] # 0 => err[c] # None /\ Marker(c, named[c])
  /\ c \in late => err[c] = "fault"
  /\ reply[c] # None =>
       /\ reply[c].is = "noMarker" => Looking(c)
       /\ reply[c].is = "marker" =>
            Looking(c) /\ Marker(c, reply[c].rev) /\ \A n \in Wrote(c) : n < reply[c].rev
       /\ reply[c].is = "wrongLast" /\ err[c] # None => named[c] # 0

\* What a Put wrote, each entry under a fence of its own.
PutWrote(c) ==
  op[c] # None /\ op[c].kind = "put" =>
    \A n \in Wrote(c) :
      /\ bucket[n].key = op[c].key /\ bucket[n].val = c
      /\ IF Creates(c) THEN /\ ~LiveAt(op[c].key, n - 1)
                           /\ RevAt(op[c].key, n - 1) \in {0, named[c]}
                      ELSE RevAt(op[c].key, n - 1) = op[c].exp

\* A Put has written nothing while its first request is under way or was refused, and
\* nothing but what the marker it found replaced while it writes over that.
PutUnderWay(c) ==
  op[c] # None /\ op[c].kind = "put" =>
    /\ c \in pending /\ err[c] = None => Wrote(c) = {}
    /\ err[c] = "conflict" /\ named[c] = 0 => Wrote(c) = {}
    /\ c \in pending /\ named[c] # 0 => \A n \in Wrote(c) : n < named[c]

\* The reply, and then the answer, says what was written.
PutServed(c) ==
  /\ Wrote(c) # {} => pc[c] # "new"
  /\ op[c] # None /\ op[c].kind = "put" =>
       /\ reply[c] # None =>
            /\ reply[c].is = "ok" =>
                 reply[c].rev \in Wrote(c) /\ \A n \in Wrote(c) : n <= reply[c].rev
            /\ reply[c].is = "wrongLast" =>
                 \A n \in Wrote(c) : Creates(c) /\ named[c] # 0 /\ n < Rev(op[c].key)
       /\ answer[c] # None =>
            /\ answer[c].is = "ok" =>
                 /\ answer[c].rev \in Wrote(c) /\ \A n \in Wrote(c) : n <= answer[c].rev
                 /\ c \notin pending
            /\ answer[c].is = "conflict" =>
                 /\ \A n \in Wrote(c) : Creates(c) /\ n < RevAt(op[c].key, ended[c])
                 /\ c \in pending => Looking(c)
                 /\ err[c] = "fault" => named[c] # 0
            /\ answer[c].is = "invalid" => Wrote(c) = {} /\ c \notin pending /\ err[c] = None

\* The reply to a read was so when it was served.
GetServed(c) ==
  reply[c] # None =>
    /\ reply[c].is = "notFound" =>
         \E n \in began[c]..Len(bucket) : ~LiveAt(op[c].key, n)
    /\ op[c].kind = "get" /\ reply[c].is = "ok" =>
         \E n \in began[c]..Len(bucket) :
           /\ LiveAt(op[c].key, n) /\ RevAt(op[c].key, n) = reply[c].rev
           /\ bucket[reply[c].rev].val = reply[c].val

\* The entries a listing has yet to be sent that were there when it began.
OldAhead(c) == {n \in Ahead(c) : n <= began[c]}

\* A listing waits for as many entries at least as are old and still ahead: those that
\* come are the oldest, and an entry that is replaced moves behind them.  Of the entries
\* behind it, those that are old and hold a value are listed, and what is listed had a
\* value at a moment of it.
KeysServed(c) ==
  /\ reply[c] # None /\ reply[c].is = "listing" =>
       /\ op[c].kind = "keys"
       /\ Cardinality(OldAhead(c)) <= left[c]
       /\ \A k \in Keys : Live(k) /\ Rev(k) <= began[c] /\ Rev(k) <= passed[c] =>
            k \in ToSet(listed[c])
       /\ \A k \in ToSet(listed[c]) : \E n \in began[c]..Len(bucket) : LiveAt(k, n)
  /\ reply[c] = None \/ reply[c].is # "listing" =>
       passed[c] = 0 /\ left[c] = 0 /\ listed[c] = <<>>

AnswersInv ==
  /\ AnswerTypes
  /\ \A c \in Calls : /\ CallSteps(c) /\ CreateSteps(c)
                      /\ PutWrote(c) /\ PutUnderWay(c) /\ PutServed(c)
                      /\ GetServed(c) /\ KeysServed(c)
                      /\ GetAnswered(c) /\ KeysAnswered(c)
=============================================================================
