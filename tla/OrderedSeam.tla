----------------------------- MODULE OrderedSeam ----------------------------
(***************************************************************************)
(* The ordered index's way to the server (ordered_seam.go): finding,       *)
(* creating and verifying the stream of a namespace, the cache of streams  *)
(* found good, and the atomic batch spoken by hand over a connection.      *)
(*                                                                         *)
(* A seam is a process's connection.  Its calls share the connection and   *)
(* the cache.  A call goes once through what Create, or Update and Delete, *)
(* ask of the seam; what they make of it is OrderedStore's.  Ledgers       *)
(* provision streams beside them, and an operator may create, reconfigure  *)
(* or remove any.                                                          *)
(*                                                                         *)
(* Messages of a connection arrive in order, unless it breaks and all on   *)
(* their way are lost.  The server keeps the members of a batch by batch   *)
(* id, whoever sent them.                                                  *)
(***************************************************************************)
EXTENDS Integers, FiniteSets, NameCodec

CONSTANTS Calls, Seams,
          Jobs,         \* who calls what: assignments of [seam, kind, name] to calls
          MaxInflight,  \* batches a stream keeps uncommitted
          MaxChanges,   \* bound: what an operator does
          None

Results == {"ok", "precondition", "rejected", "ambiguous", "error", "config", "overlap",
            "notFound", "exists", "unsent"}

ASSUME SeamConstants ==
  /\ MaxInflight \in Nat /\ MaxChanges \in Nat
  /\ None \notin Seams \X Nat /\ None \notin [counter : Nat, record : Nat]
  /\ None \notin Results
  /\ \A j \in Jobs : \A c \in Calls :
       j[c].seam \in Seams /\ j[c].kind \in {"create", "revise", "append"}

\* storage.ValidateName lets no others through.
ASSUME SeamNames == \A j \in Jobs : \A c \in Calls : j[c].name \in Seq(NameChars)

VARIABLES
  job,
  streams,   \* the streams there are, each with its layout and subjects' last sequences
  staged,    \* members of uncommitted batches, by stream and batch id
  log,       \* history: what was stored, in order, and in which stream
  meddled,   \* history: streams an operator touched, a sequence
  cache,     \* verifiedStreams of each seam
  seen,      \* history: <<seam, stream>> verified by a look at the stream
  counter,   \* batchID of each seam
  wire,      \* messages on each connection
  pc, exp, id, reply, res

serverVars == <<streams, staged, log>>
callVars == <<pc, exp, id, reply, res>>
vars == <<job, serverVars, meddled, cache, seen, counter, wire, callVars>>

Init ==
  /\ job \in Jobs
  /\ streams = <<>> /\ staged = <<>> /\ log = <<>> /\ meddled = <<>>
  /\ cache = [s \in Seams |-> {}] /\ seen = {}
  /\ counter = [s \in Seams |-> 0] /\ wire = [s \in Seams |-> <<>>]
  /\ pc = [c \in Calls |-> "idle"] /\ exp = [c \in Calls |-> None]
  /\ id = [c \in Calls |-> None]
  /\ reply = [c \in Calls |-> None] /\ res = [c \in Calls |-> None]

\* orderedLocation, and the ledger's own.
StreamOf(c) == IF job[c].kind = "append" THEN EncodeStream(job[c].name)
                                         ELSE OrderedStreamName(job[c].name)
LayoutOf(c) == IF job[c].kind = "append"
               THEN [owner |-> "ledger", subjects |-> LedgerSubject(job[c].name)]
               ELSE [owner |-> "ordered", subjects |-> OrderedSubjectFilter(job[c].name)]

Exists(st) == st \in DOMAIN streams
SeamOf(c) == job[c].seam

\* Replace what f has at x, or remove it.
Put(f, x, y) == [z \in DOMAIN f \cup {x} |-> IF z = x THEN y ELSE f[z]]
Drop(f, x) == [z \in DOMAIN f \ {x} |-> f[z]]

Goto(c, where) == pc' = [pc EXCEPT ![c] = where]
Return(c, what) == Goto(c, "done") /\ res' = [res EXCEPT ![c] = what]

NewStream(layout) == [layout |-> layout, last |-> <<>>]

\* A scope's counter, and a record: its subject is a hash of the whole identity.
Counter == <<"c", <<>>>>
Record(c) == <<"r", job[c].name>>

LastOf(st, subject) ==
  IF subject \in DOMAIN streams[st].last THEN streams[st].last[subject] ELSE 0

\* No two streams take the same subject.
MayCreate(layout) ==
  \A o \in DOMAIN streams : ~Overlap(streams[o].layout.subjects, layout.subjects)

-----------------------------------------------------------------------------
(* The stream *)

Begin(c) ==
  /\ pc[c] = "idle" /\ job[c].kind # "append"
  /\ Goto(c, IF StreamOf(c) \in cache[SeamOf(c)] THEN "read" ELSE "lookup")
  /\ UNCHANGED <<job, serverVars, meddled, cache, seen, counter, wire, exp, id, reply, res>>

\* Only Create provisions; to the others an absent stream is an absent record.
Lookup(c) ==
  /\ pc[c] = "lookup"
  /\ CASE Exists(StreamOf(c)) -> Goto(c, "info") /\ UNCHANGED res
       [] ~Exists(StreamOf(c)) /\ job[c].kind = "create" -> Goto(c, "make") /\ UNCHANGED res
       [] OTHER -> Return(c, "notFound")
  /\ UNCHANGED <<job, serverVars, meddled, cache, seen, counter, wire, exp, id, reply>>

\* Creating what is there is no error if it is the same.
Make(c) ==
  /\ pc[c] = "make"
  /\ IF Exists(StreamOf(c))
     THEN /\ Goto(c, IF streams[StreamOf(c)].layout = LayoutOf(c) THEN "info" ELSE "relookup")
          /\ UNCHANGED <<streams, res>>
     ELSE IF MayCreate(LayoutOf(c))
          THEN /\ streams' = Put(streams, StreamOf(c), NewStream(LayoutOf(c)))
               /\ Goto(c, "info") /\ UNCHANGED res
          ELSE Return(c, "overlap") /\ UNCHANGED streams
  /\ UNCHANGED <<job, staged, log, meddled, cache, seen, counter, wire, exp, id, reply>>

Relookup(c) ==
  /\ pc[c] = "relookup"
  /\ IF Exists(StreamOf(c)) THEN Goto(c, "info") /\ UNCHANGED res ELSE Return(c, "error")
  /\ UNCHANGED <<job, serverVars, meddled, cache, seen, counter, wire, exp, id, reply>>

AdmittedAnyway(c) == Exists(StreamOf(c))

\* verifyOrderedStreamConfig: the whole layout, and the namespace's own subjects.
Admitted(c) == Exists(StreamOf(c)) /\ streams[StreamOf(c)].layout = LayoutOf(c)

\* verifyAndCacheStream
Info(c) ==
  /\ pc[c] = "info"
  /\ IF Admitted(c)
     THEN /\ cache' = [cache EXCEPT ![SeamOf(c)] = @ \cup {StreamOf(c)}]
          /\ seen' = IF streams[StreamOf(c)].layout = LayoutOf(c)
                     THEN seen \cup {<<SeamOf(c), StreamOf(c)>>} ELSE seen
          /\ Goto(c, "read") /\ UNCHANGED res
     ELSE /\ Return(c, IF Exists(StreamOf(c)) THEN "config" ELSE "error")
          /\ UNCHANGED <<cache, seen>>
  /\ UNCHANGED <<job, serverVars, meddled, counter, wire, exp, id, reply>>

\* lastMsgForSubject of the record, and for a new one of the counter: what the
\* write is fenced on.
Read(c) ==
  /\ pc[c] = "read"
  /\ IF ~Exists(StreamOf(c)) THEN Return(c, "error") /\ UNCHANGED exp
     ELSE LET found == LastOf(StreamOf(c), Record(c)) # 0
              create == job[c].kind = "create"
          IN IF found = create
             THEN Return(c, IF create THEN "exists" ELSE "notFound") /\ UNCHANGED exp
             ELSE /\ exp' = [exp EXCEPT ![c] = [counter |-> LastOf(StreamOf(c), Counter),
                                                record |-> LastOf(StreamOf(c), Record(c))]]
                  /\ Goto(c, IF create THEN "member" ELSE "single") /\ UNCHANGED res
  /\ UNCHANGED <<job, serverVars, meddled, cache, seen, counter, wire, id, reply>>

\* Any request of the above may fail for reasons of its own.
Fails(c) ==
  /\ pc[c] \in {"lookup", "make", "relookup", "info", "read"}
  /\ Return(c, "error")
  /\ UNCHANGED <<job, serverVars, meddled, cache, seen, counter, wire, exp, id, reply>>

\* The ledger's ensureStream takes a stream of that name for its own.
EnsureLedger(c) ==
  /\ pc[c] = "idle" /\ job[c].kind = "append"
  /\ IF Exists(StreamOf(c)) THEN Return(c, "ok") /\ UNCHANGED streams
     ELSE IF MayCreate(LayoutOf(c))
          THEN /\ streams' = Put(streams, StreamOf(c), NewStream(LayoutOf(c)))
               /\ Return(c, "ok")
          ELSE Return(c, "overlap") /\ UNCHANGED streams
  /\ UNCHANGED <<job, staged, log, meddled, cache, seen, counter, wire, exp, id, reply>>

-----------------------------------------------------------------------------
(* The batch *)

Message(c, subject, seq, batch, n, last) ==
  [call |-> c, stream |-> StreamOf(c), subject |-> subject, exp |-> seq,
   batch |-> batch, n |-> n, last |-> last]

Send(c, msg) == wire' = [wire EXCEPT ![SeamOf(c)] = Append(@, msg)]

NextBatchIDBare(s) == <<None, counter[s] + 1>>

\* The seam's nonce and a count.
NextBatchID(s) == <<s, counter[s] + 1>>

\* The counter's message goes without waiting; that it cannot be sent is final.
SendMember(c) ==
  /\ pc[c] = "member"
  /\ LET s == SeamOf(c) IN
     /\ counter' = [counter EXCEPT ![s] = @ + 1]
     /\ id' = [id EXCEPT ![c] = NextBatchID(s)]
     /\ \/ Send(c, Message(c, Counter, exp[c].counter, NextBatchID(s), 1, FALSE))
           /\ Goto(c, "commit") /\ UNCHANGED res
        \/ Return(c, "unsent") /\ UNCHANGED wire
  /\ UNCHANGED <<job, serverVars, meddled, cache, seen, exp, reply>>

\* The record's message commits the batch and asks for the reply.
SendCommit(c) ==
  /\ pc[c] = "commit"
  /\ Send(c, Message(c, Record(c), exp[c].record, id[c], 2, TRUE))
  /\ Goto(c, "await")
  /\ UNCHANGED <<job, serverVars, meddled, cache, seen, counter, exp, id, reply, res>>

\* publish
SendSingle(c) ==
  /\ pc[c] = "single"
  /\ Send(c, Message(c, Record(c), exp[c].record, None, 1, TRUE))
  /\ Goto(c, "await")
  /\ UNCHANGED <<job, serverVars, meddled, cache, seen, counter, exp, id, reply, res>>

\* What the server says of a message that asks.
Answer(m, what, count) ==
  reply' = IF m.last THEN [reply EXCEPT ![m.call] = [is |-> what, count |-> count]] ELSE reply

\* All members' fences hold, or nothing is stored.
Store(m, members) ==
  LET last == streams[m.stream].last
      top == Max({last[s] : s \in DOMAIN last} \cup {0})
      new == {members[n].subject : n \in 1..Len(members)}
  IN IF \A n \in 1..Len(members) : LastOf(m.stream, members[n].subject) = members[n].exp
     THEN /\ streams' = Put(streams, m.stream, [layout |-> streams[m.stream].layout, last |->
               [s \in DOMAIN last \cup new |->
                 IF s \in new THEN top + CHOOSE n \in 1..Len(members) : members[n].subject = s
                              ELSE last[s]]])
          /\ log' = Append(log, [stream |-> m.stream,
                                 calls |-> [n \in 1..Len(members) |-> members[n].call],
                                 subjects |-> [n \in 1..Len(members) |-> members[n].subject]])
          /\ Answer(m, "ok", Len(members))
     ELSE UNCHANGED <<streams, log>> /\ Answer(m, "wrongLast", 0)

Inflight(st) == {k \in DOMAIN staged : k[1] = st}

\* A member that does not follow the ones kept under its batch's id, or finds no
\* room for a first one, undoes the batch.
TakeBatch(m) ==
  LET k == <<m.stream, m.batch>>
      have == IF k \in DOMAIN staged THEN staged[k] ELSE <<>>
      fits == /\ m.n = Len(have) + 1
              /\ have = <<>> => Cardinality(Inflight(m.stream)) < MaxInflight
  IN CASE ~fits -> /\ staged' = Drop(staged, k)
                   /\ Answer(m, "refused", 0) /\ UNCHANGED <<streams, log>>
       [] fits /\ m.last -> staged' = Drop(staged, k) /\ Store(m, Append(have, m))
       [] OTHER -> staged' = Put(staged, k, Append(have, m)) /\ UNCHANGED <<streams, log, reply>>

Take(m) == IF m.batch = None THEN Store(m, <<m>>) /\ UNCHANGED staged ELSE TakeBatch(m)

Deliver(s) ==
  /\ wire[s] # <<>>
  /\ wire' = [wire EXCEPT ![s] = Tail(@)]
  /\ LET m == Head(wire[s]) IN
     IF Exists(m.stream)
     THEN \/ Take(m)
          \/ /\ streams[m.stream].layout # LayoutOf(m.call)
             /\ Answer(m, "refused", 0) /\ UNCHANGED serverVars
     ELSE Answer(m, "noResponders", 0) /\ UNCHANGED serverVars
  /\ UNCHANGED <<job, meddled, cache, seen, counter, pc, exp, id, res>>

\* The connection breaks, and the client connects again.
Break(s) ==
  /\ wire[s] # <<>> /\ wire' = [wire EXCEPT ![s] = <<>>]
  /\ UNCHANGED <<job, serverVars, meddled, cache, seen, counter, callVars>>

\* The server gives up on a batch that nobody commits.
Expire(k) ==
  /\ k \in DOMAIN staged /\ staged' = Drop(staged, k)
  /\ UNCHANGED <<job, streams, log, meddled, cache, seen, counter, wire, callVars>>

\* classifyOrderedBatchAck, isOrderedWrongLastSeq and isOrderedAmbiguous.
Classify(r, sent) ==
  CASE r.is = "wrongLast" -> "precondition"
    [] r.is = "refused" -> "rejected"
    [] r.is = "noResponders" -> "ambiguous"
    [] r.is = "ok" -> IF r.count = sent THEN "ok" ELSE "ambiguous"

Acknowledged(c) ==
  /\ pc[c] = "await" /\ reply[c] # None
  /\ Return(c, Classify(reply[c], IF job[c].kind = "create" THEN 2 ELSE 1))
  /\ UNCHANGED <<job, serverVars, meddled, cache, seen, counter, wire, exp, id, reply>>

UnheardRejected == {"rejected", "error"}

\* A deadline leaves the outcome unknown; a cancelled caller gets the bare error.
Unheard == {"ambiguous", "error"}

GiveUp(c) ==
  /\ pc[c] = "await"
  /\ \E what \in Unheard : Return(c, what)
  /\ UNCHANGED <<job, serverVars, meddled, cache, seen, counter, wire, exp, id, reply>>

-----------------------------------------------------------------------------
(* The operator *)

\* A layout that is nobody's, with a subject that no name has.
Foreign == [owner |-> "other", subjects |-> [root |-> <<"X">>, below |-> FALSE]]

\* Creates a stream of another layout, or changes one into it, or removes one.
Meddle(st) ==
  /\ Len(meddled) < MaxChanges
  /\ meddled' = Append(meddled, st)
  /\ \/ streams' = Put(streams, st,
                        IF Exists(st) THEN [layout |-> Foreign, last |-> streams[st].last]
                                      ELSE NewStream(Foreign))
        /\ UNCHANGED staged
     \/ /\ Exists(st) /\ streams' = Drop(streams, st)
        /\ staged' = [k \in {k \in DOMAIN staged : k[1] # st} |-> staged[k]]
  /\ UNCHANGED <<job, log, cache, seen, counter, wire, callVars>>

-----------------------------------------------------------------------------

Step(c) ==
  \/ Begin(c) \/ Lookup(c) \/ Make(c) \/ Relookup(c) \/ Info(c) \/ Read(c) \/ Fails(c)
  \/ EnsureLedger(c) \/ SendMember(c) \/ SendCommit(c) \/ SendSingle(c)
  \/ Acknowledged(c) \/ GiveUp(c)

Next ==
  \/ \E c \in Calls : Step(c) \/ Meddle(StreamOf(c))
  \/ \E s \in Seams : Deliver(s) \/ Break(s)
  \/ \E k \in DOMAIN staged : Expire(k)

Spec == Init /\ [][Next]_vars

-----------------------------------------------------------------------------
(* Properties *)

Streams == {StreamOf(c) : c \in Calls}
Subjects == {Counter} \cup {Record(c) : c \in Calls}
Batches == Seams \X Nat

Packets == [call : Calls, stream : Streams, subject : Subjects, exp : Nat,
            batch : Batches \cup {None}, n : {1, 2}, last : BOOLEAN]

ServerTypes ==
  /\ \A st \in DOMAIN streams : Range(streams[st].last) \subseteq 1..2 * Len(log)
  /\ \A k \in DOMAIN staged : staged[k] \in Seq(Packets) /\ Len(staged[k]) = 1
  /\ log \in Seq([stream : Streams, calls : Seq(Calls), subjects : Seq(Subjects)])
  /\ meddled \in Seq(Streams)

SeamTypes ==
  /\ cache \in [Seams -> SUBSET Streams] /\ seen \subseteq Seams \X Streams
  /\ counter \in [Seams -> Nat] /\ wire \in [Seams -> Seq(Packets)]

CallTypes ==
  /\ pc \in [Calls -> {"idle", "lookup", "make", "relookup", "info", "read", "member",
                       "commit", "single", "await", "done"}]
  /\ exp \in [Calls -> [counter : Nat, record : Nat] \cup {None}]
  /\ id \in [Calls -> Batches \cup {None}]
  /\ reply \in [Calls -> [is : {"ok", "wrongLast", "refused", "noResponders"}, count : Nat]
                        \cup {None}]
  /\ res \in [Calls -> Results \cup {None}]

\* Types of the seams', the calls' and the server's state.  A stream's sequences
\* count what was stored.
TypeOK == job \in Jobs /\ ServerTypes /\ SeamTypes /\ CallTypes

\* What the server stores at once is what one call sent: a counter with its own
\* record, or one revision, never the halves of two calls, whatever connections
\* broke between them and however many seams and processes count from 1
\* (nextBatchID).
BatchWhole ==
  /\ TypeOK
  /\ \A n \in 1..Len(log) :
       LET c == log[n].calls[1] IN
       /\ ToSet(log[n].calls) = {c}
       /\ log[n].subjects = IF job[c].kind = "create" THEN <<Counter, Record(c)>> ELSE <<Record(c)>>

Stored(c) == {n \in 1..Len(log) : c \in ToSet(log[n].calls)}

\* What the seam says of a write is so and stays so: an acknowledged one is stored,
\* once; one it calls rejected, lost to a fence or never sent is not stored, nor
\* will it be by a message still on its way.
OutcomeTrue ==
  \A c \in Calls :
    /\ Cardinality(Stored(c)) <= 1
    /\ res[c] = "ok" /\ job[c].kind # "append" => Stored(c) # {}
    /\ res[c] \in {"precondition", "rejected", "unsent", "config", "notFound", "exists"} =>
         Stored(c) = {}

\* A seam writes only into a stream it has itself seen with the layout and the
\* subjects of the namespace.  So a stream of another layout is never adopted:
\* not one found, nor one that another creator put there while this one was
\* creating it, nor through the cache by the call after.  What the cache does
\* allow is a write into a stream that changed after it was seen.
NeverAdopted ==
  \A n \in 1..Len(log) : <<SeamOf(log[n].calls[1]), log[n].stream>> \in seen

\* Namespaces and ledgers of whatever names are kept apart and do not get into
\* each other's way: a stream holds the records of one namespace, and a call is
\* refused for its stream only when an operator touched that stream (encodeStream,
\* orderedStreamName).
NamesApart ==
  /\ \A m, n \in 1..Len(log) : log[m].stream = log[n].stream =>
       job[log[m].calls[1]].name = job[log[n].calls[1]].name
  /\ \A c \in Calls : res[c] \in {"config", "overlap"} => StreamOf(c) \in ToSet(meddled)

-----------------------------------------------------------------------------
(* What the proofs need besides: an inductive strengthening of the above *)

\* Where a call is tells what it is for and what it has in hand.
CallSteps ==
  \A c \in Calls :
    /\ pc[c] \notin {"idle", "done"} => job[c].kind # "append"
    /\ pc[c] \in {"member", "commit"} => job[c].kind = "create"
    /\ pc[c] = "single" => job[c].kind = "revise"
    /\ pc[c] \in {"member", "commit", "single"} => exp[c] # None
    /\ pc[c] = "commit" => id[c] # None

\* No two calls have the same batch id, and a seam's next one is new.
IdsUnique ==
  /\ \A c \in Calls : id[c] # None => id[c][1] = SeamOf(c) /\ id[c][2] <= counter[SeamOf(c)]
  /\ \A c, d \in Calls : id[c] # None /\ id[c] = id[d] => c = d

\* What a call verified it went on with, and the cache has nothing else.
Verified ==
  /\ \A s \in Seams : \A st \in cache[s] : <<s, st>> \in seen
  /\ \A c \in Calls : pc[c] \in {"read", "member", "commit", "single", "await"} =>
                       <<SeamOf(c), StreamOf(c)>> \in seen

\* m is a message its call sent: the first of a batch, the one that commits it, or
\* the only one.
Sent(m) ==
  /\ <<SeamOf(m.call), m.stream>> \in seen /\ m.stream = StreamOf(m.call)
  /\ IF m.last THEN pc[m.call] \in {"await", "done"}
               ELSE pc[m.call] \in {"commit", "await", "done"}
  /\ \/ /\ job[m.call].kind = "create" /\ m.batch = id[m.call] /\ m.batch # None
        /\ \/ m.n = 1 /\ ~m.last /\ m.subject = Counter
           \/ m.n = 2 /\ m.last /\ m.subject = Record(m.call)
     \/ /\ job[m.call].kind = "revise" /\ m.batch = None
        /\ m.n = 1 /\ m.last /\ m.subject = Record(m.call)

\* All that is on its way or staged was sent, and on the call's own connection; a
\* call asks to commit once.
WireInv ==
  /\ \A s \in Seams : \A i \in 1..Len(wire[s]) : Sent(wire[s][i]) /\ SeamOf(wire[s][i].call) = s
  /\ \A k \in DOMAIN staged :
       LET m == staged[k][1] IN Sent(m) /\ ~m.last /\ k = <<m.stream, m.batch>>
  /\ \A s \in Seams : \A i, j \in 1..Len(wire[s]) :
       wire[s][i].last /\ wire[s][j].last /\ wire[s][i].call = wire[s][j].call => i = j

\* Everything stored is one call's.
LogInv ==
  \A n \in 1..Len(log) : \E c \in Calls :
    /\ <<SeamOf(c), log[n].stream>> \in seen
    /\ \/ /\ job[c].kind = "create"
          /\ log[n].calls = <<c, c>> /\ log[n].subjects = <<Counter, Record(c)>>
       \/ /\ job[c].kind = "revise"
          /\ log[n].calls = <<c>> /\ log[n].subjects = <<Record(c)>>

\* c's request to commit is on its way.
Committing(c) ==
  \E s \in Seams : \E i \in 1..Len(wire[s]) : wire[s][i].last /\ wire[s][i].call = c

\* What is stored of a call, against where it is, what it heard and what it said.
Outcome(c) ==
  /\ pc[c] \notin {"await", "done"} => reply[c] = None /\ Stored(c) = {}
  /\ Committing(c) => reply[c] = None /\ Stored(c) = {}
  /\ \A m, n \in Stored(c) : m = n
  /\ reply[c] # None /\ reply[c].is = "ok" => Stored(c) # {}
  /\ reply[c] # None /\ reply[c].is \in {"wrongLast", "refused"} => Stored(c) = {}
  /\ res[c] = "ok" /\ job[c].kind # "append" => Stored(c) # {}
  /\ res[c] \in {"precondition", "rejected", "unsent", "config", "notFound", "exists"} =>
       Stored(c) = {} /\ ~Committing(c)
  /\ res[c] # None => pc[c] = "done"

SeamInv ==
  /\ TypeOK /\ CallSteps /\ IdsUnique /\ Verified /\ WireInv /\ LogInv
  /\ \A c \in Calls : Outcome(c)

\* A stream is laid out as its calls say, or an operator touched it.
Layouts ==
  \A st \in DOMAIN streams :
    \/ streams[st].layout = Foreign /\ st \in ToSet(meddled)
    \/ \E c \in Calls : st = StreamOf(c) /\ streams[st].layout = LayoutOf(c)

\* What is stored lies in the stream of the call that sent it.
Placed == \A n \in 1..Len(log) : log[n].stream = StreamOf(log[n].calls[1])

\* No call meets another's subjects, nor a layout not its own but an operator's.
Unhindered ==
  \A c \in Calls :
    res[c] # "overlap" /\ (res[c] = "config" => StreamOf(c) \in ToSet(meddled))

ApartInv == Layouts /\ Placed /\ Unhindered
=============================================================================
