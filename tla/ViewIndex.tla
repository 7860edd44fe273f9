----------------------------- MODULE ViewIndex ------------------------------
(***************************************************************************)
(* The inside of an ordered view (ordered.go): the current version of      *)
(* every record of a namespace, three sorted indexes over them kept up to  *)
(* date by binary search, and the three listings that page them with       *)
(* cursors (ordered_codec.go).                                             *)
(*                                                                         *)
(* Messages are applied in any order, old versions among them, and some    *)
(* that do not belong on their subject or do not decode; meanwhile one     *)
(* caller pages through a listing, beginning wherever its first cursor     *)
(* says: at the start, at a position of its own making, or with a token    *)
(* that was not issued for this query.  Messages of other families than    *)
(* records leave the indexes alone.                                        *)
(*                                                                         *)
(* An identity is its ordering scope and stable key; names are compared as *)
(* the integers they stand for.  Order and ranking scope of an identity    *)
(* never change (OrderedStore), so they are functions of it.               *)
(***************************************************************************)
EXTENDS Integers, Sequences, SequencesExt, FiniteSets

CONSTANTS Ids,             \* [scope, key]: ordering scope and stable key
          OrderOf,         \* the order each identity was created with
          RankingScopeOf,
          Shapes,          \* [rank, due, deleted] a version may have
          MaxRev,          \* bound: revisions of one identity
          MaxOrder,        \* stands for math.MaxUint64
          Limits, Bounds,  \* page limits and due bounds callers ask for
          Namespace, Elsewhere,  \* this view's namespace and another
          None

RankingScopes == {RankingScopeOf[i] : i \in Ids}
Scopes == {i.scope : i \in Ids}

ASSUME IndexConstants ==
  /\ Ids \subseteq [scope : Int, key : Int]
  /\ MaxOrder \in Nat /\ OrderOf \in [Ids -> 1..MaxOrder]
  /\ \A i, j \in Ids : i # j /\ i.scope = j.scope => OrderOf[i] # OrderOf[j]
  /\ Shapes \subseteq [rank : Int \cup {None}, due : Int \cup {None}, deleted : BOOLEAN]
  /\ Shapes # {} /\ \A s \in Shapes : s.deleted => s.rank = None /\ s.due = None
  /\ None \notin [id : Ids, on : Ids, rev : Nat, rank : Int \cup {None}, due : Int \cup {None},
                  deleted : BOOLEAN]
  /\ None \notin [version : Nat, kind : {"ranked", "due"}, namespace : {Namespace},
                  of : RankingScopes \cup Bounds, rank : Int \cup {None}, due : Int \cup {None},
                  id : Ids]
  /\ MaxRev \in Nat \ {0} /\ Limits \subseteq Nat \ {0} /\ Bounds \subseteq Int
  /\ Namespace # Elsewhere

VARIABLES
  records,  \* the version held of each identity, or None
  order,    \* per ordering scope, identities by order
  ranked,   \* per ranking scope, live ranked identities, descending
  due,      \* live identities with a due time, ascending
  fatal,    \* whether the view met a message it cannot represent
  phase,    \* the listing: "idle", "paging", "done", "rejected" or "failed"
  query,    \* its kind and its scope or bound
  limit,
  cursor,   \* where the next page starts: an order, a token, or None
  first,    \* history: where the first page started
  out,      \* the identities returned so far
  touched   \* history: identities applied since it began

indexVars == <<records, order, ranked, due, fatal>>
listVars == <<phase, query, limit, cursor, first, out>>
vars == <<indexVars, listVars, touched>>

Queries == [kind : {"ordered"}, of : Scopes] \cup [kind : {"ranked"}, of : RankingScopes]
             \cup [kind : {"due"}, of : Bounds]

Init ==
  /\ records = [i \in Ids |-> None]
  /\ order = [s \in Scopes |-> <<>>]
  /\ ranked = [s \in RankingScopes |-> <<>>]
  /\ due = <<>> /\ fatal = FALSE
  /\ phase = "idle" /\ query = None /\ limit = 0 /\ cursor = None /\ first = None
  /\ out = <<>> /\ touched = {}

-----------------------------------------------------------------------------
(* The sort keys and the searches *)

OrderedRankedBefore(l, r) ==
  \/ l.rank > r.rank
  \/ l.rank = r.rank /\ l.id.key > r.id.key
  \/ l.rank = r.rank /\ l.id.key = r.id.key /\ l.id.scope > r.id.scope

OrderedDueBeforeNoScope(l, r) ==
  l.due < r.due \/ (l.due = r.due /\ l.id.key < r.id.key)

OrderedDueBefore(l, r) ==
  \/ l.due < r.due
  \/ l.due = r.due /\ l.id.key < r.id.key
  \/ l.due = r.due /\ l.id.key = r.id.key /\ l.id.scope < r.id.scope

\* The order of the ranked and of the due index.
Before(kind, l, r) ==
  IF kind = "ranked" THEN OrderedRankedBefore(l, r) ELSE OrderedDueBefore(l, r)

\* Binary search: how many entries there are before the first that is not in left.
Search(entries, left) ==
  LET Middle(w) == w[1] + (w[2] - w[1]) \div 2
      S[w \in (0..Len(entries)) \X (0..Len(entries))] ==
        IF w[1] >= w[2] THEN w[1]
        ELSE IF entries[Middle(w) + 1] \in left THEN S[<<Middle(w) + 1, w[2]>>]
                                                ELSE S[<<w[1], Middle(w)>>]
  IN S[<<0, Len(entries)>>]

LowerBound(recs, entries, kind, probe) ==
  Search(entries, {e \in ToSet(entries) : Before(kind, recs[e], probe)})

UpperBound(recs, entries, kind, probe) ==
  Search(entries, {e \in ToSet(entries) : ~Before(kind, probe, recs[e])})

OrderLowerBound(entries, o) == Search(entries, {e \in Ids : OrderOf[e] < o})

DueEnd(bound) == Search(due, {e \in ToSet(due) : records[e].due <= bound})

\* The positions locateLocked's scan from the lower bound may stop at; it takes
\* the first, if there is one.
Locate(entries, kind, id) ==
  LET at == LowerBound(records, entries, kind, records[id])
  IN {n \in at + 1..Len(entries) :
        /\ entries[n] = id
        /\ \A m \in at + 1..n : ~Before(kind, records[id], records[entries[m]])}

-----------------------------------------------------------------------------
(* Applying a message *)

RecordVersion == 1

IsRanked(r) == r # None /\ ~r.deleted /\ r.rank # None
IsDue(r) == r # None /\ ~r.deleted /\ r.due # None

\* Whether a version belongs into the index.
In(kind, r) == IF kind = "ranked" THEN IsRanked(r) ELSE IsDue(r)

\* removeCurrentLocked: searched with the record the index was sorted by.
Removed(entries, kind, id) ==
  LET at == Locate(entries, kind, id)
  IN IF at = {} THEN entries ELSE RemoveAt(entries, CHOOSE n \in at : \A m \in at : n <= m)

\* insertCurrentLocked
Inserted(recs, entries, kind, id) ==
  InsertAt(entries, LowerBound(recs, entries, kind, recs[id]) + 1, id)

\* An index after id's version has become r.
Moved(entries, kind, id, r) ==
  LET kept == IF In(kind, records[id]) THEN Removed(entries, kind, id) ELSE entries
  IN IF In(kind, r) THEN Inserted([records EXCEPT ![id] = r], kept, kind, id) ELSE kept

\* A revision no newer than the one held is ignored.
Newer(id, r) == records[id] # None => r.rev > records[id].rev

Versions(id) == {[id |-> id, on |-> id, rev |-> v, rank |-> s.rank, due |-> s.due, deleted |-> s.deleted] :
                   v \in 1..MaxRev, s \in Shapes}

\* A tombstone is the last version of its identity.
ApplyRecord(id, r) ==
  /\ Newer(id, r)
  /\ records[id] # None => ~records[id].deleted
  /\ records' = [records EXCEPT ![id] = r]
  /\ order' = IF records[id] # None THEN order
              ELSE [order EXCEPT ![id.scope] =
                      InsertAt(@, OrderLowerBound(@, OrderOf[id]) + 1, id)]
  /\ ranked' = [ranked EXCEPT ![RankingScopeOf[id]] =
                  Moved(@, "ranked", id, r)]
  /\ due' = Moved(due, "due", id, r)
  /\ touched' = IF phase = "idle" THEN touched ELSE touched \cup {id}
  /\ UNCHANGED <<fatal, listVars>>

\* What is stored on a record's subject: a payload, or bytes that are none.
Payload(version, namespace, r) == [version |-> version, namespace |-> namespace, rec |-> r]

Good(on) == {Payload(RecordVersion, Namespace, r) : r \in Versions(on)}

\* What is wrong with the others does not depend on the version they carry.
Some(id) == CHOOSE r \in Versions(id) : r.rev = MaxRev
Foreign(on) ==
  {None} \cup {Payload(RecordVersion, Namespace, Some(i)) : i \in Ids \ {on}}
    \cup {Payload(RecordVersion + 1, Namespace, Some(on)), Payload(RecordVersion, Elsewhere, Some(on))}

DecodesAnywhere(on, p) == p # None /\ p.version = RecordVersion /\ p.namespace = Namespace

\* decodeOrderedRecord: its own identity must lead back to the subject, a hash of
\* the namespace, the scope and the key.
Decodes(on, p) ==
  p # None /\ p.version = RecordVersion /\ p.namespace = Namespace /\ p.rec.id = on

\* applyMessage: nothing is served any more by a view that met what it cannot
\* represent.
ApplyMessage(on, p) ==
  /\ ~fatal
  /\ IF Decodes(on, p) THEN ApplyRecord(p.rec.id, [p.rec EXCEPT !.on = on])
     ELSE /\ fatal' = TRUE
          /\ UNCHANGED <<records, order, ranked, due, listVars, touched>>

-----------------------------------------------------------------------------
(* Cursors.  A token is a version and a body; the body names the query it was *)
(* issued for and the position of the last record of its page.               *)

CursorVersion == 1

EncodeCursor(q, r) ==
  [version |-> CursorVersion, kind |-> q.kind, namespace |-> Namespace, of |-> q.of,
   rank |-> r.rank, due |-> r.due, id |-> r.id]

\* decodeRankedCursor and decodeDueCursor, which check the token against the
\* query; a due position may not lie beyond the bound.
Accepts(q, t) ==
  /\ t.version = CursorVersion /\ t.kind = q.kind
  /\ t.namespace = Namespace /\ t.of = q.of
  /\ q.kind = "due" => t.due <= q.of

\* What callers pass: nothing, orders, positions of this query, and tokens of
\* another version, kind, namespace, scope or bound.
Positions == {[id |-> i, rank |-> s.rank, due |-> s.due] : i \in Ids, s \in Shapes}

Tokens ==
  {EncodeCursor(p, r) : p \in {p \in Queries : p.kind # "ordered"},
                        r \in {r \in Positions : r.rank # None /\ r.due # None}}

Sample(q, i) == EncodeCursor(q, [id |-> i, rank |-> 1, due |-> 1])
Outdated(q) == {[Sample(q, i) EXCEPT !.version = 2] : i \in Ids}
Alien(q) == {[Sample(q, i) EXCEPT !.namespace = Elsewhere] : i \in Ids}

FirstCursors(q) ==
  IF q.kind = "ordered" THEN 0..MaxOrder
  ELSE {None} \cup Tokens \cup Outdated(q) \cup Alien(q)

-----------------------------------------------------------------------------
(* Listings *)

OrderedStartWrapping(entries, after) ==
  OrderLowerBound(entries, IF after = MaxOrder THEN 0 ELSE after + 1)

\* The first order beyond after, which is exclusive; beyond the largest there is
\* none, and adding one would wrap.
OrderedStart(entries, after) ==
  IF after = MaxOrder THEN Len(entries) ELSE OrderLowerBound(entries, after + 1)

Resumed(entries, kind, t) ==
  IF t = None THEN 0 ELSE UpperBound(records, entries, kind, t)

Entries(q) ==
  CASE q.kind = "ordered" -> order[q.of]
    [] q.kind = "ranked" -> ranked[q.of]
    [] q.kind = "due" -> due

\* start, and the end of what may be listed at all
Start(q, c) ==
  IF q.kind = "ordered" THEN OrderedStart(Entries(q), c) ELSE Resumed(Entries(q), q.kind, c)

Eligible(q) == IF q.kind = "due" THEN DueEnd(q.of) ELSE Len(Entries(q))

Smaller(a, b) == IF a <= b THEN a ELSE b

End(q, c) == Smaller(Start(q, c) + limit, Eligible(q))

Page(q, c) == SubSeq(Entries(q), Start(q, c) + 1, End(q, c))

Begin(q, n, c) ==
  /\ phase = "idle" /\ ~fatal
  /\ query' = q /\ limit' = n /\ cursor' = c /\ first' = c
  /\ phase' = IF q.kind # "ordered" /\ c # None /\ ~Accepts(q, c) THEN "rejected" ELSE "paging"
  /\ UNCHANGED <<indexVars, out, touched>>

\* A page of acceptance order goes on after its last order, and the caller stops
\* at an empty one.
NextOrdered ==
  /\ phase = "paging" /\ ~fatal /\ query.kind = "ordered"
  /\ LET page == Page(query, cursor)
     IN /\ out' = out \o page
        /\ IF page = <<>> THEN phase' = "done" /\ UNCHANGED cursor
           ELSE cursor' = OrderOf[Last(page)] /\ UNCHANGED phase
  /\ UNCHANGED <<indexVars, query, limit, first, touched>>

\* The other two issue a token while something is left.
NextTokens ==
  /\ phase = "paging" /\ ~fatal /\ query.kind # "ordered"
  /\ LET page == Page(query, cursor)
     IN /\ out' = out \o page
        /\ IF End(query, cursor) < Eligible(query)
           THEN cursor' = EncodeCursor(query, records[Last(page)]) /\ UNCHANGED phase
           ELSE phase' = "done" /\ UNCHANGED cursor
  /\ UNCHANGED <<indexVars, query, limit, first, touched>>

ListingFails ==
  /\ phase \in {"idle", "paging"} /\ fatal
  /\ phase' = "failed"
  /\ UNCHANGED <<indexVars, query, limit, cursor, first, out, touched>>

Next ==
  \/ \E on \in Ids : \E p \in Good(on) \cup Foreign(on) : ApplyMessage(on, p)
  \/ \E q \in Queries, n \in Limits : \E c \in FirstCursors(q) : Begin(q, n, c)
  \/ NextOrdered
  \/ NextTokens
  \/ ListingFails

Spec == Init /\ [][Next]_vars

-----------------------------------------------------------------------------
(* Properties *)

\* Types; a cursor is always one of this caller's query or one it began with.
TypeOK ==
  /\ DOMAIN records = Ids
  /\ \A i \in Ids : records[i] # None => [records[i] EXCEPT !.on = i] \in Versions(i)
  /\ order \in [Scopes -> Seq(Ids)] /\ ranked \in [RankingScopes -> Seq(Ids)]
  /\ due \in Seq(Ids) /\ out \in Seq(Ids) /\ touched \subseteq Ids
  /\ phase \in {"idle", "paging", "done", "rejected", "failed"}
  /\ fatal \in BOOLEAN
  /\ phase \notin {"idle", "failed"} => query \in Queries /\ limit \in Limits
  /\ query # None /\ cursor \notin {None, first} =>
       IF query.kind = "ordered" THEN cursor \in 1..MaxOrder
       ELSE /\ cursor.of = query.of /\ cursor.id \in Ids

\* What each listing is about, by definition and not by index.
Members(q) ==
  CASE q.kind = "ordered" -> {i \in Ids : records[i] # None /\ i.scope = q.of}
    [] q.kind = "ranked" -> {i \in Ids : IsRanked(records[i]) /\ RankingScopeOf[i] = q.of}
    [] q.kind = "due" -> {i \in Ids : IsDue(records[i])}

Precedes(q, i, j) ==
  CASE q.kind = "ordered" -> OrderOf[i] < OrderOf[j]
    [] q.kind = "ranked" -> OrderedRankedBefore(records[i], records[j])
    [] q.kind = "due" -> OrderedDueBefore(records[i], records[j])

\* The index of a listing holds its members, each once, in its order.
ListExact(q) ==
  /\ {Entries(q)[n] : n \in 1..Len(Entries(q))} = Members(q)
  /\ \A m, n \in 1..Len(Entries(q)) : m < n => Precedes(q, Entries(q)[m], Entries(q)[n])

\* Whatever was applied, and in whatever order, each index holds exactly the
\* records it should, each once, in its order; and every record was stored on the
\* subject of its own identity, in this namespace, so that nothing written
\* elsewhere stands in for it or outranks it (applyRecord, decodeOrderedRecord).
IndexExact ==
  /\ TypeOK
  /\ \A i \in Ids : records[i] # None => records[i].on = i
  /\ \A q \in Queries : ListExact(q)

\* The records of a listing beyond a position.
Beyond(q, c) ==
  {i \in Members(q) :
     /\ q.kind = "due" => records[i].due <= q.of
     /\ CASE q.kind = "ordered" -> OrderOf[i] > c
          [] q.kind = "ranked" -> c = None \/ OrderedRankedBefore(c, records[i])
          [] q.kind = "due" -> c = None \/ OrderedDueBefore(c, records[i])}

\* For every cursor that is accepted the slice bounds are in order and the page is
\* the first records beyond it, up to the limit: none at all beyond the largest
\* order, and none beyond the due bound.
PageExact ==
  phase = "paging" =>
    LET page == Page(query, cursor)
        rest == Beyond(query, cursor)
    IN /\ 0 <= Start(query, cursor) /\ Start(query, cursor) <= End(query, cursor)
       /\ Len(page) = Smaller(limit, Cardinality(rest))
       /\ \A n \in 1..Len(page) :
            /\ page[n] \in rest
            /\ Cardinality({i \in rest : Precedes(query, i, page[n])}) = n - 1

\* A listing returns every record beyond its first cursor that nobody rewrote
\* meanwhile, once and in order: only a record that moved may be skipped or
\* returned twice.
ListingExact ==
  phase \in {"paging", "done"} =>
    LET places(i) == {n \in 1..Len(out) : out[n] = i}
        quiet == Beyond(query, first) \ touched
    IN /\ \A i \in quiet : Cardinality(places(i)) <= 1
       /\ phase = "done" => \A i \in quiet : places(i) # {}
       /\ \A i, j \in quiet : \A m \in places(i), n \in places(j) :
            Precedes(query, i, j) => m < n

-----------------------------------------------------------------------------
(* What the proofs need besides: an inductive strengthening of the above *)

\* A position that a listing can go on from.
Fits(q, c) ==
  IF q.kind = "ordered" THEN c \in 0..MaxOrder
  ELSE \/ c = None
       \/ /\ c.id \in Ids /\ c.of = q.of
          /\ IF q.kind = "ranked" THEN c.rank \in Int ELSE c.due \in Int /\ c.due <= q.of

\* Versions of records, each of its own identity.
Held(recs) == \A i \in Ids : recs[i] # None => recs[i] \in Versions(i)

\* The due index is exact whether or not somebody asks for it.
IndexInv ==
  /\ IndexExact /\ Held(records) /\ ListExact([kind |-> "due", of |-> 0])
  /\ phase = "idle" => cursor = first
  /\ phase = "paging" => Fits(query, cursor)

\* The records a listing owes: beyond its first position, rewritten by nobody.
Quiet == Beyond(query, first) \ touched

\* Each of them was returned at most once, in order, and the ones still to come are
\* those beyond the cursor.
ListingInv ==
  /\ IndexInv
  /\ phase = "idle" => out = <<>> /\ touched = {}
  /\ phase = "paging" => Fits(query, first)
  /\ phase \in {"paging", "done"} =>
       /\ \A i, j \in Quiet : \A m, n \in 1..Len(out) :
            out[m] = i /\ out[n] = j => (i = j => m = n) /\ (Precedes(query, i, j) => m < n)
       /\ \A i \in Quiet :
            (\E n \in 1..Len(out) : out[n] = i) <=> phase = "done" \/ i \notin Beyond(query, cursor)
=============================================================================
