------------------------------ MODULE MCStore -------------------------------
(* A small instance of Store for TLC. *)
EXTENDS Store

CONSTANTS c1, c2, c3, h1, h2, g1, g2

\* Calls through two handles.
Apart == [c \in Calls |-> IF c = c1 THEN h1 ELSE h2]
Old(k, v) == [key |-> k, val |-> v, by |-> None]

\* Nothing yet; and a key written, deleted and written again before two others.
SomePasts ==
  {<<>>,
   <<Old(1, None), Old(1, Deleted), Old(1, None), Old(2, None), Old(3, None)>>}
AllKeys == {Keys}

Write(key, exp) == [kind |-> "put", key |-> key, exp |-> exp]
Other(kind) == [kind |-> kind, key |-> 1]

\* One call is any operation; the second changes the key it is about, by a create, an
\* update of the revision the past left, or a deletion; the third creates it or updates
\* another key.
Changes == {Write(1, 0), Write(1, 3), Other("delete")}
SomeRequests ==
  [c \in Calls |->
     CASE c = c1 -> Changes \cup {Write(4, 0), Other("get")}
                      \cup [kind : {"keys"}, prefix : AllKeys]
       [] c = c2 -> Changes
       [] c = c3 -> {Write(1, 0), Write(3, 5)}]

\* Two goroutines close the first handle.
Twice == [g \in Closers |-> h1]

\* The third call joins the other two while all handles are open over a server of others
\* and stay open: it updates one of the keys being listed, or creates the key that
\* another creates for the first time.
ThirdCallUndisturbed ==
  pc[c3] # "new" =>
    /\ mode = "remote" /\ \A h \in Handles : at[h] = "open"
    /\ \A g \in Closers : closer[g] = "no"
    /\ pc[c1] # "new" /\ pc[c2] # "new"
    /\ IF op[c3].key = 3 THEN op[c1].kind = "keys"
       ELSE op[c1] = Write(1, 0) /\ ~(\E n \in DOMAIN bucket : bucket[n].by = None)

\* Over a server of others, handles open for the sake of a call to come.
OpenedForCalls ==
  mode = "remote" =>
    \A h \in Handles : at[h] \in Opening => \E c \in CallsOf(h) \ {c3} : pc[c] = "new"

Bounds == ThirdCallUndisturbed /\ OpenedForCalls
=============================================================================
