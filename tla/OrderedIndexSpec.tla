-------------------------- MODULE OrderedIndexSpec --------------------------
(***************************************************************************)
(* What an ordered index promises its callers, without streams, fences,   *)
(* batches or acknowledgements: a map from identities to records in which  *)
(*   - a record is created once, at revision 1, with an order above every  *)
(*     order already given out in its scope;                               *)
(*   - each later change raises the revision by one and keeps the order;   *)
(*   - a deletion leaves a tombstone that keeps the value, carries no rank *)
(*     and no due time, and is never changed again.                        *)
(* OrderedStore is shown to implement it.                                  *)
(***************************************************************************)
EXTENDS Integers

CONSTANTS Ids,        \* record identities
          ScopeOf,    \* the scope each identity belongs to
          Values,     \* record values
          Keys,       \* rank and due state, taken together
          NoKeys,     \* unranked and not due
          NoValue,    \* the value of an absent record
          MaxOrder,   \* the largest order a counter can hold
          MaxRev      \* the largest revision a record can hold

VARIABLE index        \* the current record of each identity

\* Revision 0 stands for "no such record"; the code's revisions start at 1.
Absent == [rev |-> 0, order |-> 0, value |-> NoValue, keys |-> NoKeys,
           deleted |-> FALSE]

Init == index = [i \in Ids |-> Absent]

Above(i, order) ==
  \A j \in Ids : ScopeOf[j] = ScopeOf[i] => index[j].order < order

Create(i, order, v, k) ==
  /\ index[i] = Absent
  /\ Above(i, order)
  /\ index' = [index EXCEPT ![i] = [rev |-> 1, order |-> order, value |-> v,
                                    keys |-> k, deleted |-> FALSE]]

Live(i) == index[i].rev > 0 /\ ~index[i].deleted

Update(i, v, k) ==
  /\ Live(i)
  /\ index[i].rev < MaxRev
  /\ index' = [index EXCEPT ![i] = [rev |-> index[i].rev + 1,
                                    order |-> index[i].order, value |-> v,
                                    keys |-> k, deleted |-> FALSE]]

Delete(i) ==
  /\ Live(i)
  /\ index[i].rev < MaxRev
  /\ index' = [index EXCEPT ![i] = [rev |-> index[i].rev + 1,
                                    order |-> index[i].order,
                                    value |-> index[i].value,
                                    keys |-> NoKeys, deleted |-> TRUE]]

Next ==
  \E i \in Ids :
    \/ \E order \in 1..MaxOrder, v \in Values, k \in Keys : Create(i, order, v, k)
    \/ \E v \in Values, k \in Keys : Update(i, v, k)
    \/ Delete(i)

Spec == Init /\ [][Next]_index
=============================================================================
