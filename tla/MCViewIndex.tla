---------------------------- MODULE MCViewIndex -----------------------------
(* A small instance of ViewIndex for TLC. *)
EXTENDS ViewIndex

\* Two records of one scope, and one of another that shares a stable key.
SomeIds == {[scope |-> 1, key |-> 1], [scope |-> 1, key |-> 2], [scope |-> 2, key |-> 1]}
SomeOrders == [i \in SomeIds |-> IF i.scope = i.key THEN 3 ELSE 1]
OneRankingScope == [i \in SomeIds |-> 7]
Shape(r, d, x) == [rank |-> r, due |-> d, deleted |-> x]
SomeShapes == {Shape(1, 1, FALSE), Shape(2, 2, FALSE), Shape(None, 1, FALSE), Shape(None, None, TRUE)}
=============================================================================
