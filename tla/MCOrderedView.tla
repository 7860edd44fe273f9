---------------------------- MODULE MCOrderedView ----------------------------
(* Small instances of OrderedView for TLC. *)
EXTENDS OrderedView, TLC

CONSTANTS i1, i2, q1, q2

\* Identities are interchangeable, and so are queries.
ViewSymmetry == Permutations({i1, i2}) \cup Permutations({q1, q2})
=============================================================================
