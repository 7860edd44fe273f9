------------------------------ MODULE MCLedger ------------------------------
(* Small instances of Ledger for TLC. *)
EXTENDS Ledger, TLC

CONSTANTS a1, a2, a3, r1

\* Appends are interchangeable.
AppendSymmetry == Permutations({a1, a2, a3})
=============================================================================
