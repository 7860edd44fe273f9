------------------------------ MODULE MCLease ------------------------------
(* Small instances of Lease for TLC. *)
EXTENDS Lease

CONSTANTS h1, h2
=============================================================================
