--------------------------- MODULE MCOrderedStore ---------------------------
(* Small instances of OrderedStore for TLC. *)
EXTENDS OrderedStore

CONSTANTS c1, c2, c3, i1, i2, p1, p2, s1, v1, v2, ranked

\* Two calls share a process, and with it a latch; the third is on its own.
MixedProcs == [c \in Calls |-> IF c = c3 THEN p2 ELSE p1]
OneProc == [c \in Calls |-> p1]
OneScope == [i \in Ids |-> s1]
=============================================================================
