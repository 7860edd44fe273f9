---------------------------- MODULE MCOrderedSeam ---------------------------
(* A small instance of OrderedSeam for TLC. *)
EXTENDS OrderedSeam

CONSTANTS c1, c2, c3, s1, s2

Job(s, kind, name) == [seam |-> s, kind |-> kind, name |-> name]
Jobs3(a, b, c) == (c1 :> a @@ c2 :> b @@ c3 :> c)

Dot == <<"a", ".", "b">>
Slash == <<"a", "/", "b">>
Under == <<"a", "_", "d", "b">>

\* Two seams on one namespace, with two calls of one of them; two namespaces with
\* names a careless encoding confuses, beside a ledger of the same name.
SomeJobs ==
  {Jobs3(Job(s1, "create", Dot), Job(s2, "create", Dot), Job(s1, "revise", Dot)),
   Jobs3(Job(s1, "create", Dot), Job(s1, "create", Dot), Job(s2, "create", Dot)),
   Jobs3(Job(s1, "create", Dot), Job(s2, "create", Slash), Job(s1, "append", Dot)),
   Jobs3(Job(s1, "create", Dot), Job(s1, "create", Under), Job(s2, "append", Under))}
=============================================================================
