------------------------------ MODULE MCBlobs -------------------------------
(* Small instances of BlobReader, and through it of Blobs, for TLC. *)
EXTENDS BlobReader

CONSTANTS p1, p2, d1, l1, l2, l3, k1, k2

\* One Put stores an object of two chunks or an empty one, the other an empty one.
SomeContents == [p \in {p1, p2} |-> IF p = p1 THEN {<<<<1, 2>>, <<3>>>>, <<>>} ELSE {<<>>}]

\* As long as the first chunk, longer than the second.
SomeDamages == {<<4, 5>>}

\* A chain of links and a cycle.
ChainAndCycle == [l \in {l1, l2, l3} |->
                    IF l = l1 THEN Key ELSE IF l = l2 THEN l1 ELSE l3]
=============================================================================
