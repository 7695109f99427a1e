--------------------------- MODULE MCBatchServer ---------------------------
(* Instances of BatchServer for TLC.                                       *)
EXTENDS BatchServer, TLC

CONSTANTS c1, c2, c3

TwoClients == {c1, c2}
ThreeClients == {c1, c2, c3}

\* Client indices are interchangeable; used by runs without liveness only.
Symmetry == Permutations(Clients)
=============================================================================
