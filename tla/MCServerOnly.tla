---------------------------- MODULE MCServerOnly ----------------------------
(* Instances of ServerOnly for TLC.                                        *)
EXTENDS ServerOnly

\* Token 2 ends a sequence; a token below it follows the length of the text.
MCTarget(c) == IF Len(c) % 4 = 3 /\ c[Len(c)] = 0 THEN 2 ELSE Len(c) % 2

MCPrompts == << <<0, 1>>, <<1, 0>>, <<1, 1>> >>

\* Chains of two draft tokens for a dataset that does not fill the batch, one
\* that does, and one that recycles rows; a bushy tree that is trimmed.
Chain(n) == [beams |-> 1, beamLen |-> 2, width |-> 1, budget |-> 2, requests |-> n]
Bushy    == [beams |-> 1, beamLen |-> 2, width |-> 2, budget |-> 2, requests |-> 2]

AllDrafts == {Chain(1), Chain(2), Chain(3), Bushy}
=============================================================================
