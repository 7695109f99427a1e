---------------------------- MODULE MCSpecDecode ----------------------------
(* Instances of SpecDecode for TLC.                                        *)
EXTENDS SpecDecode

\* A target whose choice depends on the whole context's length and last token.
MCTarget(c) == IF Len(c) % 3 = 0 THEN (c[Len(c)] + 1) % NTokens ELSE c[Len(c)]
MCPrompt == <<0, 1>>

\* A bushy tree that is cut and trimmed; no overlap.
Plain ==
  [strategy |-> "disabled", type |-> "excluded",
   beams |-> 2, beamLen |-> 3, width |-> 2, budget |-> 3,
   pBeams |-> 2, pBeamLen |-> 1, pWidth |-> 2, pBudget |-> 3,
   sBudget |-> 2, sBranchLen |-> 2, exitMode |-> "leaf",
   fanOut |-> "geometric", rate |-> [alpha |-> 4, beta |-> 3, den |-> 5],
   hybrid |-> FALSE, replay |-> FALSE, maxLen |-> MaxLen]

\* One bet, from a tree of several leaves and from a trunk.  The overlap's
\* rounds are discounted.
Proactive == [Plain EXCEPT !.strategy = "proactive", !.type = "included", !.beamLen = 2]
ProactiveTrunk == [Proactive EXCEPT !.width = 1, !.budget = 2]

\* Several bets on a trunk, at any accept depth, with linear branches.
Linear == [Plain EXCEPT !.strategy = "saguaro", !.width = 1, !.budget = 2, !.beamLen = 2,
                        !.pBeams = 3, !.pWidth = 1, !.exitMode = "trunk"]

\* One bet on a leaf, with a bushy branch that can be cut down to nodes that
\* are all expanded; all rounds of the next cycle are discounted.
Bushy == [Plain EXCEPT !.strategy = "saguaro", !.type = "included", !.beamLen = 2,
                       !.pBeams = 4, !.sBudget = 1]

\* Bets on the leaves of a bushy tree.
Leafy == [Linear EXCEPT !.width = 2, !.pBeams = 2, !.exitMode = "leaf",
                        !.fanOut = "uniform"]

\* Branches of one level, which the forest budget can cut to a single child.
Thin == [Linear EXCEPT !.pWidth = 2, !.sBranchLen = 1, !.fanOut = "geometric_reverse"]

\* Hybrid models, without overlap and with the splices of Saguaro.
HybridPlain  == [Plain EXCEPT !.hybrid = TRUE, !.beamLen = 2, !.budget = 2]
HybridLinear == [Linear EXCEPT !.hybrid = TRUE]

\* A bet that the forest budget cuts down to its root: nothing is left to submit
\* when it comes true.
ProactiveRoot == [ProactiveTrunk EXCEPT !.pBudget = 1]

\* A bet all of whose nodes are expanded, which leaves nothing to grow from.
ProactiveDeep == [ProactiveTrunk EXCEPT !.pWidth = 1, !.pBeamLen = 2, !.pBudget = 2]

\* Trees with too little room: for a round, for a bet, for a branch and for a
\* budget that is never met.
Cramped == {[Plain EXCEPT !.maxLen = 7], [Linear EXCEPT !.maxLen = 5],
            [ProactiveTrunk EXCEPT !.maxLen = 6],
            [Plain EXCEPT !.maxLen = 5, !.budget = 4]}

\* A client that replays a trace: a bushy tree, whose budget need not be met.
Replaying == [Plain EXCEPT !.replay = TRUE, !.beamLen = 1]

\* What the target decodes up to a length, and a trace of another prompt.
Recording(n) ==
  LET text[k \in Len(MCPrompt) .. n] ==
        IF k = Len(MCPrompt) THEN MCPrompt ELSE Append(text[k - 1], MCTarget(text[k - 1]))
  IN  text[n]
Mistaken == <<1, 1, MCTarget(<<1, 1>>)>>
MCRecordings == {Recording(3), Recording(5), Mistaken}

AllConfigs  == {Plain, Proactive, ProactiveTrunk, Linear, Bushy, Leafy, Thin,
                HybridPlain, HybridLinear, Replaying, ProactiveRoot, ProactiveDeep} \cup Cramped
PlainConfig == {Plain}
ThinConfig  == {Thin}
HybridConfig == {HybridLinear}
=============================================================================
