----------------------------- MODULE SpecDecode -----------------------------
(***************************************************************************)
(* One request decoded by a client and the verification server             *)
(* (client/specexec.py, client/proactive.py, client/saguaro/strategy.py,   *)
(* and what grpc.py's _inference and _reorder_kv_cache do for the          *)
(* client's row of the batch; network/oracle.py, which stands in for the   *)
(* server in replay mode).                                                 *)
(*                                                                         *)
(* A cycle grows the draft tree round by round, trims it to the budget,    *)
(* submits it, drafts on behind it while the server verifies, and          *)
(* reconciles tree and draft cache with the verdict.  The target decodes   *)
(* greedily: Target(c) is its next token after the tokens c.  What the     *)
(* draft model proposes, and what its log-probabilities rank highest, is   *)
(* arbitrary, but a node never outranks its parent: cumulative scores      *)
(* decrease strictly along a path.  A draft that would outgrow max_len,    *)
(* at most MaxLen, raises and ends the request.  In a hybrid configuration *)
(* both models have recurrent layers (HybridCache).                        *)
(***************************************************************************)
EXTENDS HybridCache, FanOut
LOCAL INSTANCE Functions

CONSTANTS
  Target(_),   \* the target model's next token after a context
  Prompt,      \* the prompt, a sequence of tokens
  MaxNew,      \* max_new_tokens
  Eos,         \* the tokenizer's eos_token_id
  Recordings,  \* the traces a replaying client may be given for the request
  Configs      \* the client configurations considered

ASSUME PromptAssumption == Prompt \in Seq(Tokens) /\ Len(Prompt) > 1
ASSUME MaxNewAssumption == MaxNew \in Nat
ASSUME EosAssumption    == Eos \in Tokens
ASSUME ConfigsAssumption ==
  Configs \subseteq
    [strategy : {"disabled", "proactive", "saguaro"},
     type : {"included", "excluded", "disabled"},
     beams : Nat \ {0}, beamLen : Nat \ {0}, width : Nat \ {0}, budget : Nat \ {0},
     pBeams : Nat \ {0}, pBeamLen : Nat, pWidth : Nat \ {0}, pBudget : Nat \ {0},
     sBudget : Nat, sBranchLen : Nat, exitMode : {"leaf", "trunk"},
     fanOut : FanOutKinds, rate : Rates, hybrid : BOOLEAN, replay : BOOLEAN,
     maxLen : Len(Prompt) .. MaxLen]

\* Traces are prompts with what the target decoded from them greedily.
ASSUME RecordingsAssumption ==
  \A r \in Recordings :
     /\ r \in Seq(Tokens) /\ Len(r) > Len(Prompt)
     /\ \A k \in Len(Prompt) + 1 .. Len(r) : r[k] = Target(SubSeq(r, 1, k - 1))

VARIABLES
  cfg,         \* the configuration of this client
  reference,   \* the trace it replays, or NoTrace
  phase,       \* where _cycle is
  tree, prefixLen, end,   \* the Tree: nodes, prefix_len, end
  draftKV,     \* the client's engine cache
  targetKV,    \* the server's cache of this client
  draftState, targetState,   \* the recurrent states of a hybrid cache
  round,       \* draft rounds done in this phase
  ceiling,     \* hard_ceiling of _grow_tree
  spliced,     \* _overlap_active
  forest,      \* the scratch forest: its end and its roots
  bets,        \* the outcomes bet on: exit node, bonus token, branch, frontier
  selection,   \* the server's choice after each submitted node, or NoSelection
  output,      \* _prefix_tokens
  goal         \* length at which generate stops; 0 until the prefill cycle is done

treeVars   == <<tree, prefixLen, end>>
growVars   == <<round, ceiling>>
betVars    == <<forest, bets>>
vars == <<cfg, reference, phase, treeVars, draftKV, targetKV, draftState, targetState,
          growVars, spliced, betVars, selection, output, goal>>

NoSelection == << >>
NoForest    == [end |-> 0, roots |-> {}]
NoTrace     == << >>

----------------------------------------------------------------------------
(* What the scores of the draft model may choose *)

\* Which of the proposed children are within the budget, taken together with
\* the nodes `existing': those of a best set of that size.  It holds the
\* parents of what it holds, and the nodes of `top', whose score is 0; nothing
\* else if these are more than the budget.
WithinBudget(children, existing, top, budget) ==
  LET Ancestors(S) == existing \cap (top \cup UNION {tree[ParentOf(k)].row : k \in S})
  IN  IF Cardinality(children) + Cardinality(existing) <= budget THEN {children}
      ELSE {S \in SUBSET children :
              /\ S = {} \/ Cardinality(S) + Cardinality(Ancestors(S)) <= budget
              /\ budget <= Cardinality(S) + Cardinality(existing)}

\* Whether the tree, which ends at `last', has room for them.  Where it may not
\* (and then only there, or when the budget asks for it) a best set is looked
\* for, and topk raises if the budget is more than there is.
HasRoom(children, existing, best, last, budget) ==
  LET joint == Cardinality(children) + Cardinality(existing)
  IN  /\ last + Cardinality(best) <= cfg.maxLen
      /\ joint < budget => joint + Cardinality(existing) <= cfg.maxLen

\* A mutant of TrimOrder: the list torch.topk returns is in descending order of
\* the slots.
TrimReversed(kept, lowest) ==
  [s \in kept |-> prefixLen + Cardinality(kept) - 1 - Rank(kept, s)]

\* Where a best set `kept' of draft nodes goes.
TrimOrder(kept, lowest) ==
  TopkOrder(kept, lowest, prefixLen)

Drafted   == prefixLen .. end - 1
Submitted == prefixLen - 1 .. end - 1

\* A set of draft nodes that holds the parents of its nodes.
Closed(S) == \A n \in S : tree[n].row \cap Drafted \subseteq S

----------------------------------------------------------------------------
\* A replaying client fails at once on a trace of another prompt.
check_prompt(r) == r # NoTrace => SubSeq(r, 1, Len(Prompt)) = Prompt

Init ==
  /\ cfg \in Configs
  /\ reference \in IF cfg.replay THEN Recordings ELSE {NoTrace}
  /\ phase = IF check_prompt(reference) THEN "draft" ELSE "failed"
  /\ tree = PromptTree(Prompt)
  /\ prefixLen = Len(Prompt)
  /\ end = Len(Prompt)
  /\ draftKV = NoCache
  /\ targetKV = NoCache
  /\ draftState = NoState
  /\ targetState = NoState
  /\ round = 0
  /\ ceiling = 0
  /\ spliced = FALSE
  /\ forest = NoForest
  /\ bets = {}
  /\ selection = NoSelection
  /\ output = Prompt
  /\ goal = 0

prefill == goal = 0

\* A forward pass of the draft model.
DraftForward(kv, state, batch) ==
  IF cfg.hybrid THEN HybridForwardKV(tree, kv, state, batch) ELSE ForwardKV(tree, kv, batch)

\* A cache after a prefill of the prompt without its last token.
PrefilledKV == [n \in Slots |-> IF n < Len(Prompt) - 1 THEN SubSeq(Prompt, 1, n + 1) ELSE NoKV]
DraftPrefilled == IF cfg.hybrid THEN PrefilledState(Prompt, Len(Prompt) - 1) ELSE draftState

(* _grow_tree *)

Frontier == WithStatus(tree, CANDIDATE)

\* A tree without a frontier is submitted as it is.
StartGrowing ==
  /\ phase = "draft"
  /\ phase' = "grow"
  /\ round' = 0
  /\ ceiling' = IF Frontier = {} THEN 0 ELSE cfg.beamLen
  /\ UNCHANGED <<cfg, reference, treeVars, draftKV, targetKV, draftState, targetState, spliced,
                 betVars, selection, output, goal>>

DepthGain == CASE cfg.strategy = "proactive" -> cfg.pBeamLen
               [] cfg.strategy = "saguaro"   -> cfg.sBranchLen
               [] OTHER -> 0

\* Rounds that must be drafted although the overlap already drafted some.
Discounted ==
  IF cfg.type = "included" /\ spliced THEN Max({0, cfg.beamLen - DepthGain}) ELSE cfg.beamLen

BudgetMet == Cardinality(Drafted) >= cfg.budget

\* A mutant of Growing: the discount is a hard cap.
GrowingDiscounted == round < ceiling /\ round < Discounted

Growing == round < ceiling /\ ~(round >= Discounted /\ BudgetMet)

\* One round: run the best candidates, add their best children.  The first
\* round of a request also runs the prompt.  A round that outgrows the tree
\* raises.
GrowRound ==
  /\ phase = "grow" /\ Growing
  /\ \E beams \in Topk(Frontier, cfg.beams) :
       LET cached == IF prefill /\ round = 0 THEN PrefilledKV ELSE draftKV
           state  == IF prefill /\ round = 0 THEN DraftPrefilled ELSE draftState
           run    == [n \in Slots |-> IF n \in beams THEN [tree[n] EXCEPT !.st = PROCESSED]
                                      ELSE tree[n]]
       IN  /\ draftKV' = DraftForward(cached, state, beams)
           /\ draftState' = state
           /\ \E children \in Proposals(beams, cfg.width) :
                \E best \in WithinBudget(children, Drafted, {}, cfg.budget) :
                  \/ /\ HasRoom(children, Drafted, best, end, cfg.budget)
                     /\ tree' = Add(run, end, best, CANDIDATE)
                     /\ end' = end + Cardinality(best)
                     /\ round' = IF best = {} THEN ceiling ELSE round + 1
                     /\ UNCHANGED phase
                  \/ /\ ~HasRoom(children, Drafted, best, end, cfg.budget)
                     /\ phase' = "failed"
                     /\ UNCHANGED <<tree, end, round>>
  /\ UNCHANGED <<cfg, reference, prefixLen, targetKV, targetState, ceiling, spliced,
                 betVars, selection, output, goal>>

\* Trim the tree to the budget and send it.  The overlap starts while the
\* request is on its way.
Submit ==
  /\ phase = "grow" /\ ~Growing
  /\ phase' = IF cfg.strategy = "disabled" THEN "wait" ELSE "predict"
  /\ selection' = NoSelection
  /\ \/ /\ ~BudgetMet
        /\ UNCHANGED <<treeVars, draftKV>>
     \/ /\ BudgetMet
        /\ \E kept \in {K \in kSubset(cfg.budget, Drafted) : Closed(K)} :
           \E lowest \in {n \in kept : \A m \in kept \ {n} : n \notin tree[m].row} :
             LET dest   == TrimOrder(kept, lowest)
                 newEnd == prefixLen + cfg.budget
             IN  /\ tree' = GatherTree(tree, kept, dest, newEnd)
                 /\ draftKV' = MoveKV(draftKV, kept, dest, newEnd)
                 /\ end' = newEnd
                 /\ UNCHANGED prefixLen
  /\ UNCHANGED <<cfg, reference, targetKV, draftState, targetState, growVars, spliced, betVars,
                 output, goal>>

----------------------------------------------------------------------------
(* The server *)

\* A mutant of LastAccepted: a node counts once it is itself what was chosen.
LastChosen(sel) ==
  LET chosen == {j \in Drafted : sel[tree[j].par] = tree[j].tok}
  IN  IF chosen = {} THEN prefixLen - 1
      ELSE CHOOSE j \in chosen : \A k \in chosen : tree[k].pos <= tree[j].pos

\* The last accepted node, as the server finds it: the deepest one all of
\* whose drafted ancestors, itself included, are what the target chose.
LastAccepted(sel) ==
  LET Chosen(j)   == sel[tree[j].par] = tree[j].tok
      Depth(j)    == tree[j].pos - (prefixLen - 1)
      Accepted(j) == Cardinality({k \in tree[j].row \cap Drafted : Chosen(k)}) = Depth(j)
      accepted    == {j \in Drafted : Accepted(j)}
  IN  IF accepted = {} THEN prefixLen - 1
      ELSE CHOOSE j \in accepted : \A k \in accepted : Depth(k) <= Depth(j)

\* The row the server keeps of its cache.
VerifiedRow(sel) == tree[LastAccepted(sel)].row

\* What the server answers: the target's choice after each submitted node.
Answers(run) ==
  {sel \in [Submitted -> Tokens] : \A n \in Submitted : run[n] # NoKV => sel[n] = Target(run[n])}

\* Verify a request.  The server's buffers hold exactly max_budget drafted nodes.
Verify ==
  /\ phase \in {"predict", "forest", "wait"} /\ selection = NoSelection
  /\ ~cfg.replay
  /\ Cardinality(Drafted) = cfg.budget
  /\ LET stored == IF prefill THEN PrefilledKV ELSE targetKV
         state  == IF prefill THEN PrefilledState(Prompt, Len(Prompt) - 1) ELSE targetState
         run    == IF cfg.hybrid THEN HybridForwardKV(tree, stored, state, Submitted)
                   ELSE ForwardKV(tree, stored, Submitted)
     IN  \E sel \in Answers(run) :
           LET kept      == GatherKV(run, VerifiedRow(sel))
               committed == HybridGather(run, state, VerifiedRow(sel))
           IN  /\ selection' = sel
               /\ targetKV' = IF cfg.hybrid THEN Snapshot(kept, committed) ELSE kept
               /\ targetState' = IF cfg.hybrid THEN committed ELSE targetState
  /\ UNCHANGED <<cfg, reference, phase, treeVars, draftKV, draftState, growVars, spliced,
                 betVars, output, goal>>

\* A request of any other size ends the inference process, and one of nothing
\* has no highest position for the oracle; the client, done with its overlap,
\* fails on the call.
VerifyFails ==
  /\ phase = "wait" /\ selection = NoSelection
  /\ IF cfg.replay THEN Drafted = {} ELSE Cardinality(Drafted) # cfg.budget
  /\ phase' = "failed"
  /\ UNCHANGED <<cfg, reference, treeVars, draftKV, targetKV, draftState, targetState, growVars,
                 spliced, betVars, selection, output, goal>>

\* The token a trace has after position p, the first being 0.
Recorded(trace, p) == IF p + 2 <= Len(trace) THEN trace[p + 2] ELSE Eos

\* The oracle's answer, by position alone, to a request of any size but none.
Replay ==
  /\ phase \in {"predict", "forest", "wait"} /\ selection = NoSelection
  /\ cfg.replay
  /\ Drafted # {}
  /\ selection' = [n \in Submitted |-> Recorded(reference, tree[n].pos)]
  /\ UNCHANGED <<cfg, reference, phase, treeVars, draftKV, targetKV, draftState, targetState,
                 growVars, spliced, betVars, output, goal>>

----------------------------------------------------------------------------
(* Overlap: drafting behind the submitted tree while it is verified *)

Leaves(parents) == Drafted \ parents

\* Candidate exits of SpecExecProactiveDraft: the leaves, as the parents of the
\* whole array leave them; too many are cut, and then numbered from 0.
ProactiveExits ==
  LET leaves == Leaves({tree[n].par : n \in Slots})
  IN  IF Cardinality(leaves) > cfg.pBeams
      THEN kSubset(cfg.pBeams, {n - prefixLen : n \in leaves})
      ELSE {leaves}

\* Candidate exits of SaguaroStrategy.
SaguaroExits ==
  Topk(IF cfg.exitMode = "trunk" THEN Submitted
       ELSE Leaves({tree[n].par : n \in 0 .. end - 1}), cfg.pBeams)

ChildTokens(n) == {tree[c].tok : c \in {d \in Drafted : tree[d].par = n}}

\* The orders in which candidate exits get their shares: by score, or along the
\* trunk, which is the order of the slots as long as none had to be left out.
ExitOrders(exits) ==
  LET Before(m, n) == IF exits = Submitted THEN m < n ELSE tree[m].pos < tree[n].pos
  IN  {o \in [exits -> 0 .. Cardinality(exits) - 1] :
         /\ IsInjective(o)
         /\ cfg.exitMode = "trunk" => \A m, n \in exits : Before(m, n) => o[m] < o[n]}

\* The tokens a bet on exit n may be placed on.
Open(n) == {Key(n, t) : t \in Tokens \ ChildTokens(n)}

\* The outcomes to bet on: the proactive strategy makes one bet, Saguaro shares
\* its budget among the exits, none on a token that already hangs off one.
Guesses(exits) ==
  IF cfg.strategy = "proactive"
  THEN {{Key(n, t)} : n \in exits, t \in Tokens}
  ELSE LET K   == Cardinality(exits) - 1
           fan == Fan(cfg.fanOut, K, Min({cfg.sBudget, cfg.pBeams}), cfg.rate)
       IN  {g \in SUBSET UNION {Open(n) : n \in exits} :
              \E o \in ExitOrders(exits) : \A n \in exits :
                 Cardinality(g \cap Open(n)) = Min({fan[o[n]], Cardinality(Open(n))})}

\* Run the candidate exits and plant one root per guess behind the tree, which
\* raises if it has no slot left for one.
Predict ==
  /\ phase = "predict"
  /\ \E exits \in IF cfg.strategy = "proactive" THEN ProactiveExits ELSE SaguaroExits :
       /\ draftKV' = DraftForward(draftKV, draftState, exits)
       /\ \/ /\ exits = {}
             /\ phase' = "wait"
             /\ UNCHANGED <<tree, forest>>
          \/ /\ exits # {}
             /\ \E guesses \in Guesses(exits) :
                  LET newEnd == end + Cardinality(guesses)
                  IN  \/ /\ newEnd <= cfg.maxLen
                         /\ phase' = IF guesses = {} THEN "wait" ELSE "forest"
                         /\ tree' = Add(tree, end, guesses, POST_CANDIDATE)
                         /\ forest' = [end |-> newEnd, roots |-> end .. newEnd - 1]
                      \/ /\ newEnd > cfg.maxLen
                         /\ phase' = "failed"
                         /\ UNCHANGED <<tree, forest>>
  /\ round' = 0
  /\ bets' = {}
  /\ UNCHANGED <<cfg, reference, prefixLen, end, targetKV, draftState, targetState, ceiling,
                 spliced, selection, output, goal>>

Planted      == end .. forest.end - 1
ForestLen    == IF cfg.strategy = "proactive" THEN cfg.pBeamLen ELSE cfg.sBranchLen
ForestBudget == IF cfg.strategy = "proactive" THEN cfg.pBudget
                ELSE Min({Max({cfg.pBudget, cfg.sBudget * (cfg.sBranchLen + 1)}),
                          Max({1, cfg.maxLen - end - 1})})

\* One round of drafting in the forest.
ForestRound ==
  /\ phase = "forest" /\ round < ForestLen
  /\ \E beams \in Topk(WithStatus(tree, POST_CANDIDATE), cfg.pBeams) :
       LET run == [n \in Slots |-> IF n \in beams THEN [tree[n] EXCEPT !.st = POST_PROCESSED]
                                   ELSE tree[n]]
       IN  /\ draftKV' = DraftForward(draftKV, draftState, beams)
           /\ \E children \in Proposals(beams, cfg.pWidth) :
                \E best \in WithinBudget(children, Planted, forest.roots, ForestBudget) :
                  \/ /\ HasRoom(children, Planted, best, forest.end, ForestBudget)
                     /\ tree' = Add(run, forest.end, best, POST_CANDIDATE)
                     /\ forest' = [forest EXCEPT !.end = @ + Cardinality(best)]
                     /\ round' = IF best = {} THEN ForestLen ELSE round + 1
                     /\ UNCHANGED phase
                  \/ /\ ~HasRoom(children, Planted, best, forest.end, ForestBudget)
                     /\ phase' = "failed"
                     /\ UNCHANGED <<tree, forest, round>>
  /\ UNCHANGED <<cfg, reference, prefixLen, end, targetKV, draftState, targetState,
                 ceiling, spliced, bets, selection, output, goal>>

\* The branch of a root, and the bet it stands for.
Branch(root) ==
  {n \in Planted : ForestRoot(tree, end, forest.end, forest.roots)[n] = root}

Bet(root) ==
  [exit |-> tree[root].par, bonus |-> tree[root].tok, branch |-> Branch(root),
   frontier |-> \E n \in Branch(root) : tree[n].st = POST_CANDIDATE]

PlaceBets ==
  /\ phase = "forest" /\ round >= ForestLen
  /\ phase' = "wait"
  /\ bets' = {Bet(root) : root \in forest.roots}
  /\ UNCHANGED <<cfg, reference, treeVars, draftKV, targetKV, draftState, targetState, growVars,
                 spliced, forest, selection, output, goal>>

----------------------------------------------------------------------------
(* _validate_tree, after the answer *)

\* A mutant of BestRow: the deepest accepted node, whatever its ancestors.
DeepestRow(sel) ==
  LET accepted == {prefixLen - 1} \cup {j \in Drafted : tree[j].tok = sel[tree[j].par]}
      deepest  == CHOOSE i \in accepted : \A j \in accepted : tree[j].pos <= tree[i].pos
  IN  tree[deepest].row

\* The row of the longest submitted path all of which was accepted; the root's
\* own row always qualifies.
BestRow(sel) ==
  LET accepted == (0 .. prefixLen - 1)
                    \cup {j \in Drafted : tree[j].tok = sel[tree[j].par]}
      whole    == {i \in Submitted : tree[i].row \subseteq accepted}
      Longer(i, j) == Cardinality(tree[i].row) > Cardinality(tree[j].row)
      best     == CHOOSE i \in whole : \A j \in whole :
                    ~Longer(j, i) /\ (j < i => Longer(i, j))
  IN  tree[best].row

Fresh(seq) == {n \in seq : n >= prefixLen}

\* The tokens of the verified path, in the order of their slots, and the
\* server's own.
FreshTokens(seq, extra) ==
  [k \in 1 .. Cardinality(Fresh(seq)) + 1 |->
     IF k <= Cardinality(Fresh(seq)) THEN tree[Nth(Fresh(seq), k - 1)].tok ELSE extra]

\* The draft cache is compacted to the slots `src', which commits them.
DraftCommit(src) ==
  IF cfg.hybrid THEN HybridGather(draftKV, draftState, src) ELSE draftState
MayCommit(src) == cfg.hybrid => CanCommit(draftState, Cardinality(src))

\* No overlap, or no bet that came true: the verified path, then the bonus
\* token as the next root.
PlainReorder(seq, extra) ==
  LET len == Cardinality(seq)
  IN  /\ tree' = AppendBonus(ReorderBySequence(tree, seq, prefixLen), len, extra)
      /\ prefixLen' = len + 1
      /\ end' = len + 1
      /\ draftKV' = GatherKV(draftKV, seq)
      /\ draftState' = DraftCommit(seq)
      /\ spliced' = FALSE

\* Mutants of SpliceBet: the branch's root is not counted as confirmed; the
\* branch's cache entries are left behind.
SpliceUncounted(seq, bet) ==
  /\ tree' = Splice(tree, seq, bet.branch, prefixLen)
  /\ prefixLen' = Cardinality(seq)
  /\ end' = Cardinality(seq) + Cardinality(bet.branch)
  /\ draftKV' = GatherKV(draftKV, seq \cup bet.branch)
  /\ draftState' = DraftCommit(seq \cup bet.branch)
  /\ spliced' = TRUE
SpliceWithoutKV(seq, bet) ==
  LET len    == Cardinality(seq)
      newEnd == len + Cardinality(bet.branch)
      joined == Splice(tree, seq, bet.branch, prefixLen)
  IN  /\ tree' = IF ~bet.frontier THEN ReopenLeaves(joined, len + 1, newEnd) ELSE joined
      /\ prefixLen' = len + 1
      /\ end' = newEnd
      /\ draftKV' = GatherKV(draftKV, seq)
      /\ draftState' = DraftCommit(seq)
      /\ spliced' = TRUE

\* A bet that came true: its branch follows the verified path.  Saguaro
\* re-opens the leaves of a branch it remembers to have no frontier.
SpliceBet(seq, bet) ==
  LET len    == Cardinality(seq)
      newEnd == len + Cardinality(bet.branch)
      joined == Splice(tree, seq, bet.branch, prefixLen)
  IN  /\ tree' = IF cfg.strategy = "saguaro" /\ ~bet.frontier
                 THEN ReopenLeaves(joined, len + 1, newEnd) ELSE joined
      /\ prefixLen' = len + 1
      /\ end' = newEnd
      /\ draftKV' = GatherKV(draftKV, seq \cup bet.branch)
      /\ draftState' = DraftCommit(seq \cup bet.branch)
      /\ spliced' = TRUE

\* A mutant of Advance: the tokens of the prefill cycle count.
AdvanceCounted(fresh) ==
  LET limit == MaxNew + Len(Prompt)
      eos   == ~prefill /\ \E k \in DOMAIN fresh : fresh[k] = Eos
  IN  /\ output' = output \o fresh
      /\ goal' = limit
      /\ phase' = IF Len(output') < limit /\ ~eos THEN "draft" ELSE "done"

\* generate goes on until max_new_tokens beyond the prefill cycle, or until a
\* later cycle brings an end-of-sequence token; nothing is cut off behind it.
Advance(fresh) ==
  LET limit == IF prefill THEN MaxNew + Len(Prompt) + Len(fresh) ELSE goal
      eos   == ~prefill /\ \E k \in DOMAIN fresh : fresh[k] = Eos
  IN  /\ output' = output \o fresh
      /\ goal' = limit
      /\ phase' = IF Len(output') < limit /\ ~eos THEN "draft" ELSE "done"

Path  == BestRow(selection)
Exit  == IF Fresh(Path) = {} THEN prefixLen - 1 ELSE Max(Fresh(Path))
Bonus == selection[Exit]
Hits  == {bet \in bets : bet.exit = Exit /\ bet.bonus = Bonus}

\* A path that fills the tree leaves no slot for the bonus token.
MayReorder == MayCommit(Path) /\ Cardinality(Path) < cfg.maxLen

Reconciled ==
  /\ \/ Hits = {} /\ MayReorder /\ PlainReorder(Path, Bonus)
     \/ \E bet \in Hits : MayCommit(Path \cup bet.branch) /\ SpliceBet(Path, bet)
  /\ Advance(FreshTokens(Path, Bonus))
  /\ forest' = NoForest
  /\ bets' = {}

\* A mutant of Reconcile: the answer is not taken down.
ReconcileTwice ==
  /\ phase = "wait" /\ selection # NoSelection
  /\ Reconciled
  /\ UNCHANGED <<cfg, reference, targetKV, targetState, growVars, selection>>

Reconcile ==
  /\ phase = "wait" /\ selection # NoSelection
  /\ Reconciled
  /\ selection' = NoSelection
  /\ UNCHANGED <<cfg, reference, targetKV, targetState, growVars>>

\* What an earlier splice committed to a hybrid draft cache is more than what is
\* kept now, or the tree is full: the client raises.
ReorderRaises ==
  /\ phase = "wait" /\ selection # NoSelection
  /\ \/ Hits = {} /\ ~MayReorder
     \/ \E bet \in Hits : ~MayCommit(Path \cup bet.branch)
  /\ phase' = "failed"
  /\ UNCHANGED <<cfg, reference, treeVars, draftKV, targetKV, draftState, targetState, growVars,
                 spliced, betVars, selection, output, goal>>

----------------------------------------------------------------------------
Terminated == phase \in {"done", "failed"} /\ UNCHANGED vars

Step == \/ StartGrowing \/ GrowRound \/ Submit
        \/ Verify \/ VerifyFails \/ Replay
        \/ Predict \/ ForestRound \/ PlaceBets
        \/ Reconcile \/ ReorderRaises
Next == Step \/ Terminated

Spec == Init /\ [][Next]_vars

\* Client and server keep taking steps until the request is over: weak fairness
\* of Step, of which a step is possible until then (the runs check that there
\* is no deadlock), put so that TLC need not evaluate ENABLED.
KeepsGoing == []<>(phase \in {"done", "failed"}) \/ []<><<TRUE>>_vars
FairSpec   == Spec /\ KeepsGoing

----------------------------------------------------------------------------
(* Properties *)

TypeOK ==
  /\ cfg \in Configs
  /\ reference = NoTrace \/ reference \in Recordings
  /\ phase \in {"draft", "grow", "predict", "forest", "wait", "done", "failed"}
  /\ tree \in [Slots -> Nodes]
  /\ prefixLen \in 1 .. MaxLen /\ end \in prefixLen .. MaxLen
  /\ forest.end \in 0 .. MaxLen /\ forest.roots \subseteq Slots
  /\ draftKV \in [Slots -> Seq(Tokens)] /\ targetKV \in [Slots -> Seq(Tokens)]
  /\ draftState \in States /\ targetState \in States
  /\ round \in Nat /\ ceiling \in Nat
  /\ spliced \in BOOLEAN
  /\ selection = NoSelection \/ selection \in [Submitted -> Tokens]
  /\ output \in Seq(Tokens) /\ goal \in Nat

\* The text is what the target would decode greedily on its own, whatever the
\* draft model proposes and whichever branches are spliced in.  A replaying
\* client, whose oracle answers off-path nodes too, reproduces the trace, and
\* puts end-of-sequence tokens behind it.
Lossless ==
  \A k \in Len(Prompt) + 1 .. Len(output) :
     output[k] = IF cfg.replay /\ k > Len(reference) THEN Eos
                 ELSE Target(SubSeq(output, 1, k - 1))

Decoding == phase \notin {"done", "failed"}

\* The confirmed part of the tree is the text.
TreeHoldsText ==
  Decoding => /\ Len(output) = prefixLen
              /\ \A n \in 0 .. prefixLen - 1 : tree[n].tok = output[n + 1] /\ tree[n].pos = n

\* Between two requests the server's cache holds the client's confirmed
\* sequence but its last token, slot by slot, and nothing else: the two
\* compacted their slots alike, without a message about it.
ServerCacheFollowsTree ==
  Decoding /\ ~prefill /\ ~cfg.replay /\ selection = NoSelection =>
    \A n \in Slots :
       targetKV[n] = IF n < prefixLen - 1 THEN SubSeq(output, 1, n + 1) ELSE NoKV

\* The mask of every drafted and planted node is its ancestry, its position
\* its depth, and a parent comes before its children.
WellFormed(n) ==
  LET par == tree[n].par
  IN  /\ par \in 0 .. n - 1
      /\ tree[n].row = tree[par].row \cup {n}
      /\ tree[n].pos = tree[par].pos + 1
MasksAreAncestry ==
  /\ \A n \in Drafted : tree[n].par >= prefixLen - 1 /\ WellFormed(n)
  /\ \A n \in Planted : WellFormed(n)
  /\ tree[prefixLen - 1].row = 0 .. prefixLen - 1

\* Every request that is sent fills the server's buffers exactly.
RequestIsFull ==
  phase \in {"predict", "forest", "wait"} => Cardinality(Drafted) = cfg.budget

\* Rounds that grow by one candidate's children each reach the budget.
EnoughRounds == cfg.budget <= cfg.beamLen * cfg.width

\* The first node behind the root of the draft, or that root if nothing is.
FirstDrafted == IF Drafted = {} THEN prefixLen - 1 ELSE prefixLen

\* A tree comes out of _grow_tree too small for the server in one case only, if
\* there are rounds enough: it was spliced in, and had no frontier left to grow
\* from.  With Saguaro the first node behind its root, or a root that is alone,
\* was then taken for expanded although it never was run; the proactive
\* strategy also does not re-open a branch all of whose nodes were.
OnlyLostFrontierStarves ==
  phase = "grow" /\ EnoughRounds /\ ~Growing /\ ~BudgetMet =>
    spliced /\ ceiling = 0 /\ (cfg.strategy = "saguaro" => draftKV[FirstDrafted] = NoKV)

\* Between cycles the draft cache holds the confirmed sequence but its last token.
DraftCacheHoldsPath ==
  phase = "draft" =>
    \A n \in 0 .. prefixLen - 2 : prefill \/ draftKV[n] = SubSeq(output, 1, n + 1)

\* The prediction pass of the Saguaro strategy runs every exit that was not run
\* yet: all nodes in trunk mode, the leaves otherwise, as long as there are beams
\* enough.  (With nothing drafted leaf mode has no exit to run, but then neither
\* the server nor the oracle answers.)
RunsEveryExit ==
  /\ cfg.strategy = "saguaro" /\ ~cfg.hybrid
  /\ IF cfg.exitMode = "trunk" THEN cfg.budget < cfg.pBeams ELSE cfg.budget <= cfg.pBeams

\* None of these is missing then, whichever branch is spliced in.
OverlapFillsDraftCache == RunsEveryExit => DraftCacheHoldsPath

\* Between two requests the recurrent state the server keeps of a hybrid client
\* has folded the confirmed sequence but its last token, no rejected node and
\* no token twice.  The draft model's has folded as many slots, but after a
\* splice, which commits the unverified branch with the path.
RecurrentStateFollowsText ==
  cfg.hybrid /\ Decoding /\ ~prefill /\ selection = NoSelection =>
    /\ ~cfg.replay => targetState = PrefilledState(output, prefixLen - 1)
    /\ draftState.commit_len = prefixLen - 1 \/ spliced

\* "The moved positions are the verified path": what a hybrid draft cache has
\* committed at the end of a cycle are verified tokens, whether the overlap's
\* branch was spliced in or not.
CommitsVerifiedPath ==
  phase = "draft" /\ cfg.hybrid => draftState.commit_len < prefixLen

\* The schedules by which Saguaro shares its guesses are fair, whatever the
\* depth of the tree, the budget and the acceptance rate (looked at once, in
\* the initial states).
FanOutIsFair ==
  phase = "draft" /\ prefill =>
    \A K \in 0 .. 4, B \in 0 .. 9, rate \in Rates : FairSchedule(K, B, rate)

\* The client and its server, or its oracle, together are a greedy decoder that
\* stops when it must, and that finishes unless a request fails.
Decoder == INSTANCE GreedyDecode WITH
  reach <- cfg.budget + 1, text <- output, trace <- reference, finished <- phase = "done",
  warmup <- IF prefill THEN 0 ELSE goal - MaxNew - Len(Prompt)
ImplementsGreedyDecode ==
  Decoder!Spec /\ (Decoder!Finishes \/ <>(phase = "failed"))
=============================================================================
