----------------------------- MODULE ServerOnly -----------------------------
(***************************************************************************)
(* The server-only pipeline (script/server_only.py): draft model and       *)
(* target model in one process, a batch of rows, each with its own request *)
(* (request_manager.py), token tree (BatchTree in tree.py) and cache row.  *)
(*                                                                         *)
(* An iteration refills empty rows from the dataset, drafts for max_beam_len *)
(* rounds, trims every row to the budget (edge_draft), verifies all rows   *)
(* with one pass of the target (server_verify), and keeps each row's       *)
(* accepted path (edge_verify).  The rows of the code's tensors are        *)
(* independent while drafting; here they take their rounds one after the   *)
(* other.  What the draft model proposes is arbitrary, so its cache is     *)
(* left out.  Requests are numbered from 1; a row with request 0 has none: *)
(* its tree stays where its last request left it, and goes on growing.     *)
(***************************************************************************)
EXTENDS DraftTree

CONSTANTS
  Target(_),     \* the target model's next token after a context
  Prompts,       \* the dataset: a sequence of prompts
  Batch,         \* max_batch_size
  MaxNew,        \* max_new_tokens
  Eos,           \* the tokenizer's eos_token_id
  Drafts         \* the drafting configurations considered

\* (A prompt that is longer than max_len raises when its row is filled.)
ASSUME PromptsAssumption ==
  /\ Prompts \in Seq(Seq(Tokens)) /\ Prompts # << >>
  /\ \A r \in DOMAIN Prompts : Len(Prompts[r]) \in 2 .. MaxLen
ASSUME BatchAssumption == Batch \in Nat \ {0}
ASSUME StopAssumption  == MaxNew \in Nat /\ Eos \in Nat
ASSUME DraftsAssumption ==
  Drafts \subseteq [beams : Nat \ {0}, beamLen : Nat \ {0}, width : Nat \ {0},
                    budget : Nat \ {0}, requests : DOMAIN Prompts]

Rows     == 0 .. Batch - 1
Requests == DOMAIN Prompts

VARIABLES
  cfg,         \* the drafting configuration
  stage,       \* where the loop of main() is
  next,        \* _current_req_idx
  req,         \* req_statuses: the request of each row, 0 for none
  initial,     \* initial_prefix_len
  prefills,    \* prefill_requests: rows filled in this iteration
  tree, prefixLen, end,   \* the BatchTree
  round, row,  \* draft rounds done; the row whose turn it is
  targetKV,    \* the target engine's cache, by row
  selection,   \* the target's choice after each submitted node, by row
  logged,      \* tokens of each request the result log accounts for
  traced,      \* the generation trace: request, output tokens, whether it strayed
  strayed      \* rows whose request has taken a path nobody accepted

requestVars == <<next, req, initial, prefills>>
treeVars    == <<tree, prefixLen, end>>
reportVars  == <<logged, traced, strayed>>
vars == <<cfg, stage, requestVars, treeVars, round, row, targetKV, selection, reportVars>>

NoSelection == [b \in Rows |-> << >>]

Init ==
  /\ cfg \in Drafts
  /\ stage = "admit"
  /\ next = 1
  /\ req = [b \in Rows |-> 0]
  /\ initial = [b \in Rows |-> 0]
  /\ prefills = {}
  /\ tree = [b \in Rows |-> [n \in Slots |-> Blank]]
  /\ prefixLen = [b \in Rows |-> 0]
  /\ end = [b \in Rows |-> 0]
  /\ round = 0 /\ row = 0
  /\ targetKV = [b \in Rows |-> NoCache]
  /\ selection = NoSelection
  /\ logged = [r \in Requests |-> 0]
  /\ traced = << >>
  /\ strayed = {}

-----------------------------------------------------------------------------
(* RequestManager and _add_next_requests *)

\* How many requests of the dataset are run: max_request_num.
count == cfg.requests

EmptyRows == {b \in Rows : req[b] = 0}

\* BatchTree.add_request: the row's tree is reset and holds the prompt.
AddRequest(tr, b, prompt) == [tr EXCEPT ![b] = PromptTree(prompt)]

\* The lowest empty row gets the next request of the dataset.
AdmitRow ==
  /\ stage = "admit" /\ EmptyRows # {} /\ next <= count
  /\ LET b      == Min(EmptyRows)
         prompt == Prompts[next]
     IN  /\ req' = [req EXCEPT ![b] = next]
         /\ initial' = [initial EXCEPT ![b] = Len(prompt)]
         /\ prefills' = prefills \cup {b}
         /\ tree' = AddRequest(tree, b, prompt)
         /\ prefixLen' = [prefixLen EXCEPT ![b] = Len(prompt)]
         /\ end' = [end EXCEPT ![b] = Len(prompt)]
         /\ strayed' = strayed \ {b}
  /\ next' = next + 1
  /\ UNCHANGED <<cfg, stage, round, row, targetKV, selection, logged, traced>>

\* Every row is taken, or there is nothing left for the empty ones: draft.
StartDrafting ==
  /\ stage = "admit"
  /\ EmptyRows = {} \/ (next > count /\ EmptyRows # Rows)
  /\ stage' = "grow"
  /\ UNCHANGED <<cfg, requestVars, treeVars, round, row, targetKV, selection, reportVars>>

\* Mutant: the benchmark is over once no request is left.
ExhaustedEarly ==
  /\ stage = "admit" /\ EmptyRows # {} /\ next > count
  /\ stage' = "over"
  /\ UNCHANGED <<cfg, requestVars, treeVars, round, row, targetKV, selection, reportVars>>

\* No request is left and none is running: the benchmark is over.
Exhausted ==
  /\ stage = "admit" /\ EmptyRows = Rows /\ next > count
  /\ stage' = "over"
  /\ UNCHANGED <<cfg, requestVars, treeVars, round, row, targetKV, selection, reportVars>>

-----------------------------------------------------------------------------
(* _grow_tree and _trim_by_budget *)

\* Mutant: one row too many.
RowTooMany(wrap, then) ==
  IF row < Batch THEN row' = row + 1 /\ UNCHANGED <<round, stage>>
  ELSE /\ row' = 0
       /\ round' = wrap
       /\ stage' = then

\* The next row's turn; after the last row, what follows.
NextRow(wrap, then) ==
  IF row < Batch - 1 THEN row' = row + 1 /\ UNCHANGED <<round, stage>>
  ELSE /\ row' = 0
       /\ round' = wrap
       /\ stage' = then

Drafted(b)   == prefixLen[b] .. end[b] - 1
Submitted(b) == {n \in Slots : prefixLen[b] - 1 <= n /\ n < end[b]}

\* _process_candidates: the beams of a row, and its tree once they are taken.
Beams(b) == Topk(WithStatus(tree[b], CANDIDATE), cfg.beams)
Processed(b, beams) ==
  [n \in Slots |-> IF n \in beams THEN [tree[b][n] EXCEPT !.st = PROCESSED] ELSE tree[b][n]]

\* The children that are added: some of those that are, with their drafted
\* ancestors, among the best max_budget nodes of this tree, and not too
\* improbable (a fixed threshold).
Affordable(b, children) ==
  {S \in SUBSET children :
     Cardinality(S) + Cardinality(Drafted(b) \cap UNION {tree[b][ParentOf(k)].row : k \in S})
       <= cfg.budget}

\* BatchTree.add, for one row.
BatchAdd(tr, at, keys) == Add(tr, at, keys, CANDIDATE)

\* One row's part of a round.  A row without candidates only pads.  Every
\* padding entry of a forward pass uses the last slot of its row; a tree that
\* reaches it, or goes beyond, is taken to end the program (beyond it is an
\* index error).
GrowRow ==
  /\ stage = "grow"
  /\ \E beams \in Beams(row) :
     \E children \in Proposals(beams, cfg.width) :
     \E best \in Affordable(row, children) :
       LET newEnd == end[row] + Cardinality(best)
           more   == round + 1 < cfg.beamLen
       IN  \/ /\ newEnd < MaxLen
              /\ tree' = [tree EXCEPT ![row] = BatchAdd(Processed(row, beams), end[row], best)]
              /\ end' = [end EXCEPT ![row] = newEnd]
              /\ NextRow(IF more THEN round + 1 ELSE 0, IF more THEN "grow" ELSE "trim")
           \/ /\ newEnd >= MaxLen
              /\ stage' = "failed"
              /\ UNCHANGED <<tree, end, round, row>>
  /\ UNCHANGED <<cfg, requestVars, prefixLen, targetKV, selection, reportVars>>

\* BatchTree.gather: the kept nodes move to the slots `dest' gives them, and
\* everything behind them is zeroed.
BatchGather(tr, kept, dest, newEnd) ==
  LET moved == GatherTree(tr, kept, dest, newEnd)
  IN  [n \in Slots |-> IF n < newEnd THEN moved[n] ELSE Blank]

\* Keep the best max_budget draft nodes of a row.
TrimRow ==
  /\ stage = "trim"
  /\ \/ /\ Cardinality(Drafted(row)) <= cfg.budget
        /\ UNCHANGED treeVars
     \/ /\ Cardinality(Drafted(row)) > cfg.budget
        /\ \E kept \in {K \in kSubset(cfg.budget, Drafted(row)) :
                          \A n \in K : tree[row][n].row \cap Drafted(row) \subseteq K} :
           \E lowest \in {n \in kept : \A m \in kept \ {n} : n \notin tree[row][m].row} :
             LET dest == TopkOrder(kept, lowest, prefixLen[row])
             IN  tree' = [tree EXCEPT
                            ![row] = BatchGather(@, kept, dest, prefixLen[row] + cfg.budget)]
        /\ end' = [end EXCEPT ![row] = prefixLen[row] + cfg.budget]
        /\ UNCHANGED prefixLen
  /\ NextRow(0, "verify")
  /\ UNCHANGED <<cfg, requestVars, targetKV, selection, reportVars>>

-----------------------------------------------------------------------------
(* server_verify *)

PrefilledKV(kv, prompt) ==
  [n \in Slots |-> IF n < Len(prompt) THEN SubSeq(prompt, 1, n + 1) ELSE kv[n]]

\* Mutant: a row that is recycled is not prefilled again.
PrefilledOnce(b) ==
  IF b \in prefills /\ req[b] <= Batch THEN PrefilledKV(targetKV[b], Prompts[req[b]])
  ELSE targetKV[b]

\* The row of the cache the forward pass starts from: new requests are
\* prefilled first.  What a former request left behind the prompt stays:
\* KVCache.clear, given rows, zeroes a copy.
Stored(b) ==
  IF b \in prefills THEN PrefilledKV(targetKV[b], Prompts[req[b]]) ELSE targetKV[b]

\* edge_pre_verify and server_verify: every node of every row's tree from its
\* root on, one pass of the target, its greedy choice after each node.  Where
\* the cache does not hold a node's ancestors the choice is any token.
Verify ==
  /\ stage = "verify"
  /\ stage' = "keep"
  /\ LET run == [b \in Rows |-> ForwardKV(tree[b], Stored(b), Submitted(b))]
     IN  /\ targetKV' = run
         /\ \E any \in Tokens :
              selection' = [b \in Rows |->
                [n \in Submitted(b) |-> IF run[b][n] = NoKV THEN any ELSE Target(run[b][n])]]
  /\ UNCHANGED <<cfg, requestVars, treeVars, round, row, reportVars>>

-----------------------------------------------------------------------------
(* edge_post_verify *)

\* The draft nodes of a row that are what the target chose.
Chosen(b) == {n \in Drafted(b) : tree[b][n].tok = selection[b][tree[b][n].par]}

\* Mutant: a node's ancestors do not matter.
ChosenAlone(b) == Chosen(b)

\* Of these, the ones whose whole path was chosen.
Whole(b) == {n \in Chosen(b) : tree[b][n].row \subseteq (0 .. prefixLen[b] - 1) \cup Chosen(b)}

Deepest(b) == CHOOSE n \in Whole(b) : \A m \in Whole(b) : tree[b][m].pos <= tree[b][n].pos

\* Whether any row of the batch accepted a draft node.
AnyAccepted == \E b \in Rows : Whole(b) # {}

\* Where the kept path of a row ends.  A row without an accepted node keeps
\* its root if the other rows have none either, else prefix_len + 1: the
\* second of its draft nodes.
Exit(b) ==
  IF Whole(b) # {} THEN Deepest(b)
  ELSE IF AnyAccepted THEN prefixLen[b] + 1 ELSE prefixLen[b] - 1

Strays(b) == Whole(b) = {} /\ AnyAccepted

\* The path a row keeps.  An empty one, as nothing was ever put where it ends
\* (index -1 is the last slot), cannot be gathered: the program ends.
KeptRow(b) == IF Exit(b) \in Slots THEN tree[b][Exit(b)].row ELSE {}
CannotKeep(b) == KeptRow(b) = {} \/ Cardinality(KeptRow(b)) >= MaxLen - 1

\* n_fresh_tokens.
FreshTokens(b) == IF Whole(b) = {} THEN 1 ELSE tree[b][Deepest(b)].pos - (prefixLen[b] - 1) + 1

\* BatchTree.reorder.
Reordered(tr, kept) ==
  LET len  == Cardinality(kept)
      path == BatchGather(tr, kept, [s \in kept |-> Rank(kept, s)], len)
  IN  [n \in Slots |-> IF n < len THEN [path[n] EXCEPT !.st = GENERATED] ELSE path[n]]

\* A row's kept path with the target's own token behind it.
Kept(b, extra) ==
  LET len == Cardinality(KeptRow(b))
  IN  BatchAdd(Reordered(tree[b], KeptRow(b)), len, {Key(len - 1, extra)})

\* eos_flag.  The token ids are masked bit by bit, not one by one: in the text
\* only the lowest bit of a token is compared with the end-of-sequence token.
Ends(b) ==
  \/ selection[b][Exit(b)] = Eos
  \/ \E n \in Slots : Eos = IF n \in KeptRow(b) THEN tree[b][n].tok % 2 ELSE 0

\* Mutant: a request is stopped by the target's own token only.
FinishedAtEos(b) == req[b] # 0 /\ Ends(b)

\* _remove_request.
Finished(b) == req[b] # 0 /\ (prefixLen'[b] - initial[b] > MaxNew \/ Ends(b))

\* What the trace gets for a row's request.
Record(b) ==
  [req |-> req[b], strayed |-> b \in strayed',
   output |-> [k \in 1 .. prefixLen'[b] - initial[b] |-> tree'[b][initial[b] + k - 1].tok]]

\* Mutants of Logged and Removed: the rows are looked up after the finished
\* requests were removed; only the first of the finished rows is recycled.
LoggedAfter(removed) ==
  [r \in Requests |->
     IF \E b \in Rows \ removed : req[b] = r
     THEN logged[r] + FreshTokens(CHOOSE b \in Rows : req[b] = r) ELSE logged[r]]

\* The result log of the iteration: every row that held a request during it,
\* the finished ones included.
Logged(removed) ==
  [r \in Requests |->
     IF \E b \in Rows : req[b] = r
     THEN logged[r] + FreshTokens(CHOOSE b \in Rows : req[b] = r) ELSE logged[r]]

RemovedFirst(removed) == [b \in Rows |-> IF removed # {} /\ b = Min(removed) THEN 0 ELSE req[b]]

\* The requests of the rows that are recycled.
Removed(removed) == [b \in Rows |-> IF b \in removed THEN 0 ELSE req[b]]

\* Keep every row's path and the target's own token, drop what is finished.
Keep ==
  /\ stage = "keep"
  /\ \A b \in Rows : ~CannotKeep(b)
  /\ stage' = "admit"
  /\ tree' = [b \in Rows |-> Kept(b, selection[b][Exit(b)])]
  /\ prefixLen' = [b \in Rows |-> Cardinality(KeptRow(b)) + 1]
  /\ end' = prefixLen'
  /\ targetKV' = [b \in Rows |-> GatherKV(targetKV[b], KeptRow(b))]
  /\ strayed' = strayed \cup {b \in Rows : Strays(b)}
  /\ LET removed == {b \in Rows : Finished(b)}
     IN  /\ req' = Removed(removed)
         /\ initial' = [b \in Rows |-> IF b \in removed THEN 0 ELSE initial[b]]
         /\ logged' = Logged(removed)
         /\ traced' = traced \o [i \in 1 .. Cardinality(removed) |-> Record(Nth(removed, i - 1))]
  /\ prefills' = {}
  /\ selection' = NoSelection
  /\ UNCHANGED <<cfg, next, round, row>>

KeepFails ==
  /\ stage = "keep"
  /\ \E b \in Rows : CannotKeep(b)
  /\ stage' = "failed"
  /\ UNCHANGED <<cfg, requestVars, treeVars, round, row, targetKV, selection, reportVars>>

-----------------------------------------------------------------------------
Terminated == stage \in {"over", "failed"} /\ UNCHANGED vars

Step == \/ AdmitRow \/ StartDrafting \/ Exhausted
        \/ GrowRow \/ TrimRow \/ Verify \/ Keep \/ KeepFails
Next == Step \/ Terminated
Spec == Init /\ [][Next]_vars

\* One process, which takes steps until it ends: weak fairness of Step, put so
\* that TLC need not evaluate ENABLED.
KeepsGoing == []<>(stage \in {"over", "failed"}) \/ []<><<TRUE>>_vars
FairSpec   == Spec /\ KeepsGoing

-----------------------------------------------------------------------------
(* Properties *)

TypeOK ==
  /\ cfg \in Drafts
  /\ stage \in {"admit", "grow", "trim", "verify", "keep", "over", "failed"}
  /\ next \in 1 .. count + 1
  /\ req \in [Rows -> Requests \cup {0}]
  /\ initial \in [Rows -> Nat]
  /\ prefills \subseteq Rows /\ strayed \subseteq Rows
  /\ \A b \in Rows : \A n \in Slots :
       /\ tree[b][n].tok \in Tokens /\ tree[b][n].pos \in Nat
       /\ tree[b][n].row \subseteq Slots
  /\ prefixLen \in [Rows -> 0 .. MaxLen] /\ end \in [Rows -> 0 .. MaxLen]
  /\ round \in 0 .. cfg.beamLen /\ row \in Rows
  /\ targetKV \in [Rows -> [Slots -> Seq(Tokens)]]
  /\ logged \in [Requests -> Nat]
  /\ traced \in Seq([req : Requests, output : Seq(Tokens), strayed : BOOLEAN])

Text(b) == [k \in 1 .. prefixLen[b] |-> tree[b][k - 1].tok]

GreedyAfter(prompt, text) ==
  \A k \in Len(prompt) + 1 .. Len(text) : text[k] = Target(SubSeq(text, 1, k - 1))
GreedyTrace(t) == GreedyAfter(Prompts[t.req], Prompts[t.req] \o t.output)
GreedyRow(b)   == GreedyAfter(Prompts[req[b]], Text(b))

\* The text of a request, while it runs and when it is traced, is what the
\* target would decode greedily on its own, unless its row once had to keep a
\* path because others accepted something.
AcceptedTextIsGreedy ==
  /\ \A b \in Rows : req[b] # 0 /\ b \notin strayed => GreedyRow(b)
  /\ \A i \in DOMAIN traced : ~traced[i].strayed => GreedyTrace(traced[i])

\* _trace_removed: the kept slice "is the linear sequence -- prompt plus every
\* accepted token plus each round's bonus token -- and nothing else reads it
\* once add_request() zeroes the slot for the next request".  The part about
\* what it is made of, of every request: each token is the target's own, by
\* acceptance or as a bonus.
TextIsAccepted == \A i \in DOMAIN traced : GreedyTrace(traced[i])

\* Between two iterations the target's cache holds the text of each row but
\* its last token, slot by slot, also in rows that changed their request and
\* in rows that have none.
TargetCacheFollowsRow ==
  stage = "admit" =>
    \A b \in Rows \ prefills : \A n \in Slots :
      n < prefixLen[b] - 1 => targetKV[b][n] = SubSeq(Text(b), 1, n + 1)

\* The result log accounts for every token of a request, those of its last
\* round included.
LogAccountsForTrace ==
  \A i \in DOMAIN traced : ~traced[i].strayed => logged[traced[i].req] = Len(traced[i].output)

\* A row that outgrows max_len has no request: while it has one it is stopped
\* in time, if max_len leaves room for the prompt, max_new_tokens and one tree.
OnlyIdleRowsOutgrow ==
  stage = "failed" /\ selection = NoSelection => req[row] = 0

\* The requests of the dataset so far: each in one row, or traced once.
Live == {req[b] : b \in Rows} \ {0}
EachRequestOnce ==
  /\ \A b, c \in Rows : req[b] = req[c] /\ req[b] # 0 => b = c
  /\ \A i, j \in DOMAIN traced : traced[i].req = traced[j].req => i = j
  /\ Live \cap {traced[i].req : i \in DOMAIN traced} = {}
  /\ Live \cup {traced[i].req : i \in DOMAIN traced} = 1 .. next - 1

\* The pipeline works through its dataset as a RequestPool does, and to the
\* end unless it fails.
Pool == INSTANCE RequestPool WITH
  Capacity <- Batch, serving <- Live,
  served <- {traced[i].req : i \in DOMAIN traced}, over <- stage = "over"
ImplementsRequestPool ==
  Pool!Spec /\ (Pool!Completes \/ <>(stage = "failed"))
=============================================================================
