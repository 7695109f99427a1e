----------------------------- MODULE DraftTree -----------------------------
(***************************************************************************)
(* The token tree a client drafts into (specedge/tree.py), the operations  *)
(* that reconcile it with a verdict of the server (client/reorder.py), and *)
(* the two caches that must follow it slot by slot (model/cache.py).       *)
(*                                                                         *)
(* A tree is a function from slots to nodes; prefix_len and end travel     *)
(* beside it.  Slots below prefix_len hold the confirmed sequence, the     *)
(* slots of prefix_len .. end-1 the draft, and the slots from end on are   *)
(* the scratch space of the overlap strategies.  `row' is the node's row   *)
(* of the attention mask: the slots it attends to.  Log-probabilities are  *)
(* left out; every choice they make is a choice of the model.              *)
(***************************************************************************)
EXTENDS Integers, FiniteSets, Sequences, FiniteSetsExt

CONSTANTS
  MaxLen,    \* slots of the tree and of the caches (max_len)
  NTokens    \* size of the vocabulary

ASSUME SizesAssumption == MaxLen \in Nat \ {0} /\ NTokens \in Nat \ {0}

Slots  == 0 .. MaxLen - 1
Tokens == 0 .. NTokens - 1

PROMPT         == 0
GENERATED      == 5
PROCESSED      == 10
CANDIDATE      == 15
POST_CANDIDATE == 20
POST_PROCESSED == 25
Status == {PROMPT, GENERATED, PROCESSED, CANDIDATE, POST_CANDIDATE, POST_PROCESSED}

\* The root of a branch spliced in where nothing was accepted has parent -1.
Nodes == [tok : Tokens, par : Slots \cup {-1}, pos : Nat, st : Status, row : SUBSET Slots]
Blank == [tok |-> 0, par |-> 0, pos |-> 0, st |-> PROMPT, row |-> {}]

\* The elements of a set of numbers in ascending order, as torch.where lists
\* them: Rank is the place of x, Nth the element at a place.
Rank(S, x) == Cardinality({y \in S : y < x})
Nth(S, n)  == CHOOSE x \in S : Rank(S, x) = n

\* The slots of a tree that have a given status, the whole array searched.
WithStatus(tr, s) == {n \in Slots : tr[n].st = s}

----------------------------------------------------------------------------
(* Tree *)

\* A proposed child is the number parent * NTokens + token, so that a set of
\* proposals has the order of the flattened beams.
Key(parent, token) == parent * NTokens + token
ParentOf(key)      == key \div NTokens
TokenOf(key)       == key % NTokens

\* The tree of a request before anything is drafted: the last token of the
\* prompt is the first candidate.
PromptTree(prompt) ==
  [n \in Slots |->
     IF n < Len(prompt)
     THEN [tok |-> prompt[n + 1], par |-> IF n = 0 THEN 0 ELSE n - 1, pos |-> n,
           st |-> IF n = Len(prompt) - 1 THEN CANDIDATE ELSE PROMPT, row |-> 0 .. n]
     ELSE Blank]

\* Append the proposed children at end, each attending to what its parent
\* attends to and to itself.
Add(tr, end, keys, status) ==
  LET Child(n) == LET key == Nth(keys, n - end)
                      par == ParentOf(key)
                  IN  [tok |-> TokenOf(key), par |-> par, pos |-> tr[par].pos + 1,
                       st |-> status, row |-> (tr[par].row \cap 0 .. end - 1) \cup {n}]
  IN  [n \in Slots |-> IF n \in end .. end + Cardinality(keys) - 1 THEN Child(n) ELSE tr[n]]

\* Move the kept draft nodes to the slots `dest' gives them, their columns of
\* the mask with them.  What lay behind them keeps its data but not its mask.
GatherTree(tr, kept, dest, newEnd) ==
  LET Interim(s) == IF s \in kept THEN dest[s] ELSE s
      Parent(s)  == IF s \in kept THEN Interim(tr[s].par) ELSE tr[s].par
      Moved      == {dest[s] : s \in kept}
      Row(s)     == {dest[c] : c \in tr[s].row \cap kept} \cup (tr[s].row \ Moved)
  IN  [n \in Slots |->
         IF n \in Moved
         THEN LET s == CHOOSE x \in kept : dest[x] = n
              IN  [tr[s] EXCEPT !.par = Parent(s),
                                !.row = {c \in Row(s) : c < newEnd}]
         ELSE IF n < newEnd THEN tr[n]
         ELSE [tr[n] EXCEPT !.par = Parent(n), !.row = {}]]

\* Node n of the verified path `seq', in the first slots of the tree.
PathNode(tr, seq, prefixLen, n) ==
  IF n < prefixLen
  THEN [tr[n] EXCEPT !.st = PROMPT, !.row = 0 .. n]
  ELSE [tok |-> tr[Nth(seq, n)].tok, par |-> n - 1, pos |-> n, st |-> PROMPT, row |-> 0 .. n]

ReorderBySequence(tr, seq, prefixLen) ==
  [n \in Slots |-> IF n < Cardinality(seq) THEN PathNode(tr, seq, prefixLen, n) ELSE Blank]

----------------------------------------------------------------------------
(* What the scores of a draft model may choose *)

Topk(S, k) == IF Cardinality(S) > k THEN kSubset(k, S) ELSE {S}

\* The children proposed for the beams: `width' tokens each.
Proposals(beams, width) ==
  {{Key(b, t) : b \in beams, t \in Tokens} \cap
     UNION {{Key(b, t) : t \in f[b]} : b \in beams} :
        f \in [beams -> kSubset(width, Tokens)]}

\* Where a best set `kept' of draft nodes goes, from slot `from' on: torch.topk
\* lists it in the order of the slots, its lowest score last.
TopkOrder(kept, lowest, from) ==
  [s \in kept |-> from + IF s = lowest THEN Cardinality(kept) - 1
                         ELSE Rank(kept \ {lowest}, s)]

----------------------------------------------------------------------------
(* reorder.py *)

\* The server's own token becomes the root of the next draft tree, at `end'.
AppendBonus(tr, end, token) == Add(tr, end, {Key(end - 1, token)}, CANDIDATE)

\* The root each node of a scratch forest descends from; -1 for an orphan.
ForestRoot(tr, start, end, roots) ==
  LET root[n \in start .. end - 1] ==
        IF n \in roots THEN n
        ELSE IF tr[n].par \in start .. n - 1 THEN root[tr[n].par] ELSE -1
  IN  root

\* What becomes of a scratch status in the tree the branch is spliced into.
Settled(s) == CASE s = POST_CANDIDATE -> CANDIDATE
                [] s = POST_PROCESSED -> PROCESSED
                [] OTHER -> s

\* Keep the verified path and append the scratch nodes of `branch' to it.
\* The branch's root becomes the last confirmed token.  (The code leaves the
\* mask behind the new end as it was; Add writes a row before it is read.)
Splice(tr, seq, branch, prefixLen) ==
  LET len     == Cardinality(seq)
      dest(s) == len + Rank(branch, s)
      Node(s) ==
        [tr[s] EXCEPT
           !.par = IF @ \in branch THEN dest(@)
                   ELSE IF @ \in seq /\ @ >= prefixLen THEN Rank(seq, @) ELSE -1,
           !.st  = IF dest(s) \in {len, len + 1} THEN PROCESSED ELSE Settled(@),
           !.row = (0 .. len) \cup {dest(c) : c \in @ \cap branch}]
  IN  [n \in Slots |->
         IF n < len THEN PathNode(tr, seq, prefixLen, n)
         ELSE IF n < len + Cardinality(branch) THEN Node(Nth(branch, n - len))
         ELSE Blank]

\* Put the settled leaves behind the confirmed sequence back on the frontier.
ReopenLeaves(tr, prefixLen, end) ==
  LET parents == {tr[n].par : n \in prefixLen .. end - 1}
  IN  [n \in Slots |->
         IF n \in prefixLen - 1 .. end - 1 /\ n \notin parents /\ tr[n].st = PROCESSED
         THEN [tr[n] EXCEPT !.st = CANDIDATE] ELSE tr[n]]

----------------------------------------------------------------------------
(* The caches.  A slot holds the context (the tokens up to and including   *)
(* its own) its key and value were computed from, or NoKV: zeros, or       *)
(* values computed from anything else.                                     *)

NoKV    == << >>
NoCache == [n \in Slots |-> NoKV]

\* The tokens a row attends to, in the order of their positions.
Along(tr, row) ==
  [p \in 1 .. Cardinality(row) |-> tr[CHOOSE j \in row : tr[j].pos = p - 1].tok]

\* What a forward pass over the nodes of `batch' computes at node i.  It reads
\* the cached slots of i's row: the result is i's context only if these hold
\* the contexts of i's ancestors, each at its position.
Computed(tr, kv, batch, i) ==
  LET row     == tr[i].row
      context == Along(tr, row)
      chain   == /\ {tr[j].pos : j \in row} = 0 .. Cardinality(row) - 1
                 /\ tr[i].pos = Cardinality(row) - 1
                 /\ \A j \in row \cap batch :
                       tr[j].row = {k \in row : tr[k].pos <= tr[j].pos}
  IN  IF chain /\ \A j \in row \ batch : kv[j] = SubSeq(context, 1, tr[j].pos + 1)
      THEN context ELSE NoKV

\* The cache after a forward pass: the nodes' own slots are written.
ForwardKV(tr, kv, batch) ==
  [n \in Slots |-> IF n \in batch THEN Computed(tr, kv, batch, n) ELSE kv[n]]

\* Compaction of a cache to the slots of `src', in ascending order, from 0 on;
\* everything behind is zeroed.
GatherKV(kv, src) ==
  [n \in Slots |-> IF n < Cardinality(src) THEN kv[Nth(src, n)] ELSE NoKV]

\* The same for kept draft nodes that move to the slots `dest' gives them.
MoveKV(kv, kept, dest, newEnd) ==
  [n \in Slots |->
     IF \E s \in kept : dest[s] = n THEN kv[CHOOSE s \in kept : dest[s] = n]
     ELSE IF n < newEnd THEN kv[n] ELSE NoKV]
=============================================================================
