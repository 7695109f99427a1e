----------------------------- MODULE HybridCache -----------------------------
(***************************************************************************)
(* The cache of a model of which some layers are recurrent                 *)
(* (model/cache.py's HybridCache, and how model/qwen3_5.py reads it).      *)
(*                                                                         *)
(* Its attention layers see a tree through the slots of DraftTree's cache. *)
(* A linear layer has one state, into which the committed slots            *)
(* 0 .. commit_len - 1 are folded, and adds to it what the slots behind    *)
(* them hold of a node's ancestors; a slot of zeros adds nothing.  The     *)
(* state is the tokens folded into it, in order.  What a node's causal     *)
(* convolution reads of its nearest ancestors travels with the slots.      *)
(***************************************************************************)
EXTENDS DraftTree

States   == [commit_len : 0 .. MaxLen, text : Seq(Tokens)]
NoState  == [commit_len |-> 0, text |-> << >>]

\* The uncommitted slots a row attends to.
Window(row, state) == {j \in row : j >= state.commit_len}

\* The tokens of the slots of a set that hold something, in ascending order.
FoldedTokens(kv, S) ==
  LET filled == {j \in S : kv[j] # NoKV}
      Token(context) == context[Len(context)]
  IN  [k \in 1 .. Cardinality(filled) |-> Token(kv[Nth(filled, k - 1)])]

\* What the slots hold for the linear layers once a pass over `batch' has written
\* its own nodes'.
Seen(tr, kv, batch) == [j \in Slots |-> IF j \in batch THEN << tr[j].tok >> ELSE kv[j]]

\* What the linear layers see at node i of such a pass.
Recurrent(tr, kv, state, batch, i) ==
  state.text \o FoldedTokens(Seen(tr, kv, batch), Window(tr[i].row, state))

\* A forward pass over a tree: a node's result is that of its context if both
\* kinds of layers saw that context.
HybridForwardKV(tr, kv, state, batch) ==
  LET attended == ForwardKV(tr, kv, batch)
  IN  [n \in Slots |->
         IF n \in batch /\ Recurrent(tr, kv, state, batch, n) # Along(tr, tr[n].row)
         THEN NoKV ELSE attended[n]]

\* A prefill is a causal pass over the slots 0 .. n - 1, with which it commits.
PrefilledState(text, n) == [commit_len |-> n, text |-> SubSeq(text, 1, n)]

\* A mutant of Commit: the length is not moved.
CommitUncounted(state, kv, newLen) ==
  [state EXCEPT !.text = @ \o FoldedTokens(kv, state.commit_len .. newLen - 1)]

\* Fold the slots up to newLen into the state.
Commit(state, kv, newLen) ==
  IF newLen = state.commit_len THEN state
  ELSE [commit_len |-> newLen,
        text |-> state.text \o FoldedTokens(kv, state.commit_len .. newLen - 1)]

\* A committed slot cannot be taken back: commit raises.
CanCommit(state, newLen) == newLen >= state.commit_len

\* Compaction to the slots `src', from slot 0 on, commits them.
HybridGather(kv, state, src) == Commit(state, GatherKV(kv, src), Cardinality(src))

\* What is kept of a row between two batches: the committed part, which restore
\* puts back into an empty row.
Snapshot(kv, state) == [n \in Slots |-> IF n < state.commit_len THEN kv[n] ELSE NoKV]
=============================================================================
