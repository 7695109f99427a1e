----------------------------- MODULE AutoBatch -----------------------------
(* The auto-regressive baseline (src/script/auto_batch.py): a batch of rows,  *)
(* one token per row and step, each row given the next request as soon as   *)
(* its own is complete.  A token is only known to be the end of sequence or *)
(* not.  position_ids, cache_seq_indices and offset are assigned together   *)
(* and always equal: one field, offset.  Rows without a request go through  *)
(* the model like all others.                                               *)
EXTENDS Integers, Sequences, FiniteSets

CONSTANTS
  Loads,         \* batch size, prompt lengths, sample_req_cnt, max_new_tokens
  Slots          \* slots of a row, 0..max_len - 1: no request reaches the end

VARIABLES
  load,          \* the one that runs, NotLoaded at first
  rows,          \* request, offset, generated_cnt, attention mask and KV cache
  curr,          \* curr_req_idx
  steps,         \* steps logged for every request
  tokens,        \* tokens generated for every request: a history of what the
                 \* rows forget when they are cleared, nothing reads it
  completed,     \* requests that were completed
  returned       \* main has returned

batchVars == <<load, rows, curr, steps, tokens, completed, returned>>

NotLoaded == [batch |-> 0, prompts |-> <<>>, sample |-> 1, maxNew |-> 0]
NoRequest == -1
Empty     == -2

NumPrompts(l)     == Len(l.prompts)

\* Mutant: the last prompt, which need not be sampled.
LastPrompt(l)     == NumPrompts(l) - 1

LastRequest(l)    == ((NumPrompts(l) - 1) \div l.sample) * l.sample
Sampled(l)        == {r \in 0..NumPrompts(l) - 1 : r % l.sample = 0}
PromptEnd(l, req) == l.prompts[req + 1] - 1

NewRow == [req |-> NoRequest, offset |-> 0, count |-> 0, mask |-> {},
           kv |-> [i \in Slots |-> Empty]]

Init ==
  /\ load = NotLoaded
  /\ rows = <<>> /\ curr = 0 /\ steps = <<>> /\ tokens = <<>>
  /\ completed = {} /\ returned = FALSE

Load(l) ==
  /\ load = NotLoaded
  /\ load' = l
  /\ rows' = [b \in 1..l.batch |-> NewRow]
  /\ steps' = [i \in 1..NumPrompts(l) |-> 0]
  /\ tokens' = [i \in 1..NumPrompts(l) |-> 0]
  /\ UNCHANGED <<curr, completed, returned>>

-----------------------------------------------------------------------------
(* Free rows take the next requests, in the order of the rows.              *)

Free(b) == rows[b].req = NoRequest

\* Mutant: the position of a row in the batch, busy rows counted.
NextRequestByRow(b) == curr + load.sample * (b - 1)

NextRequest(b) ==
  curr + load.sample * Cardinality({i \in 1..b - 1 : Free(i)})

Admits(b) == Free(b) /\ NextRequest(b) < NumPrompts(load)

\* _prefill writes the whole prompt; its last token is fed to the first step.
Prefilled(row, req) ==
  LET end == PromptEnd(load, req)
  IN  [row EXCEPT !.req = req, !.offset = end, !.mask = @ \cup 0..end,
                  !.kv = [i \in Slots |-> IF i <= end THEN req ELSE @[i]]]

Filled == [b \in 1..load.batch |->
             IF Admits(b) THEN Prefilled(rows[b], NextRequest(b)) ELSE rows[b]]

(* One forward pass.  attention_mask[:, 0, 0, offset] has a slice where the  *)
(* row index would be: every row gets the columns of all rows.              *)
Forwarded(filled) ==
  LET columns == {filled[b].offset + 1 : b \in 1..load.batch}
  IN  [b \in 1..load.batch |->
         [filled[b] EXCEPT !.kv[filled[b].offset] = filled[b].req,
                           !.offset = @ + 1, !.count = @ + 1,
                           !.mask = @ \cup columns]]

-----------------------------------------------------------------------------
(* Rows in order: a step is logged for each request, and a complete one      *)
(* leaves its row; with the last request main returns, whatever the other   *)
(* rows still have to do.                                                   *)

Complete(row, eos) == row.count >= load.maxNew \/ eos

\* Mutant: the mask is not cleared with the rest of the row.
ClearedButMask(row) == [NewRow EXCEPT !.kv = row.kv, !.mask = row.mask]

Cleared(row) == [NewRow EXCEPT !.kv = row.kv]

Iterate(eos) ==
  LET after      == Forwarded(Filled)
      Busy(b)    == after[b].req # NoRequest
      Ends(b)    == Busy(b) /\ Complete(after[b], b \in eos)
      Final(b)   == Ends(b) /\ after[b].req >= LastRequest(load)
      reached(b) == ~\E i \in 1..b - 1 : Final(i)
      looked     == {b \in 1..load.batch : Busy(b) /\ reached(b)}
      ended      == {b \in looked : Ends(b)}
  IN  /\ load # NotLoaded /\ ~returned
      /\ \A b \in 1..load.batch : rows[b].count < load.maxNew   \* or scatter_ fails
      /\ rows' = [b \in 1..load.batch |-> IF b \in ended THEN Cleared(after[b]) ELSE after[b]]
      /\ curr' = curr + load.sample * Cardinality({b \in 1..load.batch : Admits(b)})
      /\ steps' = [i \in DOMAIN steps |->
                     IF \E b \in looked : after[b].req = i - 1 THEN steps[i] + 1 ELSE steps[i]]
      /\ tokens' = [i \in DOMAIN tokens |->
                      IF \E b \in 1..load.batch : after[b].req = i - 1 THEN tokens[i] + 1 ELSE tokens[i]]
      /\ completed' = completed \cup {after[b].req : b \in ended}
      /\ returned' = \E b \in looked : Final(b)
      /\ UNCHANGED load

Next == (\E l \in Loads : Load(l)) \/ \E eos \in SUBSET (1..load.batch) : Iterate(eos)

Spec == Init /\ [][Next]_batchVars
FairSpec == Spec /\ WF_batchVars(Next)

-----------------------------------------------------------------------------
(* Properties.                                                             *)

TypeOK ==
  /\ load \in Loads \cup {NotLoaded}
  /\ \A b \in 1..Len(rows) :
       /\ rows[b].req \in {NoRequest} \cup Sampled(load)
       /\ rows[b].offset \in Slots /\ rows[b].count \in Nat /\ rows[b].mask \subseteq Slots
       /\ rows[b].kv \in [Slots -> {NoRequest, Empty} \cup Sampled(load)]
  /\ curr \in Nat /\ {steps, tokens} \subseteq [DOMAIN load.prompts -> Nat]
  /\ completed \subseteq Sampled(load) /\ returned \in BOOLEAN

\* The next step of a request attends to all of its own text, and the cache
\* holds that text and nothing a row's former request or an idle pass left.
\* With a single row it attends to nothing else.
AttendsOwnText ==
  \A b \in 1..Len(rows) :
    rows[b].req # NoRequest =>
      /\ 0..rows[b].offset \subseteq rows[b].mask
      /\ \A i \in 0..rows[b].offset - 1 : rows[b].kv[i] = rows[b].req
      /\ load.batch = 1 => rows[b].mask = 0..rows[b].offset

\* Every sampled request waits, is in exactly one row, or was completed with
\* no more tokens than it may have, and the log has a step for each of its
\* tokens.  main returns with the last request, when none waits any more: what
\* other rows still have is then cut off, and may lack its last step in the
\* log, although main says "All requests completed."
RequestsAccountedFor ==
  /\ \A r \in Sampled(load) :
       LET at == {b \in 1..Len(rows) : rows[b].req = r}
       IN  /\ Cardinality(at) = IF r < curr /\ r \notin completed THEN 1 ELSE 0
           /\ r \in completed => r < curr /\ tokens[r + 1] \in 1..load.maxNew
           /\ \A b \in at : tokens[r + 1] = rows[b].count
           /\ \/ steps[r + 1] = tokens[r + 1]
              \/ returned /\ at # {} /\ steps[r + 1] = tokens[r + 1] - 1
           /\ returned => r < curr
  /\ returned => LastRequest(load) \in completed

\* main returns: rows that idle while the last requests are generated are
\* stepped too, but not so often that generated_tokens has no column left.
BaselineReturns == load # NotLoaded ~> returned

=============================================================================
