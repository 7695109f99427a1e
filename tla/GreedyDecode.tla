---------------------------- MODULE GreedyDecode ----------------------------
(***************************************************************************)
(* What speculative decoding promises: the text the target model would     *)
(* decode greedily on its own, or the recorded trace of it followed by     *)
(* end-of-sequence tokens, a few tokens at a time.  Decoding stops with    *)
(* the first verification but the first that confirms an end-of-sequence   *)
(* token, and otherwise as soon as max_new_tokens tokens have followed     *)
(* those of the first.                                                     *)
(***************************************************************************)
EXTENDS Naturals, Sequences

CONSTANTS
  Target(_),   \* the target model's next token after a context
  Prompt, MaxNew, Eos,
  Recordings   \* the traces there may be

VARIABLES
  reach,       \* the most tokens one verification can confirm
  text,
  trace,       \* the trace that is replayed, or the empty sequence
  warmup,      \* the number of tokens the first verification confirmed
  finished

vars == <<reach, text, trace, warmup, finished>>

NextToken(context) ==
  IF trace = << >> THEN Target(context)
  ELSE IF Len(context) < Len(trace) THEN trace[Len(context) + 1] ELSE Eos

\* The next text is this one after n more steps of greedy decoding.
Decodes(n) ==
  /\ Len(text') = Len(text) + n
  /\ \A k \in 1 .. Len(text) : text'[k] = text[k]
  /\ \A k \in Len(text) + 1 .. Len(text) + n : text'[k] = NextToken(SubSeq(text', 1, k - 1))

Ends(n) ==
  \/ Len(text) + n >= Len(Prompt) + warmup' + MaxNew
  \/ warmup # 0 /\ \E k \in Len(text) + 1 .. Len(text) + n : text'[k] = Eos

Init ==
  /\ reach \in Nat \ {0}
  /\ text = Prompt /\ warmup = 0 /\ finished = FALSE
  /\ trace \in Recordings \cup {<< >>}

Verify ==
  /\ ~finished
  /\ \E n \in 1 .. reach :
       /\ Decodes(n)
       /\ warmup' = IF warmup = 0 THEN n ELSE warmup
       /\ finished' = Ends(n)
  /\ UNCHANGED <<reach, trace>>

Spec == Init /\ [][Verify]_vars
Finishes == <>finished
=============================================================================
