---------------------------- MODULE PromptCache ----------------------------
(* The prompts that a batch server pre-computes when it starts, and keeps    *)
(* in files for the servers after it (_cache_prefill, grpc.py).  A server    *)
(* reads the files of a prompt if all of them are there; otherwise it       *)
(* prefills the prompt and writes them, one after the other.  A write takes *)
(* time: until it ends the file is there and cannot be loaded.  Servers of  *)
(* a sweep follow one another; one that was not ended properly may still    *)
(* be at work when the next one starts, and any of them may be killed.      *)
(* What differs between servers is the model, and which prompts they take.  *)
EXTENDS Integers, Sequences, SequencesExt, Functions

CONSTANTS
  NumServers,    \* how many are started, one after the other
  DatasetSize,   \* prompts in the dataset
  Configs,       \* model, cache_prefill, req_offset, sample_req_cnt, max_request_num
  HybridModels,  \* those with a recurrent state
  MaxKills

VARIABLES
  disk,          \* content of the files
  proc,          \* the inference process of every server
  kills

cacheVars == <<disk, proc, kills>>

\* The files of a prompt, in the order in which they are written.
Kinds(model) == IF model \in HybridModels THEN <<"state">> ELSE <<"key", "value">>

FileName(c, req, kind) == <<c.model, req, kind>>

AllModels == {c.model : c \in Configs}
Files == UNION {{<<m, req, kind>> : req \in 0..DatasetSize - 1, kind \in ToSet(Kinds(m))}
                : m \in AllModels}

(* A file that is being written, or whose writer was killed, is known by the *)
(* server that opened it last: its bytes are complete when that one is done. *)
NoFile      == [at |-> "nowhere"]
Torn(s)     == [at |-> "writer", by |-> s]
Whole(c, req, kind) == [at |-> "file", of |-> <<c.model, req, kind>>]

Loadable(file) == disk[file].at = "file"

\* range(DatasetSize)[req_offset:end][::sample_req_cnt].
Places(c, end) ==
  IF c.offset < end THEN (end - c.offset - 1) \div c.sample + 1 ELSE 0
FromOffset(c, end) == [i \in 1..Places(c, end) |-> c.offset + (i - 1) * c.sample]

\* What a server prepares, and what a client asks it for: the same up to
\* max_request_num, of which -1 means no limit.
LastAsked(c) == IF c.max \in 0..DatasetSize THEN c.max ELSE DatasetSize
Selected(c)  == IF c.cache THEN FromOffset(c, DatasetSize) ELSE <<>>
AskedFor(c)  == IF c.cache THEN ToSet(FromOffset(c, LastAsked(c))) ELSE {}

NotStarted == [pc |-> "none"]

Init ==
  /\ disk = [file \in Files |-> NoFile]
  /\ proc = [s \in 1..NumServers |-> NotStarted]
  /\ kills = 0

Start(s, c) ==
  /\ proc[s] = NotStarted /\ \A t \in 1..s - 1 : proc[t] # NotStarted
  /\ proc' = [proc EXCEPT ![s] = [pc |-> "loading", config |-> c, todo |-> Selected(c),
                                  saving |-> <<>>, held |-> <<>>, torn |-> 0]]
  /\ UNCHANGED <<disk, kills>>

-----------------------------------------------------------------------------
(* A server at work on the first prompt it has left.                        *)

FilesOf(s) ==
  LET c == proc[s].config
  IN  {FileName(c, Head(proc[s].todo), kind) : kind \in ToSet(Kinds(c.model))}

\* Mutant: one file of the two is enough.
AnyExists(s) == \E file \in FilesOf(s) : disk[file] # NoFile

AllExist(s) == \A file \in FilesOf(s) : disk[file] # NoFile

AtPrompt(s) == proc[s].pc = "loading" /\ proc[s].todo # <<>>

Holding(s, contents) ==
  [r \in DOMAIN proc[s].held \cup {Head(proc[s].todo)} |->
     IF r = Head(proc[s].todo) THEN contents ELSE proc[s].held[r]]

LoadPrompt(s) ==
  /\ AtPrompt(s) /\ AllExist(s)
  /\ IF \A file \in FilesOf(s) : Loadable(file)
     THEN proc' = [proc EXCEPT ![s].held = Holding(s, {disk[file] : file \in FilesOf(s)}),
                               ![s].todo = Tail(@)]
     ELSE \E file \in {f \in FilesOf(s) : ~Loadable(f)} :
            proc' = [proc EXCEPT ![s].pc = "failed",
                                 ![s].torn = IF disk[file] = NoFile THEN 0 ELSE disk[file].by]
  /\ UNCHANGED <<disk, kills>>

\* The prompt is prefilled on an empty cache.
PrefillPrompt(s) ==
  LET c == proc[s].config
  IN  /\ AtPrompt(s) /\ ~AllExist(s)
      /\ proc' = [proc EXCEPT
           ![s].held = Holding(s, {Whole(c, Head(proc[s].todo), kind) : kind \in ToSet(Kinds(c.model))}),
           ![s].saving = Kinds(c.model), ![s].pc = "saving"]
      /\ UNCHANGED <<disk, kills>>

Saving(s) == FileName(proc[s].config, Head(proc[s].todo), Head(proc[s].saving))

\* torch.save opens the file, which empties it, and ...
OpenFile(s) ==
  /\ proc[s].pc = "saving"
  /\ disk' = [disk EXCEPT ![Saving(s)] = Torn(s)]
  /\ proc' = [proc EXCEPT ![s].pc = "writing"]
  /\ UNCHANGED kills

\* ... is done with it.
CloseFile(s) ==
  LET p == proc[s]
      last == Len(p.saving) = 1
  IN  /\ p.pc = "writing"
      /\ disk' = [disk EXCEPT ![Saving(s)] =
                    IF @ = Torn(s) THEN Whole(p.config, Head(p.todo), Head(p.saving)) ELSE @]
      /\ proc' = [proc EXCEPT ![s].saving = Tail(@),
                              ![s].todo = IF last THEN Tail(@) ELSE @,
                              ![s].pc = IF last THEN "loading" ELSE "saving"]
      /\ UNCHANGED kills

ServerReady(s) ==
  /\ proc[s].pc = "loading" /\ proc[s].todo = <<>>
  /\ proc' = [proc EXCEPT ![s].pc = "ready"]
  /\ UNCHANGED <<disk, kills>>

\* A process that loads does not look at its queue: cleanup ends it by
\* terminate, as a crash of the box would.
Killed(s) ==
  /\ proc[s].pc \in {"loading", "saving", "writing"} /\ kills < MaxKills
  /\ kills' = kills + 1
  /\ proc' = [proc EXCEPT ![s].pc = "killed"]
  /\ UNCHANGED disk

Next ==
  \E s \in 1..NumServers :
    \/ \E c \in Configs : Start(s, c)
    \/ LoadPrompt(s) \/ PrefillPrompt(s) \/ OpenFile(s) \/ CloseFile(s)
    \/ ServerReady(s) \/ Killed(s)

Spec == Init /\ [][Next]_cacheVars

-----------------------------------------------------------------------------
(* Properties.                                                             *)

Started == {s \in 1..NumServers : proc[s] # NotStarted}

TypeOK ==
  /\ disk \in [Files -> {NoFile} \cup {Torn(s) : s \in 1..NumServers}
                        \cup {[at |-> "file", of |-> file] : file \in Files}]
  /\ \A s \in Started :
       LET p == proc[s]
       IN  /\ p.pc \in {"loading", "saving", "writing", "ready", "failed", "killed"}
           /\ p.config \in Configs /\ IsSuffix(p.todo, Selected(p.config))
           /\ IsSuffix(p.saving, Kinds(p.config.model))
           /\ p.torn \in 0..NumServers
           /\ DOMAIN p.held \subseteq 0..DatasetSize - 1
  /\ kills \in 0..MaxKills

\* Whatever servers were killed and whichever other servers used the files:
\* a server that is ready holds, for every request its clients may send, both
\* halves of the state of that very prompt by its own model; what it computed
\* is in the files for those after it, or another server is at it; and only
\* a file that another server has not finished stops a server from starting:
\* one that was killed between two files does no harm.
PromptsSurviveRestarts ==
  \A s \in Started :
    LET p == proc[s]
        m == p.config.model
    IN  /\ p.pc = "ready" =>
             \A req \in AskedFor(p.config) :
               /\ req \in DOMAIN p.held
               /\ p.held[req] = {Whole(p.config, req, kind) : kind \in ToSet(Kinds(m))}
               /\ \A kind \in ToSet(Kinds(m)) :
                    LET content == disk[<<m, req, kind>>]
                    IN  content # NoFile /\ content # Torn(s)
        /\ p.pc = "failed" => p.torn \in (1..NumServers) \ {s}
=============================================================================
