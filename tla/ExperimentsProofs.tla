------------------------- MODULE ExperimentsProofs -------------------------
(***************************************************************************)
(* Theorems about the programs around the server, composed as              *)
(* MCExperiments composes them: the sweep drivers (whose invariants are    *)
(* SweepProofs'), the servers' files of pre-computed prompts, for any      *)
(* dataset and any number of servers and kills, and the auto-regressive    *)
(* baseline, for any load.                                                 *)
(***************************************************************************)
EXTENDS MCExperiments, SweepProofs, SequenceTheorems, FiniteSetTheorems

-----------------------------------------------------------------------------
(* PromptCache: the inductive invariant.                                    *)

Requests == 0..DatasetSize - 1

Contents == {[at |-> "file", of |-> file] : file \in Cache!Files}
Torns    == {Cache!Torn(s) : s \in 1..NumServers}

\* Where the prompts of a model are, and what a server that has one holds.
FileSet(m, req)     == {<<m, req, kind>> : kind \in ToSet(Cache!Kinds(m))}
StateOf(m, req)     == {[at |-> "file", of |-> file] : file \in FileSet(m, req)}

\* What is still to be saved of a prompt.
Rests(m) == {r \in {<<>>, <<"state">>, <<"value">>, <<"key", "value">>} :
               ToSet(r) \subseteq ToSet(Cache!Kinds(m))}

Stages == {"loading", "saving", "writing", "ready", "failed", "killed"}

HeldPrompts == UNION {[R -> SUBSET Contents] : R \in SUBSET Requests}

ProcessType ==
  [pc : Stages, config : Configs, todo : Seq(Requests), saving : Seq({"state", "key", "value"}),
   held : HeldPrompts, torn : 0..NumServers]

SavingOf(p) == <<p.config.model, Head(p.todo), Head(p.saving)>>

\* The files are those of a model and a prompt; one that is being written, or
\* was when its writer was killed, is known as such by its last writer.
FilesInv ==
  /\ disk \in [Cache!Files -> {Cache!NoFile} \cup Torns \cup Contents]
  /\ \A file \in Cache!Files : disk[file].at = "file" => disk[file].of = file
  /\ \A file \in Cache!Files, s \in 1..NumServers :
       disk[file] = Cache!Torn(s) =>
         proc[s].pc = "killed" \/ (proc[s].pc = "writing" /\ file = SavingOf(proc[s]))

\* Server s, whose process is p, has prepared a prompt, and saved a file among
\* the files d.
Prepared(p, req)  == req \in DOMAIN p.held /\ p.held[req] = StateOf(p.config.model, req)
Saved(s, d, file) == d[file] # Cache!NoFile /\ d[file] # Cache!Torn(s)

\* The prompts left to a server are the rest of its selection.
Done(p)    == Len(Cache!Selected(p.config)) - Len(p.todo)
IsRest(p)  == LET all == Cache!Selected(p.config)
              IN  /\ Len(p.todo) <= Len(all)
                  /\ \A i \in 1..Len(p.todo) : p.todo[i] = all[Done(p) + i]

\* It has prepared and saved those it is done with.
HasPrepared(s, p, d) ==
  \A i \in 1..Done(p) :
    LET req == Cache!Selected(p.config)[i]
    IN  Prepared(p, req) /\ \A file \in FileSet(p.config.model, req) : Saved(s, d, file)

\* It saves one it has prepared, a file after the other.
IsSaving(s, p, d) ==
  LET m == p.config.model
  IN  /\ p.todo # <<>> /\ p.saving # <<>> /\ Prepared(p, Head(p.todo))
      /\ \A kind \in ToSet(Cache!Kinds(m)) \ ToSet(p.saving) :
           Saved(s, d, <<m, Head(p.todo), kind>>)
      /\ p.pc = "writing" => d[SavingOf(p)] # Cache!NoFile

ProcessInv(s, p, d) ==
  /\ p \in ProcessType /\ IsRest(p) /\ HasPrepared(s, p, d)
  /\ p.saving \in Rests(p.config.model)
  /\ p.pc \in {"saving", "writing"} => IsSaving(s, p, d)
  /\ p.pc = "ready" => p.todo = <<>>
  /\ p.pc = "failed" => p.torn \in (1..NumServers) \ {s}

CacheInv ==
  /\ kills \in 0..MaxKills
  /\ proc = [s \in 1..NumServers |-> proc[s]]
  /\ FilesInv
  /\ \A s \in 1..NumServers : proc[s] = Cache!NotStarted \/ ProcessInv(s, proc[s], disk)

-----------------------------------------------------------------------------
(* Slices of the dataset.                                                   *)

LEMMA Products ==
  ASSUME NEW i \in Nat, NEW j \in Nat, NEW k \in Nat \ {0}, i < j
  PROVE  i * k + k <= j * k /\ i * k < j * k
<1> DEFINE d == (j - i) - 1
<1>1. d \in Nat /\ j = i + 1 + d
  OBVIOUS
<1> HIDE DEF d
<1>2. j * k = i * k + k + d * k
  BY <1>1
<1>3. d * k \in Nat /\ i * k \in Nat
  BY <1>1
<1>4. QED
  BY <1>2, <1>3

LEMMA Quotients ==
  ASSUME NEW x \in Nat, NEW y \in Nat, NEW k \in Nat \ {0}, x <= y
  PROVE  x \div k \in Nat /\ (x \div k) * k <= x /\ x \div k <= y \div k
<1> DEFINE p == x \div k
           q == y \div k
<1>1. p \in Nat /\ q \in Nat /\ p * k <= x /\ y < q * k + k
  OBVIOUS
<1> HIDE DEF p, q
<1>2. ASSUME q < p
      PROVE  FALSE
  <2>1. q * k + k <= p * k
    BY <1>1, <1>2, Products
  <2>2. p * k \in Nat /\ q * k \in Nat
    BY <1>1
  <2>3. QED
    BY <1>1, <2>1, <2>2
<1>3. QED
  BY <1>1, <1>2 DEF p, q

\* A slice has its elements in the dataset, each once, and a shorter slice has
\* no others.
LEMMA SliceFacts ==
  ASSUME NEW c \in Configs, NEW end \in 0..DatasetSize
  PROVE  /\ Cache!Places(c, end) \in Nat
         /\ Cache!Places(c, end) <= Cache!Places(c, DatasetSize)
         /\ \A i \in 1..Cache!Places(c, end) : c.offset + (i - 1) * c.sample \in 0..end - 1
<1>1. /\ DatasetSize \in Nat /\ end \in Nat /\ c.offset \in Nat /\ c.sample \in Nat \ {0}
  BY ServersAssumption
<1>2. CASE c.offset < end
  <2> DEFINE x == (end - c.offset) - 1
             y == (DatasetSize - c.offset) - 1
  <2>1. x \in Nat /\ y \in Nat /\ x <= y /\ c.offset + x = end - 1 /\ c.offset < DatasetSize
    BY <1>1, <1>2
  <2> HIDE DEF x, y
  <2>2. x \div c.sample \in Nat /\ (x \div c.sample) * c.sample <= x /\ x \div c.sample <= y \div c.sample
    BY <1>1, <2>1, Quotients
  <2>3. /\ Cache!Places(c, end) = x \div c.sample + 1
        /\ Cache!Places(c, DatasetSize) = y \div c.sample + 1
    BY <1>2, <2>1 DEF Cache!Places, x, y
  <2>4. ASSUME NEW i \in 1..Cache!Places(c, end)
        PROVE  c.offset + (i - 1) * c.sample \in 0..end - 1
    <3> DEFINE q == x \div c.sample
    <3>1. q \in Nat /\ i - 1 \in Nat /\ i - 1 <= q
      BY <2>2, <2>3
    <3>2. q * c.sample <= x
      BY <2>2
    <3> HIDE DEF q
    <3>3. i - 1 < q => (i - 1) * c.sample < q * c.sample
      BY <1>1, <3>1, Products
    <3>4. (i - 1) * c.sample \in Nat /\ q * c.sample \in Nat
      BY <1>1, <3>1
    <3>5. (i - 1) * c.sample <= q * c.sample
      <4>1. CASE i - 1 = q
        BY <3>4, <4>1
      <4>2. CASE i - 1 < q
        BY <3>3, <3>4, <4>2
      <4>3. QED
        BY <3>1, <4>1, <4>2
    <3> DEFINE z == (i - 1) * c.sample
    <3>6. z \in Nat /\ z <= x
      BY <2>1, <3>2, <3>4, <3>5
    <3> HIDE DEF z
    <3>7. c.offset + z \in 0..end - 1
      BY <1>1, <2>1, <3>6
    <3>8. QED
      BY <3>7 DEF z
  <2>5. QED
    BY <2>1, <2>2, <2>3, <2>4, Quotients, <1>1
<1>3. CASE ~(c.offset < end)
  <2>1. Cache!Places(c, end) = 0
    BY <1>3 DEF Cache!Places
  <2>2. Cache!Places(c, DatasetSize) \in Nat
    <3>1. CASE c.offset < DatasetSize
      <4> DEFINE y == (DatasetSize - c.offset) - 1
      <4>1. y \in Nat
        BY <1>1, <3>1
      <4> HIDE DEF y
      <4>2. y \div c.sample \in Nat
        BY <1>1, <4>1, Quotients
      <4>3. QED
        BY <3>1, <4>2 DEF Cache!Places, y
    <3>2. QED
      BY <3>1 DEF Cache!Places
  <2>3. QED
    BY <2>1, <2>2
<1>4. QED
  BY <1>2, <1>3

\* What is asked for is selected, and what is selected is so once.
LEMMA SelectionFacts ==
  ASSUME NEW c \in Configs
  PROVE  /\ Cache!Selected(c) \in Seq(Requests)
         /\ \A i, j \in 1..Len(Cache!Selected(c)) :
              Cache!Selected(c)[i] = Cache!Selected(c)[j] => i = j
         /\ \A r \in Cache!AskedFor(c) :
              \E i \in 1..Len(Cache!Selected(c)) : Cache!Selected(c)[i] = r
<1> DEFINE n == Cache!Places(c, DatasetSize)
           slice == Cache!FromOffset(c, DatasetSize)
<1>1. DatasetSize \in Nat /\ c.offset \in Nat /\ c.sample \in Nat \ {0}
  BY ServersAssumption
<1>2. n \in Nat /\ \A i \in 1..n : c.offset + (i - 1) * c.sample \in Requests
  BY <1>1, SliceFacts DEF Requests
<1>3. /\ slice \in Seq(Requests) /\ Len(slice) = n
      /\ \A i \in 1..n : slice[i] = c.offset + (i - 1) * c.sample
  <2>1. slice = [i \in 1..n |-> c.offset + (i - 1) * c.sample]
    BY DEF Cache!FromOffset
  <2> HIDE DEF slice, n
  <2>2. slice \in [1..n -> Requests]
    BY <1>2, <2>1
  <2>3. QED
    BY <1>2, <2>1, <2>2
<1> HIDE DEF slice, n
<1>4. ASSUME NEW i \in 1..n, NEW j \in 1..n, i < j
      PROVE  slice[i] # slice[j]
  <2>1. i - 1 \in Nat /\ j - 1 \in Nat /\ i - 1 < j - 1
    BY <1>2, <1>4
  <2>2. (i - 1) * c.sample < (j - 1) * c.sample
    BY <1>1, <2>1, Products
  <2> DEFINE a == (i - 1) * c.sample
             b == (j - 1) * c.sample
  <2>3. a \in Nat /\ b \in Nat /\ a < b
    BY <1>1, <2>1, <2>2
  <2> HIDE DEF a, b
  <2>4. c.offset + a # c.offset + b
    BY <1>1, <2>3
  <2>5. QED
    BY <1>3, <2>4 DEF a, b
<1>5. ASSUME NEW r \in Cache!AskedFor(c)
      PROVE  c.cache /\ \E i \in 1..n : slice[i] = r
  <2> DEFINE m == Cache!LastAsked(c)
  <2>1. m \in 0..DatasetSize
    BY <1>1 DEF Cache!LastAsked
  <2> HIDE DEF m
  <2>2. Cache!Places(c, m) \in Nat /\ Cache!Places(c, m) <= n
    BY <2>1, SliceFacts DEF n
  <2>3. c.cache /\ r \in Cache!ToSet(Cache!FromOffset(c, m))
    BY <1>5 DEF Cache!AskedFor, m
  <2>4. \E i \in 1..Cache!Places(c, m) : r = c.offset + (i - 1) * c.sample
    BY <2>2, <2>3 DEF Cache!ToSet, Cache!FromOffset
  <2>5. QED
    BY <1>2, <1>3, <2>2, <2>3, <2>4
<1>6. CASE c.cache
  <2>1. Cache!Selected(c) = slice
    BY <1>6 DEF Cache!Selected, slice
  <2>2. QED
    BY <1>2, <1>3, <1>4, <1>5, <2>1
<1>7. CASE ~c.cache
  <2>1. Cache!Selected(c) = <<>>
    BY <1>7 DEF Cache!Selected
  <2>2. QED
    BY <1>5, <1>7, <2>1
<1>8. QED
  BY <1>6, <1>7

-----------------------------------------------------------------------------
(* Files and kinds of files.                                                *)

\* What a model keeps in files is a state, or keys and values, and a server
\* works its way along that list.
LEMMA KindFacts ==
  ASSUME NEW m
  PROVE  /\ Cache!Kinds(m) \in Rests(m) /\ Cache!Kinds(m) # <<>>
         /\ \A r \in Rests(m) \ {<<>>} :
              /\ Head(r) \in ToSet(Cache!Kinds(m)) /\ Head(r) \in ToSet(r)
              /\ Tail(r) \in Rests(m)
              /\ ToSet(r) = {Head(r)} \cup ToSet(Tail(r))
              /\ Len(r) = 1 <=> Tail(r) = <<>>
         /\ ToSet(<<>>) = {} /\ ToSet(Cache!Kinds(m)) \subseteq {"state", "key", "value"}
         /\ \A r \in Rests(m) : r \in Seq({"state", "key", "value"})
<1>1. Cache!Kinds(m) = <<"state">> \/ Cache!Kinds(m) = <<"key", "value">>
  BY DEF Cache!Kinds
<1>2. /\ ToSet(<<>>) = {} /\ ToSet(<<"state">>) = {"state"} /\ ToSet(<<"value">>) = {"value"}
      /\ ToSet(<<"key", "value">>) = {"key", "value"}
  BY DEF ToSet
<1>3. /\ Head(<<"state">>) = "state" /\ Head(<<"value">>) = "value" /\ Head(<<"key", "value">>) = "key"
      /\ Tail(<<"state">>) = <<>> /\ Tail(<<"value">>) = <<>>
      /\ Tail(<<"key", "value">>) = <<"value">>
      /\ Len(<<"state">>) = 1 /\ Len(<<"value">>) = 1 /\ Len(<<"key", "value">>) = 2
      /\ <<"state">> # <<>> /\ <<"value">> # <<>> /\ <<"key", "value">> # <<>>
  OBVIOUS
<1>4. \A r \in Rests(m) : r \in {<<>>, <<"state">>, <<"value">>, <<"key", "value">>}
                           /\ ToSet(r) \subseteq ToSet(Cache!Kinds(m))
  BY DEF Rests
<1>5. /\ <<>> \in Rests(m) /\ Cache!Kinds(m) \in Rests(m)
      /\ Cache!Kinds(m) = <<"key", "value">> => <<"value">> \in Rests(m)
  BY <1>1, <1>2 DEF Rests
<1>6. Cache!Kinds(m) # <<>> /\ ToSet(Cache!Kinds(m)) \subseteq {"state", "key", "value"}
  BY <1>1, <1>2, <1>3
<1>7. \A r \in Rests(m) : r \in Seq({"state", "key", "value"})
  <2> DEFINE K == {"state", "key", "value"}
  <2>1. "state" \in K /\ "key" \in K /\ "value" \in K
    OBVIOUS
  <2> HIDE DEF K
  <2>2. /\ <<>> \in Seq(K) /\ <<"state">> \in Seq(K) /\ <<"value">> \in Seq(K)
        /\ <<"key", "value">> \in Seq(K)
    BY <2>1
  <2>3. \A r \in Rests(m) : r \in Seq(K)
    BY <1>4, <2>2
  <2>4. QED
    BY <2>3 DEF K
<1>8. ASSUME NEW r \in Rests(m) \ {<<>>}
      PROVE  /\ Head(r) \in ToSet(Cache!Kinds(m)) /\ Head(r) \in ToSet(r)
             /\ Tail(r) \in Rests(m)
             /\ ToSet(r) = {Head(r)} \cup ToSet(Tail(r))
             /\ Len(r) = 1 <=> Tail(r) = <<>>
  <2>1. CASE r = <<"state">> \/ r = <<"value">>
    BY <1>2, <1>3, <1>4, <1>5, <2>1
  <2>2. CASE r = <<"key", "value">>
    <3>1. Cache!Kinds(m) = <<"key", "value">>
      BY <1>1, <1>2, <1>4, <2>2
    <3>2. QED
      BY <1>2, <1>3, <1>4, <1>5, <2>2, <3>1
  <2>3. QED
    BY <1>4, <2>1, <2>2
<1>9. QED
  BY <1>2, <1>5, <1>6, <1>7, <1>8

LEMMA SameToSet == \A s : Cache!ToSet(s) = ToSet(s)
  BY DEF Cache!ToSet, ToSet

\* The files of a prompt that a server may prepare.
LEMMA FileFacts ==
  ASSUME NEW c \in Configs, NEW req \in Requests
  PROVE  /\ FileSet(c.model, req) \subseteq Cache!Files
         /\ \A kind \in ToSet(Cache!Kinds(c.model)) :
              /\ <<c.model, req, kind>> \in FileSet(c.model, req)
              /\ Cache!Whole(c, req, kind) = [at |-> "file", of |-> <<c.model, req, kind>>]
         /\ StateOf(c.model, req) \subseteq Contents
         /\ StateOf(c.model, req) =
              {Cache!Whole(c, req, kind) : kind \in ToSet(Cache!Kinds(c.model))}
<1>1. c.model \in Cache!AllModels
  BY DEF Cache!AllModels
<1>2. FileSet(c.model, req) \subseteq Cache!Files
  <2>1. ASSUME NEW kind \in ToSet(Cache!Kinds(c.model))
        PROVE  <<c.model, req, kind>> \in Cache!Files
    BY <1>1, <2>1, SameToSet DEF Cache!Files, Requests
  <2>2. QED
    BY <2>1 DEF FileSet
<1>3. \A kind \in ToSet(Cache!Kinds(c.model)) :
        /\ <<c.model, req, kind>> \in FileSet(c.model, req)
        /\ Cache!Whole(c, req, kind) = [at |-> "file", of |-> <<c.model, req, kind>>]
  BY DEF FileSet, Cache!Whole
<1>4. QED
  BY <1>2, <1>3 DEF StateOf, FileSet, Contents

\* A file is missing, torn by one server, or whole.
LEMMA ContentFacts ==
  /\ \A s : Cache!Torn(s) # Cache!NoFile /\ Cache!Torn(s).at = "writer" /\ Cache!Torn(s).by = s
  /\ \A s, t : Cache!Torn(s) = Cache!Torn(t) => s = t
  /\ \A x \in Contents : x.at = "file" /\ x # Cache!NoFile /\ \A s : x # Cache!Torn(s)
  /\ Cache!NoFile.at = "nowhere"
<1>1. /\ Cache!NoFile.at = "nowhere"
      /\ \A s : Cache!Torn(s).at = "writer" /\ Cache!Torn(s).by = s
      /\ \A x \in Contents : x.at = "file"
  BY DEF Cache!NoFile, Cache!Torn, Contents
<1>2. "nowhere" # "writer" /\ "nowhere" # "file" /\ "writer" # "file"
  OBVIOUS
<1>3. QED
  BY <1>1, <1>2

-----------------------------------------------------------------------------
(* What keeps the invariant.                                                *)

\* The first prompt a server has left is the next of its selection, and none of
\* those it is done with.
LEMMA RestFacts ==
  ASSUME NEW p \in ProcessType, IsRest(p), p.todo # <<>>
  PROVE  /\ p.config \in Configs /\ Head(p.todo) \in Requests
         /\ Done(p) \in Nat /\ Done(p) + 1 \in 1..Len(Cache!Selected(p.config))
         /\ Cache!Selected(p.config)[Done(p) + 1] = Head(p.todo)
         /\ \A i \in 1..Done(p) : /\ Cache!Selected(p.config)[i] \in Requests
                                  /\ Cache!Selected(p.config)[i] # Head(p.todo)
         /\ \A q \in ProcessType :
              q.config = p.config /\ q.todo = Tail(p.todo) => IsRest(q) /\ Done(q) = Done(p) + 1
<1> DEFINE all == Cache!Selected(p.config)
           td  == p.todo
<1>1. p.config \in Configs /\ td \in Seq(Requests)
  BY DEF ProcessType
<1>2. all \in Seq(Requests) /\ \A i, j \in 1..Len(all) : all[i] = all[j] => i = j
  BY <1>1, SelectionFacts
<1>3. /\ Len(td) <= Len(all) /\ Done(p) = Len(all) - Len(td)
      /\ \A i \in 1..Len(td) : td[i] = all[Done(p) + i]
  BY DEF IsRest, Done
<1>4. /\ Len(td) \in Nat \ {0} /\ Len(all) \in Nat /\ Head(td) = td[1] /\ Head(td) \in Requests
      /\ Tail(td) \in Seq(Requests) /\ Len(Tail(td)) = Len(td) - 1
      /\ \A i \in 1..Len(Tail(td)) : Tail(td)[i] = td[i + 1]
  BY <1>1, <1>2, HeadTailProperties, EmptySeq, LenProperties
<1> HIDE DEF all, td
<1>5. Done(p) \in Nat /\ Done(p) + 1 \in 1..Len(all) /\ all[Done(p) + 1] = Head(td)
  BY <1>3, <1>4
<1>6. ASSUME NEW i \in 1..Done(p)
      PROVE  all[i] \in Requests /\ all[i] # Head(td)
  <2>1. i \in 1..Len(all) /\ i # Done(p) + 1
    BY <1>3, <1>4, <1>5
  <2>2. QED
    BY <1>2, <1>5, <2>1, ElementOfSeq
<1>7. ASSUME NEW q \in ProcessType, q.config = p.config, q.todo = Tail(td)
      PROVE  IsRest(q) /\ Done(q) = Done(p) + 1
  <2>1. Done(q) = Len(all) - (Len(td) - 1)
    BY <1>4, <1>7 DEF Done, all
  <2>2. Done(q) = Done(p) + 1
    BY <1>3, <1>4, <2>1
  <2>3. ASSUME NEW i \in 1..Len(Tail(td))
        PROVE  Tail(td)[i] = all[Done(q) + i]
    <3>1. i + 1 \in 1..Len(td) /\ Done(q) + i = Done(p) + (i + 1)
      BY <1>4, <1>5, <2>2
    <3>2. QED
      BY <1>3, <1>4, <3>1
  <2>4. QED
    BY <1>3, <1>4, <1>7, <2>2, <2>3 DEF IsRest, all
<1>8. QED
  BY <1>1, <1>4, <1>5, <1>6, <1>7 DEF all, td

\* A server that takes no step keeps what it has: no file goes away, and it
\* alone tears its files.
LEMMA OthersKeep ==
  ASSUME NEW s, NEW p, NEW d, NEW e, ProcessInv(s, p, d),
         \A file \in Cache!Files : /\ d[file] # Cache!NoFile => e[file] # Cache!NoFile
                                   /\ e[file] = Cache!Torn(s) => d[file] = Cache!Torn(s)
  PROVE  ProcessInv(s, p, e)
<1>1. /\ p \in ProcessType /\ IsRest(p) /\ HasPrepared(s, p, d)
      /\ p.pc \in {"saving", "writing"} => IsSaving(s, p, d)
      /\ p.saving \in Rests(p.config.model)
  BY DEF ProcessInv
<1>2. \A file \in Cache!Files : Saved(s, d, file) => Saved(s, e, file)
  BY DEF Saved
<1>3. HasPrepared(s, p, e)
  <2>1. p.config \in Configs /\ Len(Cache!Selected(p.config)) \in Nat
    BY <1>1, SelectionFacts, LenProperties DEF ProcessType
  <2>2. ASSUME NEW i \in 1..Done(p)
        PROVE  FileSet(p.config.model, Cache!Selected(p.config)[i]) \subseteq Cache!Files
    <3>1. i \in 1..Len(Cache!Selected(p.config))
      <4>1. Len(p.todo) \in Nat
        BY <1>1 DEF ProcessType
      <4>2. QED
        BY <2>1, <4>1 DEF Done
    <3>2. Cache!Selected(p.config)[i] \in Requests
      BY <2>1, <3>1, SelectionFacts, ElementOfSeq
    <3>3. QED
      BY <2>1, <3>2, FileFacts
  <2>3. QED
    BY <1>1, <1>2, <2>2 DEF HasPrepared
<1>4. ASSUME p.pc \in {"saving", "writing"}
      PROVE  IsSaving(s, p, e)
  <2>1. p.config \in Configs /\ Head(p.todo) \in Requests
    BY <1>1, <1>4, RestFacts DEF IsSaving
  <2>2. \A kind \in ToSet(Cache!Kinds(p.config.model)) :
          <<p.config.model, Head(p.todo), kind>> \in Cache!Files
    BY <2>1, FileFacts
  <2>3. SavingOf(p) \in Cache!Files
    <3>1. Head(p.saving) \in ToSet(Cache!Kinds(p.config.model))
      BY <1>1, <1>4, KindFacts DEF IsSaving
    <3>2. QED
      BY <2>2, <3>1 DEF SavingOf
  <2>4. QED
    BY <1>1, <1>2, <1>4, <2>2, <2>3 DEF IsSaving
<1>5. QED
  BY <1>1, <1>3, <1>4 DEF ProcessInv

\* A step of server s that leaves the files alone.
LEMMA FilesUntouched ==
  ASSUME CacheInv, NEW s \in 1..NumServers, NEW q,
         proc' = [proc EXCEPT ![s] = q], disk' = disk, kills' \in 0..MaxKills,
         ProcessInv(s, q, disk), q.pc = "killed" \/ proc[s].pc \notin {"writing", "killed"}
  PROVE  CacheInv'
<1>1. /\ proc = [t \in 1..NumServers |-> proc[t]] /\ FilesInv
      /\ \A t \in 1..NumServers : proc[t] = Cache!NotStarted \/ ProcessInv(t, proc[t], disk)
  BY DEF CacheInv
<1>2. /\ proc' = [t \in 1..NumServers |-> proc'[t]]
      /\ proc'[s] = q /\ \A t \in 1..NumServers : t # s => proc'[t] = proc[t]
  BY <1>1
<1>3. FilesInv'
  <2>1. ASSUME NEW file \in Cache!Files, NEW t \in 1..NumServers, disk[file] = Cache!Torn(t)
        PROVE  proc'[t].pc = "killed" \/ (proc'[t].pc = "writing" /\ file = SavingOf(proc'[t]))
    <3>1. proc[t].pc = "killed" \/ (proc[t].pc = "writing" /\ file = SavingOf(proc[t]))
      BY <1>1, <2>1 DEF FilesInv
    <3>2. CASE t = s
      BY <1>2, <3>1, <3>2
    <3>3. CASE t # s
      BY <1>2, <3>1, <3>3
    <3>4. QED
      BY <3>2, <3>3
  <2>2. QED
    BY <1>1, <2>1 DEF FilesInv
<1>4. \A t \in 1..NumServers : proc'[t] = Cache!NotStarted \/ ProcessInv(t, proc'[t], disk')
  BY <1>1, <1>2
<1>5. QED
  BY <1>2, <1>3, <1>4 DEF CacheInv

\* A server starts.
LEMMA StartUpKeepsInv ==
  ASSUME CacheInv, NEW s \in 1..NumServers, NEW c \in Configs, Cache!Start(s, c)
  PROVE  CacheInv'
<1> DEFINE q == [pc |-> "loading", config |-> c, todo |-> Cache!Selected(c), saving |-> <<>>,
                 held |-> <<>>, torn |-> 0]
<1>1. proc' = [proc EXCEPT ![s] = q] /\ disk' = disk /\ kills' = kills /\ proc[s].pc = "none"
  BY DEF Cache!Start, Cache!NotStarted
<1>2. q \in ProcessType
  <2>1. Cache!Selected(c) \in Seq(Requests) /\ NumServers \in Nat
    BY SelectionFacts, ServersAssumption
  <2>2. <<>> \in HeldPrompts
    <3>1. {} \in SUBSET Requests /\ <<>> \in [{} -> SUBSET Contents]
      OBVIOUS
    <3>2. QED
      BY <3>1 DEF HeldPrompts
  <2>3. QED
    BY <2>1, <2>2 DEF ProcessType, Stages
<1>3. Len(Cache!Selected(c)) \in Nat
  BY SelectionFacts, LenProperties
<1>4. Done(q) = 0
  BY <1>3 DEF Done
<1>5. IsRest(q) /\ HasPrepared(s, q, disk)
  BY <1>3, <1>4 DEF IsRest, HasPrepared
<1>6. q.saving \in Rests(q.config.model)
  BY KindFacts DEF Rests
<1>7. ProcessInv(s, q, disk)
  BY <1>2, <1>5, <1>6 DEF ProcessInv
<1> HIDE DEF q
<1>8. kills' \in 0..MaxKills
  BY <1>1 DEF CacheInv
<1>9. proc[s].pc \notin {"writing", "killed"}
  BY <1>1
<1>10. QED
  BY <1>1, <1>7, <1>8, <1>9, FilesUntouched

\* A server that is loading, and what it is going to hold.
LEMMA AtPromptFacts ==
  ASSUME CacheInv, NEW s \in 1..NumServers, Cache!AtPrompt(s)
  PROVE  /\ ProcessInv(s, proc[s], disk) /\ proc[s].pc = "loading" /\ proc[s].todo # <<>>
         /\ proc[s] \in ProcessType /\ IsRest(proc[s]) /\ HasPrepared(s, proc[s], disk)
         /\ proc[s].config \in Configs /\ Head(proc[s].todo) \in Requests
         /\ Cache!FilesOf(s) = FileSet(proc[s].config.model, Head(proc[s].todo))
         /\ Cache!FilesOf(s) \subseteq Cache!Files
<1>1. proc[s].pc = "loading" /\ proc[s].todo # <<>>
  BY DEF Cache!AtPrompt
<1>2. ProcessInv(s, proc[s], disk)
  BY <1>1 DEF CacheInv, Cache!NotStarted
<1>3. proc[s] \in ProcessType /\ IsRest(proc[s]) /\ HasPrepared(s, proc[s], disk)
  BY <1>2 DEF ProcessInv
<1>4. proc[s].config \in Configs /\ Head(proc[s].todo) \in Requests
  BY <1>1, <1>3, RestFacts
<1>5. Cache!FilesOf(s) = FileSet(proc[s].config.model, Head(proc[s].todo))
  BY SameToSet DEF Cache!FilesOf, FileSet, Cache!FileName
<1>6. QED
  BY <1>1, <1>2, <1>3, <1>4, <1>5, FileFacts

\* It holds the state of its next prompt beside what it held.
LEMMA HoldingFacts ==
  ASSUME CacheInv, NEW s \in 1..NumServers, Cache!AtPrompt(s),
         NEW contents, contents = StateOf(proc[s].config.model, Head(proc[s].todo))
  PROVE  /\ Cache!Holding(s, contents) \in HeldPrompts
         /\ \A p : p.held = Cache!Holding(s, contents) /\ p.config = proc[s].config =>
              /\ Prepared(p, Head(proc[s].todo))
              /\ \A req : Prepared(proc[s], req) => Prepared(p, req)
<1> DEFINE p0 == proc[s]
           h  == Head(p0.todo)
           new == Cache!Holding(s, contents)
           R  == DOMAIN p0.held \cup {h}
<1>1. p0 \in ProcessType /\ p0.config \in Configs /\ h \in Requests
  BY AtPromptFacts
<1>2. contents \in SUBSET Contents
  BY <1>1, FileFacts
<1>3. new = [r \in R |-> IF r = h THEN contents ELSE p0.held[r]]
  BY DEF Cache!Holding
<1>4. PICK D \in SUBSET Requests : p0.held \in [D -> SUBSET Contents]
  BY <1>1 DEF ProcessType, HeldPrompts
<1> HIDE DEF p0, h, new
<1>5. R \in SUBSET Requests /\ new \in [R -> SUBSET Contents]
  BY <1>1, <1>2, <1>3, <1>4
<1>6. ASSUME NEW p, p.held = new, p.config = p0.config
      PROVE  Prepared(p, h) /\ \A req : Prepared(p0, req) => Prepared(p, req)
  <2>1. contents = StateOf(p.config.model, h)
    BY <1>6 DEF p0, h
  <2>2. DOMAIN p.held = R /\ p.held[h] = contents
    BY <1>3, <1>6
  <2>3. ASSUME NEW req, Prepared(p0, req)
        PROVE  Prepared(p, req)
    <3>1. req \in DOMAIN p0.held /\ p0.held[req] = StateOf(p.config.model, req)
      BY <1>6, <2>3 DEF Prepared
    <3>2. p.held[req] = IF req = h THEN contents ELSE p0.held[req]
      BY <1>3, <1>6, <3>1
    <3>3. QED
      BY <2>1, <2>2, <3>1, <3>2 DEF Prepared
  <2>4. QED
    BY <2>1, <2>2, <2>3 DEF Prepared
<1>7. new \in HeldPrompts
  BY <1>5 DEF HeldPrompts
<1>8. QED
  BY <1>6, <1>7 DEF p0, h, new

\* A server reads a prompt that is in the files, or fails on one that is not
\* finished.
LEMMA LoadPromptKeepsInv ==
  ASSUME CacheInv, NEW s \in 1..NumServers, Cache!LoadPrompt(s)
  PROVE  CacheInv'
<1> DEFINE p == proc[s]
           m == p.config.model
           h == Head(p.todo)
<1>1. Cache!AtPrompt(s) /\ Cache!AllExist(s) /\ disk' = disk /\ kills' = kills
  BY DEF Cache!LoadPrompt
<1>2. /\ ProcessInv(s, p, disk) /\ p.pc = "loading" /\ p.todo # <<>> /\ p \in ProcessType
      /\ IsRest(p) /\ HasPrepared(s, p, disk) /\ p.config \in Configs /\ h \in Requests
      /\ Cache!FilesOf(s) = FileSet(m, h) /\ FileSet(m, h) \subseteq Cache!Files
  BY <1>1, AtPromptFacts
<1>3. kills \in 0..MaxKills /\ FilesInv
  BY DEF CacheInv
<1>4. CASE \A file \in Cache!FilesOf(s) : Cache!Loadable(file)
  <2> DEFINE contents == {disk[file] : file \in Cache!FilesOf(s)}
             q == [p EXCEPT !.held = Cache!Holding(s, contents), !.todo = Tail(@)]
  <2>1. proc' = [proc EXCEPT ![s] = q]
    <3>1. proc' = [proc EXCEPT ![s].held = Cache!Holding(s, contents), ![s].todo = Tail(@)]
      BY <1>4 DEF Cache!LoadPrompt
    <3>2. QED
      BY <3>1
  <2>2. \A file \in FileSet(m, h) : disk[file] = [at |-> "file", of |-> file]
    <3>1. ASSUME NEW file \in FileSet(m, h)
          PROVE  disk[file] = [at |-> "file", of |-> file]
      <4>1. disk[file].at = "file" /\ disk[file].of = file
        BY <1>2, <1>3, <1>4 DEF Cache!Loadable, FilesInv
      <4>2. disk[file] \in {Cache!NoFile} \cup Torns \cup Contents
        BY <1>2, <1>3 DEF FilesInv
      <4>3. disk[file] \in Contents
        BY <4>1, <4>2, ContentFacts DEF Torns
      <4>4. QED
        BY <4>1, <4>3 DEF Contents
    <3>2. QED
      BY <3>1
  <2>3. contents = StateOf(m, h)
    <3> DEFINE Entry(file) == [at |-> "file", of |-> file]
    <3>1. contents = {disk[file] : file \in FileSet(m, h)}
      BY <1>2
    <3>2. StateOf(m, h) = {Entry(file) : file \in FileSet(m, h)}
      BY DEF StateOf
    <3>3. \A file \in FileSet(m, h) : disk[file] = Entry(file)
      BY <2>2
    <3> HIDE DEF contents, Entry, m, h
    <3>4. QED
      BY <3>1, <3>2, <3>3
  <2> HIDE DEF contents
  <2>4. Tail(p.todo) \in Seq(Requests)
    BY <1>2 DEF ProcessType
  <2>5. Cache!Holding(s, contents) \in HeldPrompts
    BY <1>1, <2>3, HoldingFacts
  <2>6. /\ q \in ProcessType /\ q.config = p.config /\ q.todo = Tail(p.todo) /\ q.pc = "loading"
        /\ q.saving = p.saving /\ q.held = Cache!Holding(s, contents)
    BY <1>2, <2>4, <2>5 DEF ProcessType
  <2> HIDE DEF q
  <2>7. /\ IsRest(q) /\ Done(q) = Done(p) + 1 /\ Done(p) \in Nat
        /\ Cache!Selected(p.config)[Done(p) + 1] = h
    BY <1>2, <2>6, RestFacts
  <2>8. Prepared(q, h) /\ \A req : Prepared(p, req) => Prepared(q, req)
    BY <1>1, <2>3, <2>6, HoldingFacts
  <2>9. \A file \in FileSet(m, h) : Saved(s, disk, file)
    <3>1. ASSUME NEW file \in FileSet(m, h)
          PROVE  disk[file] \in Contents
      BY <1>2, <2>2, <3>1 DEF Contents
    <3>2. QED
      BY <3>1, ContentFacts DEF Saved
  <2>10. HasPrepared(s, q, disk)
    <3>1. ASSUME NEW i \in 1..Done(q)
          PROVE  LET req == Cache!Selected(q.config)[i]
                 IN  Prepared(q, req) /\ \A file \in FileSet(q.config.model, req) : Saved(s, disk, file)
      <4>1. CASE i = Done(p) + 1
        BY <2>6, <2>7, <2>8, <2>9, <4>1
      <4>2. CASE i # Done(p) + 1
        <5>1. i \in 1..Done(p)
          BY <2>7, <4>2
        <5>2. QED
          BY <1>2, <2>6, <2>8, <5>1 DEF HasPrepared
      <4>3. QED
        BY <4>1, <4>2
    <3>2. QED
      BY <3>1 DEF HasPrepared
  <2>11. ProcessInv(s, q, disk)
    BY <1>2, <2>6, <2>7, <2>10 DEF ProcessInv
  <2>12. QED
    BY <1>1, <1>2, <1>3, <2>1, <2>11, FilesUntouched
<1>5. CASE ~\A file \in Cache!FilesOf(s) : Cache!Loadable(file)
  <2>1. PICK file \in Cache!FilesOf(s) :
          /\ ~Cache!Loadable(file)
          /\ proc' = [proc EXCEPT ![s].pc = "failed",
                                  ![s].torn = IF disk[file] = Cache!NoFile THEN 0 ELSE disk[file].by]
    BY <1>5 DEF Cache!LoadPrompt
  <2>2. PICK t \in 1..NumServers : disk[file] = Cache!Torn(t)
    <3>1. disk[file] \in {Cache!NoFile} \cup Torns \cup Contents
      BY <1>2, <1>3 DEF FilesInv
    <3>2. disk[file] # Cache!NoFile /\ disk[file].at # "file"
      BY <1>1, <2>1 DEF Cache!AllExist, Cache!Loadable
    <3>3. QED
      BY <3>1, <3>2, ContentFacts DEF Torns
  <2>3. t # s
    BY <1>2, <1>3, <2>2 DEF FilesInv
  <2> DEFINE q == [p EXCEPT !.pc = "failed", !.torn = t]
  <2>4. proc' = [proc EXCEPT ![s] = q]
    <3>1. (IF disk[file] = Cache!NoFile THEN 0 ELSE disk[file].by) = t
      BY <2>2, ContentFacts
    <3>2. QED
      BY <2>1, <3>1
  <2>5. /\ q \in ProcessType /\ q.config = p.config /\ q.todo = p.todo /\ q.pc = "failed"
        /\ q.saving = p.saving /\ q.held = p.held /\ q.torn = t
    <3>1. t \in 0..NumServers
      BY ServersAssumption
    <3>2. QED
      BY <1>2, <3>1 DEF ProcessType, Stages
  <2> HIDE DEF q
  <2>6. IsRest(q) /\ HasPrepared(s, q, disk)
    BY <1>2, <2>5 DEF IsRest, HasPrepared, Done, Prepared
  <2>7. ProcessInv(s, q, disk)
    BY <1>2, <2>3, <2>5, <2>6 DEF ProcessInv
  <2>8. QED
    BY <1>1, <1>2, <1>3, <2>4, <2>7, FilesUntouched
<1>6. QED
  BY <1>4, <1>5

\* A server computes a prompt whose files are not all there.
LEMMA PrefillPromptKeepsInv ==
  ASSUME CacheInv, NEW s \in 1..NumServers, Cache!PrefillPrompt(s)
  PROVE  CacheInv'
<1> DEFINE p == proc[s]
           m == p.config.model
           h == Head(p.todo)
           contents == {Cache!Whole(p.config, h, kind) : kind \in ToSet(Cache!Kinds(m))}
           q == [p EXCEPT !.held = Cache!Holding(s, contents), !.saving = Cache!Kinds(m),
                          !.pc = "saving"]
<1>1. Cache!AtPrompt(s) /\ disk' = disk /\ kills' = kills
  BY DEF Cache!PrefillPrompt
<1>2. /\ ProcessInv(s, p, disk) /\ p.pc = "loading" /\ p.todo # <<>> /\ p \in ProcessType
      /\ IsRest(p) /\ HasPrepared(s, p, disk) /\ p.config \in Configs /\ h \in Requests
  BY <1>1, AtPromptFacts
<1>3. kills \in 0..MaxKills
  BY DEF CacheInv
<1>4. contents = StateOf(m, h)
  BY <1>2, FileFacts
<1>5. proc' = [proc EXCEPT ![s] = q]
  <2>1. proc' = [proc EXCEPT ![s].held = Cache!Holding(s, contents),
                             ![s].saving = Cache!Kinds(m), ![s].pc = "saving"]
    BY SameToSet DEF Cache!PrefillPrompt
  <2>2. QED
    BY <2>1
<1> HIDE DEF contents
<1>6. Cache!Holding(s, contents) \in HeldPrompts
  BY <1>1, <1>4, HoldingFacts
<1>7. Cache!Kinds(m) \in Seq({"state", "key", "value"})
  BY KindFacts
<1>8. /\ q \in ProcessType /\ q.config = p.config /\ q.todo = p.todo /\ q.pc = "saving"
      /\ q.saving = Cache!Kinds(m) /\ q.held = Cache!Holding(s, contents)
  BY <1>2, <1>6, <1>7 DEF ProcessType, Stages
<1> HIDE DEF q
<1>9. Prepared(q, h) /\ \A req : Prepared(p, req) => Prepared(q, req)
  BY <1>1, <1>4, <1>8, HoldingFacts
<1>10. IsRest(q) /\ HasPrepared(s, q, disk)
  BY <1>2, <1>8, <1>9 DEF IsRest, HasPrepared, Done
<1>11. IsSaving(s, q, disk)
  BY <1>2, <1>8, <1>9, KindFacts DEF IsSaving
<1>12. ProcessInv(s, q, disk)
  BY <1>8, <1>10, <1>11, KindFacts DEF ProcessInv
<1>13. QED
  BY <1>1, <1>2, <1>3, <1>5, <1>12, FilesUntouched

LEMMA ServerReadyKeepsInv ==
  ASSUME CacheInv, NEW s \in 1..NumServers, Cache!ServerReady(s)
  PROVE  CacheInv'
<1> DEFINE p == proc[s]
           q == [p EXCEPT !.pc = "ready"]
<1>1. /\ p.pc = "loading" /\ p.todo = <<>> /\ disk' = disk /\ kills' = kills
      /\ proc' = [proc EXCEPT ![s] = q]
  BY DEF Cache!ServerReady
<1>2. ProcessInv(s, p, disk) /\ kills \in 0..MaxKills
  BY <1>1 DEF CacheInv, Cache!NotStarted
<1>3. /\ q \in ProcessType /\ q.config = p.config /\ q.todo = p.todo /\ q.pc = "ready"
      /\ q.saving = p.saving /\ q.held = p.held
  BY <1>2 DEF ProcessInv, ProcessType, Stages
<1> HIDE DEF q
<1>4. ProcessInv(s, q, disk)
  BY <1>1, <1>2, <1>3 DEF ProcessInv, IsRest, HasPrepared, Done, Prepared
<1>5. QED
  BY <1>1, <1>2, <1>4, FilesUntouched

LEMMA KilledKeepsInv ==
  ASSUME CacheInv, NEW s \in 1..NumServers, Cache!Killed(s)
  PROVE  CacheInv'
<1> DEFINE p == proc[s]
           q == [p EXCEPT !.pc = "killed"]
<1>1. /\ p.pc \in {"loading", "saving", "writing"} /\ disk' = disk /\ kills' = kills + 1
      /\ kills < MaxKills /\ proc' = [proc EXCEPT ![s] = q]
  BY DEF Cache!Killed
<1>2. ProcessInv(s, p, disk) /\ kills \in 0..MaxKills
  BY <1>1 DEF CacheInv, Cache!NotStarted
<1>3. kills' \in 0..MaxKills
  BY <1>1, <1>2, ServersAssumption
<1>4. /\ q \in ProcessType /\ q.config = p.config /\ q.todo = p.todo /\ q.pc = "killed"
      /\ q.saving = p.saving /\ q.held = p.held
  BY <1>2 DEF ProcessInv, ProcessType, Stages
<1> HIDE DEF q
<1>5. ProcessInv(s, q, disk)
  BY <1>2, <1>4 DEF ProcessInv, IsRest, HasPrepared, Done, Prepared
<1>6. QED
  BY <1>1, <1>3, <1>4, <1>5, FilesUntouched

\* A server at work on a file of a prompt it has prepared.
LEMMA AtFileFacts ==
  ASSUME CacheInv, NEW s \in 1..NumServers, proc[s].pc \in {"saving", "writing"}
  PROVE  /\ ProcessInv(s, proc[s], disk) /\ IsSaving(s, proc[s], disk)
         /\ proc[s] \in ProcessType /\ IsRest(proc[s]) /\ HasPrepared(s, proc[s], disk)
         /\ proc[s].config \in Configs /\ Head(proc[s].todo) \in Requests
         /\ Cache!Saving(s) = SavingOf(proc[s]) /\ SavingOf(proc[s]) \in Cache!Files
         /\ Head(proc[s].saving) \in ToSet(Cache!Kinds(proc[s].config.model))
         /\ proc[s].saving \in Rests(proc[s].config.model) \ {<<>>}
         /\ \A i \in 1..Done(proc[s]) :
              SavingOf(proc[s]) \notin
                FileSet(proc[s].config.model, Cache!Selected(proc[s].config)[i])
<1> DEFINE p == proc[s]
<1>1. ProcessInv(s, p, disk)
  BY DEF CacheInv, Cache!NotStarted
<1>2. /\ IsSaving(s, p, disk) /\ p \in ProcessType /\ IsRest(p) /\ HasPrepared(s, p, disk)
      /\ p.saving \in Rests(p.config.model) \ {<<>>} /\ p.todo # <<>>
  BY <1>1 DEF ProcessInv, IsSaving
<1>3. /\ p.config \in Configs /\ Head(p.todo) \in Requests
      /\ \A i \in 1..Done(p) : Cache!Selected(p.config)[i] # Head(p.todo)
  BY <1>2, RestFacts
<1>4. Head(p.saving) \in ToSet(Cache!Kinds(p.config.model))
  BY <1>2, KindFacts
<1>5. SavingOf(p) \in Cache!Files
  BY <1>3, <1>4, FileFacts DEF SavingOf
<1>6. Cache!Saving(s) = SavingOf(p)
  BY DEF Cache!Saving, Cache!FileName, SavingOf
<1>7. ASSUME NEW i \in 1..Done(p)
      PROVE  SavingOf(p) \notin FileSet(p.config.model, Cache!Selected(p.config)[i])
  BY <1>3 DEF SavingOf, FileSet
<1>8. QED
  BY <1>1, <1>2, <1>3, <1>4, <1>5, <1>6, <1>7

\* A step of server s that changes one file, none of which it has finished.
LEMMA FileWritten ==
  ASSUME CacheInv, NEW s \in 1..NumServers, NEW q, NEW file \in Cache!Files, NEW content,
         proc' = [proc EXCEPT ![s] = q], disk' = [disk EXCEPT ![file] = content], kills' = kills,
         content = disk[file] \/ content = Cache!Torn(s) \/ content = [at |-> "file", of |-> file],
         \A f \in Cache!Files :
           disk'[f] = Cache!Torn(s) => q.pc = "killed" \/ (q.pc = "writing" /\ f = SavingOf(q)),
         ProcessInv(s, q, disk')
  PROVE  CacheInv'
<1>1. /\ proc = [t \in 1..NumServers |-> proc[t]] /\ FilesInv /\ kills \in 0..MaxKills
      /\ \A t \in 1..NumServers : proc[t] = Cache!NotStarted \/ ProcessInv(t, proc[t], disk)
  BY DEF CacheInv
<1>2. /\ proc' = [t \in 1..NumServers |-> proc'[t]]
      /\ proc'[s] = q /\ \A t \in 1..NumServers : t # s => proc'[t] = proc[t]
  BY <1>1
<1>3. /\ disk \in [Cache!Files -> {Cache!NoFile} \cup Torns \cup Contents]
      /\ \A f \in Cache!Files : disk[f].at = "file" => disk[f].of = f
      /\ \A f \in Cache!Files, t \in 1..NumServers :
           disk[f] = Cache!Torn(t) =>
             proc[t].pc = "killed" \/ (proc[t].pc = "writing" /\ f = SavingOf(proc[t]))
  BY <1>1 DEF FilesInv
<1>4. disk'[file] = content /\ \A f \in Cache!Files : f # file => disk'[f] = disk[f]
  BY <1>3
<1>5. content \in {Cache!NoFile} \cup Torns \cup Contents
  <2>1. disk[file] \in {Cache!NoFile} \cup Torns \cup Contents
    BY <1>3
  <2>2. Cache!Torn(s) \in Torns
    BY DEF Torns
  <2>3. [at |-> "file", of |-> file] \in Contents
    BY DEF Contents
  <2>4. QED
    BY <2>1, <2>2, <2>3
<1>6. disk' \in [Cache!Files -> {Cache!NoFile} \cup Torns \cup Contents]
  BY <1>3, <1>5
<1>7. content.at = "file" => content.of = file
  BY <1>3, ContentFacts
<1>8. \A t \in 1..NumServers : t # s /\ content = Cache!Torn(t) => disk[file] = Cache!Torn(t)
  <2>1. [at |-> "file", of |-> file] \in Contents
    BY DEF Contents
  <2>2. QED
    BY <2>1, ContentFacts
<1>9. FilesInv'
  <2>1. ASSUME NEW f \in Cache!Files, NEW t \in 1..NumServers, disk'[f] = Cache!Torn(t)
        PROVE  proc'[t].pc = "killed" \/ (proc'[t].pc = "writing" /\ f = SavingOf(proc'[t]))
    <3>1. CASE t = s
      BY <1>2, <2>1, <3>1
    <3>2. CASE t # s
      <4>1. disk[f] = Cache!Torn(t)
        BY <1>4, <1>8, <2>1, <3>2
      <4>2. QED
        BY <1>2, <1>3, <3>2, <4>1
    <3>3. QED
      BY <3>1, <3>2
  <2>2. \A f \in Cache!Files : disk'[f].at = "file" => disk'[f].of = f
    BY <1>3, <1>4, <1>7
  <2>3. QED
    BY <1>6, <2>1, <2>2 DEF FilesInv
<1>10. ASSUME NEW t \in 1..NumServers, t # s, ProcessInv(t, proc[t], disk)
       PROVE  ProcessInv(t, proc[t], disk')
  <2>1. \A f \in Cache!Files : disk[f] # Cache!NoFile => disk'[f] # Cache!NoFile
    <3>1. content # Cache!NoFile \/ disk[file] = content
      BY ContentFacts
    <3>2. disk[file] # Cache!NoFile => content # Cache!NoFile
      BY <3>1
    <3>3. QED
      BY <1>4, <3>2
  <2>2. \A f \in Cache!Files : disk'[f] = Cache!Torn(t) => disk[f] = Cache!Torn(t)
    BY <1>4, <1>8, <1>10
  <2>3. QED
    BY <1>10, <2>1, <2>2, OthersKeep
<1>11. \A t \in 1..NumServers : proc'[t] = Cache!NotStarted \/ ProcessInv(t, proc'[t], disk')
  BY <1>1, <1>2, <1>10
<1>12. QED
  BY <1>1, <1>2, <1>9, <1>11 DEF CacheInv

\* A server opens the file it is to write.
LEMMA OpenFileKeepsInv ==
  ASSUME CacheInv, NEW s \in 1..NumServers, Cache!OpenFile(s)
  PROVE  CacheInv'
<1> DEFINE p == proc[s]
           m == p.config.model
           h == Head(p.todo)
           file == SavingOf(p)
           q == [p EXCEPT !.pc = "writing"]
<1>1. p.pc = "saving" /\ kills' = kills /\ proc' = [proc EXCEPT ![s] = q]
  BY DEF Cache!OpenFile
<1>2. /\ ProcessInv(s, p, disk) /\ IsSaving(s, p, disk) /\ p \in ProcessType /\ IsRest(p)
      /\ HasPrepared(s, p, disk) /\ p.config \in Configs /\ h \in Requests
      /\ Cache!Saving(s) = file /\ file \in Cache!Files
      /\ Head(p.saving) \in ToSet(Cache!Kinds(m)) /\ p.saving \in Rests(m) \ {<<>>}
      /\ \A i \in 1..Done(p) : file \notin FileSet(m, Cache!Selected(p.config)[i])
  BY <1>1, AtFileFacts
<1>3. disk' = [disk EXCEPT ![file] = Cache!Torn(s)] /\ DOMAIN disk = Cache!Files
  <2>1. DOMAIN disk = Cache!Files
    BY DEF CacheInv, FilesInv
  <2>2. QED
    BY <1>2, <2>1 DEF Cache!OpenFile
<1>4. /\ q \in ProcessType /\ q.config = p.config /\ q.todo = p.todo /\ q.pc = "writing"
      /\ q.saving = p.saving /\ q.held = p.held /\ SavingOf(q) = file
  BY <1>2 DEF ProcessType, Stages, SavingOf
<1>5. /\ \A f : f # file => disk'[f] = disk[f]
      /\ disk'[file] = Cache!Torn(s)
  <2>1. \A f \in Cache!Files : disk'[f] = IF f = file THEN Cache!Torn(s) ELSE disk[f]
    BY <1>2, <1>3
  <2>2. \A f : f # file => disk'[f] = disk[f]
    BY <1>2, <1>3
  <2>3. QED
    BY <1>2, <2>1, <2>2
<1> HIDE DEF q, file
<1>6. \A f \in Cache!Files :
        disk'[f] = Cache!Torn(s) => q.pc = "killed" \/ (q.pc = "writing" /\ f = SavingOf(q))
  <2>1. \A f \in Cache!Files : disk[f] # Cache!Torn(s)
    BY <1>1 DEF CacheInv, FilesInv
  <2>2. QED
    BY <1>4, <1>5, <2>1
<1>7. HasPrepared(s, q, disk')
  BY <1>2, <1>4, <1>5 DEF HasPrepared, Done, Prepared, Saved
<1>8. IsSaving(s, q, disk')
  <2>1. /\ q.todo # <<>> /\ q.saving # <<>> /\ Prepared(q, Head(q.todo))
    BY <1>2, <1>4 DEF IsSaving, Prepared
  <2>2. ASSUME NEW kind \in ToSet(Cache!Kinds(m)) \ ToSet(q.saving)
        PROVE  Saved(s, disk', <<m, h, kind>>)
    <3>1. Saved(s, disk, <<m, h, kind>>)
      BY <1>2, <1>4, <2>2 DEF IsSaving
    <3>2. Head(p.saving) \in ToSet(p.saving)
      BY <1>2, KindFacts
    <3>3. <<m, h, kind>> # file
      BY <1>4, <2>2, <3>2 DEF file, SavingOf
    <3>4. QED
      BY <1>5, <3>1, <3>3 DEF Saved
  <2>3. disk'[SavingOf(q)] # Cache!NoFile
    BY <1>4, <1>5, ContentFacts
  <2>4. QED
    BY <1>4, <2>1, <2>2, <2>3 DEF IsSaving
<1>9. ProcessInv(s, q, disk')
  BY <1>2, <1>4, <1>7, <1>8 DEF ProcessInv, IsRest, Done
<1>10. QED
  BY <1>1, <1>2, <1>3, <1>6, <1>9, ContentFacts, FileWritten

\* A server finishes a file; after the last of a prompt it goes on to the next.
LEMMA CloseFileKeepsInv ==
  ASSUME CacheInv, NEW s \in 1..NumServers, Cache!CloseFile(s)
  PROVE  CacheInv'
<1> DEFINE p == proc[s]
           m == p.config.model
           h == Head(p.todo)
           file == SavingOf(p)
           whole == [at |-> "file", of |-> file]
           content == IF disk[file] = Cache!Torn(s) THEN whole ELSE disk[file]
           last == Len(p.saving) = 1
           q == [p EXCEPT !.saving = Tail(@), !.todo = IF last THEN Tail(@) ELSE @,
                          !.pc = IF last THEN "loading" ELSE "saving"]
<1>1. p.pc = "writing" /\ kills' = kills /\ proc' = [proc EXCEPT ![s] = q]
  <2>1. proc' = [proc EXCEPT ![s].saving = Tail(@), ![s].todo = IF last THEN Tail(@) ELSE @,
                             ![s].pc = IF last THEN "loading" ELSE "saving"]
    BY DEF Cache!CloseFile
  <2>2. QED
    BY <2>1 DEF Cache!CloseFile
<1>2. /\ ProcessInv(s, p, disk) /\ IsSaving(s, p, disk) /\ p \in ProcessType /\ IsRest(p)
      /\ HasPrepared(s, p, disk) /\ p.config \in Configs /\ h \in Requests
      /\ Cache!Saving(s) = file /\ file \in Cache!Files
      /\ Head(p.saving) \in ToSet(Cache!Kinds(m)) /\ p.saving \in Rests(m) \ {<<>>}
      /\ \A i \in 1..Done(p) : file \notin FileSet(m, Cache!Selected(p.config)[i])
  BY <1>1, AtFileFacts
<1>3. p.todo # <<>> /\ p.saving # <<>> /\ disk[file] # Cache!NoFile
  BY <1>1, <1>2 DEF IsSaving
<1>4. disk' = [disk EXCEPT ![file] = content] /\ DOMAIN disk = Cache!Files
  <2>1. DOMAIN disk = Cache!Files
    BY DEF CacheInv, FilesInv
  <2>2. Cache!Whole(p.config, h, Head(p.saving)) = whole
    BY DEF Cache!Whole, SavingOf
  <2>3. QED
    BY <1>2, <2>1, <2>2 DEF Cache!CloseFile
<1>5. /\ Tail(p.saving) \in Rests(m) /\ ToSet(p.saving) = {Head(p.saving)} \cup ToSet(Tail(p.saving))
      /\ last <=> Tail(p.saving) = <<>>
      /\ Tail(p.saving) \in Seq({"state", "key", "value"})
  BY <1>2, KindFacts
<1>6. Tail(p.todo) \in Seq(Requests)
  BY <1>2, <1>3 DEF ProcessType
<1>7. /\ q \in ProcessType /\ q.config = p.config /\ q.saving = Tail(p.saving) /\ q.held = p.held
      /\ q.todo = IF last THEN Tail(p.todo) ELSE p.todo
      /\ q.pc = IF last THEN "loading" ELSE "saving"
  BY <1>2, <1>5, <1>6 DEF ProcessType, Stages
<1>8. content # Cache!NoFile /\ content # Cache!Torn(s)
  <2>1. whole \in Contents
    BY <1>2 DEF Contents
  <2>2. whole # Cache!NoFile /\ whole # Cache!Torn(s)
    BY <2>1, ContentFacts
  <2>3. QED
    BY <1>3, <2>2
<1>9. disk'[file] = content /\ \A f : f # file => disk'[f] = disk[f]
  <2> HIDE DEF content, file
  <2>1. disk'[file] = content
    BY <1>2, <1>4
  <2>2. \A f : f # file => disk'[f] = disk[f]
    BY <1>2, <1>4
  <2>3. QED
    BY <2>1, <2>2
<1>10. content = disk[file] \/ content = whole
  OBVIOUS
<1> HIDE DEF q, content, file, last
<1>11. \A f \in Cache!Files : disk'[f] # Cache!Torn(s)
  <2>1. \A f \in Cache!Files : disk[f] = Cache!Torn(s) => f = file
    BY <1>1, <1>2 DEF CacheInv, FilesInv, file
  <2>2. QED
    BY <1>8, <1>9, <2>1
<1>12. \A req : Prepared(p, req) => Prepared(q, req)
  BY <1>7 DEF Prepared
<1>13. \A f : Saved(s, disk, f) => Saved(s, disk', f)
  BY <1>8, <1>9 DEF Saved
<1>14. \A kind \in ToSet(Cache!Kinds(m)) \ ToSet(q.saving) : Saved(s, disk', <<m, h, kind>>)
  <2>1. ASSUME NEW kind \in ToSet(Cache!Kinds(m)) \ ToSet(q.saving)
        PROVE  Saved(s, disk', <<m, h, kind>>)
    <3>1. CASE kind = Head(p.saving)
      <4>1. <<m, h, kind>> = file
        BY <3>1 DEF file, SavingOf
      <4>2. QED
        BY <1>8, <1>9, <4>1 DEF Saved
    <3>2. CASE kind # Head(p.saving)
      <4>1. Saved(s, disk, <<m, h, kind>>)
        BY <1>2, <1>5, <1>7, <2>1, <3>2 DEF IsSaving
      <4>2. QED
        BY <1>13, <4>1
    <3>3. QED
      BY <3>1, <3>2
  <2>2. QED
    BY <2>1
<1>15. Prepared(p, h)
  BY <1>2 DEF IsSaving
<1>16. HasPrepared(s, p, disk')
  BY <1>2, <1>13 DEF HasPrepared
<1>17. ProcessInv(s, q, disk')
  <2>1. CASE last
    <3>1. /\ IsRest(q) /\ Done(q) = Done(p) + 1 /\ Done(p) \in Nat
          /\ Cache!Selected(p.config)[Done(p) + 1] = h
      BY <1>2, <1>3, <1>7, <2>1, RestFacts
    <3>2. ToSet(q.saving) = {}
      BY <1>5, <1>7, <2>1, KindFacts
    <3>3. \A f \in FileSet(m, h) : Saved(s, disk', f)
      BY <1>14, <3>2 DEF FileSet
    <3>4. ASSUME NEW i \in 1..Done(q)
          PROVE  LET req == Cache!Selected(q.config)[i]
                 IN  Prepared(q, req) /\ \A f \in FileSet(q.config.model, req) : Saved(s, disk', f)
      <4>1. CASE i = Done(p) + 1
        BY <1>7, <1>12, <1>15, <3>1, <3>3, <4>1
      <4>2. CASE i # Done(p) + 1
        <5>1. i \in 1..Done(p)
          BY <3>1, <4>2
        <5>2. QED
          BY <1>7, <1>12, <1>16, <5>1 DEF HasPrepared
      <4>3. QED
        BY <4>1, <4>2
    <3>5. HasPrepared(s, q, disk')
      BY <3>4 DEF HasPrepared
    <3>6. QED
      BY <1>5, <1>7, <2>1, <3>1, <3>5 DEF ProcessInv
  <2>2. CASE ~last
    <3>1. q.todo = p.todo /\ q.pc = "saving"
      BY <1>7, <2>2
    <3>2. IsRest(q) /\ HasPrepared(s, q, disk')
      BY <1>2, <1>7, <1>12, <1>16, <3>1 DEF IsRest, HasPrepared, Done
    <3>3. IsSaving(s, q, disk')
      BY <1>3, <1>5, <1>7, <1>12, <1>14, <1>15, <2>2, <3>1 DEF IsSaving
    <3>4. QED
      BY <1>5, <1>7, <3>1, <3>2, <3>3 DEF ProcessInv
  <2>3. QED
    BY <2>1, <2>2
<1>18. QED
  BY <1>1, <1>2, <1>4, <1>10, <1>11, <1>17, FileWritten

-----------------------------------------------------------------------------
(* PromptCache: the theorem.                                                *)

LEMMA CacheInitially == Cache!Init => CacheInv
<1> SUFFICES ASSUME Cache!Init PROVE CacheInv
  OBVIOUS
<1>1. /\ disk = [file \in Cache!Files |-> Cache!NoFile]
      /\ proc = [s \in 1..NumServers |-> Cache!NotStarted] /\ kills = 0
  BY DEF Cache!Init
<1>2. \A file \in Cache!Files : disk[file].at = "nowhere" /\ \A s : disk[file] # Cache!Torn(s)
  BY <1>1, ContentFacts
<1>3. FilesInv
  BY <1>1, <1>2 DEF FilesInv
<1>4. kills \in 0..MaxKills
  BY <1>1, ServersAssumption
<1>5. QED
  BY <1>1, <1>3, <1>4 DEF CacheInv

LEMMA CacheStepKeepsInv == CacheInv /\ [Cache!Next]_cacheVars => CacheInv'
<1> SUFFICES ASSUME CacheInv, [Cache!Next]_cacheVars PROVE CacheInv'
  OBVIOUS
<1>1. CASE UNCHANGED cacheVars
  BY <1>1 DEF cacheVars, CacheInv, FilesInv
<1>2. ASSUME NEW s \in 1..NumServers,
             \/ \E c \in Configs : Cache!Start(s, c)
             \/ Cache!LoadPrompt(s) \/ Cache!PrefillPrompt(s)
             \/ Cache!OpenFile(s) \/ Cache!CloseFile(s)
             \/ Cache!ServerReady(s) \/ Cache!Killed(s)
      PROVE  CacheInv'
  BY <1>2, StartUpKeepsInv, LoadPromptKeepsInv, PrefillPromptKeepsInv, OpenFileKeepsInv,
     CloseFileKeepsInv, ServerReadyKeepsInv, KilledKeepsInv
<1>3. QED
  BY <1>1, <1>2 DEF Cache!Next

\* What the invariant says of servers that are ready, or have failed.
LEMMA CacheInvImpliesProperty == CacheInv => PromptsSurviveRestarts
<1> SUFFICES ASSUME CacheInv, NEW s \in Cache!Started
             PROVE  LET p == proc[s]
                        m == p.config.model
                    IN  /\ p.pc = "ready" =>
                             \A req \in Cache!AskedFor(p.config) :
                               /\ req \in DOMAIN p.held
                               /\ p.held[req] =
                                    {Cache!Whole(p.config, req, kind) : kind \in Cache!ToSet(Cache!Kinds(m))}
                               /\ \A kind \in Cache!ToSet(Cache!Kinds(m)) :
                                    LET content == disk[<<m, req, kind>>]
                                    IN  content # Cache!NoFile /\ content # Cache!Torn(s)
                        /\ p.pc = "failed" => p.torn \in (1..NumServers) \ {s}
  BY DEF PromptsSurviveRestarts, Cache!PromptsSurviveRestarts
<1> DEFINE p == proc[s]
<1>1. s \in 1..NumServers /\ ProcessInv(s, p, disk)
  BY DEF Cache!Started, CacheInv
<1>2. p \in ProcessType /\ IsRest(p) /\ HasPrepared(s, p, disk)
  BY <1>1 DEF ProcessInv
<1>3. ASSUME p.pc = "ready", NEW req \in Cache!AskedFor(p.config)
      PROVE  /\ req \in DOMAIN p.held
             /\ p.held[req] =
                  {Cache!Whole(p.config, req, kind) : kind \in ToSet(Cache!Kinds(p.config.model))}
             /\ \A kind \in ToSet(Cache!Kinds(p.config.model)) :
                  Saved(s, disk, <<p.config.model, req, kind>>)
  <2>1. p.config \in Configs /\ Len(p.todo) = 0
    BY <1>1, <1>2, <1>3 DEF ProcessInv, ProcessType
  <2>2. Len(Cache!Selected(p.config)) \in Nat
    BY <2>1, SelectionFacts, LenProperties
  <2>3. Done(p) = Len(Cache!Selected(p.config))
    BY <2>1, <2>2 DEF Done
  <2>4. PICK i \in 1..Done(p) : Cache!Selected(p.config)[i] = req
    BY <1>3, <2>1, <2>3, SelectionFacts
  <2>5. req \in Requests
    BY <2>1, <2>3, <2>4, SelectionFacts, ElementOfSeq
  <2>6. Prepared(p, req) /\ \A file \in FileSet(p.config.model, req) : Saved(s, disk, file)
    BY <1>2, <2>4 DEF HasPrepared
  <2>7. QED
    BY <2>1, <2>5, <2>6, FileFacts DEF Prepared
<1>4. p.pc = "failed" => p.torn \in (1..NumServers) \ {s}
  BY <1>1 DEF ProcessInv
<1>5. QED
  BY <1>3, <1>4, SameToSet DEF Saved

\* The types PromptCache states.
LEMMA CacheInvImpliesTypes == CacheInv => Cache!TypeOK
<1> SUFFICES ASSUME CacheInv PROVE Cache!TypeOK
  OBVIOUS
<1>1. \A a, b : Cache!IsSuffix(a, b) <=> IsSuffix(a, b)
  BY DEF Cache!IsSuffix, IsSuffix, Cache!IsPrefix, IsPrefix, Cache!Reverse, Reverse
<1>2. disk \in [Cache!Files -> {Cache!NoFile} \cup {Cache!Torn(s) : s \in 1..NumServers}
                               \cup {[at |-> "file", of |-> file] : file \in Cache!Files}]
  BY DEF CacheInv, FilesInv, Torns, Contents
<1>3. ASSUME NEW s \in Cache!Started
      PROVE  LET p == proc[s]
             IN  /\ p.pc \in {"loading", "saving", "writing", "ready", "failed", "killed"}
                 /\ p.config \in Configs /\ IsSuffix(p.todo, Cache!Selected(p.config))
                 /\ IsSuffix(p.saving, Cache!Kinds(p.config.model))
                 /\ p.torn \in 0..NumServers
                 /\ DOMAIN p.held \subseteq 0..DatasetSize - 1
  <2> DEFINE p == proc[s]
             m == p.config.model
             K == {"state", "key", "value"}
  <2>1. ProcessInv(s, p, disk)
    BY <1>3 DEF Cache!Started, CacheInv
  <2>2. p \in ProcessType /\ IsRest(p) /\ p.saving \in Rests(m)
    BY <2>1 DEF ProcessInv
  <2>3. /\ p.pc \in Stages /\ p.config \in Configs /\ p.todo \in Seq(Requests)
        /\ p.held \in HeldPrompts /\ p.torn \in 0..NumServers
    BY <2>2 DEF ProcessType
  <2>4. Cache!Selected(p.config) \in Seq(Requests)
    BY <2>3, SelectionFacts
  <2>5. IsSuffix(p.todo, Cache!Selected(p.config))
    <3>1. \A i \in 1..Len(p.todo) :
            p.todo[i] = Cache!Selected(p.config)[(Len(Cache!Selected(p.config)) - Len(p.todo)) + i]
      BY <2>2 DEF IsRest, Done
    <3>2. Len(p.todo) <= Len(Cache!Selected(p.config))
      BY <2>2 DEF IsRest
    <3> HIDE DEF p
    <3>3. QED
      BY <2>3, <2>4, <3>1, <3>2, SuffixPositions
  <2>6. IsSuffix(p.saving, Cache!Kinds(m))
    <3>1. /\ p.saving \in {<<>>, <<"state">>, <<"value">>, <<"key", "value">>}
          /\ ToSet(p.saving) \subseteq ToSet(Cache!Kinds(m))
      BY <2>2 DEF Rests
    <3>2. Cache!Kinds(m) = <<"state">> \/ Cache!Kinds(m) = <<"key", "value">>
      BY DEF Cache!Kinds
    <3>3. /\ ToSet(<<"state">>) = {"state"} /\ ToSet(<<"value">>) = {"value"}
          /\ ToSet(<<"key", "value">>) = {"key", "value"}
      BY DEF ToSet
    <3> DEFINE r == p.saving
               t == Cache!Kinds(m)
    <3>4. r \in Seq(K) /\ t \in Seq(K)
      BY <2>2, KindFacts
    <3>5. \/ r = <<>> \/ r = t
          \/ r = <<"value">> /\ t = <<"key", "value">>
      BY <3>1, <3>2, <3>3
    <3> HIDE DEF r, t, K
    <3>6. Len(r) <= Len(t) /\ \A i \in 1..Len(r) : r[i] = t[(Len(t) - Len(r)) + i]
      <4>1. Len(t) \in Nat /\ Len(r) \in Nat
        BY <3>4
      <4>2. CASE r = <<>>
        BY <4>1, <4>2
      <4>3. CASE r = t
        BY <4>1, <4>3
      <4>4. CASE r = <<"value">> /\ t = <<"key", "value">>
        <5>1. /\ Len(<<"value">>) = 1 /\ Len(<<"key", "value">>) = 2
              /\ <<"value">>[1] = "value" /\ <<"key", "value">>[2] = "value"
          OBVIOUS
        <5>2. QED
          BY <4>4, <5>1
      <4>5. QED
        BY <3>5, <4>2, <4>3, <4>4
    <3>7. IsSuffix(r, t)
      BY <3>4, <3>6, SuffixPositions
    <3>8. QED
      BY <3>7 DEF r, t
  <2>7. DOMAIN p.held \subseteq 0..DatasetSize - 1
    BY <2>3 DEF HeldPrompts, Requests
  <2>8. QED
    BY <2>3, <2>5, <2>6, <2>7 DEF Stages
<1>4. kills \in 0..MaxKills
  BY DEF CacheInv
<1>5. QED
  BY <1>1, <1>2, <1>3, <1>4 DEF Cache!TypeOK

-----------------------------------------------------------------------------
(* AutoBatch: the inductive invariant.                                      *)

Idle     == Baseline!NoRequest
Prompts  == Baseline!NumPrompts(load)
Takes    == Baseline!Sampled(load)
IsLoaded == load \in Loads

RowType ==
  [req : {Idle} \cup Takes, offset : Nat, count : 0..load.maxNew, mask : SUBSET Slots,
   kv : [Slots -> {Idle, Baseline!Empty} \cup Takes]]

\* A row that idles has never done anything, unless there is nothing left to
\* take; c stands for curr_req_idx.
IdleInv(row, c) ==
  /\ row.offset = row.count
  /\ row.count > 0 \/ row.mask # {} => c >= Prompts

\* A row with a request attends to its own text, which its cache holds.
BusyInv(row) ==
  /\ row.offset = Baseline!PromptEnd(load, row.req) + row.count
  /\ 0..row.offset \subseteq row.mask
  /\ \A i \in 0..row.offset - 1 : row.kv[i] = row.req
  /\ load.batch = 1 => row.mask = 0..row.offset

RowsInv ==
  /\ rows \in [1..load.batch -> RowType]
  /\ \A b \in 1..load.batch :
       IF rows[b].req = Idle THEN IdleInv(rows[b], curr) ELSE BusyInv(rows[b])

\* What has been taken is completed or in one row.
TakenInv ==
  /\ \E q \in Nat : curr = q * load.sample
  /\ completed \subseteq Takes /\ \A r \in completed : r < curr
  /\ \A r \in Takes : r < curr => r \in completed \/ \E b \in 1..load.batch : rows[b].req = r
  /\ \A b \in 1..load.batch : rows[b].req < curr /\ rows[b].req \notin completed
  /\ \A b, c \in 1..load.batch : rows[b].req # Idle /\ rows[b].req = rows[c].req => b = c

\* A request has as many steps in the log as it has tokens, none before it is
\* taken; one that is cut off when main returns may lack its last.
Logged(r, lacks) == steps[r + 1] = tokens[r + 1] \/ (lacks /\ steps[r + 1] = tokens[r + 1] - 1)

StepsInv ==
  /\ steps \in [1..Prompts -> Nat] /\ tokens \in [1..Prompts -> Nat]
  /\ \A i \in 1..Prompts : i - 1 >= curr => steps[i] = 0 /\ tokens[i] = 0
  /\ \A r \in completed : steps[r + 1] = tokens[r + 1] /\ tokens[r + 1] \in 1..load.maxNew
  /\ \A b \in 1..load.batch :
       rows[b].req # Idle =>
         tokens[rows[b].req + 1] = rows[b].count /\ Logged(rows[b].req, returned)
  /\ returned => Baseline!LastRequest(load) \in completed

BaselineInv ==
  /\ load \in Loads \cup {Baseline!NotLoaded}
  /\ load = Baseline!NotLoaded => curr = 0 /\ completed = {} /\ ~returned
  /\ curr \in Nat /\ returned \in BOOLEAN
  /\ RowsInv /\ TakenInv /\ StepsInv

-----------------------------------------------------------------------------
(* The places of numbers in a set, from 0 on.                               *)

Place(S, x) == Cardinality({y \in S : y < x})

LEMMA PlaceBounds ==
  ASSUME NEW S \in SUBSET Int, IsFiniteSet(S), NEW x \in S
  PROVE  Place(S, x) \in 0..Cardinality(S) - 1 /\ Cardinality(S) \in Nat
<1> DEFINE B == {y \in S : y < x}
<1>1. B \in SUBSET S /\ S # B
  OBVIOUS
<1>2. /\ IsFiniteSet(B) /\ Cardinality(B) <= Cardinality(S)
      /\ Cardinality(S) = Cardinality(B) => S = B
  BY <1>1, FS_Subset
<1>3. Cardinality(B) \in Nat /\ Cardinality(S) \in Nat
  BY <1>2, FS_CardinalityType
<1>4. QED
  BY <1>1, <1>2, <1>3 DEF Place

LEMMA PlaceGrows ==
  ASSUME NEW S \in SUBSET Int, IsFiniteSet(S), NEW x \in S, NEW y \in S, x < y
  PROVE  Place(S, x) < Place(S, y)
<1> DEFINE A == {z \in S : z < x}
           B == {z \in S : z < y}
<1>1. A \in SUBSET B /\ B \in SUBSET S /\ x \in B /\ x \notin A
  <2>1. x \in Int /\ y \in Int /\ ~(x < x)
    OBVIOUS
  <2>2. ASSUME NEW z \in S, z < x
        PROVE  z < y
    <3>1. z \in Int
      OBVIOUS
    <3>2. QED
      BY <2>1, <2>2, <3>1
  <2>3. A \subseteq B
    BY <2>2
  <2>4. B \subseteq S
    OBVIOUS
  <2>5. x \in B
    OBVIOUS
  <2>6. x \notin A
    BY <2>1
  <2>7. QED
    BY <2>3, <2>4, <2>5, <2>6
<1>2. IsFiniteSet(B)
  BY <1>1, FS_Subset
<1>3. /\ IsFiniteSet(A) /\ Cardinality(A) <= Cardinality(B)
      /\ Cardinality(B) = Cardinality(A) => B = A
  BY <1>1, <1>2, FS_Subset
<1>4. Cardinality(A) \in Nat /\ Cardinality(B) \in Nat
  BY <1>2, <1>3, FS_CardinalityType
<1>5. QED
  BY <1>1, <1>3, <1>4 DEF Place

LEMMA PlaceIsTaken ==
  ASSUME NEW S \in SUBSET Int, IsFiniteSet(S), NEW n \in 0..Cardinality(S) - 1
  PROVE  \E x \in S : Place(S, x) = n
<1> DEFINE c == Cardinality(S)
           f == [x \in S |-> Place(S, x)]
<1>1. c \in Nat /\ \A x \in S : Place(S, x) \in 0..c - 1
  BY PlaceBounds, FS_CardinalityType
<1>2. IsFiniteSet(0..c - 1) /\ Cardinality(0..c - 1) = c
  BY <1>1, FS_Interval
<1>3. f \in [S -> 0..c - 1]
  BY <1>1
<1>4. \A x, y \in S : Place(S, x) = Place(S, y) => x = y
  <2>1. ASSUME NEW x \in S, NEW y \in S, Place(S, x) = Place(S, y)
        PROVE  x = y
    <3>1. x \in Int /\ y \in Int /\ Place(S, x) \in Int
      BY <1>1
    <3>2. ~(x < y)
      BY <2>1, <3>1, PlaceGrows
    <3>3. ~(y < x)
      BY <2>1, <3>1, PlaceGrows
    <3>4. QED
      BY <3>1, <3>2, <3>3
  <2>2. QED
    BY <2>1
<1>5. f \in Injection(S, 0..c - 1)
  BY <1>3, <1>4 DEF Injection, IsInjective
<1>6. f \in Surjection(S, 0..c - 1)
  BY <1>2, <1>5, FS_Injection
<1>7. QED
  BY <1>6 DEF Surjection

-----------------------------------------------------------------------------
(* AutoBatch: which rows take which requests.                               *)

LEMMA SameCardinality == \A S : Baseline!Cardinality(S) = Cardinality(S)
  BY DEF Baseline!Cardinality, Cardinality

LEMMA LoadFacts ==
  ASSUME IsLoaded
  PROVE  /\ load.batch \in Nat /\ load.sample \in Nat \ {0} /\ load.maxNew \in Nat
         /\ load.prompts \in Seq(Nat \ {0}) /\ Prompts \in Nat /\ Prompts = Len(load.prompts)
         /\ Slots \subseteq Nat
         /\ \A i \in 0..load.maxNew : i \in Slots
         /\ \A r \in Takes :
              /\ r \in 0..Prompts - 1 /\ r # Idle /\ Baseline!PromptEnd(load, r) \in Nat
              /\ \A i \in 0..Baseline!PromptEnd(load, r) + load.maxNew : i \in Slots
         /\ \A r \in 0..Prompts - 1 : r \in Takes <=> r % load.sample = 0
<1> DEFINE top == Cardinality(Slots) - 1
<1>1. Slots = 0..top /\ top \in Int
  BY LoadsAssumption, FS_CardinalityType
<1> HIDE DEF top
<1>2. /\ load.batch \in Nat /\ load.sample \in Nat \ {0} /\ load.prompts \in Seq(Nat \ {0})
      /\ load.maxNew \in Slots /\ \A i \in DOMAIN load.prompts : load.prompts[i] - 1 + load.maxNew \in Slots
  BY LoadsAssumption DEF IsLoaded
<1>3. Prompts = Len(load.prompts) /\ Prompts \in Nat /\ DOMAIN load.prompts = 1..Prompts
  BY <1>2 DEF Prompts, Baseline!NumPrompts
<1>4. \A r \in 0..Prompts - 1 : r \in Takes <=> r % load.sample = 0
  BY DEF Takes, Prompts, Baseline!Sampled
<1>5. Takes \subseteq 0..Prompts - 1
  BY DEF Takes, Prompts, Baseline!Sampled
<1>6. \A i \in 0..load.maxNew : i \in Slots
  BY <1>1, <1>2
<1>7. ASSUME NEW r \in Takes
      PROVE  /\ r # Idle /\ Baseline!PromptEnd(load, r) \in Nat
             /\ \A i \in 0..Baseline!PromptEnd(load, r) + load.maxNew : i \in Slots
  <2>1. r \in 0..Prompts - 1 /\ r + 1 \in 1..Prompts
    BY <1>3, <1>5
  <2>2. load.prompts[r + 1] \in Nat \ {0}
    BY <1>2, <1>3, <2>1, ElementOfSeq
  <2> DEFINE n == load.prompts[r + 1]
  <2>3. n - 1 + load.maxNew \in Slots
    BY <1>2, <1>3, <2>1
  <2>4. Baseline!PromptEnd(load, r) = n - 1
    BY DEF Baseline!PromptEnd
  <2> HIDE DEF n
  <2>5. load.maxNew \in Nat /\ n \in Nat \ {0}
    BY <1>1, <1>2, <2>2 DEF n
  <2>6. QED
    BY <1>1, <2>1, <2>3, <2>4, <2>5 DEF Idle, Baseline!NoRequest
<1>8. Slots \subseteq Nat /\ load.maxNew \in Nat
  BY <1>1, <1>2
<1>9. QED
  BY <1>2, <1>3, <1>4, <1>5, <1>6, <1>7, <1>8

Rows     == 1..load.batch
Frees    == {b \in Rows : rows[b].req = Idle}
Admitted == {b \in Rows : Baseline!Admits(b)}

\* curr_req_idx once the free rows have been filled.
NextCurr == curr + load.sample * Cardinality(Admitted)

\* The rows admitted take the next sampled requests, one each and in order; a
\* row stays free only if there is none left.
LEMMA AdmittedFacts ==
  ASSUME IsLoaded, RowsInv, TakenInv, curr \in Nat
  PROVE  /\ NextCurr \in Nat /\ curr <= NextCurr
         /\ \E q \in Nat : NextCurr = q * load.sample
         /\ \A b \in Admitted :
              /\ b \in Frees /\ Baseline!NextRequest(b) \in Takes
              /\ curr <= Baseline!NextRequest(b) /\ Baseline!NextRequest(b) < NextCurr
              /\ curr < Prompts
         /\ \A b, c \in Admitted : Baseline!NextRequest(b) = Baseline!NextRequest(c) => b = c
         /\ \A r \in Takes : curr <= r /\ r < NextCurr =>
              \E b \in Admitted : Baseline!NextRequest(b) = r
         /\ \A b \in Frees \ Admitted : NextCurr >= Prompts
<1> DEFINE k == load.sample
           J == Cardinality(Admitted)
<1>1. /\ k \in Nat \ {0} /\ load.batch \in Nat /\ Prompts \in Nat
      /\ \A r \in Takes : r \in 0..Prompts - 1
      /\ \A r \in 0..Prompts - 1 : r \in Takes <=> r % k = 0
  BY LoadFacts
<1>2. PICK q \in Nat : curr = q * k
  BY DEF TakenInv
<1>3. /\ Admitted \subseteq Frees /\ Frees \subseteq Rows
      /\ Rows \in SUBSET Int /\ IsFiniteSet(Rows)
  <2>1. Admitted \subseteq Frees /\ Frees \subseteq Rows
    BY DEF Admitted, Frees, Baseline!Admits, Baseline!Free, Idle
  <2>2. Rows \in SUBSET Int
    BY <1>1 DEF Rows
  <2>3. IsFiniteSet(Rows)
    BY <1>1, FS_Interval DEF Rows
  <2>4. QED
    BY <2>1, <2>2, <2>3
<1>4. /\ Frees \in SUBSET Int /\ IsFiniteSet(Frees) /\ Admitted \in SUBSET Int
      /\ IsFiniteSet(Admitted) /\ J \in Nat
      /\ J <= Cardinality(Frees) /\ (J = Cardinality(Frees) => Admitted = Frees)
      /\ Cardinality(Frees) \in Nat
  BY <1>3, FS_Subset, FS_CardinalityType
<1>5. \A b \in Frees : /\ Baseline!NextRequest(b) = curr + k * Place(Frees, b)
                       /\ b \in Admitted <=> Baseline!NextRequest(b) < Prompts
  <2>1. ASSUME NEW b \in Frees
        PROVE  /\ Baseline!NextRequest(b) = curr + k * Place(Frees, b)
               /\ b \in Admitted <=> Baseline!NextRequest(b) < Prompts
    <3>1. b \in Rows /\ rows[b].req = Idle
      BY DEF Frees
    <3>2. {i \in 1..b - 1 : Baseline!Free(i)} = {y \in Frees : y < b}
      BY <1>1, <3>1 DEF Frees, Rows, Baseline!Free, Idle
    <3>3. Baseline!NextRequest(b) = curr + k * Place(Frees, b)
      BY <3>2, SameCardinality DEF Baseline!NextRequest, Place
    <3>4. b \in Admitted <=> Baseline!NextRequest(b) < Prompts
      BY <3>1 DEF Admitted, Baseline!Admits, Baseline!Free, Idle, Prompts
    <3>5. QED
      BY <3>3, <3>4
  <2>2. QED
    BY <2>1
<1> HIDE DEF k, J
\* Free rows before an admitted one are admitted.
<1>6. \A b \in Admitted, a \in Frees : a < b => a \in Admitted
  <2>1. ASSUME NEW b \in Admitted, NEW a \in Frees, a < b
        PROVE  a \in Admitted
    <3>1. b \in Frees /\ Place(Frees, a) < Place(Frees, b)
      BY <1>3, <1>4, <2>1, PlaceGrows
    <3>2. Place(Frees, a) \in Nat /\ Place(Frees, b) \in Nat
      BY <1>4, <3>1, PlaceBounds
    <3>3. Place(Frees, a) * k < Place(Frees, b) * k
      BY <1>1, <3>1, <3>2, Products
    <3> DEFINE x == Place(Frees, a) * k
               y == Place(Frees, b) * k
    <3>4. x \in Nat /\ y \in Nat /\ x < y /\ k * Place(Frees, a) = x /\ k * Place(Frees, b) = y
      BY <1>1, <3>2, <3>3
    <3> HIDE DEF x, y
    <3>5. Baseline!NextRequest(a) = curr + x /\ Baseline!NextRequest(b) = curr + y
      BY <1>5, <3>1, <3>4
    <3>6. curr + y < Prompts
      BY <1>5, <3>1, <3>5
    <3>7. QED
      BY <1>1, <1>5, <3>4, <3>5, <3>6
  <2>2. QED
    BY <2>1
<1>7. \A b \in Admitted : Place(Frees, b) = Place(Admitted, b)
  <2>1. ASSUME NEW b \in Admitted
        PROVE  {y \in Frees : y < b} = {y \in Admitted : y < b}
    BY <1>3, <1>6
  <2>2. QED
    BY <2>1 DEF Place
<1>8. \A b \in Admitted : /\ Place(Admitted, b) \in 0..J - 1
                          /\ Baseline!NextRequest(b) = curr + Place(Admitted, b) * k
  <2>1. ASSUME NEW b \in Admitted
        PROVE  /\ Place(Admitted, b) \in 0..J - 1
               /\ Baseline!NextRequest(b) = curr + Place(Admitted, b) * k
    <3>1. Place(Admitted, b) \in 0..J - 1
      BY <1>4, PlaceBounds DEF J
    <3>2. Baseline!NextRequest(b) = curr + k * Place(Admitted, b)
      BY <1>3, <1>5, <1>7
    <3>3. k * Place(Admitted, b) = Place(Admitted, b) * k
      BY <1>1, <1>4, <3>1
    <3>4. QED
      BY <3>1, <3>2, <3>3
  <2>2. QED
    BY <2>1
<1>9. J * k \in Nat /\ NextCurr = curr + J * k
  <2>1. J * k \in Nat /\ k * J = J * k
    BY <1>1, <1>4
  <2>2. QED
    BY <2>1 DEF NextCurr, k, J
<1>10. \E t \in Nat : NextCurr = t * k
  <2>1. q + J \in Nat /\ (q + J) * k = q * k + J * k
    BY <1>1, <1>2, <1>4
  <2>2. QED
    BY <1>2, <1>9, <2>1
<1>11. ASSUME NEW b \in Admitted
       PROVE  /\ Baseline!NextRequest(b) \in Takes
              /\ curr <= Baseline!NextRequest(b) /\ Baseline!NextRequest(b) < NextCurr
              /\ curr < Prompts
  <2> DEFINE n == Place(Admitted, b)
             x == n * k
  <2>1. n \in Nat /\ n < J /\ Baseline!NextRequest(b) = curr + x
    BY <1>4, <1>8
  <2>2. x \in Nat /\ x < J * k
    BY <1>1, <1>4, <2>1, Products
  <2>3. Baseline!NextRequest(b) < Prompts
    BY <1>3, <1>5
  <2>4. curr + x = (q + n) * k /\ q + n \in Nat
    BY <1>1, <1>2, <2>1
  <2> HIDE DEF x
  <2>5. (curr + x) % k = 0
    <3> DEFINE m == q + n
    <3>1. m \in Nat /\ curr + x = m * k
      BY <2>4
    <3> HIDE DEF m
    <3>2. (m * k) % k = 0
      BY <1>1, <3>1
    <3>3. QED
      BY <3>1, <3>2
  <2>6. curr + x \in 0..Prompts - 1
    BY <1>1, <2>1, <2>2, <2>3
  <2>7. QED
    BY <1>1, <1>9, <2>1, <2>2, <2>3, <2>5, <2>6
<1>12. ASSUME NEW b \in Admitted, NEW c \in Admitted,
              Baseline!NextRequest(b) = Baseline!NextRequest(c), b < c
       PROVE  FALSE
  <2>1. Place(Admitted, b) < Place(Admitted, c)
    BY <1>4, <1>12, PlaceGrows
  <2>2. Place(Admitted, b) \in Nat /\ Place(Admitted, c) \in Nat
    BY <1>4, <1>8
  <2>3. Place(Admitted, b) * k < Place(Admitted, c) * k
    BY <1>1, <2>1, <2>2, Products
  <2> DEFINE x == Place(Admitted, b) * k
             y == Place(Admitted, c) * k
  <2>4. x \in Nat /\ y \in Nat /\ x < y /\ curr + x = curr + y
    BY <1>1, <1>8, <1>12, <2>2, <2>3
  <2> HIDE DEF x, y
  <2>5. QED
    BY <2>4
<1>13. ASSUME NEW r \in Takes, curr <= r, r < NextCurr
       PROVE  \E b \in Admitted : Baseline!NextRequest(b) = r
  <2>1. r \in Nat /\ r % k = 0
    BY <1>1
  <2> DEFINE t == r \div k
  <2>2. t \in Nat /\ r = t * k
    BY <1>1, <2>1
  <2> HIDE DEF t
  <2>3. ~(t < q)
    <3>1. t < q => t * k < q * k
      BY <1>1, <2>2, Products
    <3>2. QED
      BY <1>2, <1>13, <2>1, <2>2, <3>1
  <2>4. t < q + J
    <3>1. q + J \in Nat /\ (q + J) * k = curr + J * k
      BY <1>1, <1>2, <1>4
    <3>2. q + J < t => (q + J) * k < t * k
      BY <1>1, <2>2, <3>1, Products
    <3>3. q + J # t
      BY <1>9, <1>13, <2>1, <2>2, <3>1
    <3>4. QED
      BY <1>9, <1>13, <2>1, <2>2, <3>1, <3>2, <3>3
  <2>5. t - q \in 0..J - 1
    BY <1>4, <2>2, <2>3, <2>4
  <2>6. PICK b \in Admitted : Place(Admitted, b) = t - q
    BY <1>4, <2>5, PlaceIsTaken DEF J
  <2>7. q * k + (t - q) * k = t * k
    BY <1>1, <2>2
  <2>8. QED
    BY <1>2, <1>8, <2>2, <2>6, <2>7
<1>14. ASSUME NEW b \in Frees \ Admitted
       PROVE  NextCurr >= Prompts
  <2>1. J < Cardinality(Frees)
    BY <1>4 DEF J
  <2>2. PICK c \in Frees : Place(Frees, c) = J
    BY <1>4, <2>1, PlaceIsTaken
  <2>3. c \notin Admitted
    BY <1>4, <1>7, <1>8, <2>2
  <2>4. Baseline!NextRequest(c) = NextCurr
    BY <1>1, <1>4, <1>5, <1>9, <2>2
  <2>5. QED
    BY <1>1, <1>5, <1>9, <2>3, <2>4
<1>15. \A b, c \in Admitted : Baseline!NextRequest(b) = Baseline!NextRequest(c) => b = c
  <2>1. \A b \in Admitted : b \in Int
    BY <1>4
  <2>2. QED
    BY <1>12, <2>1
<1>16. QED
  BY <1>3, <1>9, <1>10, <1>11, <1>13, <1>14, <1>15 DEF k

-----------------------------------------------------------------------------
(* AutoBatch: loading, and one iteration.                                   *)

LEMMA LoadKeepsInv ==
  ASSUME BaselineInv, NEW l \in Loads, Baseline!Load(l)
  PROVE  BaselineInv'
<1>1. /\ load = Baseline!NotLoaded /\ load' = l /\ rows' = [b \in 1..l.batch |-> Baseline!NewRow]
      /\ steps' = [i \in 1..Prompts' |-> 0] /\ tokens' = [i \in 1..Prompts' |-> 0]
      /\ UNCHANGED <<curr, completed, returned>>
  BY DEF Baseline!Load, Prompts
<1>2. curr' = 0 /\ completed' = {} /\ returned' = FALSE /\ IsLoaded'
  BY <1>1 DEF BaselineInv, IsLoaded
<1> DEFINE top == Cardinality(Slots) - 1
<1>3. Slots = 0..top /\ top \in Int
  BY LoadsAssumption, FS_CardinalityType
<1> HIDE DEF top
<1>4. load'.batch \in Nat /\ load'.sample \in Nat \ {0} /\ load'.maxNew \in Nat
  <2>1. l.maxNew \in Slots
    BY LoadsAssumption
  <2>2. QED
    BY <1>1, <1>3, <2>1, LoadsAssumption
<1>5. \A r \in Takes' : r \in Nat
  BY DEF Takes, Baseline!Sampled, Prompts, Baseline!NumPrompts
<1>6. Baseline!NewRow \in RowType'
  BY <1>4 DEF RowType, Baseline!NewRow, Idle
<1>7. RowsInv'
  <2>1. \A b \in 1..load'.batch : rows'[b] = Baseline!NewRow
    BY <1>1
  <2>2. rows' \in [1..load'.batch -> RowType']
    BY <1>1, <1>6
  <2>3. Baseline!NewRow.req = Idle /\ Baseline!NewRow.offset = 0 /\ Baseline!NewRow.count = 0
        /\ Baseline!NewRow.mask = {}
    BY DEF Baseline!NewRow, Idle
  <2>4. \A b \in 1..load'.batch : rows'[b].req = Idle /\ IdleInv(rows[b], curr)'
    BY <2>1, <2>3 DEF IdleInv
  <2>5. QED
    BY <2>2, <2>4 DEF RowsInv
<1>8. \A b \in 1..load'.batch : rows'[b].req = Idle /\ Idle = -1
  BY <1>1 DEF Baseline!NewRow, Idle, Baseline!NoRequest
<1>9. TakenInv'
  <2>1. curr' = 0 * load'.sample /\ 0 \in Nat
    BY <1>2, <1>4
  <2>2. \A r \in Takes' : ~(r < curr')
    BY <1>2, <1>5
  <2>3. \A b \in 1..load'.batch : rows'[b].req < curr'
    BY <1>2, <1>8
  <2>4. QED
    BY <1>2, <1>8, <2>1, <2>2, <2>3 DEF TakenInv
<1>10. StepsInv'
  BY <1>1, <1>2, <1>8 DEF StepsInv
<1>11. QED
  BY <1>2, <1>7, <1>9, <1>10 DEF BaselineInv, IsLoaded

\* The rows once free ones are filled, and after the forward pass.
Filled  == Baseline!Filled
After   == Baseline!Forwarded(Filled)
Columns == {Filled[b].offset + 1 : b \in Rows}

HasTokensLeft == \A b \in Rows : rows[b].count < load.maxNew

LEMMA FilledFacts ==
  ASSUME IsLoaded, RowsInv, TakenInv, curr \in Nat, HasTokensLeft, NEW b \in Rows
  PROVE  /\ Filled[b] \in RowType /\ Filled[b].count < load.maxNew
         /\ b \in Admitted => Filled[b].req = Baseline!NextRequest(b) /\ Filled[b].count = 0
         /\ b \notin Admitted => Filled[b] = rows[b]
         /\ Filled[b].req = Idle => b \in Frees \ Admitted /\ IdleInv(Filled[b], NextCurr)
         /\ Filled[b].req # Idle => BusyInv(Filled[b])
<1> DEFINE row == rows[b]
           req == Baseline!NextRequest(b)
           end == Baseline!PromptEnd(load, req)
<1>1. /\ row \in RowType /\ row.count < load.maxNew /\ row.count \in Nat /\ row.offset \in Nat
      /\ IF row.req = Idle THEN IdleInv(row, curr) ELSE BusyInv(row)
  BY LoadFacts DEF RowsInv, Rows, HasTokensLeft, RowType
<1>2. b \notin Admitted => Filled[b] = row
  BY DEF Filled, Baseline!Filled, Admitted, Rows
<1>3. CASE b \notin Admitted
  <2>1. ASSUME row.req = Idle
        PROVE  b \in Frees \ Admitted /\ IdleInv(row, NextCurr)
    <3>1. b \in Frees \ Admitted
      BY <1>3, <2>1 DEF Frees
    <3>2. NextCurr >= Prompts
      BY <3>1, AdmittedFacts
    <3>3. QED
      BY <1>1, <2>1, <3>1, <3>2 DEF IdleInv
  <2>2. QED
    BY <1>1, <1>2, <1>3, <2>1
<1>4. CASE b \in Admitted
  <2>1. /\ b \in Frees /\ req \in Takes /\ curr < Prompts
    BY <1>4, AdmittedFacts
  <2>2. /\ row.req = Idle /\ row.count = 0 /\ row.mask = {} /\ Prompts \in Nat
    <3>1. row.req = Idle
      BY <2>1 DEF Frees
    <3>2. ~(curr >= Prompts) /\ Prompts \in Nat
      BY <2>1, LoadFacts
    <3>3. QED
      BY <1>1, <3>1, <3>2 DEF IdleInv
  <2>3. /\ req # Idle /\ end \in Nat /\ load.maxNew \in Nat /\ Slots \subseteq Nat
        /\ \A i \in 0..end + load.maxNew : i \in Slots
    BY <2>1, LoadFacts
  <2>4. 0..end \in SUBSET Slots
    BY <2>3
  <2> DEFINE kv == [i \in Slots |-> IF i <= end THEN req ELSE row.kv[i]]
  <2>5. /\ Filled[b] \in [req : {req}, offset : {end}, count : {0}, mask : {0..end}, kv : {kv}]
        /\ Filled[b].req = req /\ Filled[b].offset = end /\ Filled[b].count = 0
        /\ Filled[b].mask = 0..end /\ Filled[b].kv = kv
    <3>1. Filled[b] = Baseline!Prefilled(row, req)
      BY <1>4 DEF Filled, Baseline!Filled, Admitted, Rows
    <3>2. Baseline!Prefilled(row, req) =
            [row EXCEPT !.req = req, !.offset = end, !.mask = @ \cup 0..end, !.kv = kv]
      BY DEF Baseline!Prefilled
    <3> HIDE DEF kv, end, req, row
    <3>3. row \in [req : {row.req}, offset : {row.offset}, count : {0}, mask : {{}}, kv : {row.kv}]
      BY <1>1, <2>2 DEF RowType
    <3>4. [row EXCEPT !.req = req, !.offset = end, !.mask = @ \cup 0..end, !.kv = kv]
            \in [req : {req}, offset : {end}, count : {0}, mask : {{} \cup 0..end}, kv : {kv}]
      BY <3>3
    <3>5. {} \cup 0..end = 0..end
      OBVIOUS
    <3>6. QED
      BY <3>1, <3>2, <3>4, <3>5
  <2>6. kv \in [Slots -> {Idle, Baseline!Empty} \cup Takes]
    <3>1. row.kv \in [Slots -> {Idle, Baseline!Empty} \cup Takes]
      BY <1>1 DEF RowType
    <3>2. QED
      BY <2>1, <3>1
  <2>7. \A i \in 0..end - 1 : kv[i] = req
    BY <2>3, <2>4
  <2> HIDE DEF kv, end, req
  <2>8. Filled[b] \in RowType
    BY <1>1, <2>1, <2>2, <2>3, <2>4, <2>5, <2>6 DEF RowType
  <2>9. BusyInv(Filled[b])
    <3>1. Filled[b].offset = Baseline!PromptEnd(load, Filled[b].req) + Filled[b].count
      BY <2>3, <2>5 DEF end
    <3>2. QED
      BY <2>5, <2>7, <3>1 DEF BusyInv
  <2>10. QED
    BY <1>1, <1>4, <2>2, <2>3, <2>5, <2>8, <2>9 DEF req
<1>5. QED
  BY <1>3, <1>4

\* The columns every row is given are slots: no row has outgrown its tokens.
LEMMA ColumnsAreSlots ==
  ASSUME IsLoaded, RowsInv, TakenInv, curr \in Nat, HasTokensLeft
  PROVE  /\ Columns \subseteq Slots
         /\ \A b \in Rows : /\ Filled[b].offset \in Slots /\ Filled[b].offset \in Nat
                            /\ Filled[b].offset + 1 \in Columns
                            /\ load.batch = 1 => Columns = {Filled[b].offset + 1}
<1>1. ASSUME NEW b \in Rows
      PROVE  Filled[b].offset \in Slots /\ Filled[b].offset \in Nat /\ Filled[b].offset + 1 \in Slots
  <2> DEFINE f == Filled[b]
             end == Baseline!PromptEnd(load, f.req)
  <2>1. /\ f \in RowType /\ f.count < load.maxNew
        /\ f.req = Idle => IdleInv(f, NextCurr)
        /\ f.req # Idle => BusyInv(f)
    BY FilledFacts
  <2>2. /\ f.req \in {Idle} \cup Takes /\ f.count \in 0..load.maxNew /\ load.maxNew \in Nat
        /\ f.count \in Nat
    BY <2>1, LoadFacts DEF RowType
  <2>3. CASE f.req = Idle
    <3>1. f.offset = f.count /\ \A i \in 0..load.maxNew : i \in Slots
      BY <2>1, <2>3, LoadFacts DEF IdleInv
    <3> HIDE DEF f
    <3>2. f.offset \in Slots /\ f.offset \in Nat /\ f.offset + 1 \in Slots
      BY <2>1, <2>2, <3>1
    <3>3. QED
      BY <3>2 DEF f
  <2>4. CASE f.req # Idle
    <3>1. end \in Nat /\ \A i \in 0..end + load.maxNew : i \in Slots
      BY <2>2, <2>4, LoadFacts
    <3>2. f.offset = end + f.count
      BY <2>1, <2>4 DEF BusyInv
    <3> HIDE DEF f, end
    <3>3. /\ f.offset \in 0..end + load.maxNew /\ f.offset + 1 \in 0..end + load.maxNew
          /\ f.offset \in Nat
      BY <2>1, <2>2, <3>1, <3>2
    <3>4. QED
      BY <3>1, <3>3 DEF f
  <2>5. QED
    BY <2>3, <2>4
<1>2. \A b \in Rows : load.batch = 1 => Columns = {Filled[b].offset + 1}
  <2>1. load.batch = 1 => Rows = {1}
    BY DEF Rows
  <2>2. QED
    BY <2>1 DEF Columns
<1>3. QED
  BY <1>1, <1>2 DEF Columns

LEMMA AfterFacts ==
  ASSUME IsLoaded, RowsInv, TakenInv, curr \in Nat, HasTokensLeft, NEW b \in Rows
  PROVE  /\ After[b] \in RowType
         /\ After[b].req = Filled[b].req /\ After[b].count = Filled[b].count + 1
         /\ After[b].req = Idle => IdleInv(After[b], NextCurr)
         /\ After[b].req # Idle => BusyInv(After[b])
<1> DEFINE f == Filled[b]
           kv == [f.kv EXCEPT ![f.offset] = f.req]
           end == Baseline!PromptEnd(load, f.req)
<1>1. /\ f \in RowType /\ f.count < load.maxNew
      /\ f.req = Idle => b \in Frees \ Admitted /\ IdleInv(f, NextCurr)
      /\ f.req # Idle => BusyInv(f)
  BY FilledFacts
<1>2. /\ Columns \subseteq Slots /\ f.offset \in Slots /\ f.offset \in Nat /\ f.offset + 1 \in Columns
      /\ load.batch = 1 => Columns = {f.offset + 1}
  BY ColumnsAreSlots
<1>3. /\ f.req \in {Idle} \cup Takes /\ f.count \in Nat /\ load.maxNew \in Nat /\ f.mask \in SUBSET Slots
      /\ f.kv \in [Slots -> {Idle, Baseline!Empty} \cup Takes]
  BY <1>1, LoadFacts DEF RowType
<1>4. /\ After[b] \in [req : {f.req}, offset : {f.offset + 1}, count : {f.count + 1},
                       mask : {f.mask \cup Columns}, kv : {kv}]
      /\ After[b].req = f.req /\ After[b].offset = f.offset + 1 /\ After[b].count = f.count + 1
      /\ After[b].mask = f.mask \cup Columns /\ After[b].kv = kv
  <2>1. After[b] = [f EXCEPT !.kv[f.offset] = f.req, !.offset = @ + 1, !.count = @ + 1,
                             !.mask = @ \cup Columns]
    BY DEF After, Baseline!Forwarded, Columns, Rows
  <2>2. [f EXCEPT !.kv[f.offset] = f.req, !.offset = @ + 1, !.count = @ + 1, !.mask = @ \cup Columns]
          = [f EXCEPT !.kv = kv, !.offset = f.offset + 1, !.count = f.count + 1,
                      !.mask = f.mask \cup Columns]
    BY <1>1 DEF RowType
  <2>3. f \in [req : {f.req}, offset : {f.offset}, count : {f.count}, mask : {f.mask}, kv : {f.kv}]
    BY <1>1 DEF RowType
  <2> DEFINE o == f.offset + 1
             n == f.count + 1
             m == f.mask \cup Columns
  <2> HIDE DEF f, kv, o, n, m
  <2>4. [f EXCEPT !.kv = kv, !.offset = o, !.count = n, !.mask = m]
          \in [req : {f.req}, offset : {o}, count : {n}, mask : {m}, kv : {kv}]
    BY <2>3
  <2>5. After[b] \in [req : {f.req}, offset : {o}, count : {n}, mask : {m}, kv : {kv}]
    BY <2>1, <2>2, <2>4 DEF o, n, m
  <2>6. QED
    BY <2>5 DEF o, n, m
<1>5. /\ kv \in [Slots -> {Idle, Baseline!Empty} \cup Takes]
      /\ kv[f.offset] = f.req /\ \A i \in Slots : i # f.offset => kv[i] = f.kv[i]
  BY <1>2, <1>3
<1> HIDE DEF f, kv, end
<1>6. f.mask \cup Columns \in SUBSET Slots
  BY <1>2, <1>3
<1>7. f.count + 1 \in 0..load.maxNew /\ f.offset + 1 \in Nat
  BY <1>1, <1>2, <1>3
<1>8. After[b] \in RowType
  BY <1>3, <1>4, <1>5, <1>6, <1>7 DEF RowType
<1>9. ASSUME f.req = Idle
      PROVE  IdleInv(After[b], NextCurr)
  <2>1. NextCurr >= Prompts
    BY <1>1, <1>9, AdmittedFacts
  <2>2. QED
    BY <1>1, <1>2, <1>3, <1>4, <1>9, <2>1 DEF IdleInv
<1>10. ASSUME f.req # Idle
       PROVE  BusyInv(After[b])
  <2>1. end \in Nat /\ \A i \in 0..end + load.maxNew : i \in Slots
    <3>1. Baseline!PromptEnd(load, f.req) \in Nat
      BY <1>3, <1>10, LoadFacts
    <3>2. QED
      BY <1>3, <1>10, <3>1, LoadFacts DEF end
  <2>2. /\ f.offset = end + f.count /\ 0..f.offset \subseteq f.mask
        /\ \A i \in 0..f.offset - 1 : f.kv[i] = f.req
        /\ load.batch = 1 => f.mask = 0..f.offset
    BY <1>1, <1>10 DEF BusyInv, end
  <2>3. f.offset + 1 = end + (f.count + 1)
    BY <1>3, <2>1, <2>2
  <2>4. 0..f.offset + 1 = 0..f.offset \cup {f.offset + 1}
    BY <1>2
  <2>5. 0..f.offset + 1 \subseteq f.mask \cup Columns
    BY <1>2, <2>2, <2>4
  <2>6. load.batch = 1 => f.mask \cup Columns = 0..f.offset + 1
    BY <1>2, <2>2, <2>4
  <2>7. \A i \in 0..(f.offset + 1) - 1 : kv[i] = f.req
    <3>1. \A i \in 0..(f.offset + 1) - 1 : i \in Slots /\ (i = f.offset \/ i \in 0..f.offset - 1)
      BY <1>1, <1>2, <1>3, <2>1, <2>2
    <3>2. QED
      BY <1>5, <2>2, <3>1
  <2> DEFINE a == After[b]
  <2>8. /\ a.req = f.req /\ a.offset = f.offset + 1 /\ a.count = f.count + 1
        /\ a.mask = f.mask \cup Columns /\ a.kv = kv
    BY <1>4
  <2> HIDE DEF a
  <2>9. BusyInv(a)
    <3>1. a.offset = Baseline!PromptEnd(load, a.req) + a.count
      BY <2>3, <2>8 DEF end
    <3>2. 0..a.offset \subseteq a.mask
      BY <2>5, <2>8
    <3>3. \A i \in 0..a.offset - 1 : a.kv[i] = a.req
      BY <2>7, <2>8
    <3>4. load.batch = 1 => a.mask = 0..a.offset
      BY <2>6, <2>8
    <3>5. QED
      BY <3>1, <3>2, <3>3, <3>4 DEF BusyInv
  <2>10. QED
    BY <2>9 DEF a
<1>11. QED
  BY <1>4, <1>8, <1>9, <1>10 DEF f

\* Which rows have a request and complete it in an iteration, which of them
\* are looked at before the last request ends main, and whether one does.
Occupied    == {b \in Rows : After[b].req # Idle}
Ends(eos)   == {b \in Occupied : Baseline!Complete(After[b], b \in eos)}
Closing(eos)   == {b \in Ends(eos) : After[b].req >= Baseline!LastRequest(load)}
Looked(eos) == {b \in Occupied : ~\E i \in 1..b - 1 : i \in Closing(eos)}
Ended(eos)  == Looked(eos) \cap Ends(eos)

LEMMA IterationIs ==
  ASSUME IsLoaded, NEW eos, Baseline!Iterate(eos)
  PROVE  /\ ~returned /\ HasTokensLeft
         /\ rows' = [b \in Rows |-> IF b \in Ended(eos) THEN Baseline!Cleared(After[b]) ELSE After[b]]
         /\ curr' = NextCurr
         /\ steps' = [i \in DOMAIN steps |->
                        IF \E b \in Looked(eos) : After[b].req = i - 1 THEN steps[i] + 1 ELSE steps[i]]
         /\ tokens' = [i \in DOMAIN tokens |->
                         IF \E b \in Rows : After[b].req = i - 1 THEN tokens[i] + 1 ELSE tokens[i]]
         /\ completed' = completed \cup {After[b].req : b \in Ended(eos)}
         /\ returned' = \E b \in Looked(eos) : b \in Closing(eos)
         /\ load' = load
<1> DEFINE after == Baseline!Forwarded(Baseline!Filled)
           B(b) == after[b].req # Baseline!NoRequest
           E(b) == B(b) /\ Baseline!Complete(after[b], b \in eos)
           F(b) == E(b) /\ after[b].req >= Baseline!LastRequest(load)
           reached(b) == ~\E i \in 1..b - 1 : F(i)
           looked == {b \in 1..load.batch : B(b) /\ reached(b)}
           ended == {b \in looked : E(b)}
<1>1. load.batch \in Nat
  BY LoadFacts
<1>2. after = After
  BY DEF After, Filled
<1>3. \A b \in Rows : /\ B(b) <=> b \in Occupied
                      /\ E(b) <=> b \in Ends(eos)
                      /\ F(b) <=> b \in Closing(eos)
  BY <1>2 DEF Occupied, Ends, Closing, Idle
<1>4. looked = Looked(eos)
  <2>1. \A b \in Rows : reached(b) <=> ~\E i \in 1..b - 1 : i \in Closing(eos)
    <3>1. \A b \in Rows : \A i \in 1..b - 1 : i \in Rows
      BY <1>1 DEF Rows
    <3> HIDE DEF F
    <3>2. QED
      BY <1>3, <3>1
  <2> HIDE DEF B, reached
  <2>2. QED
    BY <1>3, <2>1 DEF Looked, Occupied, Rows
<1>5. ended = Ended(eos)
  <2>1. Looked(eos) \subseteq Rows
    BY DEF Looked, Occupied
  <2> HIDE DEF E, looked
  <2>2. QED
    BY <1>3, <1>4, <2>1 DEF Ended
<1>6. /\ ~returned
      /\ \A b \in 1..load.batch : rows[b].count < load.maxNew
      /\ rows' = [b \in 1..load.batch |-> IF b \in ended THEN Baseline!Cleared(after[b]) ELSE after[b]]
      /\ curr' = curr + load.sample * Baseline!Cardinality({b \in 1..load.batch : Baseline!Admits(b)})
      /\ steps' = [i \in DOMAIN steps |->
                     IF \E b \in looked : after[b].req = i - 1 THEN steps[i] + 1 ELSE steps[i]]
      /\ tokens' = [i \in DOMAIN tokens |->
                      IF \E b \in 1..load.batch : after[b].req = i - 1
                      THEN tokens[i] + 1 ELSE tokens[i]]
      /\ completed' = completed \cup {after[b].req : b \in ended}
      /\ returned' = (\E b \in looked : F(b))
      /\ load' = load
  BY DEF Baseline!Iterate
<1> HIDE DEF after, B, E, F, reached, looked, ended
<1>7. curr' = NextCurr
  BY <1>6, SameCardinality DEF NextCurr, Admitted, Rows
<1>8. returned' = (\E b \in Looked(eos) : b \in Closing(eos))
  <2>1. \A b \in Looked(eos) : F(b) <=> b \in Closing(eos)
    BY <1>3 DEF Looked, Occupied
  <2>2. QED
    BY <1>4, <1>6, <2>1
<1>9. QED
  BY <1>2, <1>4, <1>5, <1>6, <1>7, <1>8 DEF HasTokensLeft, Rows

\* Requests the rows have after the forward pass: one row each, taken by then,
\* and all that have been taken and are not completed.
LEMMA TakenAfter ==
  ASSUME IsLoaded, RowsInv, TakenInv, curr \in Nat, HasTokensLeft
  PROVE  /\ \A b \in Rows : After[b].req < NextCurr /\ After[b].req \notin completed
         /\ \A b, c \in Rows : After[b].req # Idle /\ After[b].req = After[c].req => b = c
         /\ \A r \in Takes : r < NextCurr => r \in completed \/ \E b \in Rows : After[b].req = r
<1>1. /\ NextCurr \in Nat /\ curr <= NextCurr
      /\ \A r \in Takes : r \in Nat /\ r # Idle
  BY AdmittedFacts, LoadFacts
<1>2. \A b \in Rows :
        /\ b \in Admitted => After[b].req = Baseline!NextRequest(b)
        /\ b \notin Admitted => After[b].req = rows[b].req
  BY FilledFacts, AfterFacts
<1>3. \A b \in Admitted :
        /\ b \in Frees /\ Baseline!NextRequest(b) \in Takes
        /\ curr <= Baseline!NextRequest(b) /\ Baseline!NextRequest(b) < NextCurr
  BY AdmittedFacts
<1>4. /\ completed \subseteq Takes /\ \A r \in completed : r < curr
      /\ \A b \in Rows : rows[b].req < curr /\ rows[b].req \notin completed
      /\ \A b, c \in Rows : rows[b].req # Idle /\ rows[b].req = rows[c].req => b = c
      /\ \A r \in Takes : r < curr => r \in completed \/ \E b \in Rows : rows[b].req = r
  BY DEF TakenInv, Rows
<1>5. \A b \in Rows : rows[b].req \in {Idle} \cup Takes /\ rows[b].req \in Int
  <2>1. \A b \in Rows : rows[b].req \in {Idle} \cup Takes
    BY DEF RowsInv, RowType, Rows
  <2>2. Idle \in Int
    BY DEF Idle, Baseline!NoRequest
  <2>3. QED
    BY <1>1, <2>1, <2>2
<1>6. ASSUME NEW b \in Rows
      PROVE  After[b].req < NextCurr /\ After[b].req \notin completed
  <2>1. CASE b \in Admitted
    <3>1. After[b].req \in Takes /\ curr <= After[b].req /\ After[b].req < NextCurr
      BY <1>2, <1>3, <2>1
    <3>2. After[b].req \notin completed
      BY <1>1, <1>4, <3>1
    <3>3. QED
      BY <3>1, <3>2
  <2>2. CASE b \notin Admitted
    <3>1. After[b].req = rows[b].req
      BY <1>2, <2>2
    <3>2. QED
      BY <1>1, <1>4, <1>5, <3>1
  <2>3. QED
    BY <2>1, <2>2
<1>7. ASSUME NEW b \in Rows, NEW c \in Rows, After[b].req # Idle, After[b].req = After[c].req
      PROVE  b = c
  <2>1. CASE b \in Admitted /\ c \in Admitted
    <3>1. Baseline!NextRequest(b) = Baseline!NextRequest(c)
      BY <1>2, <1>7, <2>1
    <3>2. QED
      BY <2>1, <3>1, AdmittedFacts
  <2>2. CASE b \notin Admitted /\ c \notin Admitted
    <3>1. rows[b].req # Idle /\ rows[b].req = rows[c].req
      BY <1>2, <1>7, <2>2
    <3>2. QED
      BY <1>4, <3>1
  <2>3. \A d \in Admitted, e \in Rows \ Admitted : After[d].req # After[e].req
    <3>1. ASSUME NEW d \in Admitted, NEW e \in Rows \ Admitted
          PROVE  After[d].req # After[e].req
      <4>1. After[d].req \in Takes /\ curr <= After[d].req
        BY <1>2, <1>3 DEF Frees
      <4>2. After[e].req \in Int /\ After[e].req < curr
        BY <1>2, <1>4, <1>5
      <4>3. QED
        BY <1>1, <4>1, <4>2
    <3>2. QED
      BY <3>1
  <2>4. QED
    BY <1>7, <2>1, <2>2, <2>3
<1>8. ASSUME NEW r \in Takes, r < NextCurr, r \notin completed
      PROVE  \E b \in Rows : After[b].req = r
  <2>1. CASE r < curr
    <3>1. PICK b \in Rows : rows[b].req = r
      BY <1>4, <1>8, <2>1
    <3>2. b \notin Admitted
      BY <1>1, <1>3, <3>1 DEF Frees
    <3>3. QED
      BY <1>2, <3>1, <3>2
  <2>2. CASE curr <= r
    <3>1. PICK b \in Admitted : Baseline!NextRequest(b) = r
      BY <1>8, <2>2, AdmittedFacts
    <3>2. QED
      BY <1>2, <1>3, <3>1 DEF Frees
  <2>3. QED
    BY <1>1, <2>1, <2>2
<1>9. QED
  BY <1>6, <1>7, <1>8

\* Unless main returns it has looked at every row that has a request.
LEMMA AllAreLooked ==
  ASSUME IsLoaded, NEW eos, ~\E b \in Looked(eos) : b \in Closing(eos)
  PROVE  Looked(eos) = Occupied
<1>1. /\ Closing(eos) \subseteq Occupied /\ Occupied \subseteq Rows /\ Looked(eos) \subseteq Occupied
      /\ Rows \in SUBSET Int
  BY DEF Closing, Ends, Occupied, Looked, Rows
<1>2. IsFiniteSet(Rows)
  <2>1. load.batch \in Int
    BY LoadFacts
  <2>2. QED
    BY <2>1, FS_Interval DEF Rows
<1>3. Closing(eos) \in SUBSET Int /\ IsFiniteSet(Closing(eos))
  BY <1>1, <1>2, FS_Subset
<1>4. ASSUME NEW i \in Closing(eos)
      PROVE  FALSE
  <2>1. Place(Closing(eos), i) \in 0..Cardinality(Closing(eos)) - 1 /\ Cardinality(Closing(eos)) \in Nat
    BY <1>3, PlaceBounds
  <2>2. 0 \in 0..Cardinality(Closing(eos)) - 1
    BY <2>1
  <2>3. PICK least \in Closing(eos) : Place(Closing(eos), least) = 0
    BY <1>3, <2>2, PlaceIsTaken
  <2>4. IsFiniteSet({y \in Closing(eos) : y < least})
    BY <1>3, FS_Subset
  <2>5. {y \in Closing(eos) : y < least} = {}
    BY <2>3, <2>4, FS_EmptySet DEF Place
  <2>6. least \in Looked(eos)
    <3>1. \A y \in 1..least - 1 : y < least
      BY <1>3, <2>3
    <3>2. QED
      BY <1>1, <2>3, <2>5, <3>1 DEF Looked
  <2>7. QED
    BY <2>3, <2>6
<1>5. QED
  BY <1>4 DEF Looked

\* No sampled request comes after the last.
LEMMA LastIsGreatest ==
  ASSUME IsLoaded, NEW r \in Takes
  PROVE  Baseline!LastRequest(load) \in Nat /\ r <= Baseline!LastRequest(load)
<1> DEFINE k == load.sample
           n == Prompts - 1
           p == r \div k
           q == n \div k
<1>1. k \in Nat \ {0} /\ r \in 0..n /\ n \in Nat /\ r % k = 0
  BY LoadFacts
<1>2. Baseline!LastRequest(load) = q * k
  BY DEF Baseline!LastRequest, Prompts
<1> HIDE DEF k, n
<1>3. p \in Nat /\ q \in Nat /\ p <= q
  BY <1>1, Quotients
<1>4. r = p * k
  BY <1>1
<1> HIDE DEF p, q
<1>5. p < q => p * k < q * k
  BY <1>1, <1>3, Products
<1>6. q * k \in Nat /\ p * k \in Nat
  BY <1>1, <1>3
<1>7. p * k <= q * k
  <2>1. CASE p = q
    BY <1>6, <2>1
  <2>2. CASE p < q
    BY <1>5, <1>6, <2>2
  <2>3. QED
    BY <1>3, <2>1, <2>2
<1>8. QED
  BY <1>2, <1>4, <1>6, <1>7

LEMMA IterateKeepsInv ==
  ASSUME BaselineInv, NEW eos \in SUBSET Rows, Baseline!Iterate(eos)
  PROVE  BaselineInv'
<1>1. IsLoaded /\ RowsInv /\ TakenInv /\ StepsInv /\ curr \in Nat
  BY DEF BaselineInv, Baseline!Iterate, IsLoaded
<1>2. /\ ~returned /\ HasTokensLeft
      /\ rows' = [b \in Rows |-> IF b \in Ended(eos) THEN Baseline!Cleared(After[b]) ELSE After[b]]
      /\ curr' = NextCurr
      /\ steps' = [i \in DOMAIN steps |->
                     IF \E b \in Looked(eos) : After[b].req = i - 1 THEN steps[i] + 1 ELSE steps[i]]
      /\ tokens' = [i \in DOMAIN tokens |->
                      IF \E b \in Rows : After[b].req = i - 1 THEN tokens[i] + 1 ELSE tokens[i]]
      /\ completed' = completed \cup {After[b].req : b \in Ended(eos)}
      /\ returned' = \E b \in Looked(eos) : b \in Closing(eos)
      /\ load' = load
  BY <1>1, IterationIs
<1>3. /\ NextCurr \in Nat /\ curr <= NextCurr /\ \E q \in Nat : NextCurr = q * load.sample
      /\ \A r \in Takes : r \in 0..Prompts - 1 /\ r # Idle
      /\ load.maxNew \in Nat /\ load.batch \in Nat /\ Prompts \in Nat
  BY <1>1, AdmittedFacts, LoadFacts
<1>4. /\ Rows' = Rows /\ Prompts' = Prompts /\ Takes' = Takes /\ RowType' = RowType /\ IsLoaded'
      /\ Rows = 1..load.batch
  BY <1>1, <1>2 DEF Rows, Prompts, Takes, RowType, IsLoaded
<1>5. \A b \in Rows : /\ After[b] \in RowType /\ After[b].kv \in [Slots -> {Idle, Baseline!Empty} \cup Takes]
                      /\ After[b].req \in {Idle} \cup Takes
                      /\ After[b].req = Idle => IdleInv(After[b], NextCurr)
                      /\ After[b].req # Idle => BusyInv(After[b])
  BY <1>1, <1>2, AfterFacts DEF RowType
<1>6. /\ \A b \in Rows : After[b].req < NextCurr /\ After[b].req \notin completed
      /\ \A b, c \in Rows : After[b].req # Idle /\ After[b].req = After[c].req => b = c
      /\ \A r \in Takes : r < NextCurr => r \in completed \/ \E b \in Rows : After[b].req = r
  BY <1>1, <1>2, TakenAfter
<1>7. Ended(eos) \subseteq Occupied /\ Occupied \subseteq Rows /\ \A b \in Rows : b \in Occupied <=> After[b].req # Idle
  BY DEF Ended, Looked, Occupied
<1>8. \A b \in Rows : /\ b \in Ended(eos) => rows'[b] = Baseline!Cleared(After[b])
                      /\ b \notin Ended(eos) => rows'[b] = After[b]
  BY <1>2
<1>9. \A row : /\ Baseline!Cleared(row).req = Idle /\ Baseline!Cleared(row).offset = 0
               /\ Baseline!Cleared(row).count = 0 /\ Baseline!Cleared(row).mask = {}
               /\ Baseline!Cleared(row).kv = row.kv
               /\ Baseline!Cleared(row) \in [req : {Idle}, offset : {0}, count : {0}, mask : {{}}, kv : {row.kv}]
  BY DEF Baseline!Cleared, Baseline!NewRow, Idle
<1>10. RowsInv'
  <2>1. ASSUME NEW b \in Rows
        PROVE  /\ rows'[b] \in RowType
               /\ IF rows'[b].req = Idle THEN IdleInv(rows'[b], NextCurr) ELSE BusyInv(rows'[b])
    <3>1. CASE b \in Ended(eos)
      <4> DEFINE a == After[b]
                 c == Baseline!Cleared(a)
      <4>1. rows'[b] = c
        BY <1>8, <3>1
      <4>2. /\ c.req = Idle /\ c.offset = 0 /\ c.count = 0 /\ c.mask = {}
            /\ c \in [req : {Idle}, offset : {0}, count : {0}, mask : {{}}, kv : {a.kv}]
        BY <1>9
      <4>3. a.kv \in [Slots -> {Idle, Baseline!Empty} \cup Takes]
        BY <1>5
      <4> HIDE DEF a, c
      <4>4. c \in RowType
        BY <1>3, <4>2, <4>3 DEF RowType
      <4>5. IdleInv(c, NextCurr)
        BY <4>2 DEF IdleInv
      <4>6. QED
        BY <4>1, <4>2, <4>4, <4>5
    <3>2. CASE b \notin Ended(eos)
      BY <1>5, <1>8, <3>2
    <3>3. QED
      BY <3>1, <3>2
  <2>2. rows' \in [Rows -> RowType]
    BY <1>2, <2>1
  <2>4. ASSUME NEW b \in Rows
        PROVE  IF rows'[b].req = Idle THEN IdleInv(rows[b], curr)' ELSE BusyInv(rows[b])'
    BY <1>2, <1>4, <2>1 DEF IdleInv, BusyInv
  <2>5. rows' \in [1..load'.batch -> RowType']
    BY <1>2, <1>4, <2>2
  <2>6. \A b \in 1..load'.batch :
          IF rows'[b].req = Idle' THEN IdleInv(rows[b], curr)' ELSE BusyInv(rows[b])'
    BY <1>2, <1>4, <2>4 DEF Idle
  <2>7. QED
    BY <2>5, <2>6 DEF RowsInv
<1>11. completed' \subseteq Takes /\ \A r \in completed' : r < NextCurr
  <2>1. completed \subseteq Takes /\ \A r \in completed : r < curr
    BY <1>1 DEF TakenInv
  <2>2. \A r \in completed : r < NextCurr
    BY <1>1, <1>3, <2>1
  <2>3. \A b \in Ended(eos) : After[b].req \in Takes /\ After[b].req < NextCurr
    BY <1>5, <1>6, <1>7
  <2>4. QED
    BY <1>2, <2>1, <2>2, <2>3
<1>12. TakenInv'
  <2>1. ASSUME NEW r \in Takes, r < NextCurr, r \notin completed'
        PROVE  \E b \in Rows : rows'[b].req = r
    <3>1. r \notin completed
      BY <1>2, <2>1
    <3>2. PICK b \in Rows : After[b].req = r
      BY <1>6, <2>1, <3>1
    <3>3. b \notin Ended(eos)
      BY <1>2, <2>1, <3>2
    <3>4. QED
      BY <1>8, <3>2, <3>3
  <2>2. ASSUME NEW b \in Rows
        PROVE  rows'[b].req < NextCurr /\ rows'[b].req \notin completed'
    <3>1. CASE b \in Ended(eos)
      <4>1. rows'[b].req = Idle
        BY <1>8, <1>9, <3>1
      <4>2. Idle < NextCurr
        BY <1>3 DEF Idle, Baseline!NoRequest
      <4>3. Idle \notin completed'
        BY <1>3, <1>11
      <4>4. QED
        BY <4>1, <4>2, <4>3
    <3>2. CASE b \notin Ended(eos)
      <4>1. rows'[b].req = After[b].req
        BY <1>8, <3>2
      <4>2. \A c \in Ended(eos) : After[c].req # After[b].req
        BY <1>6, <1>7, <3>2
      <4>3. QED
        BY <1>2, <1>6, <4>1, <4>2
    <3>3. QED
      BY <3>1, <3>2
  <2>3. ASSUME NEW b \in Rows, NEW c \in Rows, rows'[b].req # Idle, rows'[b].req = rows'[c].req
        PROVE  b = c
    <3>1. b \notin Ended(eos) /\ c \notin Ended(eos)
      BY <1>8, <1>9, <2>3
    <3>2. QED
      BY <1>6, <1>8, <2>3, <3>1
  <2>4. \E q \in Nat : curr' = q * load'.sample
    BY <1>2, <1>3
  <2>5. \A r \in Takes' : r < curr' => r \in completed' \/ \E b \in 1..load'.batch : rows'[b].req = r
    BY <1>2, <1>4, <2>1
  <2>6. \A b \in 1..load'.batch : rows'[b].req < curr' /\ rows'[b].req \notin completed'
    BY <1>2, <1>4, <2>2
  <2>7. \A b, c \in 1..load'.batch : rows'[b].req # Idle /\ rows'[b].req = rows'[c].req => b = c
    BY <1>2, <1>4, <2>3
  <2>8. completed' \subseteq Takes' /\ \A r \in completed' : r < curr'
    BY <1>2, <1>4, <1>11
  <2>9. QED
    BY <2>4, <2>5, <2>6, <2>7, <2>8 DEF TakenInv, Idle
<1>13. StepsInv'
  <2>1. /\ steps \in [1..Prompts -> Nat] /\ tokens \in [1..Prompts -> Nat]
        /\ \A i \in 1..Prompts : i - 1 >= curr => steps[i] = 0 /\ tokens[i] = 0
        /\ \A r \in completed : steps[r + 1] = tokens[r + 1] /\ tokens[r + 1] \in 1..load.maxNew
        /\ \A b \in Rows : rows[b].req # Idle =>
             tokens[rows[b].req + 1] = rows[b].count /\ steps[rows[b].req + 1] = rows[b].count
    BY <1>1, <1>2 DEF StepsInv, Logged, Rows
  <2>2. \A i \in 1..Prompts :
          /\ steps'[i] = IF \E b \in Looked(eos) : After[b].req = i - 1 THEN steps[i] + 1 ELSE steps[i]
          /\ tokens'[i] = IF \E b \in Rows : After[b].req = i - 1 THEN tokens[i] + 1 ELSE tokens[i]
    BY <1>2, <2>1
  <2>3. steps' \in [1..Prompts -> Nat] /\ tokens' \in [1..Prompts -> Nat]
    <3>1. \A i \in 1..Prompts : /\ steps[i] \in Nat /\ steps[i] + 1 \in Nat
                               /\ tokens[i] \in Nat /\ tokens[i] + 1 \in Nat
      BY <2>1
    <3>2. steps' \in [1..Prompts -> Nat]
      BY <1>2, <2>1, <3>1
    <3>3. tokens' \in [1..Prompts -> Nat]
      BY <1>2, <2>1, <3>1
    <3>4. QED
      BY <3>2, <3>3
  <2>4. Looked(eos) \subseteq Occupied
    BY DEF Looked
  <2>5. ASSUME NEW i \in 1..Prompts, i - 1 >= NextCurr
        PROVE  steps'[i] = 0 /\ tokens'[i] = 0
    <3>1. \A b \in Rows : After[b].req # i - 1
      BY <1>3, <1>6, <2>5
    <3>2. i - 1 >= curr
      BY <1>1, <1>3, <2>5
    <3>3. QED
      BY <1>7, <2>1, <2>2, <2>4, <3>1, <3>2
  <2>6. ASSUME NEW b \in Occupied
        PROVE  /\ After[b].count \in 1..load.maxNew
               /\ tokens'[After[b].req + 1] = After[b].count
               /\ b \in Looked(eos) => steps'[After[b].req + 1] = After[b].count
               /\ b \notin Looked(eos) => steps'[After[b].req + 1] = After[b].count - 1
    <3> DEFINE r == After[b].req
    <3>1. b \in Rows /\ r # Idle
      BY <1>7
    <3>2. r \in 0..Prompts - 1 /\ r + 1 \in 1..Prompts /\ (r + 1) - 1 = r
      BY <1>3, <1>5, <3>1
    <3>3. /\ r = Filled[b].req /\ After[b].count = Filled[b].count + 1
          /\ b \in Admitted => r = Baseline!NextRequest(b) /\ Filled[b].count = 0
          /\ b \notin Admitted => Filled[b] = rows[b]
      BY <1>1, <1>2, <3>1, FilledFacts, AfterFacts
    <3>4. Filled[b].count \in Nat /\ After[b].count \in 0..load.maxNew
      BY <1>1, <1>2, <1>5, <3>1, FilledFacts DEF RowType
    <3>5. steps[r + 1] = Filled[b].count /\ tokens[r + 1] = Filled[b].count
      <4>1. CASE b \in Admitted
        <5>1. curr <= r
          BY <1>1, <3>3, <4>1, AdmittedFacts
        <5>2. (r + 1) - 1 >= curr
          BY <1>1, <3>2, <5>1
        <5>3. QED
          BY <2>1, <3>2, <3>3, <4>1, <5>2
      <4>2. CASE b \notin Admitted
        BY <2>1, <3>1, <3>3, <4>2
      <4>3. QED
        BY <4>1, <4>2
    <3>6. \A c \in Rows : After[c].req = r => c = b
      BY <1>6, <3>1
    <3>7. tokens'[r + 1] = tokens[r + 1] + 1
      BY <2>2, <3>1, <3>2
    <3>8. b \in Looked(eos) => steps'[r + 1] = steps[r + 1] + 1
      BY <2>2, <3>2
    <3>9. b \notin Looked(eos) => steps'[r + 1] = steps[r + 1]
      BY <1>7, <2>2, <2>4, <3>2, <3>6
    <3> HIDE DEF r
    <3>10. After[b].count \in 1..load.maxNew /\ Filled[b].count = After[b].count - 1
      BY <1>3, <3>3, <3>4
    <3>11. QED
      BY <3>3, <3>5, <3>7, <3>8, <3>9, <3>10 DEF r
  <2>7. ASSUME NEW r \in completed'
        PROVE  steps'[r + 1] = tokens'[r + 1] /\ tokens'[r + 1] \in 1..load.maxNew
    <3>1. CASE r \in completed
      <4>1. r \in 0..Prompts - 1 /\ r + 1 \in 1..Prompts /\ (r + 1) - 1 = r
        BY <1>2, <1>3, <1>11
      <4>2. \A b \in Rows : After[b].req # r
        BY <1>6, <3>1
      <4>3. steps'[r + 1] = steps[r + 1] /\ tokens'[r + 1] = tokens[r + 1]
        BY <1>7, <2>2, <2>4, <4>1, <4>2
      <4>4. QED
        BY <2>1, <3>1, <4>3
    <3>2. CASE r \notin completed
      <4>1. PICK b \in Ended(eos) : r = After[b].req
        BY <1>2, <3>2
      <4>2. b \in Occupied /\ b \in Looked(eos)
        BY <1>7, <4>1 DEF Ended
      <4>3. QED
        BY <2>6, <4>1, <4>2
    <3>3. QED
      BY <3>1, <3>2
  <2>8. ASSUME NEW b \in Rows, rows'[b].req # Idle
        PROVE  tokens'[rows'[b].req + 1] = rows'[b].count /\ Logged(rows[b].req, returned)'
    <3>1. rows'[b] = After[b] /\ b \in Occupied
      BY <1>7, <1>8, <1>9, <2>8
    <3>2. CASE b \in Looked(eos)
      BY <2>6, <3>1, <3>2 DEF Logged
    <3>3. CASE b \notin Looked(eos)
      <4>1. returned'
        BY <1>1, <1>2, <3>1, <3>3, AllAreLooked
      <4>2. QED
        BY <2>6, <3>1, <3>3, <4>1 DEF Logged
    <3>4. QED
      BY <3>2, <3>3
  <2>9. ASSUME returned'
        PROVE  Baseline!LastRequest(load) \in completed'
    <3>1. PICK b \in Looked(eos) : b \in Closing(eos)
      BY <1>2, <2>9
    <3>2. /\ b \in Ended(eos) /\ After[b].req >= Baseline!LastRequest(load)
          /\ After[b].req \in Takes
      BY <1>5, <1>7, <2>4, <3>1 DEF Closing, Ended
    <3>3. Baseline!LastRequest(load) \in Nat /\ After[b].req <= Baseline!LastRequest(load)
      BY <1>1, <3>2, LastIsGreatest
    <3>4. After[b].req = Baseline!LastRequest(load)
      BY <1>3, <3>2, <3>3
    <3>5. QED
      BY <1>2, <3>2, <3>4
  <2>10. Baseline!LastRequest(load)' = Baseline!LastRequest(load)
    BY <1>2
  <2>11. /\ steps' \in [1..Prompts' -> Nat] /\ tokens' \in [1..Prompts' -> Nat]
         /\ \A i \in 1..Prompts' : i - 1 >= curr' => steps'[i] = 0 /\ tokens'[i] = 0
    BY <1>2, <1>4, <2>3, <2>5
  <2>12. \A b \in 1..load'.batch : rows'[b].req # Idle' =>
           tokens'[rows'[b].req + 1] = rows'[b].count /\ Logged(rows[b].req, returned)'
    BY <1>2, <1>4, <2>8 DEF Idle
  <2>13. \A r \in completed' : steps'[r + 1] = tokens'[r + 1] /\ tokens'[r + 1] \in 1..load'.maxNew
    BY <1>2, <2>7
  <2>14. returned' => Baseline!LastRequest(load)' \in completed'
    BY <2>9, <2>10
  <2>15. QED
    BY <2>11, <2>12, <2>13, <2>14 DEF StepsInv
<1>14. /\ load' \in Loads \cup {Baseline!NotLoaded} /\ load' # Baseline!NotLoaded
       /\ curr' \in Nat /\ returned' \in BOOLEAN
  BY <1>2, <1>3 DEF BaselineInv, Baseline!Iterate
<1>15. QED
  BY <1>10, <1>12, <1>13, <1>14 DEF BaselineInv

-----------------------------------------------------------------------------
(* AutoBatch: the invariant, and what follows from it.                      *)

LEMMA NothingLoaded ==
  ASSUME load = Baseline!NotLoaded
  PROVE  /\ load.batch = 0 /\ load.sample = 1 /\ load.maxNew = 0 /\ Prompts = 0 /\ Takes = {}
         /\ load.prompts = <<>>
<1>1. load.batch = 0 /\ load.sample = 1 /\ load.maxNew = 0 /\ load.prompts = <<>>
  BY DEF Baseline!NotLoaded
<1>2. Prompts = 0
  BY <1>1 DEF Prompts, Baseline!NumPrompts
<1>3. Takes \subseteq 0..Prompts - 1
  BY DEF Takes, Baseline!Sampled, Prompts
<1>4. QED
  BY <1>1, <1>2, <1>3

LEMMA BaselineInitially == Baseline!Init => BaselineInv
<1> SUFFICES ASSUME Baseline!Init PROVE BaselineInv
  OBVIOUS
<1>1. /\ load = Baseline!NotLoaded /\ rows = <<>> /\ curr = 0 /\ steps = <<>> /\ tokens = <<>>
      /\ completed = {} /\ returned = FALSE
  BY DEF Baseline!Init
<1>2. load.batch = 0 /\ load.sample = 1 /\ Prompts = 0 /\ Takes = {}
  BY <1>1, NothingLoaded
<1>3. 1..load.batch = {} /\ 1..Prompts = {}
  BY <1>2
<1>4. /\ rows \in [1..load.batch -> RowType] /\ steps \in [1..Prompts -> Nat]
      /\ tokens \in [1..Prompts -> Nat]
  BY <1>1, <1>2
<1>5. RowsInv
  BY <1>3, <1>4 DEF RowsInv
<1>6. curr = 0 * load.sample /\ 0 \in Nat
  BY <1>1, <1>2
<1>7. TakenInv
  BY <1>1, <1>2, <1>3, <1>6 DEF TakenInv
<1>8. StepsInv
  BY <1>1, <1>3, <1>4 DEF StepsInv
<1>9. QED
  BY <1>1, <1>5, <1>7, <1>8 DEF BaselineInv

LEMMA BaselineStepKeepsInv == BaselineInv /\ [Baseline!Next]_baselineVars => BaselineInv'
<1> SUFFICES ASSUME BaselineInv, [Baseline!Next]_baselineVars PROVE BaselineInv'
  OBVIOUS
<1>1. CASE UNCHANGED baselineVars
  BY <1>1 DEF baselineVars, BaselineInv, RowsInv, TakenInv, StepsInv, Logged, IdleInv, BusyInv,
              RowType, Takes, Prompts
<1>2. ASSUME NEW l \in Loads, Baseline!Load(l)
      PROVE  BaselineInv'
  BY <1>2, LoadKeepsInv
<1>3. ASSUME NEW eos \in SUBSET Rows, Baseline!Iterate(eos)
      PROVE  BaselineInv'
  BY <1>3, IterateKeepsInv
<1>4. QED
  BY <1>1, <1>2, <1>3 DEF Baseline!Next, Rows

LEMMA NumRows == BaselineInv => Len(rows) = load.batch /\ load.batch \in Nat
<1> SUFFICES ASSUME BaselineInv PROVE Len(rows) = load.batch /\ load.batch \in Nat
  OBVIOUS
<1>1. load.batch \in Nat
  BY NothingLoaded, LoadFacts DEF BaselineInv, IsLoaded
<1>2. DOMAIN rows = 1..load.batch /\ rows \in Seq(RowType)
  BY <1>1 DEF BaselineInv, RowsInv
<1>3. QED
  BY <1>1, <1>2

LEMMA BaselineInvImpliesOwnText == BaselineInv => AttendsOwnText
  BY NumRows DEF AttendsOwnText, Baseline!AttendsOwnText, BaselineInv, RowsInv, BusyInv, Idle

LEMMA BaselineInvImpliesAccounted == BaselineInv => RequestsAccountedFor
<1> SUFFICES ASSUME BaselineInv
             PROVE  RequestsAccountedFor
  OBVIOUS
<1> DEFINE At(r) == {b \in 1..Len(rows) : rows[b].req = r}
<1>1. /\ Len(rows) = load.batch /\ TakenInv /\ StepsInv /\ curr \in Nat
      /\ \A r \in Takes : r # Idle /\ r \in Nat
  BY NumRows, NothingLoaded, LoadFacts DEF BaselineInv, IsLoaded
<1>2. /\ \A c \in completed : c < curr
      /\ \A r \in Takes : r < curr => r \in completed \/ \E b \in 1..load.batch : rows[b].req = r
      /\ \A b \in 1..load.batch : rows[b].req < curr /\ rows[b].req \notin completed
      /\ \A b, c \in 1..load.batch : rows[b].req # Idle /\ rows[b].req = rows[c].req => b = c
  BY <1>1 DEF TakenInv
<1>3. /\ steps \in [1..Prompts -> Nat] /\ tokens \in [1..Prompts -> Nat]
      /\ \A i \in 1..Prompts : i - 1 >= curr => steps[i] = 0 /\ tokens[i] = 0
      /\ \A r \in completed : steps[r + 1] = tokens[r + 1] /\ tokens[r + 1] \in 1..load.maxNew
      /\ \A b \in 1..load.batch : rows[b].req # Idle =>
           tokens[rows[b].req + 1] = rows[b].count /\ Logged(rows[b].req, returned)
      /\ returned => Baseline!LastRequest(load) \in completed
  BY <1>1 DEF StepsInv
<1>4. ASSUME NEW r \in Takes
      PROVE  /\ Cardinality(At(r)) = IF r < curr /\ r \notin completed THEN 1 ELSE 0
             /\ r \in completed => r < curr /\ tokens[r + 1] \in 1..load.maxNew
             /\ \A b \in At(r) : tokens[r + 1] = rows[b].count
             /\ \/ steps[r + 1] = tokens[r + 1]
                \/ returned /\ At(r) # {} /\ steps[r + 1] = tokens[r + 1] - 1
             /\ returned => r < curr
  <2>1. ASSUME returned
        PROVE  r < curr
    <3>1. IsLoaded
      BY NothingLoaded DEF BaselineInv, IsLoaded
    <3>2. Baseline!LastRequest(load) \in Nat /\ r <= Baseline!LastRequest(load)
      BY <3>1, LastIsGreatest
    <3>3. Baseline!LastRequest(load) < curr
      BY <1>2, <1>3, <2>1
    <3>4. QED
      BY <1>1, <3>2, <3>3
  <2>2. CASE r < curr /\ r \notin completed
    <3>1. PICK b \in 1..load.batch : rows[b].req = r
      BY <1>2, <2>2
    <3>2. At(r) = {b}
      BY <1>1, <1>2, <3>1
    <3>3. Cardinality(At(r)) = 1
      BY <3>2, FS_Singleton
    <3>4. tokens[r + 1] = rows[b].count /\ Logged(r, returned)
      BY <1>1, <1>3, <3>1
    <3> HIDE DEF At
    <3>5. QED
      BY <2>2, <3>2, <3>3, <3>4 DEF Logged
  <2>3. CASE ~(r < curr /\ r \notin completed)
    <3>1. At(r) = {}
      BY <1>1, <1>2, <2>3
    <3>2. Cardinality(At(r)) = 0
      BY <3>1, FS_EmptySet
    <3> HIDE DEF At
    <3>3. steps[r + 1] = tokens[r + 1]
      <4>1. CASE r \in completed
        BY <1>3, <4>1
      <4>2. CASE r \notin completed
        <5>1. r + 1 \in 1..Prompts /\ (r + 1) - 1 >= curr
          <6>1. r \in 0..Prompts - 1 /\ Prompts \in Nat
            BY NothingLoaded, LoadFacts DEF BaselineInv, IsLoaded
          <6>2. QED
            BY <1>1, <2>3, <4>2, <6>1
        <5>2. QED
          BY <1>3, <5>1
      <4>3. QED
        BY <4>1, <4>2
    <3>4. r \in completed => r < curr /\ tokens[r + 1] \in 1..load.maxNew
      BY <1>2, <1>3
    <3>5. QED
      BY <2>1, <2>3, <3>1, <3>2, <3>3, <3>4
  <2>4. QED
    BY <2>2, <2>3
<1>5. QED
  BY <1>3, <1>4, SameCardinality DEF RequestsAccountedFor, Baseline!RequestsAccountedFor, Takes

LEMMA BaselineInvImpliesTypes == BaselineInv => Baseline!TypeOK
<1> SUFFICES ASSUME BaselineInv PROVE Baseline!TypeOK
  OBVIOUS
<1>1. /\ load \in Loads \cup {Baseline!NotLoaded} /\ curr \in Nat /\ returned \in BOOLEAN
      /\ completed \subseteq Takes /\ steps \in [1..Prompts -> Nat]
      /\ tokens \in [1..Prompts -> Nat]
  BY DEF BaselineInv, TakenInv, StepsInv
<1>2. {steps, tokens} \subseteq [DOMAIN load.prompts -> Nat]
  <2>1. DOMAIN load.prompts = 1..Prompts
    <3>1. CASE load = Baseline!NotLoaded
      BY <3>1, NothingLoaded
    <3>2. CASE load \in Loads
      BY <3>2, LoadFacts DEF IsLoaded
    <3>3. QED
      BY <1>1, <3>1, <3>2
  <2>2. QED
    BY <1>1, <2>1
<1>3. ASSUME NEW b \in 1..Len(rows)
      PROVE  /\ rows[b].req \in {Idle} \cup Takes
             /\ rows[b].offset \in Slots /\ rows[b].count \in Nat /\ rows[b].mask \subseteq Slots
             /\ rows[b].kv \in [Slots -> {Idle, Baseline!Empty} \cup Takes]
  <2> DEFINE row == rows[b]
             end == Baseline!PromptEnd(load, row.req)
  <2>1. b \in 1..load.batch
    BY NumRows
  <2>2. IsLoaded
    <3>1. load # Baseline!NotLoaded
      BY <2>1, NothingLoaded
    <3>2. QED
      BY <1>1, <3>1 DEF IsLoaded
  <2>3. /\ row \in RowType
        /\ IF row.req = Idle THEN IdleInv(row, curr) ELSE BusyInv(row)
    BY <2>1 DEF BaselineInv, RowsInv
  <2>4. /\ row.req \in {Idle} \cup Takes /\ row.count \in 0..load.maxNew /\ row.mask \in SUBSET Slots
        /\ row.kv \in [Slots -> {Idle, Baseline!Empty} \cup Takes]
    BY <2>3 DEF RowType
  <2>5. load.maxNew \in Nat /\ \A i \in 0..load.maxNew : i \in Slots
    BY <2>2, LoadFacts
  <2>6. row.offset \in Slots
    <3>1. CASE row.req = Idle
      BY <2>3, <2>4, <2>5, <3>1 DEF IdleInv
    <3>2. CASE row.req # Idle
      <4>1. end \in Nat /\ \A i \in 0..end + load.maxNew : i \in Slots
        BY <2>2, <2>4, <3>2, LoadFacts
      <4>2. row.offset = end + row.count
        BY <2>3, <3>2 DEF BusyInv
      <4> HIDE DEF row, end
      <4>3. row.offset \in 0..end + load.maxNew
        BY <2>4, <2>5, <4>1, <4>2
      <4>4. QED
        BY <4>1, <4>3
    <3>3. QED
      BY <3>1, <3>2
  <2>7. QED
    BY <2>4, <2>5, <2>6
<1>4. QED
  BY <1>1, <1>2, <1>3 DEF Baseline!TypeOK, Idle, Takes

-----------------------------------------------------------------------------
(* The programs, composed: each step is a step of one of them and changes    *)
(* nothing of the others.                                                   *)

LEMMA ProgramsAreTheirSteps ==
  [Programs]_allVars =>
    [Next]_sweepVars /\ [Baseline!Next]_baselineVars /\ [Cache!Next]_cacheVars
  BY DEF Programs, BaselineSteps, allVars

LEMMA ProgramsInvariant == FairPrograms => [](TypeOK /\ SweepInv /\ BaselineInv /\ CacheInv)
<1>1. StartPrograms => TypeOK /\ SweepInv /\ BaselineInv /\ CacheInv
  BY SweepInvInitially, BaselineInitially, CacheInitially DEF StartPrograms
<1>2. TypeOK /\ SweepInv /\ BaselineInv /\ CacheInv /\ [Programs]_allVars
        => (TypeOK /\ SweepInv /\ BaselineInv /\ CacheInv)'
  BY ProgramsAreTheirSteps, SweepStepKeepsInv, BaselineStepKeepsInv, CacheStepKeepsInv
<1>3. QED
  BY <1>1, <1>2, PTL DEF FairPrograms

\* The state of all three programs has the types they state.
THEOREM ProgramsTypeCorrect == FairPrograms => []TypesOK
<1>1. TypeOK /\ BaselineInv /\ CacheInv => TypesOK
  BY BaselineInvImpliesTypes, CacheInvImpliesTypes DEF TypesOK
<1>2. QED
  BY <1>1, ProgramsInvariant, PTL

\* grpc.py's _cache_prefill: whatever a server
\* left in the files when it was killed, one that is ready holds the right and
\* whole state of every prompt it may be asked for, and only a file another
\* server has not finished keeps one from starting.
THEOREM PreparedPromptsAreRight == FairPrograms => []PromptsSurviveRestarts
<1>1. CacheInv => PromptsSurviveRestarts
  BY CacheInvImpliesProperty
<1>2. QED
  BY <1>1, ProgramsInvariant, PTL

\* auto_batch: a row's next step attends to the text of its own request, which
\* is what its cache holds, however the rows before it came and went.
THEOREM RowsAttendToTheirText == FairPrograms => []AttendsOwnText
<1>1. BaselineInv => AttendsOwnText
  BY BaselineInvImpliesOwnText
<1>2. QED
  BY <1>1, ProgramsInvariant, PTL

\* auto_batch: every sampled request waits, has one row, or was completed with
\* at most max_new_tokens tokens, and the log has one step for each token.  Once
\* main has returned, the last request is completed and none waits; those in
\* other rows are cut off and may lack their last step in the log.
THEOREM RequestsAreAccountedFor == FairPrograms => []RequestsAccountedFor
<1>1. BaselineInv => RequestsAccountedFor
  BY BaselineInvImpliesAccounted
<1>2. QED
  BY <1>1, ProgramsInvariant, PTL
=============================================================================
