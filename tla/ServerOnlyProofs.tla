-------------------------- MODULE ServerOnlyProofs --------------------------
(***************************************************************************)
(* Theorems about ServerOnly, for any target model, dataset, batch size,   *)
(* drafting configurations and length of the trees.                        *)
(***************************************************************************)
EXTENDS ServerOnly, DraftTreeProofs, SequenceTheorems

\* BatchGather is GatherTree with the rest of the row blank.
LEMMA BatchGatherMakesTree ==
  ASSUME NEW tr, NEW e \in 0 .. MaxLen, IsTree(tr, e),
         NEW base \in 0 .. e, NEW kept \in SUBSET (base .. e - 1),
         NEW dest, Places(tr, kept, dest, base)
  PROVE  LET newEnd == base + Cardinality(kept)
             new    == BatchGather(tr, kept, dest, newEnd)
         IN  /\ newEnd \in 0 .. e
             /\ IsTree(new, newEnd)
             /\ \A n \in 0 .. base - 1 : new[n] = tr[n]
             /\ \A n \in base .. newEnd - 1 : \E s \in kept : dest[s] = n
             /\ \A s \in kept : new[dest[s]] = MovedNode(tr, kept, dest, base, s)
             /\ \A n \in Slots : n >= newEnd => new[n] = Blank
<1> DEFINE newEnd == base + Cardinality(kept)
           mid    == GatherTree(tr, kept, dest, newEnd)
           new    == BatchGather(tr, kept, dest, newEnd)
           Node(s) == MovedNode(tr, kept, dest, base, s)
<1>1. /\ newEnd \in 0 .. e
      /\ IsTree(mid, newEnd)
      /\ \A n \in 0 .. base - 1 : mid[n] = tr[n]
      /\ \A n \in base .. newEnd - 1 : \E s \in kept : dest[s] = n
      /\ \A s \in kept : mid[dest[s]] = Node(s)
  BY GatherMakesTree
<1>2. \A s \in kept : dest[s] \in base .. newEnd - 1
  BY DEF Places
<1>3. new = [n \in Slots |-> IF n < newEnd THEN mid[n] ELSE Blank]
  BY DEF BatchGather
<1> HIDE DEF newEnd, mid, new, Node
<1>4. /\ base \in Nat /\ e \in Nat /\ MaxLen \in Nat /\ newEnd \in Nat /\ newEnd <= e
      /\ e <= MaxLen /\ \A n \in 0 .. newEnd - 1 : n \in Slots
  BY <1>1, SizesAssumption DEF Slots
<1>5. \A n \in 0 .. newEnd - 1 : new[n] = mid[n]
  BY <1>3, <1>4
<1>6. \A n \in Slots : n >= newEnd => new[n] = Blank
  BY <1>3, <1>4 DEF Slots
<1>7. Blank \in Nodes
  BY SizesAssumption DEF Blank, Nodes, Status, PROMPT, Tokens, Slots
<1>8. IsTree(new, newEnd)
  <2>1. new \in [Slots -> Nodes]
    BY <1>1, <1>3, <1>7 DEF IsTree
  <2>2. ASSUME NEW n \in 0 .. newEnd - 1
        PROVE  /\ n \in new[n].row /\ new[n].row \subseteq 0 .. n
               /\ new[n].pos = Cardinality(new[n].row) - 1
               /\ \A j \in new[n].row : new[j].row = new[n].row \cap 0 .. j
    <3>1. /\ n \in mid[n].row /\ mid[n].row \subseteq 0 .. n /\ n \in Nat
          /\ mid[n].pos = Cardinality(mid[n].row) - 1
          /\ \A j \in mid[n].row : mid[j].row = mid[n].row \cap 0 .. j
      BY <1>1 DEF IsTree
    <3>2. \A j \in mid[n].row : j \in 0 .. newEnd - 1
      BY <1>4, <3>1
    <3> QED
      BY <1>5, <3>1, <3>2
  <2> QED
    BY <2>1, <2>2 DEF IsTree
<1>9. \A n \in 0 .. base - 1 : new[n] = tr[n]
  <2> TAKE n \in 0 .. base - 1
  <2>1. n \in 0 .. newEnd - 1
    <3>1. IsFiniteSet(kept)
      <4>1. IsFiniteSet(base .. e - 1)
        BY <1>4, FS_Interval
      <4> QED
        BY <4>1, FS_Subset
    <3>2. Cardinality(kept) \in Nat
      BY <3>1, FS_CardinalityType
    <3> QED
      BY <1>4, <3>2 DEF newEnd
  <2> QED
    BY <1>1, <1>5, <2>1
<1>10. \A s \in kept : new[dest[s]] = Node(s)
  <2>1. \A s \in kept : dest[s] \in 0 .. newEnd - 1
    BY <1>2, <1>4
  <2> QED
    BY <1>1, <1>5, <2>1
<1> QED
  BY <1>1, <1>6, <1>8, <1>9, <1>10 DEF newEnd, new, Node

\* A trimmed row keeps its text, and the draft nodes that are kept keep their
\* parents.
LEMMA TrimmedRowTree ==
  ASSUME NEW tr, NEW len, NEW e, RowTree(tr, len, e), len > 0,
         NEW kept \in SUBSET (len .. e - 1), NEW dest, Places(tr, kept, dest, len)
  PROVE  LET e2  == len + Cardinality(kept)
             new == BatchGather(tr, kept, dest, e2)
         IN  /\ e2 <= e /\ RowTree(new, len, e2)
             /\ \A n \in 0 .. len - 1 : new[n] = tr[n]
<1> DEFINE e2  == len + Cardinality(kept)
           new == BatchGather(tr, kept, dest, e2)
<1>1. /\ len \in 0 .. MaxLen /\ len \in Nat /\ e \in len .. MaxLen /\ e \in 0 .. MaxLen
      /\ e \in Nat /\ MaxLen \in Nat /\ IsTree(tr, e) /\ tr \in [Slots -> Nodes]
      /\ len \in 0 .. e /\ \A n \in 0 .. e - 1 : n \in Slots
  BY SizesAssumption DEF RowTree, IsTree, Slots
<1>2. /\ e2 \in 0 .. e
      /\ IsTree(new, e2)
      /\ \A n \in 0 .. len - 1 : new[n] = tr[n]
      /\ \A n \in len .. e2 - 1 : \E s \in kept : dest[s] = n
      /\ \A s \in kept : new[dest[s]] = MovedNode(tr, kept, dest, len, s)
      /\ \A n \in Slots : n >= e2 => new[n] = Blank
  BY <1>1, BatchGatherMakesTree
<1> HIDE DEF new
<1>5. /\ e2 \in len .. MaxLen /\ e2 <= e
      /\ \A n \in len .. e2 - 1 : DraftNode(new, len, n)
  <2> HIDE DEF e2
  <2>1. e2 = len + Cardinality(kept)
    BY DEF e2
  <2> QED
    BY <1>2, <2>1, TrimmedDraft
<1> HIDE DEF e2
<1>6. len # 0
  BY <1>1
<1>9. \A n \in 0 .. len - 1 : new[n].row = 0 .. n
  BY <1>2 DEF RowTree
<1>10. \A n \in Slots : new[n].st = CANDIDATE => n >= len - 1
  <2> TAKE n \in Slots
  <2>1. n \in Int
    BY DEF Slots
  <2>2. n \in 0 .. len - 1 \/ n >= len
    BY <1>1, <2>1 DEF Slots
  <2>3. CASE n \in 0 .. len - 1
    BY <1>2, <2>3 DEF RowTree
  <2>4. CASE n >= len
    BY <1>1, <2>1, <2>4
  <2> QED
    BY <2>2, <2>3, <2>4
<1>11. RowTree(new, len, e2)
  BY <1>1, <1>2, <1>5, <1>6, <1>9, <1>10 DEF RowTree
<1> QED
  BY <1>2, <1>5, <1>11 DEF new, e2

\* What is left of a row's tree at the end of an iteration: the text of the
\* path that is kept, and the target's own token behind it as the new root.
KeptTree(tr, x, token) ==
  BatchAdd(Reordered(tr, tr[x].row), Cardinality(tr[x].row),
           {Key(Cardinality(tr[x].row) - 1, token)})

LEMMA KeptRowTree ==
  ASSUME NEW tr, NEW len, NEW e, RowTree(tr, len, e), len > 0,
         NEW x \in len - 1 .. e - 1, Cardinality(tr[x].row) < MaxLen, NEW token \in Tokens
  PROVE  LET k   == Cardinality(tr[x].row)
             new == KeptTree(tr, x, token)
         IN  /\ k \in Nat /\ k = tr[x].pos + 1 /\ k >= len
             /\ RowTree(new, k + 1, k + 1)
             /\ \A n \in 0 .. k - 1 : new[n].tok = Context(tr, x)[n + 1]
             /\ new[k].tok = token
             /\ \A n \in 0 .. len - 1 : new[n].tok = tr[n].tok
<1> DEFINE R    == tr[x].row
           k    == Cardinality(R)
           dest == [s \in R |-> Rank(R, s)]
           mid  == BatchGather(tr, R, dest, k)
           path == Reordered(tr, R)
           key  == Key(k - 1, token)
           new  == Add(path, k, {key}, CANDIDATE)
<1>1. /\ len \in Nat /\ e \in Nat /\ e \in 0 .. MaxLen /\ MaxLen \in Nat /\ IsTree(tr, e)
      /\ x \in 0 .. e - 1 /\ tr \in [Slots -> Nodes] /\ len <= e
      /\ \A n \in 0 .. e - 1 : n \in Slots
  BY SizesAssumption DEF RowTree, IsTree, Slots
<1>2. /\ IsFiniteSet(R) /\ k \in Nat /\ R \in SUBSET Int
      /\ k = tr[x].pos + 1 /\ tr[x].pos \in Nat
      /\ \A j \in R : tr[j].pos = Rank(R, j)
  BY <1>1, PathInOrder
<1>3. R \in SUBSET (0 .. e - 1) /\ Places(tr, R, dest, 0)
  BY <1>1, PathPlaces
<1>4. 0 .. len - 1 \subseteq R /\ k >= len
  <2>1. 0 .. len - 1 \subseteq R
    <3>1. CASE x = len - 1
      BY <1>1, <3>1 DEF RowTree
    <3>2. CASE x # len - 1
      <4>1. DraftNode(tr, len, x)
        BY <1>1, <3>2 DEF RowTree
      <4> QED
        BY <4>1 DEF DraftNode
    <3> QED
      BY <3>1, <3>2
  <2>2. Cardinality(0 .. len - 1) = len
    BY <1>1, FS_Interval
  <2>3. Cardinality(0 .. len - 1) <= k
    BY <1>2, <2>1, FS_Subset
  <2> QED
    BY <2>1, <2>2, <2>3, <1>1, <1>2
<1>5. /\ IsTree(mid, k)
      /\ \A n \in 0 .. k - 1 : \E s \in R : dest[s] = n
      /\ \A s \in R : mid[dest[s]] = MovedNode(tr, R, dest, 0, s)
      /\ \A n \in Slots : n >= k => mid[n] = Blank
  <2>1. 0 \in 0 .. e /\ 0 + k = k
    BY <1>1, <1>2
  <2> HIDE DEF dest, R
  <2>2. LET newEnd == 0 + Cardinality(R)
            nw == BatchGather(tr, R, dest, newEnd)
        IN  /\ IsTree(nw, newEnd)
            /\ \A n \in 0 .. newEnd - 1 : \E s \in R : dest[s] = n
            /\ \A s \in R : nw[dest[s]] = MovedNode(tr, R, dest, 0, s)
            /\ \A n \in Slots : n >= newEnd => nw[n] = Blank
    BY <1>1, <1>3, <2>1, BatchGatherMakesTree
  <2> QED
    BY <2>1, <2>2
<1>6. path = [n \in Slots |-> IF n < k THEN [mid[n] EXCEPT !.st = GENERATED] ELSE mid[n]]
  BY DEF Reordered
<1>7. \A n \in 0 .. k - 1 : n \in Slots
  BY <1>1, <1>2 DEF Slots
<1> HIDE DEF mid, path, dest, k, R
<1>8. ASSUME NEW n \in 0 .. k - 1
      PROVE  mid[n].row = 0 .. n /\ mid[n].pos = n /\ mid[n].tok = Context(tr, x)[n + 1]
  <2>1. PICK s \in R : dest[s] = n
    BY <1>5
  <2>2. tr[s].pos = n
    BY <1>2, <2>1 DEF dest
  <2>3. mid[n].tok = tr[s].tok /\ mid[n].pos = tr[s].pos
    <3>1. mid[n] = MovedNode(tr, R, dest, 0, s)
      BY <1>5, <2>1
    <3>2. tr[s] \in Nodes
      BY <1>1, <1>3
    <3> QED
      BY <3>1, <3>2 DEF MovedNode, Nodes
  <2>4. mid[n].row \subseteq 0 .. n /\ mid[n].pos = Cardinality(mid[n].row) - 1 /\ n \in Nat
    BY <1>2, <1>5 DEF IsTree
  <2>5. IsFiniteSet(0 .. n) /\ Cardinality(0 .. n) = n + 1
    <3>1. n \in Nat
      BY <2>4
    <3> QED
      BY <3>1, FS_Interval
  <2>6. Cardinality(mid[n].row) \in Nat
    BY <2>4, <2>5, FS_Subset, FS_CardinalityType
  <2>7. Cardinality(mid[n].row) = Cardinality(0 .. n)
    BY <2>2, <2>3, <2>4, <2>5, <2>6
  <2>8. mid[n].row = 0 .. n
    BY <2>4, <2>5, <2>7, FS_Subset
  <2>9. Context(tr, x)[tr[s].pos + 1] = tr[s].tok
    BY <1>1, ContextIsText DEF R
  <2> QED
    BY <2>2, <2>3, <2>8, <2>9
<1>9. \A n \in Slots : mid[n] \in Nodes
  BY <1>5 DEF IsTree
<1>10. \A n \in 0 .. k - 1 : /\ path[n] \in Nodes /\ path[n].row = 0 .. n /\ path[n].pos = n
                             /\ path[n].tok = Context(tr, x)[n + 1]
                             /\ path[n].st = GENERATED
  <2> TAKE n \in 0 .. k - 1
  <2>1. path[n] = [mid[n] EXCEPT !.st = GENERATED]
    BY <1>2, <1>6, <1>7
  <2>2. mid[n] \in Nodes
    BY <1>7, <1>9
  <2> QED
    BY <1>8, <2>1, <2>2 DEF Nodes, Status
<1>11. \A n \in Slots : n >= k => path[n] = Blank
  <2> TAKE n \in Slots
  <2>1. n \in Int
    BY DEF Slots
  <2> QED
    BY <1>2, <1>5, <1>6, <2>1
<1>12. k \in 1 .. MaxLen /\ k > 0 /\ k < MaxLen
  BY <1>1, <1>2, <1>4 DEF k, R
<1>13. RowTree(path, k, k)
  <2>1. path \in [Slots -> Nodes]
    <3>1. \A n \in Slots : n \in 0 .. k - 1 \/ n >= k
      BY <1>2 DEF Slots
    <3>2. \A n \in Slots : path[n] \in Nodes
      BY <1>9, <1>5, <1>10, <1>11, <3>1
    <3> QED
      BY <1>6, <3>2
  <2>2. \A n \in 0 .. k - 1 : path[n].row = 0 .. n /\ path[n].pos = n /\ path[n].st # CANDIDATE
    BY <1>10 DEF GENERATED, CANDIDATE
  <2> QED
    BY <1>11, <1>12, <2>1, <2>2, StraightRowTree
<1>15. /\ RowTree(new, k + 1, k + 1)
       /\ \A n \in 0 .. k - 1 : new[n] = path[n]
       /\ new[k].tok = token
  <2>1. \A n \in 0 .. k - 1 : path[n].st # CANDIDATE
    BY <1>10 DEF GENERATED, CANDIDATE
  <2> QED
    BY <1>12, <1>13, <2>1, BonusRowTree DEF new, key
<1> HIDE DEF key, new
<1>17. \A n \in 0 .. k - 1 : new[n].tok = Context(tr, x)[n + 1]
  BY <1>10, <1>15
<1>18. ASSUME NEW n \in 0 .. len - 1
       PROVE  new[n].tok = tr[n].tok
  <2>1. n \in R /\ n \in 0 .. k - 1
    BY <1>1, <1>2, <1>4
  <2>2. tr[n].pos = n
    BY TextOfRowTree
  <2>3. Context(tr, x)[tr[n].pos + 1] = tr[n].tok
    BY <1>1, <2>1, ContextIsText DEF R
  <2> QED
    BY <1>17, <2>1, <2>2, <2>3
<1>19. KeptTree(tr, x, token) = new
  BY DEF R, k, new, path, key, KeptTree, BatchAdd
<1>20. LET c == Cardinality(tr[x].row) IN k = c
  BY DEF R, k
<1> QED
  BY <1>2, <1>4, <1>15, <1>17, <1>18, <1>19, <1>20 DEF R, k

-----------------------------------------------------------------------------
(***************************************************************************)
(* The inductive invariant, in parts: the types, the requests, the trees,  *)
(* what the rows with a request hold, the target's cache and choices, and  *)
(* the reports.                                                            *)
(***************************************************************************)
Traces == [req : Requests, output : Seq(Tokens), strayed : BOOLEAN]

TypeInv ==
  /\ cfg \in Drafts
  /\ stage \in {"admit", "grow", "trim", "verify", "keep", "over", "failed"}
  /\ next \in 1 .. count + 1
  /\ round \in 0 .. cfg.beamLen - 1 /\ row \in Rows
  /\ req \in [Rows -> 0 .. next - 1]
  /\ initial \in [Rows -> Nat]
  /\ prefills \subseteq Rows /\ strayed \subseteq Rows
  /\ tree \in [Rows -> [Slots -> Nodes]]
  /\ prefixLen \in [Rows -> 0 .. MaxLen] /\ end \in [Rows -> 0 .. MaxLen]
  /\ targetKV \in [Rows -> [Slots -> Seq(Tokens)]]
  /\ logged \in [Requests -> Nat]
  /\ traced \in Seq(Traces)

TreesInv == \A b \in Rows : RowTree(tree[b], prefixLen[b], end[b])

\* A row holds the prompt of its request from `init' tokens on, and the text.
Serves(tr, len, init, r) ==
  /\ init = Len(Prompts[r]) /\ init <= len
  /\ \A k \in 1 .. init : tr[k - 1].tok = Prompts[r][k]

ServesInv ==
  /\ \A b \in Rows : req[b] # 0 => Serves(tree[b], prefixLen[b], initial[b], req[b])
  /\ \A b \in prefills : req[b] # 0 /\ prefixLen[b] = initial[b]

\* The cache holds the contexts of the text but its last token; after the
\* target has run, of everything, and its choices follow from them.
Cached(tr, len, kv) == \A n \in 0 .. len - 2 : kv[n] = Context(tr, n)
Answered(tr, len, e, kv, sel) ==
  /\ \A n \in 0 .. e - 1 : kv[n] = Context(tr, n)
  /\ \A n \in len - 1 .. e - 1 : n \in Slots => sel[n] = Target(Context(tr, n))

CacheInv ==
  /\ stage \in {"admit", "grow", "trim", "verify"} =>
       \A b \in Rows \ prefills : Cached(tree[b], prefixLen[b], targetKV[b])
  /\ stage = "keep" =>
       \A b \in Rows : Answered(tree[b], prefixLen[b], end[b], targetKV[b], selection[b])

TextOf(tr, len) == [k \in 1 .. len |-> tr[k - 1].tok]

ReportsInv ==
  /\ \A b \in Rows : req[b] # 0 /\ b \notin strayed =>
       /\ GreedyAfter(Prompts[req[b]], TextOf(tree[b], prefixLen[b]))
       /\ logged[req[b]] = prefixLen[b] - initial[b]
  /\ \A r \in Requests : r >= next => logged[r] = 0
  /\ \A i \in DOMAIN traced : ~traced[i].strayed =>
       GreedyTrace(traced[i]) /\ logged[traced[i].req] = Len(traced[i].output)

Inv == TypeInv /\ EachRequestOnce /\ TreesInv /\ ServesInv /\ CacheInv /\ ReportsInv

\* What the constants give.
LEMMA ConstantFacts ==
  /\ Batch \in Nat /\ Batch > 0 /\ 0 \in Rows /\ Rows \in SUBSET Nat
  /\ IsFiniteSet(Rows) /\ Cardinality(Rows) = Batch
  /\ \A r \in Requests : /\ r \in Nat /\ r >= 1
                         /\ Prompts[r] \in Seq(Tokens) /\ Len(Prompts[r]) \in 2 .. MaxLen
  /\ \A d \in Drafts : /\ d.requests \in Nat /\ d.requests >= 1
                       /\ 1 .. d.requests \subseteq Requests
                       /\ d.beams \in Nat \ {0} /\ d.beamLen \in Nat \ {0}
                       /\ d.width \in Nat \ {0} /\ d.budget \in Nat \ {0}
<1>1. Batch \in Nat /\ Batch > 0
  BY BatchAssumption
<1>2. IsFiniteSet(0 .. Batch - 1) /\ Cardinality(0 .. Batch - 1) = Batch
  <2>1. 0 \in Int /\ Batch - 1 \in Int /\ ~(0 > Batch - 1)
    BY <1>1
  <2>2. Cardinality(0 .. Batch - 1) = (Batch - 1) - 0 + 1 /\ IsFiniteSet(0 .. Batch - 1)
    BY <2>1, FS_Interval
  <2> QED
    BY <1>1, <2>2
<1>3. Requests = 1 .. Len(Prompts) /\ Len(Prompts) \in Nat
  BY PromptsAssumption DEF Requests
<1>4. \A r \in Requests : /\ r \in Nat /\ r >= 1
                          /\ Prompts[r] \in Seq(Tokens) /\ Len(Prompts[r]) \in 2 .. MaxLen
  BY <1>3, PromptsAssumption DEF Requests
<1>5. \A d \in Drafts : /\ d.requests \in Requests
                        /\ d.beams \in Nat \ {0} /\ d.beamLen \in Nat \ {0}
                        /\ d.width \in Nat \ {0} /\ d.budget \in Nat \ {0}
  BY DraftsAssumption DEF Requests
<1>6. \A d \in Drafts : /\ d.requests \in Nat /\ d.requests >= 1
                        /\ 1 .. d.requests \subseteq Requests
  BY <1>3, <1>5
<1> QED
  BY <1>1, <1>2, <1>4, <1>5, <1>6 DEF Rows

\* The lengths of the rows.
LEMMA Lengths ==
  ASSUME TypeInv, NEW b \in Rows
  PROVE  /\ prefixLen[b] \in Nat /\ end[b] \in Nat
         /\ prefixLen[b] <= MaxLen /\ end[b] <= MaxLen
<1>1. prefixLen \in [Rows -> 0 .. MaxLen] /\ end \in [Rows -> 0 .. MaxLen]
  BY DEF TypeInv
<1>2. prefixLen[b] \in 0 .. MaxLen /\ end[b] \in 0 .. MaxLen
  BY <1>1
<1> QED
  BY <1>2, SizesAssumption

LEMMA InitInv ==
  ASSUME Init
  PROVE  Inv
<1> USE DEF Init
<1>1. /\ count \in Nat /\ count >= 1 /\ cfg.beamLen \in Nat \ {0}
  BY ConstantFacts DEF count
<1>2. \A b \in Rows : tree[b] = [n \in Slots |-> Blank]
  OBVIOUS
<1>3. RowTree([n \in Slots |-> Blank], 0, 0)
  BY EmptyRowTree
<1>4. TypeInv
  <2>1. [n \in Slots |-> Blank] \in [Slots -> Nodes]
    BY <1>3 DEF RowTree, IsTree
  <2>2. tree \in [Rows -> [Slots -> Nodes]]
    BY <2>1
  <2>3. NoCache \in [Slots -> Seq(Tokens)]
    BY DEF NoCache, NoKV
  <2>4. 0 \in 0 .. MaxLen /\ 0 \in Rows /\ next \in 1 .. count + 1 /\ 0 \in 0 .. next - 1
    BY <1>1, ConstantFacts, SizesAssumption
  <2>5. round \in 0 .. cfg.beamLen - 1
    BY <1>1
  <2>6. traced \in Seq(Traces)
    OBVIOUS
  <2> QED
    BY <2>2, <2>3, <2>4, <2>5, <2>6 DEF TypeInv
<1>5. EachRequestOnce
  <2>1. Live = {} /\ {traced[i].req : i \in DOMAIN traced} = {} /\ DOMAIN traced = {}
    BY DEF Live
  <2>2. 1 .. next - 1 = {}
    OBVIOUS
  <2> QED
    BY <2>1, <2>2 DEF EachRequestOnce
<1>6. TreesInv
  BY <1>3 DEF TreesInv
<1>7. ServesInv
  BY DEF ServesInv
<1>8. CacheInv
  BY DEF CacheInv, Cached
<1>9. ReportsInv
  BY DEF ReportsInv
<1> QED
  BY <1>4, <1>5, <1>6, <1>7, <1>8, <1>9 DEF Inv

\* Where a row's tree and cache are left alone, the loop may go on.
LEMMA StageKeepsInv ==
  ASSUME Inv,
         UNCHANGED <<cfg, requestVars, treeVars, targetKV, selection, reportVars>>,
         round' \in 0 .. cfg.beamLen - 1, row' \in Rows,
         stage' \in {"admit", "grow", "trim", "verify", "keep", "over", "failed"},
         \/ stage' = stage \/ stage' \in {"over", "failed"}
         \/ stage' \in {"grow", "trim", "verify"} /\ stage \in {"admit", "grow", "trim"}
  PROVE  Inv'
<1>1. /\ cfg' = cfg /\ next' = next /\ req' = req /\ initial' = initial /\ prefills' = prefills
      /\ tree' = tree /\ prefixLen' = prefixLen /\ end' = end
      /\ targetKV' = targetKV /\ selection' = selection
      /\ logged' = logged /\ traced' = traced /\ strayed' = strayed
  BY DEF requestVars, treeVars, reportVars
<1>2. count' = count
  BY <1>1 DEF count
<1>3. TypeInv'
  BY <1>1, <1>2 DEF Inv, TypeInv
<1>4. EachRequestOnce'
  BY <1>1 DEF Inv, EachRequestOnce, Live
<1>5. TreesInv'
  BY <1>1 DEF Inv, TreesInv
<1>6. ServesInv'
  BY <1>1 DEF Inv, ServesInv
<1>7. CacheInv'
  BY <1>1 DEF Inv, CacheInv
<1>8. ReportsInv'
  BY <1>1 DEF Inv, ReportsInv, GreedyTrace
<1> QED
  BY <1>3, <1>4, <1>5, <1>6, <1>7, <1>8 DEF Inv

\* A row is filled: its tree, its request and what is known of it are new,
\* the other rows stay.
LEMMA AdmitRowKeepsInv ==
  ASSUME Inv, AdmitRow
  PROVE  Inv'
<1> DEFINE b      == Min(EmptyRows)
           prompt == Prompts[next]
           l      == Len(prompt)
<1>1. /\ stage = "admit" /\ EmptyRows # {} /\ next <= count
      /\ req' = [req EXCEPT ![b] = next]
      /\ initial' = [initial EXCEPT ![b] = l]
      /\ prefills' = prefills \cup {b}
      /\ tree' = [tree EXCEPT ![b] = PromptTree(prompt)]
      /\ prefixLen' = [prefixLen EXCEPT ![b] = l]
      /\ end' = [end EXCEPT ![b] = l]
      /\ strayed' = strayed \ {b}
      /\ next' = next + 1
      /\ cfg' = cfg /\ stage' = stage /\ round' = round /\ row' = row /\ targetKV' = targetKV
      /\ selection' = selection /\ logged' = logged /\ traced' = traced
  BY DEF AdmitRow, AddRequest
<1>2. /\ TypeInv /\ EachRequestOnce /\ TreesInv /\ ServesInv /\ CacheInv /\ ReportsInv
  BY DEF Inv
<1>3. b \in Rows /\ req[b] = 0
  <2>1. EmptyRows \in SUBSET Int /\ IsFiniteSet(EmptyRows)
    <3>1. EmptyRows \in SUBSET Rows
      BY DEF EmptyRows
    <3>2. Rows \in SUBSET Nat /\ IsFiniteSet(Rows)
      BY ConstantFacts
    <3>3. IsFiniteSet(EmptyRows)
      BY <3>1, <3>2, FS_Subset
    <3> QED
      BY <3>1, <3>2, <3>3
  <2>2. b \in EmptyRows
    BY <1>1, <2>1, MinIsLeast
  <2> QED
    BY <2>2 DEF EmptyRows
<1>4. /\ next \in Requests /\ count \in Nat /\ next \in Nat /\ next >= 1 /\ count' = count
      /\ prompt \in Seq(Tokens) /\ l \in 2 .. MaxLen /\ l \in Nat
  <2>1. next \in 1 .. count + 1 /\ count \in Nat /\ 1 .. count \subseteq Requests
    BY <1>2, ConstantFacts DEF TypeInv, count
  <2>2. next \in 1 .. count
    BY <1>1, <2>1
  <2>3. next \in Requests
    BY <2>1, <2>2
  <2> QED
    BY <1>1, <2>1, <2>2, <2>3, ConstantFacts DEF count
<1> HIDE DEF b, prompt, l
<1>5. /\ RowTree(PromptTree(prompt), l, l)
      /\ \A k \in 1 .. l : PromptTree(prompt)[k - 1].tok = prompt[k]
  BY <1>4, PromptRowTree DEF l
<1>6. \A c \in Rows : c # b =>
        /\ req'[c] = req[c] /\ initial'[c] = initial[c] /\ tree'[c] = tree[c]
        /\ prefixLen'[c] = prefixLen[c] /\ end'[c] = end[c]
        /\ (c \in prefills' <=> c \in prefills) /\ (c \in strayed' <=> c \in strayed)
  BY <1>1, <1>2, <1>3 DEF TypeInv
<1>7. /\ req'[b] = next /\ initial'[b] = l /\ tree'[b] = PromptTree(prompt)
      /\ prefixLen'[b] = l /\ end'[b] = l /\ b \in prefills' /\ b \notin strayed'
  BY <1>1, <1>2, <1>3 DEF TypeInv
<1>8. TypeInv'
  <2>1. next' \in 1 .. count' + 1
    BY <1>1, <1>4
  <2>2. req' \in [Rows -> 0 .. next' - 1]
    <3>1. \A x \in 0 .. next - 1 : x \in 0 .. next' - 1
      BY <1>1, <1>4
    <3>2. next \in 0 .. next' - 1
      BY <1>1, <1>4
    <3> QED
      BY <1>1, <1>2, <3>1, <3>2 DEF TypeInv
  <2>3. initial' \in [Rows -> Nat]
    BY <1>1, <1>2, <1>4 DEF TypeInv
  <2>4. PromptTree(prompt) \in [Slots -> Nodes]
    BY <1>5 DEF RowTree, IsTree
  <2>5. tree' \in [Rows -> [Slots -> Nodes]]
    BY <1>1, <1>2, <2>4 DEF TypeInv
  <2>6. prefixLen' \in [Rows -> 0 .. MaxLen] /\ end' \in [Rows -> 0 .. MaxLen]
    <3>1. l \in 0 .. MaxLen
      BY <1>4
    <3> QED
      BY <1>1, <1>2, <3>1 DEF TypeInv
  <2>7. prefills' \subseteq Rows /\ strayed' \subseteq Rows
    BY <1>1, <1>2, <1>3 DEF TypeInv
  <2> QED
    BY <1>1, <1>2, <2>1, <2>2, <2>3, <2>5, <2>6, <2>7 DEF TypeInv
<1>9. EachRequestOnce'
  <2> DEFINE T == {traced[i].req : i \in DOMAIN traced}
  <2>1. /\ \A c, d \in Rows : req[c] = req[d] /\ req[c] # 0 => c = d
        /\ \A i, j \in DOMAIN traced : traced[i].req = traced[j].req => i = j
        /\ Live \cap T = {} /\ Live \cup T = 1 .. next - 1
    BY <1>2 DEF EachRequestOnce
  <2>2. next \notin 1 .. next - 1 /\ next # 0 /\ 1 .. next' - 1 = (1 .. next - 1) \cup {next}
    BY <1>1, <1>4
  <2>3. \A c \in Rows : req[c] \in 0 .. next - 1 /\ req[c] # next
    BY <1>2, <1>4 DEF TypeInv
  <2>4. Live' = Live \cup {next}
    <3>1. \A c \in Rows : c # b => req'[c] = req[c]
      BY <1>6
    <3>2. Live' = {req'[c] : c \in Rows} \ {0}
      BY DEF Live
    <3> QED
      BY <1>3, <1>7, <2>2, <3>1, <3>2 DEF Live
  <2>5. \A c, d \in Rows : req'[c] = req'[d] /\ req'[c] # 0 => c = d
    BY <1>6, <1>7, <2>1, <2>3
  <2> HIDE DEF T
  <2>6. T' = T
    BY <1>1 DEF T
  <2>7. Live' \cap T' = {} /\ Live' \cup T' = 1 .. next' - 1
    BY <2>1, <2>2, <2>4, <2>6
  <2> QED
    BY <1>1, <2>1, <2>5, <2>7 DEF EachRequestOnce, T
<1>10. TreesInv'
  BY <1>2, <1>5, <1>6, <1>7 DEF TreesInv
<1>11. ServesInv'
  <2>1. Serves(tree'[b], prefixLen'[b], initial'[b], req'[b])
    BY <1>4, <1>5, <1>7 DEF Serves, prompt, l
  <2>2. \A c \in Rows : c # b => (req'[c] # 0 => Serves(tree'[c], prefixLen'[c], initial'[c], req'[c]))
    BY <1>2, <1>6 DEF ServesInv
  <2>3. \A c \in prefills' : req'[c] # 0 /\ prefixLen'[c] = initial'[c]
    <3> TAKE c \in prefills'
    <3>1. c \in Rows
      BY <1>1, <1>2, <1>3 DEF TypeInv
    <3>2. CASE c = b
      BY <1>4, <1>7, <3>2
    <3>3. CASE c # b
      BY <1>2, <1>6, <3>1, <3>3 DEF ServesInv
    <3> QED
      BY <3>2, <3>3
  <2> QED
    BY <2>1, <2>2, <2>3 DEF ServesInv
<1>12. CacheInv'
  <2>1. \A c \in Rows \ prefills' : Cached(tree'[c], prefixLen'[c], targetKV'[c])
    BY <1>1, <1>2, <1>6, <1>7 DEF CacheInv
  <2> QED
    BY <1>1, <2>1 DEF CacheInv
<1>13. ReportsInv'
  <2>1. GreedyAfter(Prompts[next], TextOf(PromptTree(prompt), l))
    <3>1. Len(TextOf(PromptTree(prompt), l)) = l
      BY <1>4 DEF TextOf
    <3>2. Len(prompt) + 1 .. l = {}
      BY <1>4 DEF l
    <3> QED
      BY <3>1, <3>2 DEF GreedyAfter, prompt
  <2>2. logged'[next] = 0
    BY <1>1, <1>2, <1>4 DEF ReportsInv
  <2>3. \A c \in Rows : req'[c] # 0 /\ c \notin strayed' =>
          /\ GreedyAfter(Prompts[req'[c]], TextOf(tree'[c], prefixLen'[c]))
          /\ logged'[req'[c]] = prefixLen'[c] - initial'[c]
    <3> TAKE c \in Rows
    <3>1. CASE c = b
      BY <1>4, <1>7, <2>1, <2>2, <3>1
    <3>2. CASE c # b
      BY <1>1, <1>2, <1>6, <3>2 DEF ReportsInv
    <3> QED
      BY <3>1, <3>2
  <2>4. \A r \in Requests : r >= next' => logged'[r] = 0
    <3>1. \A r \in Requests : r \in Nat
      BY ConstantFacts
    <3>2. \A r \in Requests : r >= next' => r >= next
      BY <1>1, <1>4, <3>1
    <3> QED
      BY <1>1, <1>2, <3>2 DEF ReportsInv
  <2>5. \A i \in DOMAIN traced' : ~traced'[i].strayed =>
          GreedyTrace(traced'[i]) /\ logged'[traced'[i].req] = Len(traced'[i].output)
    BY <1>1, <1>2 DEF ReportsInv
  <2> QED
    BY <2>3, <2>4, <2>5 DEF ReportsInv, GreedyTrace
<1> QED
  BY <1>8, <1>9, <1>10, <1>11, <1>12, <1>13 DEF Inv

\* The next row's turn.
LEMMA NextRowFacts ==
  ASSUME Inv, NEW wrap, wrap \in 0 .. cfg.beamLen - 1, NEW then, NextRow(wrap, then)
  PROVE  round' \in 0 .. cfg.beamLen - 1 /\ row' \in Rows /\ stage' \in {stage, then}
<1>1. round \in 0 .. cfg.beamLen - 1 /\ row \in 0 .. Batch - 1 /\ Batch \in Nat /\ Batch > 0
  BY ConstantFacts DEF Inv, TypeInv, Rows
<1>2. CASE row < Batch - 1
  BY <1>1, <1>2 DEF NextRow, Rows
<1>3. CASE ~(row < Batch - 1)
  BY <1>1, <1>3 DEF NextRow, Rows
<1> QED
  BY <1>2, <1>3

\* The draft nodes of one row change, its text stays.
LEMMA RowKeepsInv ==
  ASSUME Inv, stage \in {"grow", "trim"}, NEW tr, NEW e,
         tree' = [tree EXCEPT ![row] = tr], end' = [end EXCEPT ![row] = e],
         RowTree(tr, prefixLen[row], e),
         \A n \in 0 .. prefixLen[row] - 1 : tr[n].tok = tree[row][n].tok,
         UNCHANGED <<cfg, requestVars, prefixLen, targetKV, selection, reportVars>>,
         round' \in 0 .. cfg.beamLen - 1, row' \in Rows, stage' \in {"grow", "trim", "verify"}
  PROVE  Inv'
<1>1. /\ cfg' = cfg /\ next' = next /\ req' = req /\ initial' = initial /\ prefills' = prefills
      /\ prefixLen' = prefixLen
      /\ targetKV' = targetKV /\ selection' = selection
      /\ logged' = logged /\ traced' = traced /\ strayed' = strayed
  BY DEF requestVars, reportVars
<1>2. TypeInv /\ EachRequestOnce /\ TreesInv /\ ServesInv /\ CacheInv /\ ReportsInv
  BY DEF Inv
<1>3. /\ row \in Rows /\ tree'[row] = tr /\ end'[row] = e
      /\ \A b \in Rows : b # row => tree'[b] = tree[b] /\ end'[b] = end[b]
  BY <1>2 DEF TypeInv
<1>4. \A b \in Rows : \A n \in 0 .. prefixLen[b] - 1 : tree'[b][n].tok = tree[b][n].tok
  BY <1>3
<1>5. TreesInv'
  BY <1>1, <1>2, <1>3 DEF TreesInv
<1>6. TypeInv'
  <2>1. count' = count
    BY <1>1 DEF count
  <2>2. e \in 0 .. MaxLen /\ tr \in [Slots -> Nodes]
    <3>1. prefixLen[row] \in 0 .. MaxLen /\ e \in prefixLen[row] .. MaxLen /\ IsTree(tr, e)
      BY DEF RowTree
    <3> QED
      BY <3>1, SizesAssumption DEF IsTree
  <2>3. tree' \in [Rows -> [Slots -> Nodes]] /\ end' \in [Rows -> 0 .. MaxLen]
    BY <1>2, <2>2 DEF TypeInv
  <2> QED
    BY <1>1, <1>2, <2>1, <2>3 DEF TypeInv
<1>7. EachRequestOnce'
  BY <1>1, <1>2 DEF EachRequestOnce, Live
<1>8. ServesInv'
  <2>1. \A b \in Rows : req[b] # 0 => Serves(tree'[b], prefixLen[b], initial[b], req[b])
    <3> SUFFICES ASSUME NEW b \in Rows, req[b] # 0
                 PROVE  Serves(tree'[b], prefixLen[b], initial[b], req[b])
      OBVIOUS
    <3>1. Serves(tree[b], prefixLen[b], initial[b], req[b])
      BY <1>2 DEF ServesInv
    <3>2. \A k \in 1 .. initial[b] : k - 1 \in 0 .. prefixLen[b] - 1
      <4>1. prefixLen[b] \in Nat /\ initial[b] \in Nat
        BY <1>2, Lengths DEF TypeInv
      <4>2. initial[b] <= prefixLen[b]
        BY <3>1 DEF Serves
      <4> QED
        BY <4>1, <4>2
    <3> QED
      BY <1>4, <3>1, <3>2 DEF Serves
  <2> QED
    BY <1>1, <1>2, <2>1 DEF ServesInv
<1>9. CacheInv'
  <2>1. \A b \in Rows \ prefills : Cached(tree'[b], prefixLen[b], targetKV[b])
    <3> TAKE b \in Rows \ prefills
    <3>1. Cached(tree[b], prefixLen[b], targetKV[b])
      BY <1>2 DEF CacheInv
    <3>2. ASSUME NEW n \in 0 .. prefixLen[b] - 2
          PROVE  Context(tree'[b], n) = Context(tree[b], n)
      <4>1. n \in 0 .. prefixLen[b] - 1
        <5>1. prefixLen[b] \in Nat
          BY <1>2, Lengths
        <5> QED
          BY <5>1
      <4>2. RowTree(tree[b], prefixLen[b], end[b])
        BY <1>2 DEF TreesInv
      <4>3. RowTree(tree'[b], prefixLen[b], end'[b])
        BY <1>1, <1>5 DEF TreesInv
      <4> QED
        BY <1>4, <4>1, <4>2, <4>3, TextStays
    <3> QED
      BY <3>1, <3>2 DEF Cached
  <2> QED
    BY <1>1, <2>1 DEF CacheInv
<1>10. ReportsInv'
  <2>1. ASSUME NEW b \in Rows
        PROVE  TextOf(tree'[b], prefixLen[b]) = TextOf(tree[b], prefixLen[b])
    <3>1. \A k \in 1 .. prefixLen[b] : k - 1 \in 0 .. prefixLen[b] - 1
      <4>1. prefixLen[b] \in Nat
        BY <1>2, Lengths
      <4> QED
        BY <4>1
    <3> QED
      BY <1>4, <3>1 DEF TextOf
  <2> QED
    BY <1>1, <1>2, <2>1 DEF ReportsInv, GreedyTrace
<1> QED
  BY <1>5, <1>6, <1>7, <1>8, <1>9, <1>10 DEF Inv

\* A row takes its part in a round of drafting.
LEMMA GrowRowKeepsInv ==
  ASSUME Inv, GrowRow
  PROVE  Inv'
<1> DEFINE tr  == tree[row]
           len == prefixLen[row]
           e   == end[row]
           more == round + 1 < cfg.beamLen
           wrap == IF more THEN round + 1 ELSE 0
           then == IF more THEN "grow" ELSE "trim"
<1>1. SUFFICES ASSUME NEW beams \in Beams(row), NEW children \in Proposals(beams, cfg.width),
                      NEW best \in Affordable(row, children),
                      \/ /\ e + Cardinality(best) < MaxLen
                         /\ tree' = [tree EXCEPT
                                       ![row] = BatchAdd(Processed(row, beams), e, best)]
                         /\ end' = [end EXCEPT ![row] = e + Cardinality(best)]
                         /\ NextRow(wrap, then)
                      \/ /\ e + Cardinality(best) >= MaxLen
                         /\ stage' = "failed"
                         /\ UNCHANGED <<tree, end, round, row>>
               PROVE  Inv'
  BY DEF GrowRow
<1>2. /\ stage = "grow"
      /\ UNCHANGED <<cfg, requestVars, prefixLen, targetKV, selection, reportVars>>
  BY DEF GrowRow
<1>3. TypeInv /\ TreesInv
  BY DEF Inv
<1>4. row \in Rows /\ round \in Nat /\ cfg.beamLen \in Nat \ {0} /\ RowTree(tr, len, e)
  BY <1>3, ConstantFacts DEF TypeInv, TreesInv
<1>5. beams \in SUBSET WithStatus(tr, CANDIDATE)
  BY DEF Beams, Topk, kSubset
<1>6. best \in SUBSET children
  BY DEF Affordable
<1>7. wrap \in 0 .. cfg.beamLen - 1 /\ then \in {"grow", "trim"}
  BY <1>3, <1>4 DEF TypeInv
<1> HIDE DEF more, wrap, then
<1>8. CASE e + Cardinality(best) < MaxLen
  <2> DEFINE mid == Processed(row, beams)
             new == BatchAdd(mid, e, best)
             e2  == e + Cardinality(best)
  <2>1. mid = Marked(tr, beams)
    BY DEF Processed, Marked
  <2> HIDE DEF mid
  <2>2. RowTree(mid, len, e)
    BY <1>4, <1>5, <2>1, MarkedRowTree
  <2>3. \A n \in Slots : mid[n].tok = tr[n].tok
    BY <1>4, <1>5, <2>1, MarkedRowTree
  <2>4. beams \subseteq len - 1 .. e - 1 /\ beams \subseteq Slots
    BY <1>4, <1>5, MarkedRowTree
  <2>f. IsFiniteSet(best)
    BY <1>4, <1>6, <2>4, ProposalsFit
  <2>5. e \in Nat /\ len \in Nat /\ len <= e /\ e <= MaxLen /\ MaxLen \in Nat
    BY <1>4, SizesAssumption DEF RowTree
  <2>6. RowTree(new, len, e2) /\ \A n \in 0 .. e - 1 : new[n] = mid[n]
    <3>1. CASE best = {}
      <4>1. Cardinality(best) = 0
        BY <3>1, FS_EmptySet
      <4>2. e .. e + Cardinality(best) - 1 = {}
        BY <2>5, <4>1
      <4>3. mid = [n \in Slots |-> mid[n]]
        BY <2>2 DEF RowTree, IsTree
      <4>4. new = [n \in Slots |-> mid[n]]
        BY <4>2 DEF BatchAdd, Add
      <4>5. e2 = e
        BY <2>5, <4>1
      <4> QED
        BY <2>2, <4>3, <4>4, <4>5
    <3>2. CASE best # {}
      <4>1. e + Cardinality(best) <= MaxLen
        <5>1. Cardinality(best) \in Int
          BY <2>f, FS_CardinalityType
        <5> QED
          BY <1>8, <2>5, <5>1
      <4>2. Fits(best, len, e)
        BY <1>4, <1>6, <2>4, <3>2, <4>1, ProposalsFit
      <4>3. new = Add(mid, e, best, CANDIDATE)
        BY DEF BatchAdd
      <4> HIDE DEF new
      <4> QED
        BY <2>2, <4>2, <4>3, GrownRowTree
    <3> QED
      BY <3>1, <3>2
  <2>7. \A n \in 0 .. len - 1 : new[n].tok = tr[n].tok
    <3>1. \A n \in 0 .. len - 1 : n \in 0 .. e - 1 /\ n \in Slots
      BY <2>5 DEF Slots
    <3> QED
      BY <2>3, <2>6, <3>1
  <2>8. /\ tree' = [tree EXCEPT ![row] = new] /\ end' = [end EXCEPT ![row] = e2]
        /\ NextRow(wrap, then)
    <3>1. ~(e + Cardinality(best) >= MaxLen)
      <4>1. Cardinality(best) \in Int
        BY <2>f, FS_CardinalityType
      <4> QED
        BY <1>8, <2>5, <4>1
    <3> QED
      BY <1>1, <3>1 DEF mid
  <2> HIDE DEF new, e2
  <2>9. round' \in 0 .. cfg.beamLen - 1 /\ row' \in Rows /\ stage' \in {stage, then}
    BY <1>7, <2>8, NextRowFacts
  <2>10. stage' \in {"grow", "trim", "verify"}
    BY <1>2, <1>7, <2>9
  <2> QED
    BY <1>2, <2>6, <2>7, <2>8, <2>9, <2>10, RowKeepsInv
<1>9. CASE ~(e + Cardinality(best) < MaxLen)
  <2>1. stage' = "failed" /\ UNCHANGED <<tree, end, round, row>>
    BY <1>1, <1>9
  <2>2. UNCHANGED <<cfg, requestVars, treeVars, targetKV, selection, reportVars>>
    BY <1>2, <2>1 DEF treeVars
  <2>3. round' \in 0 .. cfg.beamLen - 1 /\ row' \in Rows
    BY <1>3, <2>1 DEF TypeInv
  <2> QED
    BY <2>1, <2>2, <2>3, StageKeepsInv
<1> QED
  BY <1>8, <1>9

\* A row is trimmed to the budget, or need not be.
LEMMA TrimRowKeepsInv ==
  ASSUME Inv, TrimRow
  PROVE  Inv'
<1> DEFINE tr  == tree[row]
           len == prefixLen[row]
           e   == end[row]
<1>1. /\ stage = "trim" /\ NextRow(0, "verify")
      /\ UNCHANGED <<cfg, requestVars, targetKV, selection, reportVars>>
  BY DEF TrimRow
<1>2. TypeInv /\ TreesInv
  BY DEF Inv
<1>3. /\ row \in Rows /\ round \in Nat /\ cfg.beamLen \in Nat \ {0} /\ RowTree(tr, len, e)
      /\ cfg.budget \in Nat \ {0}
  BY <1>2, ConstantFacts DEF TypeInv, TreesInv
<1>4. /\ round' \in 0 .. cfg.beamLen - 1 /\ row' \in Rows
      /\ stage' \in {"grow", "trim", "verify"}
  <2>1. 0 \in 0 .. cfg.beamLen - 1
    BY <1>3
  <2> QED
    BY <1>1, <2>1, NextRowFacts
<1>5. /\ len \in Nat /\ e \in Nat /\ len <= e /\ len \in 0 .. e /\ e \in 0 .. MaxLen
      /\ (len = 0 => e = 0) /\ IsTree(tr, e)
  BY <1>3, SizesAssumption DEF RowTree
<1>6. CASE Cardinality(Drafted(row)) <= cfg.budget /\ UNCHANGED treeVars
  BY <1>1, <1>4, <1>6, StageKeepsInv
<1>7. CASE /\ Cardinality(Drafted(row)) > cfg.budget
           /\ \E kept \in {K \in kSubset(cfg.budget, Drafted(row)) :
                             \A n \in K : tree[row][n].row \cap Drafted(row) \subseteq K} :
              \E lowest \in {n \in kept : \A m \in kept \ {n} : n \notin tree[row][m].row} :
                LET dest == TopkOrder(kept, lowest, len)
                IN  tree' = [tree EXCEPT ![row] = BatchGather(@, kept, dest, len + cfg.budget)]
           /\ end' = [end EXCEPT ![row] = len + cfg.budget]
           /\ UNCHANGED prefixLen
  <2>1. PICK kept \in {K \in kSubset(cfg.budget, Drafted(row)) :
                         \A n \in K : tree[row][n].row \cap Drafted(row) \subseteq K} :
               \E lowest \in {n \in kept : \A m \in kept \ {n} : n \notin tree[row][m].row} :
                 tree' = [tree EXCEPT ![row] = BatchGather(@, kept, TopkOrder(kept, lowest, len),
                                                           len + cfg.budget)]
    BY <1>7
  <2>2. PICK lowest \in {n \in kept : \A m \in kept \ {n} : n \notin tree[row][m].row} :
               tree' = [tree EXCEPT ![row] = BatchGather(@, kept, TopkOrder(kept, lowest, len),
                                                         len + cfg.budget)]
    BY <2>1
  <2>3. /\ kept \in SUBSET (len .. e - 1) /\ Cardinality(kept) = cfg.budget
        /\ \A s \in kept : tr[s].row \cap len .. e - 1 \subseteq kept
        /\ lowest \in kept /\ \A m \in kept \ {lowest} : lowest \notin tr[m].row
    BY DEF kSubset, Drafted
  <2> DEFINE dest == TopkOrder(kept, lowest, len)
             e2   == len + cfg.budget
             new  == BatchGather(tr, kept, dest, e2)
  <2>4. Places(tr, kept, dest, len)
    BY <1>5, <2>3, TopkPlaces
  <2>5. len > 0
    <3>1. len .. e - 1 # {}
      BY <2>3
    <3> QED
      BY <1>5, <3>1
  <2> HIDE DEF dest
  <2>6. RowTree(new, len, e2) /\ \A n \in 0 .. len - 1 : new[n] = tr[n]
    BY <1>3, <2>3, <2>4, <2>5, TrimmedRowTree
  <2>7. tree' = [tree EXCEPT ![row] = new] /\ end' = [end EXCEPT ![row] = e2]
    BY <1>7, <2>2 DEF dest
  <2> HIDE DEF new, e2
  <2>8. /\ stage \in {"grow", "trim"}
        /\ UNCHANGED <<cfg, requestVars, prefixLen, targetKV, selection, reportVars>>
        /\ \A n \in 0 .. len - 1 : new[n].tok = tr[n].tok
    BY <1>1, <1>7, <2>6
  <2> QED
    BY <1>4, <2>6, <2>7, <2>8, RowKeepsInv
<1> QED
  BY <1>6, <1>7 DEF TrimRow

\* The pass of the target finds in the cache what it needs: in a row that was
\* just filled the prompt, in another one what the last iteration left.
LEMMA VerifiedRow ==
  ASSUME Inv, stage = "verify", NEW b \in Rows
  PROVE  LET run == ForwardKV(tree[b], Stored(b), Submitted(b))
         IN  /\ run \in [Slots -> Seq(Tokens)]
             /\ \A n \in 0 .. end[b] - 1 : /\ run[n] = Context(tree[b], n)
                                           /\ Context(tree[b], n) # NoKV
<1> DEFINE tr     == tree[b]
           len    == prefixLen[b]
           e      == end[b]
           kv     == Stored(b)
           batch  == Submitted(b)
           run    == ForwardKV(tr, kv, batch)
           prompt == Prompts[req[b]]
<1>1. TypeInv /\ TreesInv /\ ServesInv /\ CacheInv
  BY DEF Inv
<1>2. RowTree(tr, len, e) /\ targetKV[b] \in [Slots -> Seq(Tokens)]
  BY <1>1 DEF TreesInv, TypeInv
<1>3. /\ len \in Nat /\ e \in Nat /\ len <= e /\ e \in 0 .. MaxLen /\ IsTree(tr, e)
      /\ MaxLen \in Nat /\ \A n \in 0 .. e - 1 : n \in Slots /\ n \in Nat
  BY <1>2, SizesAssumption DEF RowTree, Slots
<1>4. \A n \in 0 .. e - 1 : n \in batch <=> len - 1 <= n
  BY <1>3 DEF Submitted
<1>5. \A n \in batch : n \in 0 .. e - 1
  BY <1>3 DEF Submitted, Slots
<1>6. b \in prefills =>
        /\ kv = PrefilledKV(targetKV[b], prompt)
        /\ prompt \in Seq(Tokens) /\ len = Len(prompt)
        /\ \A k \in 1 .. len : tr[k - 1].tok = prompt[k]
  <2> SUFFICES ASSUME b \in prefills
               PROVE  /\ kv = PrefilledKV(targetKV[b], prompt)
                      /\ prompt \in Seq(Tokens) /\ len = Len(prompt)
                      /\ \A k \in 1 .. len : tr[k - 1].tok = prompt[k]
    OBVIOUS
  <2>1. req[b] # 0 /\ len = initial[b] /\ Serves(tr, len, initial[b], req[b])
    BY <1>1 DEF ServesInv
  <2>2. req[b] \in Requests
    <3>1. next \in 1 .. count + 1 /\ count \in Nat /\ 1 .. count \subseteq Requests
      BY <1>1, ConstantFacts DEF TypeInv, count
    <3>2. req[b] \in 0 .. next - 1
      BY <1>1 DEF TypeInv
    <3>3. req[b] \in 1 .. count
      BY <2>1, <3>1, <3>2
    <3> QED
      BY <3>1, <3>3
  <2>3. prompt \in Seq(Tokens)
    BY <2>2, ConstantFacts
  <2> QED
    BY <2>1, <2>3 DEF Stored, Serves
<1>7. b \notin prefills => kv = targetKV[b]
  BY DEF Stored
<1> HIDE DEF kv, batch, prompt
<1>8. kv \in [Slots -> Seq(Tokens)]
  <2>1. CASE b \in prefills
    <3>1. \A n \in Slots : n < Len(prompt) => SubSeq(prompt, 1, n + 1) \in Seq(Tokens)
      <4> SUFFICES ASSUME NEW n \in Slots, n < Len(prompt)
                   PROVE  SubSeq(prompt, 1, n + 1) \in Seq(Tokens)
        OBVIOUS
      <4>1. n \in Nat /\ n + 1 \in 1 .. Len(prompt) /\ prompt \in Seq(Tokens)
        BY <1>6, <2>1 DEF Slots
      <4> QED
        BY <4>1
    <3> QED
      BY <1>2, <1>6, <2>1, <3>1 DEF PrefilledKV
  <2>2. CASE b \notin prefills
    BY <1>2, <1>7, <2>2
  <2> QED
    BY <2>1, <2>2
<1>9. ASSUME NEW n \in 0 .. e - 1, n < len - 1
      PROVE  kv[n] = Context(tr, n)
  <2>1. n \in 0 .. len - 1 /\ n \in 0 .. len - 2 /\ n \in Slots
    BY <1>3, <1>9
  <2>2. CASE b \in prefills
    <3>1. kv[n] = SubSeq(prompt, 1, n + 1)
      BY <1>3, <1>6, <1>9, <2>1, <2>2 DEF PrefilledKV
    <3>2. Context(tr, n) = [k \in 1 .. n + 1 |-> tr[k - 1].tok]
      <4> HIDE DEF tr, len, e
      <4> QED
        BY <1>2, <2>1, TextOfRowTree
    <3>3. \A k \in 1 .. n + 1 : tr[k - 1].tok = prompt[k]
      BY <1>3, <1>6, <2>1, <2>2
    <3>4. SubSeq(prompt, 1, n + 1) = [k \in 1 .. n + 1 |-> prompt[k]]
      <4>1. prompt \in Seq(Tokens) /\ n + 1 \in 1 .. Len(prompt)
        BY <1>3, <1>6, <2>1, <2>2
      <4> QED
        BY <4>1
    <3> QED
      BY <3>1, <3>2, <3>3, <3>4
  <2>3. CASE b \notin prefills
    BY <1>1, <1>7, <2>1, <2>3 DEF CacheInv, Cached
  <2> QED
    BY <2>2, <2>3
<1>10. ASSUME NEW n \in 0 .. e - 1
       PROVE  run[n] = Context(tr, n)
  <2>1. CASE n \in batch
    <3>1. \A j \in tr[n].row \ batch : kv[j] = Context(tr, j)
      <4> TAKE j \in tr[n].row \ batch
      <4>1. j \in 0 .. n
        BY <1>3 DEF IsTree
      <4>2. j \in 0 .. e - 1
        BY <1>3, <4>1
      <4>3. j < len - 1
        BY <1>3, <1>4, <4>2
      <4> QED
        BY <1>9, <4>2, <4>3
    <3>2. Computed(tr, kv, batch, n) = Context(tr, n)
      BY <1>3, <3>1, ForwardComputesContexts
    <3> QED
      BY <1>3, <2>1, <3>2 DEF ForwardKV
  <2>2. CASE n \notin batch
    <3>1. n < len - 1
      BY <1>3, <1>4, <2>2
    <3> QED
      BY <1>3, <1>9, <2>2, <3>1 DEF ForwardKV
  <2> QED
    BY <2>1, <2>2
<1>11. \A n \in 0 .. e - 1 : Context(tr, n) \in Seq(Tokens) /\ Context(tr, n) # NoKV
  <2> TAKE n \in 0 .. e - 1
  <2>1. /\ Context(tr, n) \in Seq(Tokens) /\ Len(Context(tr, n)) = tr[n].pos + 1
        /\ tr[n].pos \in Nat
    BY <1>3, ContextIsText
  <2>2. Len(NoKV) = 0
    BY DEF NoKV
  <2> QED
    BY <2>1, <2>2
<1>12. run \in [Slots -> Seq(Tokens)]
  <2>1. \A n \in Slots : run[n] \in Seq(Tokens)
    <3> TAKE n \in Slots
    <3>1. CASE n \in batch
      BY <1>5, <1>10, <1>11, <3>1
    <3>2. CASE n \notin batch
      BY <1>8, <3>2 DEF ForwardKV
    <3> QED
      BY <3>1, <3>2
  <2>2. run = [n \in Slots |-> run[n]]
    BY DEF ForwardKV
  <2> QED
    BY <2>1, <2>2
<1> QED
  BY <1>10, <1>11, <1>12 DEF kv, batch

LEMMA VerifyKeepsInv ==
  ASSUME Inv, Verify
  PROVE  Inv'
<1> DEFINE run == [b \in Rows |-> ForwardKV(tree[b], Stored(b), Submitted(b))]
<1>1. /\ stage = "verify" /\ stage' = "keep"
      /\ targetKV' = run
      /\ cfg' = cfg /\ next' = next /\ req' = req /\ initial' = initial /\ prefills' = prefills
      /\ tree' = tree /\ prefixLen' = prefixLen /\ end' = end
      /\ round' = round /\ row' = row
      /\ logged' = logged /\ traced' = traced /\ strayed' = strayed
  BY DEF Verify, requestVars, treeVars, reportVars
<1>2. PICK any \in Tokens :
        selection' = [b \in Rows |->
          [n \in Submitted(b) |-> IF run[b][n] = NoKV THEN any ELSE Target(run[b][n])]]
  BY DEF Verify
<1>3. TypeInv /\ EachRequestOnce /\ TreesInv /\ ServesInv /\ ReportsInv
  BY DEF Inv
<1>4. \A b \in Rows :
        /\ run[b] \in [Slots -> Seq(Tokens)]
        /\ \A n \in 0 .. end[b] - 1 : /\ run[b][n] = Context(tree[b], n)
                                      /\ Context(tree[b], n) # NoKV
  BY <1>1, VerifiedRow
<1> HIDE DEF run
<1>5. TypeInv'
  <2>1. count' = count
    BY <1>1 DEF count
  <2>2. run = [b \in Rows |-> run[b]]
    BY DEF run
  <2>3. targetKV' \in [Rows -> [Slots -> Seq(Tokens)]]
    BY <1>1, <1>4, <2>2
  <2> QED
    BY <1>1, <1>3, <2>1, <2>3 DEF TypeInv
<1>6. EachRequestOnce'
  BY <1>1, <1>3 DEF EachRequestOnce, Live
<1>7. TreesInv'
  BY <1>1, <1>3 DEF TreesInv
<1>8. ServesInv'
  BY <1>1, <1>3 DEF ServesInv
<1>9. CacheInv'
  <2>1. ASSUME NEW b \in Rows
        PROVE  Answered(tree[b], prefixLen[b], end[b], run[b], selection'[b])
    <3>1. /\ prefixLen[b] \in Nat /\ end[b] \in Nat
      BY <1>3 DEF TypeInv
    <3>2. ASSUME NEW n \in prefixLen[b] - 1 .. end[b] - 1, n \in Slots
          PROVE  selection'[b][n] = Target(Context(tree[b], n))
      <4>1. n \in Submitted(b) /\ n \in 0 .. end[b] - 1
        BY <3>1, <3>2 DEF Submitted, Slots
      <4>2. selection'[b][n] = IF run[b][n] = NoKV THEN any ELSE Target(run[b][n])
        BY <1>2, <4>1
      <4> QED
        BY <1>4, <4>1, <4>2
    <3> QED
      BY <1>4, <3>2 DEF Answered
  <2> QED
    BY <1>1, <2>1 DEF CacheInv
<1>10. ReportsInv'
  BY <1>1, <1>3 DEF ReportsInv, GreedyTrace
<1> QED
  BY <1>5, <1>6, <1>7, <1>8, <1>9, <1>10 DEF Inv

\* The target's vocabulary: its choices are tokens.
TargetGivesTokens == \A c \in Seq(Tokens) : Target(c) \in Tokens

\* Where the kept path of a row ends, if it can be kept at all.
LEMMA ExitFacts ==
  ASSUME Inv, stage = "keep", NEW b \in Rows, ~CannotKeep(b)
  PROVE  /\ prefixLen[b] > 0 /\ Exit(b) \in prefixLen[b] - 1 .. end[b] - 1 /\ Exit(b) \in Slots
         /\ KeptRow(b) = tree[b][Exit(b)].row /\ Cardinality(KeptRow(b)) < MaxLen - 1
         /\ Whole(b) # {} => Exit(b) = Deepest(b) /\ Exit(b) \in Whole(b)
         /\ Whole(b) = {} /\ ~Strays(b) => Exit(b) = prefixLen[b] - 1
<1> DEFINE tr  == tree[b]
           len == prefixLen[b]
           e   == end[b]
           x   == Exit(b)
<1>1. RowTree(tr, len, e)
  BY DEF Inv, TreesInv
<1>2. /\ len \in Nat /\ e \in Nat /\ len <= e /\ e \in 0 .. MaxLen /\ IsTree(tr, e)
      /\ MaxLen \in Nat /\ (len = 0 => e = 0)
      /\ \A n \in 0 .. e - 1 : n \in Slots
  BY <1>1, SizesAssumption DEF RowTree, Slots
<1>3. KeptRow(b) # {} /\ ~(Cardinality(KeptRow(b)) >= MaxLen - 1)
  BY DEF CannotKeep
<1>4. x \in Slots /\ KeptRow(b) = tr[x].row
  BY <1>3 DEF KeptRow
<1>5. x \in Int /\ x >= 0 /\ x < e
  <2>1. x \in Int /\ x >= 0
    BY <1>4 DEF Slots
  <2>2. ~(x >= e)
    BY <1>1, <1>3, <1>4 DEF RowTree, Blank
  <2> QED
    BY <1>2, <2>1, <2>2
<1>6. len > 0
  BY <1>2, <1>5
<1>7. Cardinality(KeptRow(b)) < MaxLen - 1
  <2>1. x \in 0 .. e - 1
    BY <1>2, <1>5
  <2>2. Cardinality(tr[x].row) \in Nat
    BY <1>2, <2>1, PathInOrder
  <2> QED
    BY <1>2, <1>3, <1>4, <2>2
<1>8. Whole(b) \in SUBSET (len .. e - 1)
  BY DEF Whole, Chosen, Drafted
<1>9. Whole(b) # {} => x = Deepest(b) /\ x \in Whole(b)
  <2> SUFFICES ASSUME Whole(b) # {} PROVE x = Deepest(b) /\ x \in Whole(b)
    OBVIOUS
  <2> DEFINE f == [m \in Whole(b) |-> tr[m].pos]
             S == {tr[m].pos : m \in Whole(b)}
  <2>1. IsFiniteSet(Whole(b))
    <3>1. IsFiniteSet(len .. e - 1)
      <4>1. len \in Int /\ e - 1 \in Int
        BY <1>2
      <4> QED
        BY <4>1, FS_Interval
    <3> QED
      BY <1>8, <3>1, FS_Subset
  <2>2. f \in Surjection(Whole(b), S)
    BY DEF Surjection
  <2>3. IsFiniteSet(S)
    BY <2>1, <2>2, FS_Surjection
  <2>4. S \in SUBSET Int /\ S # {}
    <3>1. ASSUME NEW m \in Whole(b)
          PROVE  tr[m].pos \in Int
      <4>1. m \in 0 .. e - 1
        BY <1>2, <1>8
      <4> QED
        BY <1>2, <4>1, PathInOrder
    <3> QED
      BY <3>1
  <2>5. \E p \in S : \A q \in S : q <= p
    BY <2>3, <2>4, GreatestExists
  <2>6. \E n \in Whole(b) : \A m \in Whole(b) : tree[b][m].pos <= tree[b][n].pos
    BY <2>5
  <2>7. Deepest(b) \in Whole(b)
    BY <2>6 DEF Deepest
  <2> QED
    BY <2>7 DEF Exit
<1>10. Whole(b) = {} /\ ~Strays(b) => x = len - 1
  BY DEF Exit, Strays
<1>11. x \in len - 1 .. e - 1
  <2>1. CASE Whole(b) # {}
    BY <1>2, <1>8, <1>9, <2>1
  <2>2. CASE Whole(b) = {}
    <3>1. x = len + 1 \/ x = len - 1
      BY <2>2 DEF Exit
    <3> QED
      BY <1>2, <1>5, <3>1
  <2> QED
    BY <2>1, <2>2
<1> QED
  BY <1>4, <1>6, <1>7, <1>9, <1>10, <1>11

\* A path whose draft nodes are all the target's choices, with the target's
\* choice behind it, is what the target would decode on its own.
LEMMA GreedyPath ==
  ASSUME NEW tr, NEW len, NEW e, RowTree(tr, len, e), len > 0, NEW x \in len - 1 .. e - 1,
         NEW sel, \A n \in len - 1 .. e - 1 : sel[n] = Target(Context(tr, n)),
         \A j \in tr[x].row : j >= len => tr[j].tok = sel[tr[j].par],
         NEW prompt, Len(prompt) \in Nat, GreedyAfter(prompt, TextOf(tr, len))
  PROVE  GreedyAfter(prompt, Append(Context(tr, x), Target(Context(tr, x))))
<1> DEFINE c    == Context(tr, x)
           t    == Target(c)
           text == TextOf(tr, len)
           row_ == tr[x].row
           p    == Len(prompt)
           k    == tr[x].pos + 1
<1>1. /\ len \in Nat /\ e \in Nat /\ len <= e /\ e \in 0 .. MaxLen /\ IsTree(tr, e)
      /\ MaxLen \in Nat /\ x \in 0 .. e - 1 /\ x \in Nat
  BY SizesAssumption DEF RowTree
<1>2. /\ c \in Seq(Tokens) /\ Len(c) = k /\ k \in Nat /\ tr[x].pos \in Nat
      /\ \A j \in row_ : tr[j].pos \in 0 .. tr[x].pos /\ c[tr[j].pos + 1] = tr[j].tok
  BY <1>1, ContextIsText
<1>3. Len(text) = len /\ \A i \in 1 .. len : text[i] = tr[i - 1].tok
  BY <1>1 DEF TextOf
<1>4. 0 .. len - 1 \subseteq row_
  <2>1. CASE x = len - 1
    BY <1>1, <2>1 DEF RowTree
  <2>2. CASE x # len - 1
    <3>1. DraftNode(tr, len, x)
      BY <1>1, <2>2 DEF RowTree
    <3> QED
      BY <3>1 DEF DraftNode
  <2> QED
    BY <2>1, <2>2
<1>5. \A j \in 0 .. len - 1 : tr[j].pos = j
  BY TextOfRowTree
<1>6. \A i \in 1 .. len : i <= k /\ c[i] = text[i]
  <2> TAKE i \in 1 .. len
  <2>1. i - 1 \in 0 .. len - 1 /\ i - 1 \in row_ /\ (i - 1) + 1 = i
    BY <1>1, <1>4
  <2>2. tr[i - 1].pos = i - 1
    BY <1>5, <2>1
  <2>3. i - 1 \in 0 .. tr[x].pos /\ c[(i - 1) + 1] = tr[i - 1].tok
    BY <1>2, <2>1, <2>2
  <2> QED
    BY <1>2, <1>3, <2>1, <2>3
<1> HIDE DEF c, t, text, k, p, row_
<1>7. ASSUME NEW i \in p + 1 .. k
      PROVE  c[i] = Target(SubSeq(c, 1, i - 1))
  <2>1. i \in Nat /\ i >= 1 /\ i <= k /\ p \in Nat
    BY <1>2 DEF p
  <2>2. CASE i <= len
    <3>1. text[i] = Target(SubSeq(text, 1, i - 1))
      BY <1>1, <1>3, <2>1, <2>2 DEF GreedyAfter, p, text
    <3>2. SubSeq(text, 1, i - 1) = SubSeq(c, 1, i - 1)
      <4>1. SubSeq(text, 1, i - 1) = [m \in 1 .. i - 1 |-> text[m]]
        BY <2>1
      <4>2. SubSeq(c, 1, i - 1) = [m \in 1 .. i - 1 |-> c[m]]
        BY <2>1
      <4>3. \A m \in 1 .. i - 1 : text[m] = c[m]
        BY <1>1, <1>6, <2>1, <2>2
      <4> QED
        BY <4>1, <4>2, <4>3
    <3> QED
      <4>1. i \in 1 .. len /\ c[i] = text[i]
        BY <1>1, <1>6, <2>1, <2>2
      <4> QED
        BY <3>1, <3>2, <4>1
  <2>3. CASE i > len
    <3> DEFINE j == OnPath(tr, x, i - 1)
    <3>1. j \in row_ /\ tr[j].pos = i - 1
      <4>1. i - 1 \in 0 .. Cardinality(tr[x].row) - 1
        <5>1. Cardinality(tr[x].row) = k
          BY <1>1, PathInOrder DEF k
        <5> QED
          BY <1>2, <2>1, <5>1
      <4> QED
        BY <1>1, <4>1, OnPathIsThere DEF row_
    <3> HIDE DEF j
    <3>2. j \in 0 .. x /\ j \in 0 .. e - 1
      BY <1>1, <3>1 DEF IsTree, row_
    <3>3. j >= len
      BY <1>1, <1>5, <2>1, <2>3, <3>1, <3>2
    <3>4. DraftNode(tr, len, j)
      BY <1>1, <3>2, <3>3 DEF RowTree
    <3> DEFINE par == tr[j].par
    <3>5. par \in len - 1 .. e - 1 /\ par \in 0 .. e - 1 /\ par < j /\ tr[j].row = tr[par].row \cup {j}
      BY <1>1, <3>2, <3>4 DEF DraftNode
    <3>6. c[i] = Target(Context(tr, par))
      <4>1. tr[j].tok = sel[par]
        BY <3>1, <3>3 DEF row_
      <4>2. c[i] = tr[j].tok
        <5>1. tr[j].pos + 1 = i
          BY <2>1, <3>1
        <5> QED
          BY <1>2, <3>1, <5>1
      <4> QED
        BY <3>5, <4>1, <4>2
    <3> HIDE DEF par
    <3>7. par \in row_
      <4>1. par \in tr[par].row
        BY <1>1, <3>5 DEF IsTree
      <4>2. par \in tr[j].row
        BY <3>5, <4>1
      <4>3. tr[j].row \subseteq row_
        BY <1>1, <3>1 DEF IsTree, row_
      <4> QED
        BY <4>2, <4>3
    <3>8. tr[par].pos + 1 = i - 1
      <4>1. /\ Cardinality(tr[par].row) = tr[par].pos + 1 /\ tr[par].pos \in Nat
            /\ IsFiniteSet(tr[par].row)
        BY <1>1, <3>5, PathInOrder
      <4>2. Cardinality(tr[j].row) = tr[j].pos + 1 /\ tr[j].pos \in Nat
        BY <1>1, <3>2, PathInOrder
      <4>3. j \notin tr[par].row
        <5>1. tr[par].row \subseteq 0 .. par
          BY <1>1, <3>5 DEF IsTree
        <5> QED
          BY <1>1, <3>2, <3>5, <5>1
      <4>4. Cardinality(tr[j].row) = Cardinality(tr[par].row) + 1
        BY <3>5, <4>1, <4>3, FS_AddElement
      <4> QED
        BY <2>1, <3>1, <4>1, <4>2, <4>4
    <3>9. Context(tr, par) = SubSeq(c, 1, tr[par].pos + 1)
      BY <1>1, <3>7, ContextOfAncestor DEF c, row_
    <3> QED
      BY <3>6, <3>8, <3>9
  <2> QED
    BY <1>1, <2>1, <2>2, <2>3
<1> DEFINE all == Append(c, t)
<1>8. Len(all) = k + 1 /\ all[k + 1] = t /\ \A i \in 1 .. k : all[i] = c[i]
  BY <1>2
<1>9. \A i \in 0 .. k : SubSeq(all, 1, i) = SubSeq(c, 1, i)
  <2> TAKE i \in 0 .. k
  <2>1. SubSeq(all, 1, i) = [m \in 1 .. i |-> all[m]]
    BY <1>2
  <2>2. SubSeq(c, 1, i) = [m \in 1 .. i |-> c[m]]
    BY <1>2
  <2>3. \A m \in 1 .. i : m \in 1 .. k
    BY <1>2
  <2> QED
    BY <1>8, <2>1, <2>2, <2>3
<1>10. SubSeq(c, 1, k) = c
  BY <1>2
<1> HIDE DEF all
<1>11. \A i \in p + 1 .. Len(all) : all[i] = Target(SubSeq(all, 1, i - 1))
  <2> TAKE i \in p + 1 .. Len(all)
  <2>1. i \in Nat /\ i >= 1 /\ i <= k + 1 /\ p \in Nat /\ i - 1 \in 0 .. k
    BY <1>2, <1>8 DEF p
  <2>2. CASE i = k + 1
    <3>1. i - 1 = k
      BY <1>2, <2>2
    <3> QED
      BY <1>8, <1>9, <1>10, <2>1, <2>2, <3>1 DEF t
  <2>3. CASE i # k + 1
    <3>1. i \in p + 1 .. k /\ i \in 1 .. k
      BY <1>2, <1>8, <2>1, <2>3
    <3> QED
      BY <1>7, <1>8, <1>9, <2>1, <3>1
  <2> QED
    BY <2>2, <2>3
<1> QED
  BY <1>11 DEF GreedyAfter, all, c, t, p

\* What an iteration leaves of a row.
LEMMA KeptRowFacts ==
  ASSUME Inv, TargetGivesTokens, Keep, NEW b \in Rows
  PROVE  LET x == Exit(b)
             c == Context(tree[b], x)
         IN  /\ RowTree(tree'[b], prefixLen'[b], end'[b])
             /\ prefixLen'[b] = tree[b][x].pos + 2 /\ prefixLen'[b] > prefixLen[b]
             /\ \A n \in 0 .. prefixLen[b] - 1 : tree'[b][n].tok = tree[b][n].tok
             /\ TextOf(tree'[b], prefixLen'[b]) = Append(c, Target(c))
             /\ targetKV'[b] \in [Slots -> Seq(Tokens)]
             /\ Cached(tree'[b], prefixLen'[b], targetKV'[b])
             /\ FreshTokens(b) \in Nat
             /\ ~Strays(b) => FreshTokens(b) = prefixLen'[b] - prefixLen[b]
<1> DEFINE tr   == tree[b]
           len  == prefixLen[b]
           e    == end[b]
           x    == Exit(b)
           c    == Context(tr, x)
           t    == Target(c)
           kept == KeptRow(b)
           k    == Cardinality(tr[x].row)
           new  == Kept(b, selection[b][x])
<1>1. /\ stage = "keep" /\ ~CannotKeep(b)
      /\ tree'[b] = new /\ prefixLen'[b] = Cardinality(kept) + 1 /\ end'[b] = prefixLen'[b]
      /\ targetKV'[b] = GatherKV(targetKV[b], kept)
  BY DEF Keep
<1>2. TypeInv /\ TreesInv /\ CacheInv
  BY DEF Inv
<1>3. /\ RowTree(tr, len, e) /\ Answered(tr, len, e, targetKV[b], selection[b])
      /\ targetKV[b] \in [Slots -> Seq(Tokens)]
  BY <1>1, <1>2 DEF TreesInv, CacheInv, TypeInv
<1>4. /\ len > 0 /\ x \in len - 1 .. e - 1 /\ x \in Slots
      /\ kept = tr[x].row /\ Cardinality(kept) < MaxLen - 1
      /\ Whole(b) # {} => x = Deepest(b) /\ x \in Whole(b)
      /\ Whole(b) = {} /\ ~Strays(b) => x = len - 1
  BY <1>1, ExitFacts
<1>5. /\ len \in Nat /\ e \in Nat /\ len <= e /\ e \in 0 .. MaxLen /\ IsTree(tr, e)
      /\ MaxLen \in Nat /\ x \in 0 .. e - 1
      /\ \A n \in 0 .. e - 1 : n \in Slots
  BY <1>3, <1>4, SizesAssumption DEF RowTree, Slots
<1>6. c \in Seq(Tokens) /\ Len(c) = tr[x].pos + 1 /\ tr[x].pos \in Nat
  BY <1>5, ContextIsText
<1>7. selection[b][x] = t /\ t \in Tokens
  BY <1>3, <1>4, <1>6 DEF Answered, TargetGivesTokens
<1> HIDE DEF x
<1>8. new = BatchAdd(Reordered(tr, tr[x].row), k, {Key(k - 1, t)})
  BY <1>4, <1>7 DEF Kept
<1>9. /\ k \in Nat /\ k = tr[x].pos + 1 /\ k >= len
      /\ RowTree(new, k + 1, k + 1)
      /\ \A n \in 0 .. k - 1 : new[n].tok = c[n + 1]
      /\ new[k].tok = t
      /\ \A n \in 0 .. len - 1 : new[n].tok = tr[n].tok
  <2>1. Cardinality(tr[x].row) \in Nat
    BY <1>5, PathInOrder
  <2>2. Cardinality(tr[x].row) < MaxLen
    BY <1>4, <1>5, <2>1
  <2> HIDE DEF new, c, t
  <2> QED
    <3> HIDE DEF tr, len, e, k
    <3>1. /\ k = Cardinality(tr[x].row) /\ RowTree(tr, len, e) /\ len > 0
          /\ x \in len - 1 .. e - 1 /\ t \in Tokens /\ Cardinality(tr[x].row) < MaxLen
      BY <1>3, <1>4, <1>7, <2>2 DEF k, tr, len, e
    <3>2. new = KeptTree(tr, x, t)
      BY <1>8 DEF k, KeptTree
    <3> QED
      BY <3>1, <3>2, KeptRowTree DEF c
<1>10. prefixLen'[b] = k + 1 /\ end'[b] = k + 1
  BY <1>1, <1>4
<1> HIDE DEF new, k, c, t
<1>11. TextOf(new, k + 1) = Append(c, t)
  <2>1. Len(c) = k
    BY <1>6, <1>9
  <2>2. Append(c, t) = [i \in 1 .. k + 1 |-> IF i <= k THEN c[i] ELSE t]
    <3> DEFINE f == [i \in 1 .. k + 1 |-> IF i <= k THEN c[i] ELSE t]
    <3>1. /\ Append(c, t) \in Seq(Tokens) /\ Len(Append(c, t)) = k + 1
          /\ \A i \in 1 .. k + 1 : Append(c, t)[i] = IF i <= k THEN c[i] ELSE t
      BY <1>6, <1>7, <1>9, <2>1
    <3>2. f \in Seq(Tokens) /\ Len(f) = k + 1 /\ \A i \in 1 .. k + 1 : f[i] = IF i <= k THEN c[i] ELSE t
      <4>1. \A i \in 1 .. k + 1 : (IF i <= k THEN c[i] ELSE t) \in Tokens
        BY <1>6, <1>7, <1>9, <2>1
      <4>2. k + 1 \in Nat
        BY <1>9
      <4> QED
        BY <4>1, <4>2
    <3> HIDE DEF f
    <3>3. Append(c, t) = f
      BY <3>1, <3>2, SeqEqual
    <3> QED
      BY <3>3 DEF f
  <2>3. ASSUME NEW i \in 1 .. k + 1
        PROVE  new[i - 1].tok = IF i <= k THEN c[i] ELSE t
    <3>1. CASE i <= k
      <4>1. i - 1 \in 0 .. k - 1 /\ (i - 1) + 1 = i
        BY <1>9, <3>1
      <4> QED
        BY <1>9, <3>1, <4>1
    <3>2. CASE ~(i <= k)
      <4>1. i - 1 = k
        BY <1>9, <3>2
      <4> QED
        BY <1>9, <3>2, <4>1
    <3> QED
      BY <3>1, <3>2
  <2> QED
    BY <2>2, <2>3 DEF TextOf
<1> DEFINE kv == GatherKV(targetKV[b], kept)
<1>12. /\ IsFiniteSet(kept) /\ kept \in SUBSET Int /\ Cardinality(kept) = k
       /\ \A n \in 0 .. k - 1 : Nth(kept, n) \in kept /\ Rank(kept, Nth(kept, n)) = n
       /\ \A j \in kept : tr[j].pos = Rank(kept, j)
       /\ \A j \in kept : j \in 0 .. e - 1 /\ j \in Slots
  <2>1. IsFiniteSet(kept) /\ kept \in SUBSET Int /\ \A j \in kept : tr[j].pos = Rank(kept, j)
    BY <1>4, <1>5, PathInOrder
  <2>2. Cardinality(kept) = k
    BY <1>4 DEF k
  <2>3. \A n \in 0 .. k - 1 : Nth(kept, n) \in kept /\ Rank(kept, Nth(kept, n)) = n
    BY <2>1, <2>2, NthIsMember
  <2>4. \A j \in kept : j \in 0 .. e - 1
    BY <1>4, <1>5 DEF IsTree
  <2> QED
    BY <1>5, <2>1, <2>2, <2>3, <2>4
<1>13. kv \in [Slots -> Seq(Tokens)]
  <2>1. \A n \in Slots : n < k => Nth(kept, n) \in Slots
    BY <1>9, <1>12 DEF Slots
  <2>2. NoKV \in Seq(Tokens)
    BY DEF NoKV
  <2> QED
    BY <1>3, <1>12, <2>1, <2>2 DEF GatherKV
<1>14. Cached(new, k + 1, kv)
  <2> SUFFICES ASSUME NEW n \in 0 .. (k + 1) - 2
               PROVE  kv[n] = Context(new, n)
    BY DEF Cached
  <2>1. n \in 0 .. k - 1 /\ n \in 0 .. (k + 1) - 1 /\ n \in Slots /\ n \in Nat /\ n + 1 <= k
    <3>1. /\ n \in 0 .. k - 1 /\ n \in 0 .. (k + 1) - 1 /\ n \in Nat /\ n + 1 <= k
      BY <1>9
    <3>2. k + 1 <= MaxLen
      BY <1>5, <1>9 DEF RowTree
    <3> QED
      BY <1>5, <1>9, <3>1, <3>2 DEF Slots
  <2> DEFINE j == Nth(kept, n)
  <2>2. j \in kept /\ tr[j].pos = n /\ j \in 0 .. e - 1
    BY <1>12, <2>1
  <2>3. kv[n] = targetKV[b][j]
    <3>1. n < Cardinality(kept)
      BY <1>9, <1>12, <2>1
    <3> QED
      BY <2>1, <3>1 DEF GatherKV
  <2> HIDE DEF j, kv
  <2>4. targetKV[b][j] = Context(tr, j)
    BY <1>3, <2>2 DEF Answered
  <2>5. Context(tr, j) = SubSeq(c, 1, n + 1)
    BY <1>4, <1>5, <2>2, ContextOfAncestor DEF c
  <2>6. SubSeq(c, 1, n + 1) = [i \in 1 .. n + 1 |-> c[i]]
    BY <2>1
  <2>7. Context(new, n) = [i \in 1 .. n + 1 |-> new[i - 1].tok]
    BY <1>9, <2>1, TextOfRowTree
  <2>8. ASSUME NEW i \in 1 .. n + 1
        PROVE  new[i - 1].tok = c[i]
    <3>1. i - 1 \in 0 .. k - 1 /\ (i - 1) + 1 = i
      BY <1>9, <2>1
    <3> QED
      BY <1>9, <3>1
  <2> QED
    BY <2>3, <2>4, <2>5, <2>6, <2>7, <2>8
<1>15. FreshTokens(b) \in Nat /\ (~Strays(b) => FreshTokens(b) = (k + 1) - len)
  <2>1. CASE Whole(b) # {}
    <3>1. FreshTokens(b) = tr[x].pos - (len - 1) + 1
      BY <1>4, <2>1 DEF FreshTokens
    <3> QED
      <4>1. /\ tr[x].pos \in Nat /\ len \in Nat /\ k = tr[x].pos + 1 /\ k >= len
        BY <1>5, <1>6, <1>9
      <4> DEFINE q == tr[x].pos
      <4> HIDE DEF q, len
      <4>2. q \in Nat /\ len \in Nat /\ k = q + 1 /\ k >= len /\ FreshTokens(b) = q - (len - 1) + 1
        BY <3>1, <4>1 DEF q, len
      <4>3. q - (len - 1) + 1 = (k + 1) - len /\ (k + 1) - len \in Nat
        BY <4>2
      <4> QED
        BY <4>2, <4>3
  <2>2. CASE Whole(b) = {}
    <3>1. FreshTokens(b) = 1
      BY <2>2 DEF FreshTokens
    <3>2. ~Strays(b) => tr[x].pos = len - 1
      <4> SUFFICES ASSUME ~Strays(b) PROVE tr[x].pos = len - 1
        OBVIOUS
      <4>1. x = len - 1 /\ x \in 0 .. len - 1
        BY <1>4, <1>5, <2>2
      <4> QED
        BY <1>3, <4>1, TextOfRowTree
    <3> QED
      BY <1>5, <1>6, <1>9, <3>1, <3>2
  <2> QED
    BY <2>1, <2>2
<1>16. k + 1 = tr[x].pos + 2 /\ k + 1 > len
  BY <1>5, <1>6, <1>9
<1> QED
  BY <1>1, <1>9, <1>10, <1>11, <1>13, <1>14, <1>15, <1>16 DEF x, c, t

\* The text of a row that does not stray stays greedy.
LEMMA KeptRowIsGreedy ==
  ASSUME Inv, TargetGivesTokens, Keep, NEW b \in Rows, ~Strays(b),
         NEW prompt, Len(prompt) \in Nat, GreedyAfter(prompt, TextOf(tree[b], prefixLen[b]))
  PROVE  GreedyAfter(prompt, TextOf(tree'[b], prefixLen'[b]))
<1> DEFINE tr  == tree[b]
           len == prefixLen[b]
           e   == end[b]
           x   == Exit(b)
           sel == selection[b]
<1>1. stage = "keep" /\ ~CannotKeep(b)
  BY DEF Keep
<1>2. RowTree(tr, len, e) /\ Answered(tr, len, e, targetKV[b], sel)
  BY <1>1 DEF Inv, TreesInv, CacheInv
<1>3. /\ len > 0 /\ x \in len - 1 .. e - 1
      /\ Whole(b) # {} => x \in Whole(b)
      /\ Whole(b) = {} /\ ~Strays(b) => x = len - 1
  BY <1>1, ExitFacts
<1>4. /\ len \in Nat /\ e \in Nat /\ IsTree(tr, e) /\ \A n \in 0 .. e - 1 : n \in Slots
  BY <1>2, SizesAssumption DEF RowTree, Slots
<1>5. TextOf(tree'[b], prefixLen'[b]) = Append(Context(tr, x), Target(Context(tr, x)))
  BY KeptRowFacts
<1> HIDE DEF x
<1>6. \A n \in len - 1 .. e - 1 : sel[n] = Target(Context(tr, n))
  <2> TAKE n \in len - 1 .. e - 1
  <2>1. n \in 0 .. e - 1
    BY <1>3, <1>4
  <2> QED
    BY <1>2, <1>4, <2>1 DEF Answered
<1>7. \A j \in tr[x].row : j >= len => tr[j].tok = sel[tr[j].par]
  <2> SUFFICES ASSUME NEW j \in tr[x].row, j >= len
               PROVE  tr[j].tok = sel[tr[j].par]
    OBVIOUS
  <2>1. CASE Whole(b) # {}
    <3>1. tr[x].row \subseteq (0 .. len - 1) \cup Chosen(b)
      BY <1>3, <2>1 DEF Whole
    <3>2. j \in Chosen(b)
      BY <1>4, <3>1
    <3> QED
      BY <3>2 DEF Chosen
  <2>2. CASE Whole(b) = {}
    <3>1. x = len - 1 /\ x \in 0 .. e - 1 /\ x < len
      BY <1>3, <1>4, <2>2
    <3>2. j \in 0 .. x
      BY <1>4, <3>1 DEF IsTree
    <3> QED
      BY <1>4, <3>1, <3>2
  <2> QED
    BY <2>1, <2>2
<1>8. GreedyAfter(prompt, Append(Context(tr, x), Target(Context(tr, x))))
  BY <1>2, <1>3, <1>6, <1>7, GreedyPath
<1> QED
  BY <1>5, <1>8

\* The rows that hold a request.
LEMMA HeldRequests ==
  ASSUME Inv, NEW b \in Rows, req[b] # 0
  PROVE  /\ req[b] \in Requests /\ req[b] \in 1 .. next - 1
         /\ Prompts[req[b]] \in Seq(Tokens) /\ initial[b] = Len(Prompts[req[b]])
         /\ initial[b] \in Nat /\ prefixLen[b] \in Nat /\ initial[b] <= prefixLen[b]
         /\ \A k \in 1 .. initial[b] : tree[b][k - 1].tok = Prompts[req[b]][k]
<1>1. TypeInv /\ Serves(tree[b], prefixLen[b], initial[b], req[b])
  BY DEF Inv, ServesInv
<1>2. next \in 1 .. count + 1 /\ count \in Nat /\ 1 .. count \subseteq Requests
  BY <1>1, ConstantFacts DEF TypeInv, count
<1>3. req[b] \in 0 .. next - 1
  BY <1>1 DEF TypeInv
<1>4. req[b] \in 1 .. count /\ req[b] \in 1 .. next - 1
  BY <1>2, <1>3
<1>5. Prompts[req[b]] \in Seq(Tokens)
  BY <1>2, <1>4, ConstantFacts
<1>6. prefixLen[b] \in Nat
  BY <1>1 DEF TypeInv
<1> QED
  BY <1>1, <1>2, <1>4, <1>5, <1>6 DEF Serves

\* The trace of a request that is finished: its prompt and its output are the
\* text of the row.
LEMMA RecordFacts ==
  ASSUME Inv, TargetGivesTokens, Keep, NEW b \in Rows, req[b] # 0
  PROVE  /\ Record(b) \in Traces /\ Record(b).req = req[b]
         /\ Record(b).strayed <=> b \in strayed'
         /\ Len(Record(b).output) = prefixLen'[b] - initial[b]
         /\ Prompts[req[b]] \o Record(b).output = TextOf(tree'[b], prefixLen'[b])
<1> DEFINE prompt == Prompts[req[b]]
           i      == initial[b]
           l      == prefixLen'[b]
           tr     == tree'[b]
           out    == [k \in 1 .. l - i |-> tr[i + k - 1].tok]
<1>1. /\ req[b] \in Requests /\ prompt \in Seq(Tokens) /\ i = Len(prompt) /\ i \in Nat
      /\ prefixLen[b] \in Nat /\ i <= prefixLen[b]
      /\ \A k \in 1 .. i : tree[b][k - 1].tok = prompt[k]
  BY HeldRequests
<1>2. /\ RowTree(tr, l, end'[b]) /\ l > prefixLen[b]
      /\ \A n \in 0 .. prefixLen[b] - 1 : tr[n].tok = tree[b][n].tok
  BY KeptRowFacts
<1> HIDE DEF tr, l, i, prompt
<1>3. l \in Nat /\ l <= MaxLen /\ MaxLen \in Nat /\ tr \in [Slots -> Nodes] /\ l - i \in Nat /\ i < l
  BY <1>1, <1>2, SizesAssumption DEF RowTree, IsTree
<1>4. \A k \in 1 .. l - i : tr[i + k - 1].tok \in Tokens
  <2> TAKE k \in 1 .. l - i
  <2>1. i + k - 1 \in Slots
    BY <1>1, <1>3 DEF Slots
  <2> QED
    BY <1>3, <2>1 DEF Nodes
<1>5. out \in Seq(Tokens) /\ Len(out) = l - i
  BY <1>3, <1>4
<1>6. Record(b) = [req |-> req[b], strayed |-> b \in strayed', output |-> out]
  BY DEF Record, l, i, tr
<1> HIDE DEF out
<1>7. /\ Record(b).req = req[b] /\ Record(b).output = out
      /\ Record(b).strayed <=> b \in strayed'
  <2>1. Record(b).req = req[b] /\ Record(b).output = out
    BY <1>6
  <2>2. Record(b).strayed <=> b \in strayed'
    <3>1. Record(b).strayed = (b \in strayed')
      BY <1>6
    <3> QED
      BY <3>1
  <2> QED
    BY <2>1, <2>2
<1>8. Record(b) \in Traces
  BY <1>1, <1>5, <1>6 DEF Traces
<1>9. prompt \o out = TextOf(tr, l)
  <2>1. Len(prompt) + Len(out) = l
    BY <1>1, <1>3, <1>5
  <2>2. prompt \o out = [k \in 1 .. l |-> IF k <= i THEN prompt[k] ELSE out[k - i]]
    <3> DEFINE f == [k \in 1 .. l |-> IF k <= i THEN prompt[k] ELSE out[k - i]]
    <3>1. /\ prompt \o out \in Seq(Tokens) /\ Len(prompt \o out) = l
          /\ \A k \in 1 .. l : (prompt \o out)[k] = IF k <= i THEN prompt[k] ELSE out[k - i]
      BY <1>1, <1>5, <2>1, ConcatProperties
    <3>2. f \in Seq(Tokens) /\ Len(f) = l
      <4>1. ASSUME NEW k \in 1 .. l
            PROVE  (IF k <= i THEN prompt[k] ELSE out[k - i]) \in Tokens
        <5>1. CASE k <= i
          <6>1. k \in 1 .. Len(prompt)
            BY <1>1, <5>1
          <6> QED
            BY <1>1, <5>1, <6>1
        <5>2. CASE ~(k <= i)
          <6>1. k - i \in 1 .. Len(out)
            BY <1>1, <1>3, <1>5, <5>2
          <6> QED
            BY <1>5, <5>2, <6>1
        <5> QED
          BY <5>1, <5>2
      <4> QED
        BY <1>3, <4>1
    <3>3. \A k \in 1 .. l : f[k] = IF k <= i THEN prompt[k] ELSE out[k - i]
      OBVIOUS
    <3> HIDE DEF f
    <3>5. \A k \in 1 .. Len(prompt \o out) : (prompt \o out)[k] = f[k]
      BY <3>1, <3>3
    <3>4. prompt \o out = f
      BY <3>1, <3>2, <3>5, SeqEqual
    <3> QED
      BY <3>4 DEF f
  <2>3. ASSUME NEW k \in 1 .. l
        PROVE  tr[k - 1].tok = IF k <= i THEN prompt[k] ELSE out[k - i]
    <3>1. CASE k <= i
      <4>1. k \in 1 .. i /\ k - 1 \in 0 .. prefixLen[b] - 1
        BY <1>1, <1>3, <3>1
      <4> QED
        BY <1>1, <1>2, <3>1, <4>1
    <3>2. CASE ~(k <= i)
      <4>1. k - i \in 1 .. l - i /\ i + (k - i) - 1 = k - 1
        BY <1>1, <1>3, <3>2
      <4> QED
        BY <3>2, <4>1 DEF out
    <3> QED
      BY <3>1, <3>2
  <2> QED
    BY <2>2, <2>3 DEF TextOf
<1> QED
  BY <1>5, <1>7, <1>8, <1>9 DEF tr, l, i, prompt

\* The rows whose requests an iteration finishes, and their traces.
Recycled == {b \in Rows : Finished(b)}

LEMMA TracedFacts ==
  ASSUME Inv, TargetGivesTokens, Keep
  PROVE  LET n == Len(traced)
             m == Cardinality(Recycled)
         IN  /\ n \in Nat /\ m \in Nat
             /\ traced' \in Seq(Traces) /\ Len(traced') = n + m
             /\ \A i \in 1 .. n : traced'[i] = traced[i]
             /\ \A i \in n + 1 .. n + m :
                  \E b \in Recycled : traced'[i] = Record(b) /\ b = Nth(Recycled, i - (n + 1))
             /\ \A b \in Recycled : \E i \in n + 1 .. n + m : traced'[i] = Record(b)
<1> DEFINE n   == Len(traced)
           m   == Cardinality(Recycled)
           new == [i \in 1 .. m |-> Record(Nth(Recycled, i - 1))]
<1>1. traced' = traced \o new
  BY DEF Keep, Recycled
<1>2. traced \in Seq(Traces) /\ n \in Nat
  BY DEF Inv, TypeInv
<1>3. /\ IsFiniteSet(Recycled) /\ Recycled \in SUBSET Int /\ m \in Nat
      /\ \A b \in Recycled : b \in Rows /\ req[b] # 0
  <2>1. Recycled \in SUBSET Rows /\ \A b \in Recycled : req[b] # 0
    BY DEF Recycled, Finished
  <2>2. IsFiniteSet(Rows) /\ Rows \in SUBSET Nat
    BY ConstantFacts
  <2>3. IsFiniteSet(Recycled)
    BY <2>1, <2>2, FS_Subset
  <2> QED
    BY <2>1, <2>2, <2>3, FS_CardinalityType
<1>4. \A i \in 1 .. m : Nth(Recycled, i - 1) \in Recycled
  <2> TAKE i \in 1 .. m
  <2>1. i - 1 \in 0 .. Cardinality(Recycled) - 1
    BY <1>3
  <2> QED
    BY <1>3, <2>1, NthIsMember
<1>5. \A b \in Recycled : Record(b) \in Traces
  <2> TAKE b \in Recycled
  <2> QED
    BY <1>3, RecordFacts
<1>6. new \in Seq(Traces) /\ Len(new) = m
  <2>1. \A i \in 1 .. m : Record(Nth(Recycled, i - 1)) \in Traces
    BY <1>4, <1>5
  <2> QED
    BY <1>3, <2>1
<1>7. /\ traced' \in Seq(Traces) /\ Len(traced') = n + m
      /\ \A i \in 1 .. n : traced'[i] = traced[i]
      /\ \A i \in n + 1 .. n + m : traced'[i] = new[i - n]
  BY <1>1, <1>2, <1>3, <1>6
<1>8. ASSUME NEW i \in n + 1 .. n + m
      PROVE  \E b \in Recycled : traced'[i] = Record(b) /\ b = Nth(Recycled, i - (n + 1))
  <2>1. i - n \in 1 .. m /\ (i - n) - 1 = i - (n + 1)
    BY <1>2, <1>3
  <2>2. traced'[i] = Record(Nth(Recycled, (i - n) - 1))
    BY <1>7, <2>1
  <2> QED
    BY <1>4, <2>1, <2>2
<1>9. ASSUME NEW b \in Recycled
      PROVE  \E i \in n + 1 .. n + m : traced'[i] = Record(b)
  <2> DEFINE r == Rank(Recycled, b)
  <2>1. r \in 0 .. m - 1 /\ Nth(Recycled, r) = b
    BY <1>3, NthOfRank
  <2> HIDE DEF r
  <2>2. /\ n + 1 + r \in n + 1 .. n + m /\ (n + 1 + r) - n = r + 1 /\ r + 1 \in 1 .. m
        /\ (r + 1) - 1 = r
    BY <1>2, <1>3, <2>1
  <2>3. traced'[n + 1 + r] = new[r + 1]
    BY <1>7, <2>2
  <2> QED
    BY <2>1, <2>2, <2>3
<1> QED
  BY <1>2, <1>3, <1>7, <1>8, <1>9

\* The trace and the rows share out the requests anew: those of the recycled
\* rows change over.
Served    == {traced[i].req : i \in DOMAIN traced}
Finishing == {req[b] : b \in Recycled}

LEMMA KeepKeepsRequests ==
  ASSUME Inv, TargetGivesTokens, Keep
  PROVE  /\ EachRequestOnce'
         /\ Finishing \subseteq Live /\ Live' = Live \ Finishing
         /\ Served' = Served \cup Finishing
<1> DEFINE n == Len(traced)
           m == Cardinality(Recycled)
           T == {traced[i].req : i \in DOMAIN traced}
           F == {req[b] : b \in Recycled}
<1>1. /\ n \in Nat /\ m \in Nat /\ Len(traced') = n + m
      /\ \A i \in 1 .. n : traced'[i] = traced[i]
      /\ \A i \in n + 1 .. n + m :
           \E b \in Recycled : traced'[i] = Record(b) /\ b = Nth(Recycled, i - (n + 1))
      /\ \A b \in Recycled : \E i \in n + 1 .. n + m : traced'[i] = Record(b)
  BY TracedFacts
<1>2. DOMAIN traced = 1 .. n /\ DOMAIN traced' = 1 .. n + m
  <2>1. traced \in Seq(Traces) /\ traced' \in Seq(Traces)
    BY TracedFacts DEF Inv, TypeInv
  <2> QED
    BY <1>1, <2>1
<1>3. /\ \A b, c \in Rows : req[b] = req[c] /\ req[b] # 0 => b = c
      /\ \A i, j \in DOMAIN traced : traced[i].req = traced[j].req => i = j
      /\ Live \cap T = {} /\ Live \cup T = 1 .. next - 1
  BY DEF Inv, EachRequestOnce
<1>4. /\ IsFiniteSet(Recycled) /\ Recycled \in SUBSET Int
      /\ \A b \in Recycled : b \in Rows /\ req[b] # 0 /\ Record(b).req = req[b]
  <2>1. Recycled \in SUBSET Rows /\ \A b \in Recycled : req[b] # 0
    BY DEF Recycled, Finished
  <2>2. IsFiniteSet(Rows) /\ Rows \in SUBSET Nat
    BY ConstantFacts
  <2>3. IsFiniteSet(Recycled)
    BY <2>1, <2>2, FS_Subset
  <2>4. \A b \in Recycled : Record(b).req = req[b]
    BY DEF Record
  <2> QED
    BY <2>1, <2>2, <2>3, <2>4
<1>5. req' = [b \in Rows |-> IF b \in Recycled THEN 0 ELSE req[b]] /\ next' = next
  BY DEF Keep, Removed, Recycled
<1>6. F \subseteq Live
  BY <1>4 DEF Live
<1>7. Live' = Live \ F
  <2>1. Live' = {req'[b] : b \in Rows} \ {0}
    BY DEF Live
  <2>2. ASSUME NEW r \in Live'
        PROVE  r \in Live \ F
    <3>1. PICK b \in Rows : r = req'[b] /\ r # 0
      BY <2>1
    <3>2. b \notin Recycled /\ r = req[b]
      BY <1>5, <3>1
    <3>3. r \in Live
      BY <3>1, <3>2 DEF Live
    <3>4. r \notin F
      BY <1>3, <1>4, <3>1, <3>2
    <3> QED
      BY <3>3, <3>4
  <2>3. ASSUME NEW r \in Live \ F
        PROVE  r \in Live'
    <3>1. PICK b \in Rows : r = req[b] /\ r # 0
      BY DEF Live
    <3>2. b \notin Recycled
      BY <3>1
    <3>3. req'[b] = r
      BY <1>5, <3>1, <3>2
    <3> QED
      BY <2>1, <3>1, <3>3
  <2> QED
    BY <2>2, <2>3
<1>8. \A i \in n + 1 .. n + m :
        \E b \in Recycled : traced'[i].req = req[b] /\ b = Nth(Recycled, i - (n + 1))
  BY <1>1, <1>4
<1>9. {traced'[i].req : i \in DOMAIN traced'} = T \cup F
  <2> DEFINE U == {traced'[i].req : i \in DOMAIN traced'}
  <2>1. ASSUME NEW r \in U
        PROVE  r \in T \cup F
    <3>1. PICK i \in 1 .. n + m : r = traced'[i].req
      BY <1>2
    <3>2. CASE i \in 1 .. n
      BY <1>1, <1>2, <3>1, <3>2
    <3>3. CASE i \notin 1 .. n
      <4>1. i \in n + 1 .. n + m
        BY <1>1, <3>3
      <4> QED
        BY <1>8, <3>1, <4>1
    <3> QED
      BY <3>2, <3>3
  <2>2. ASSUME NEW r \in T
        PROVE  r \in U
    <3>1. PICK i \in 1 .. n : r = traced[i].req
      BY <1>2
    <3>2. i \in 1 .. n + m /\ traced'[i] = traced[i]
      BY <1>1
    <3> QED
      BY <1>2, <3>1, <3>2
  <2>3. ASSUME NEW r \in F
        PROVE  r \in U
    <3>1. PICK b \in Recycled : r = req[b]
      OBVIOUS
    <3>2. PICK i \in n + 1 .. n + m : traced'[i] = Record(b)
      BY <1>1
    <3>3. i \in 1 .. n + m
      BY <1>1
    <3> QED
      BY <1>2, <1>4, <3>1, <3>2, <3>3
  <2> HIDE DEF U, T, F
  <2> QED
    BY <2>1, <2>2, <2>3 DEF U
<1>10. ASSUME NEW i \in DOMAIN traced', NEW j \in DOMAIN traced',
              traced'[i].req = traced'[j].req
       PROVE  i = j
  <2>1. i \in 1 .. n + m /\ j \in 1 .. n + m
    BY <1>2
  <2>2. CASE i \in 1 .. n /\ j \in 1 .. n
    BY <1>1, <1>2, <1>3, <1>10, <2>2
  <2>3. ASSUME NEW a \in 1 .. n, NEW d \in n + 1 .. n + m
        PROVE  traced'[a].req # traced'[d].req
    <3>1. traced'[a].req \in T
      BY <1>1, <1>2
    <3>2. traced'[d].req \in F
      BY <1>8
    <3> QED
      BY <1>3, <1>6, <3>1, <3>2
  <2>4. CASE i \in n + 1 .. n + m /\ j \in n + 1 .. n + m
    <3>1. PICK b \in Recycled : traced'[i].req = req[b] /\ b = Nth(Recycled, i - (n + 1))
      BY <1>8, <2>4
    <3>2. PICK c \in Recycled : traced'[j].req = req[c] /\ c = Nth(Recycled, j - (n + 1))
      BY <1>8, <2>4
    <3>3. b = c
      BY <1>3, <1>4, <1>10, <3>1, <3>2
    <3>4. i - (n + 1) \in 0 .. m - 1 /\ j - (n + 1) \in 0 .. m - 1
      <4>1. n \in Nat /\ m \in Nat
        BY <1>1
      <4> HIDE DEF n, m
      <4> QED
        BY <2>4, <4>1
    <3>5. Rank(Recycled, b) = i - (n + 1) /\ Rank(Recycled, c) = j - (n + 1)
      BY <1>4, <3>1, <3>2, <3>4, NthIsMember
    <3> QED
      BY <1>1, <2>1, <3>3, <3>5
  <2>5. \A a \in 1 .. n + m : a \in 1 .. n \/ a \in n + 1 .. n + m
    BY <1>1
  <2> QED
    BY <1>10, <2>1, <2>2, <2>3, <2>4, <2>5
<1>11. \A b, c \in Rows : req'[b] = req'[c] /\ req'[b] # 0 => b = c
  BY <1>3, <1>5
<1>12. /\ Live' \cap (T \cup F) = {} /\ Live' \cup T \cup F = 1 .. next' - 1
  BY <1>3, <1>5, <1>6, <1>7
<1> HIDE DEF T, F
<1> QED
  <2>1. EachRequestOnce'
    BY <1>9, <1>10, <1>11, <1>12 DEF EachRequestOnce
  <2>2. Served' = Served \cup Finishing
    <3>1. Served' = {traced'[i].req : i \in DOMAIN traced'}
      BY DEF Served
    <3>2. Served = T /\ Finishing = F
      BY DEF Served, Finishing, T, F
    <3> QED
      BY <1>9, <3>1, <3>2
  <2> QED
    BY <1>6, <1>7, <2>1, <2>2 DEF F, Finishing

\* The result log of an iteration.
LEMMA LoggedFacts ==
  ASSUME Inv, TargetGivesTokens, Keep
  PROVE  /\ logged' \in [Requests -> Nat]
         /\ \A r \in Requests \ Live : logged'[r] = logged[r]
         /\ \A b \in Rows : req[b] # 0 => logged'[req[b]] = logged[req[b]] + FreshTokens(b)
<1>1. logged' = [r \in Requests |->
                   IF \E b \in Rows : req[b] = r
                   THEN logged[r] + FreshTokens(CHOOSE b \in Rows : req[b] = r) ELSE logged[r]]
  BY DEF Keep, Logged
<1>2. logged \in [Requests -> Nat] /\ \A r \in Requests : r # 0
  <2>1. \A r \in Requests : r \in Nat /\ r >= 1
    BY ConstantFacts
  <2> QED
    BY <2>1 DEF Inv, TypeInv
<1>3. \A b \in Rows : FreshTokens(b) \in Nat
  BY KeptRowFacts
<1>4. ASSUME NEW b \in Rows, req[b] # 0
      PROVE  req[b] \in Requests /\ logged'[req[b]] = logged[req[b]] + FreshTokens(b)
  <2>1. req[b] \in Requests
    BY <1>4, HeldRequests
  <2>2. \A c \in Rows : req[c] = req[b] => c = b
    BY <1>4 DEF Inv, EachRequestOnce
  <2>3. (CHOOSE c \in Rows : req[c] = req[b]) = b
    BY <2>2
  <2> QED
    BY <1>1, <2>1, <2>3
<1>5. \A r \in Requests \ Live : logged'[r] = logged[r]
  BY <1>1, <1>2 DEF Live
<1>6. \A r \in Requests : logged'[r] \in Nat
  <2> TAKE r \in Requests
  <2>1. CASE r \in Live
    <3>1. PICK b \in Rows : r = req[b] /\ req[b] # 0
      BY <2>1 DEF Live
    <3>2. logged'[r] = logged[r] + FreshTokens(b)
      BY <1>4, <3>1
    <3> QED
      BY <1>2, <1>3, <3>2
  <2>2. CASE r \notin Live
    BY <1>2, <1>5, <2>2
  <2> QED
    BY <2>1, <2>2
<1>7. logged' = [r \in Requests |-> logged'[r]]
  BY <1>1
<1> QED
  BY <1>4, <1>5, <1>6, <1>7

\* The accepted paths are kept, and what is finished leaves.
LEMMA KeepKeepsInv ==
  ASSUME Inv, TargetGivesTokens, Keep
  PROVE  Inv'
<1>1. /\ stage = "keep" /\ stage' = "admit" /\ prefills' = {} /\ selection' = NoSelection
      /\ cfg' = cfg /\ next' = next /\ round' = round /\ row' = row
      /\ strayed' = strayed \cup {b \in Rows : Strays(b)}
      /\ req' = [b \in Rows |-> IF b \in Recycled THEN 0 ELSE req[b]]
      /\ initial' = [b \in Rows |-> IF b \in Recycled THEN 0 ELSE initial[b]]
      /\ end' = prefixLen'
  BY DEF Keep, Removed, Recycled
<1>2. TypeInv /\ EachRequestOnce /\ TreesInv /\ ServesInv /\ CacheInv /\ ReportsInv
  BY DEF Inv
<1>3. \A b \in Rows : RowTree(tree'[b], prefixLen'[b], end'[b])
  BY KeptRowFacts
<1>4. \A b \in Rows :
        /\ prefixLen'[b] > prefixLen[b]
        /\ \A n \in 0 .. prefixLen[b] - 1 : tree'[b][n].tok = tree[b][n].tok
  BY KeptRowFacts
<1>5. \A b \in Rows :
        /\ targetKV'[b] \in [Slots -> Seq(Tokens)]
        /\ Cached(tree'[b], prefixLen'[b], targetKV'[b])
  BY KeptRowFacts
<1>6. \A b \in Rows : ~Strays(b) => FreshTokens(b) = prefixLen'[b] - prefixLen[b]
  BY KeptRowFacts
<1>7. \A b \in Rows : prefixLen[b] \in Nat /\ prefixLen'[b] \in Nat /\ initial[b] \in Nat
  BY <1>2, <1>3, SizesAssumption DEF RowTree, TypeInv
<1>8. TypeInv'
  <2>1. count' = count
    BY <1>1 DEF count
  <2>2. req' \in [Rows -> 0 .. next' - 1]
    <3>1. 0 \in 0 .. next' - 1
      BY <1>1, <1>2 DEF TypeInv
    <3> QED
      BY <1>1, <1>2, <3>1 DEF TypeInv
  <2>3. initial' \in [Rows -> Nat]
    BY <1>1, <1>7
  <2>4. strayed' \subseteq Rows /\ prefills' \subseteq Rows
    BY <1>1, <1>2 DEF TypeInv
  <2>5. tree' \in [Rows -> [Slots -> Nodes]]
    <3>1. tree' = [b \in Rows |-> tree'[b]]
      BY DEF Keep
    <3>2. \A b \in Rows : tree'[b] \in [Slots -> Nodes]
      BY <1>3 DEF RowTree, IsTree
    <3> QED
      BY <3>1, <3>2
  <2>6. prefixLen' \in [Rows -> 0 .. MaxLen] /\ end' \in [Rows -> 0 .. MaxLen]
    <3>1. prefixLen' = [b \in Rows |-> prefixLen'[b]]
      BY DEF Keep
    <3>2. \A b \in Rows : prefixLen'[b] \in 0 .. MaxLen
      BY <1>3 DEF RowTree
    <3>3. prefixLen' \in [Rows -> 0 .. MaxLen]
      BY <3>1, <3>2
    <3> QED
      BY <1>1, <3>3
  <2>7. targetKV' \in [Rows -> [Slots -> Seq(Tokens)]]
    <3>1. targetKV' = [b \in Rows |-> targetKV'[b]]
      BY DEF Keep
    <3> QED
      BY <1>5, <3>1
  <2>8. logged' \in [Requests -> Nat] /\ traced' \in Seq(Traces)
    BY LoggedFacts, TracedFacts
  <2> QED
    BY <1>1, <1>2, <2>1, <2>2, <2>3, <2>4, <2>5, <2>6, <2>7, <2>8 DEF TypeInv
<1>9. EachRequestOnce'
  BY KeepKeepsRequests
<1>10. TreesInv'
  BY <1>3 DEF TreesInv
<1>11. ServesInv'
  <2>1. ASSUME NEW b \in Rows, req'[b] # 0
        PROVE  Serves(tree'[b], prefixLen'[b], initial'[b], req'[b])
    <3>1. req'[b] = req[b] /\ initial'[b] = initial[b] /\ req[b] # 0
      BY <1>1, <2>1
    <3>2. /\ initial[b] = Len(Prompts[req[b]]) /\ initial[b] <= prefixLen[b]
          /\ \A k \in 1 .. initial[b] : tree[b][k - 1].tok = Prompts[req[b]][k]
      BY <3>1, HeldRequests
    <3>3. \A k \in 1 .. initial[b] : k - 1 \in 0 .. prefixLen[b] - 1
      BY <1>7, <3>2
    <3>4. initial[b] <= prefixLen'[b]
      BY <1>4, <1>7, <3>2
    <3> QED
      BY <1>4, <3>1, <3>2, <3>3, <3>4 DEF Serves
  <2> QED
    BY <1>1, <2>1 DEF ServesInv
<1>12. CacheInv'
  BY <1>1, <1>5 DEF CacheInv
<1>13. ASSUME NEW b \in Rows, req[b] # 0, b \notin strayed'
       PROVE  /\ GreedyAfter(Prompts[req[b]], TextOf(tree'[b], prefixLen'[b]))
              /\ logged'[req[b]] = prefixLen'[b] - initial[b]
  <2>1. b \notin strayed /\ ~Strays(b)
    BY <1>1, <1>13
  <2>2. /\ GreedyAfter(Prompts[req[b]], TextOf(tree[b], prefixLen[b]))
        /\ logged[req[b]] = prefixLen[b] - initial[b]
    BY <1>2, <1>13, <2>1 DEF ReportsInv
  <2>3. Len(Prompts[req[b]]) \in Nat
    BY <1>13, HeldRequests
  <2>4. GreedyAfter(Prompts[req[b]], TextOf(tree'[b], prefixLen'[b]))
    BY <2>1, <2>2, <2>3, KeptRowIsGreedy
  <2>5. logged'[req[b]] = logged[req[b]] + FreshTokens(b)
    BY <1>13, LoggedFacts
  <2> QED
    BY <1>6, <1>7, <2>1, <2>2, <2>4, <2>5
<1>14. ReportsInv'
  <2>1. ASSUME NEW b \in Rows, req'[b] # 0, b \notin strayed'
        PROVE  /\ GreedyAfter(Prompts[req'[b]], TextOf(tree'[b], prefixLen'[b]))
               /\ logged'[req'[b]] = prefixLen'[b] - initial'[b]
    <3>1. req'[b] = req[b] /\ initial'[b] = initial[b] /\ req[b] # 0
      BY <1>1, <2>1
    <3> QED
      BY <1>13, <2>1, <3>1
  <2>2. \A r \in Requests : r >= next' => logged'[r] = 0
    <3> SUFFICES ASSUME NEW r \in Requests, r >= next
                 PROVE  logged'[r] = 0
      BY <1>1
    <3>1. r \in Nat /\ next \in Nat
      BY <1>2, ConstantFacts DEF TypeInv
    <3>2. r \notin Live
      BY <1>2, <3>1 DEF TypeInv, Live
    <3>3. logged'[r] = logged[r]
      BY <3>2, LoggedFacts
    <3> QED
      BY <1>2, <3>3 DEF ReportsInv
  <2>3. ASSUME NEW i \in DOMAIN traced', ~traced'[i].strayed
        PROVE  GreedyTrace(traced'[i]) /\ logged'[traced'[i].req] = Len(traced'[i].output)
    <3> DEFINE n == Len(traced)
               m == Cardinality(Recycled)
    <3>1. /\ n \in Nat /\ m \in Nat
          /\ traced' \in Seq(Traces) /\ Len(traced') = n + m
          /\ \A a \in 1 .. n : traced'[a] = traced[a]
          /\ \A a \in n + 1 .. n + m : \E b \in Recycled : traced'[a] = Record(b)
      BY TracedFacts
    <3> HIDE DEF m
    <3>2. i \in 1 .. n \/ i \in n + 1 .. n + m
      BY <3>1
    <3>3. CASE i \in 1 .. n
      <4>1. i \in DOMAIN traced /\ traced'[i] = traced[i] /\ traced[i] \in Traces
        BY <1>2, <3>1, <3>3 DEF TypeInv
      <4>2. GreedyTrace(traced[i]) /\ logged[traced[i].req] = Len(traced[i].output)
        BY <1>2, <2>3, <4>1 DEF ReportsInv
      <4>3. traced[i].req \in Requests \ Live
        BY <1>2, <4>1 DEF EachRequestOnce, Traces
      <4>4. logged'[traced[i].req] = logged[traced[i].req]
        BY <4>3, LoggedFacts
      <4> QED
        BY <4>1, <4>2, <4>4
    <3>4. CASE i \in n + 1 .. n + m
      <4>1. PICK b \in Recycled : traced'[i] = Record(b)
        BY <3>1, <3>4
      <4>2. b \in Rows /\ req[b] # 0
        BY DEF Recycled, Finished
      <4>3. /\ Record(b).req = req[b]
            /\ Record(b).strayed <=> b \in strayed'
            /\ Len(Record(b).output) = prefixLen'[b] - initial[b]
            /\ Prompts[req[b]] \o Record(b).output = TextOf(tree'[b], prefixLen'[b])
        BY <4>2, RecordFacts
      <4>4. b \notin strayed'
        BY <2>3, <4>1, <4>3
      <4>5. /\ GreedyAfter(Prompts[req[b]], TextOf(tree'[b], prefixLen'[b]))
            /\ logged'[req[b]] = prefixLen'[b] - initial[b]
        BY <1>13, <4>2, <4>4
      <4> QED
        BY <4>1, <4>3, <4>5 DEF GreedyTrace
    <3> QED
      BY <3>2, <3>3, <3>4
  <2> QED
    BY <2>1, <2>2, <2>3 DEF ReportsInv, GreedyTrace
<1> QED
  BY <1>8, <1>9, <1>10, <1>11, <1>12, <1>14 DEF Inv

LEMMA NextKeepsInv ==
  ASSUME Inv, TargetGivesTokens, [Next]_vars
  PROVE  Inv'
<1> USE DEF Next, Step
<1>0. TypeInv
  BY DEF Inv
<1>1. CASE AdmitRow
  BY <1>1, AdmitRowKeepsInv
<1>2. CASE StartDrafting
  <2>1. stage' = "grow" /\ stage = "admit" /\ round' = round /\ row' = row
    BY <1>2 DEF StartDrafting
  <2> QED
    BY <1>0, <1>2, <2>1, StageKeepsInv DEF StartDrafting, TypeInv
<1>3. CASE Exhausted
  <2>1. stage' = "over" /\ round' = round /\ row' = row
    BY <1>3 DEF Exhausted
  <2> QED
    BY <1>0, <1>3, <2>1, StageKeepsInv DEF Exhausted, TypeInv
<1>4. CASE GrowRow
  BY <1>4, GrowRowKeepsInv
<1>5. CASE TrimRow
  BY <1>5, TrimRowKeepsInv
<1>6. CASE Verify
  BY <1>6, VerifyKeepsInv
<1>7. CASE Keep
  BY <1>7, KeepKeepsInv
<1>8. CASE KeepFails
  <2>1. stage' = "failed" /\ round' = round /\ row' = row
    BY <1>8 DEF KeepFails
  <2> QED
    BY <1>0, <1>8, <2>1, StageKeepsInv DEF KeepFails, TypeInv
<1>9. CASE UNCHANGED vars
  <2>1. /\ UNCHANGED <<cfg, requestVars, treeVars, targetKV, selection, reportVars>>
        /\ stage' = stage /\ round' = round /\ row' = row
    BY <1>9 DEF vars, requestVars, treeVars, reportVars
  <2> QED
    BY <1>0, <2>1, StageKeepsInv DEF TypeInv
<1> QED
  BY <1>1, <1>2, <1>3, <1>4, <1>5, <1>6, <1>7, <1>8, <1>9 DEF Terminated

\* All of the parts hold throughout, for any target whose choices are tokens.
THEOREM InvHolds ==
  ASSUME TargetGivesTokens
  PROVE  Spec => []Inv
<1>1. Init => Inv
  BY InitInv
<1>2. Inv /\ [Next]_vars => Inv'
  BY NextKeepsInv
<1> QED
  BY <1>1, <1>2, PTL DEF Spec

LEMMA InvImpliesProperties ==
  ASSUME Inv
  PROVE  /\ TypeOK /\ EachRequestOnce /\ AcceptedTextIsGreedy /\ TargetCacheFollowsRow
         /\ LogAccountsForTrace
<1>1. TypeInv /\ EachRequestOnce /\ TreesInv /\ ServesInv /\ CacheInv /\ ReportsInv
  BY DEF Inv
<1>2. TypeOK
  <2>1. req \in [Rows -> Requests \cup {0}]
    <3>1. next \in 1 .. count + 1 /\ count \in Nat /\ 1 .. count \subseteq Requests
      BY <1>1, ConstantFacts DEF TypeInv, count
    <3>2. \A r \in 0 .. next - 1 : r \in Requests \cup {0}
      BY <3>1
    <3> QED
      BY <1>1, <3>2 DEF TypeInv
  <2>2. \A b \in Rows : \A n \in Slots :
          /\ tree[b][n].tok \in Tokens /\ tree[b][n].pos \in Nat
          /\ tree[b][n].row \subseteq Slots
    BY <1>1 DEF TypeInv, Nodes
  <2>3. round \in 0 .. cfg.beamLen
    BY <1>1, ConstantFacts DEF TypeInv
  <2>4. traced \in Seq([req : Requests, output : Seq(Tokens), strayed : BOOLEAN])
    BY <1>1 DEF TypeInv, Traces
  <2> QED
    BY <1>1, <2>1, <2>2, <2>3, <2>4 DEF TypeInv, TypeOK
<1>3. \A b \in Rows : Text(b) = TextOf(tree[b], prefixLen[b])
  BY DEF Text, TextOf
<1>4. AcceptedTextIsGreedy
  BY <1>1, <1>3 DEF ReportsInv, AcceptedTextIsGreedy, GreedyRow
<1>5. TargetCacheFollowsRow
  <2> SUFFICES ASSUME stage = "admit", NEW b \in Rows \ prefills, NEW n \in Slots,
                      n < prefixLen[b] - 1
               PROVE  targetKV[b][n] = SubSeq(Text(b), 1, n + 1)
    BY DEF TargetCacheFollowsRow
  <2>1. prefixLen[b] \in Nat /\ n \in Nat
    BY <1>1 DEF TypeInv, Slots
  <2>2. n \in 0 .. prefixLen[b] - 2 /\ n \in 0 .. prefixLen[b] - 1
    BY <2>1
  <2>3. targetKV[b][n] = Context(tree[b], n)
    BY <1>1, <2>2 DEF CacheInv, Cached
  <2>4. Context(tree[b], n) = [k \in 1 .. n + 1 |-> tree[b][k - 1].tok]
    <3> DEFINE tr == tree[b]
    <3>1. RowTree(tr, prefixLen[b], end[b])
      BY <1>1 DEF TreesInv
    <3> HIDE DEF tr
    <3>2. Context(tr, n) = [k \in 1 .. n + 1 |-> tr[k - 1].tok]
      BY <2>2, <3>1, TextOfRowTree
    <3> QED
      BY <3>2 DEF tr
  <2>5. SubSeq(Text(b), 1, n + 1) = [k \in 1 .. n + 1 |-> Text(b)[k]]
    BY <2>1
  <2>6. \A k \in 1 .. n + 1 : Text(b)[k] = tree[b][k - 1].tok
    BY <2>1 DEF Text
  <2> QED
    BY <2>3, <2>4, <2>5, <2>6
<1>6. LogAccountsForTrace
  BY <1>1 DEF ReportsInv, LogAccountsForTrace
<1> QED
  BY <1>1, <1>2, <1>4, <1>5, <1>6

\* What the pipeline stores keeps its form: every row holds a tree of tokens
\* within max_len, every request is one of the dataset.
THEOREM ServerOnlyTypeCorrect ==
  ASSUME TargetGivesTokens
  PROVE  Spec => []TypeOK
BY InvHolds, InvImpliesProperties, PTL

\* RequestManager hands every request to one row only, and traces it once:
\* what has been taken from the dataset is in a row or in the trace, never in
\* both and never lost.
THEOREM EveryRequestOnce ==
  ASSUME TargetGivesTokens
  PROVE  Spec => []EachRequestOnce
BY InvHolds, InvImpliesProperties, PTL

\* Speculative decoding is lossless: whatever the draft model proposes, and
\* however the rows of the batch grow and are trimmed beside each other, the
\* text of a request is the target's own greedy text, unless its row once kept
\* a path only because other rows accepted one (edge_post_verify).
THEOREM TextIsGreedy ==
  ASSUME TargetGivesTokens
  PROVE  Spec => []AcceptedTextIsGreedy
BY InvHolds, InvImpliesProperties, PTL

\* The target's cache stays in step with each row, slot by slot, also when a
\* row changes its request or strays: gather compacts the cache as reorder
\* compacts the tree.
THEOREM CacheFollowsRow ==
  ASSUME TargetGivesTokens
  PROVE  Spec => []TargetCacheFollowsRow
BY InvHolds, InvImpliesProperties, PTL

\* The result log counts each token of a traced request once, those of the
\* iteration it finished in included.
THEOREM LogAccounts ==
  ASSUME TargetGivesTokens
  PROVE  Spec => []LogAccountsForTrace
BY InvHolds, InvImpliesProperties, PTL

-----------------------------------------------------------------------------
(* The pipeline works through its dataset as a RequestPool does.           *)

\* At most as many requests run as there are rows.
LEMMA RoomForARequest ==
  ASSUME Inv, EmptyRows # {}
  PROVE  Cardinality(Live) < Batch
<1> DEFINE busy == Rows \ EmptyRows
           f    == [b \in busy |-> req[b]]
<1>1. IsFiniteSet(Rows) /\ Cardinality(Rows) = Batch /\ Batch \in Nat
  BY ConstantFacts
<1>2. busy \in SUBSET Rows /\ busy # Rows
  BY DEF EmptyRows
<1>3. IsFiniteSet(busy) /\ Cardinality(busy) <= Batch /\ Cardinality(busy) # Batch
  BY <1>1, <1>2, FS_Subset
<1>4. f \in Surjection(busy, Live)
  <2>1. \A b \in busy : req[b] \in Live
    BY DEF EmptyRows, Live
  <2>2. \A r \in Live : \E b \in busy : r = req[b]
    BY DEF EmptyRows, Live
  <2> QED
    BY <2>1, <2>2 DEF Surjection
<1>5. IsFiniteSet(Live) /\ Cardinality(Live) <= Cardinality(busy)
  BY <1>3, <1>4, FS_Surjection
<1>6. Cardinality(Live) \in Nat /\ Cardinality(busy) \in Nat
  BY <1>3, <1>5, FS_CardinalityType
<1> QED
  BY <1>1, <1>3, <1>5, <1>6

LEMMA PoolStep ==
  ASSUME Inv, TargetGivesTokens, [Next]_vars
  PROVE  [Pool!Next]_(Pool!vars)
<1> SUFFICES Pool!Next \/ UNCHANGED Pool!vars
  OBVIOUS
<1>1. CASE AdmitRow
  <2> DEFINE b == Min(EmptyRows)
  <2>1. /\ stage = "admit" /\ stage' = "admit" /\ EmptyRows # {} /\ next <= count
        /\ req' = [req EXCEPT ![b] = next] /\ next' = next + 1
        /\ cfg' = cfg /\ traced' = traced
    BY <1>1 DEF AdmitRow
  <2>2. b \in Rows /\ req[b] = 0
    <3>1. EmptyRows \in SUBSET Rows /\ Rows \in SUBSET Nat /\ IsFiniteSet(Rows)
      BY ConstantFacts DEF EmptyRows
    <3>2. IsFiniteSet(EmptyRows) /\ EmptyRows \in SUBSET Int
      <4>1. IsFiniteSet(EmptyRows)
        BY <3>1, FS_Subset
      <4> QED
        BY <3>1, <4>1
    <3>3. b \in EmptyRows
      BY <2>1, <3>2, MinIsLeast
    <3> QED
      BY <3>3 DEF EmptyRows
  <2> HIDE DEF b
  <2>3. next \in Nat /\ next # 0 /\ req \in [Rows -> 0 .. next - 1]
    BY DEF Inv, TypeInv
  <2>4. Live' = Live \cup {next}
    <3>1. req'[b] = next /\ \A c \in Rows : c # b => req'[c] = req[c]
      BY <2>1, <2>2, <2>3
    <3>2. Live' = {req'[c] : c \in Rows} \ {0}
      BY DEF Live
    <3> QED
      BY <2>2, <2>3, <3>1, <3>2 DEF Live
  <2>5. Cardinality(Live) < Batch
    BY <2>1, RoomForARequest
  <2>6. Pool!TakeUp
    <3>1. count' = count /\ Served' = Served
      BY <2>1 DEF count, Served
    <3>2. ~(stage = "over") /\ (stage' = "over") = (stage = "over")
      BY <2>1
    <3>3. UNCHANGED <<count, Served, stage = "over">>
      BY <3>1, <3>2
    <3>4. UNCHANGED <<count, {traced[i].req : i \in DOMAIN traced}, stage = "over">>
      BY <3>3 DEF Served
    <3> QED
      <4>1. Pool!Cardinality(Live) = Cardinality(Live)
        BY DEF Pool!Cardinality, Cardinality
      <4> QED
        BY <2>1, <2>4, <2>5, <3>2, <3>4, <4>1 DEF Pool!TakeUp
  <2> QED
    BY <2>6 DEF Pool!Next
<1>2. CASE Exhausted
  <2>1. /\ stage = "admit" /\ stage' = "over" /\ EmptyRows = Rows /\ next > count
        /\ cfg' = cfg /\ next' = next /\ req' = req /\ traced' = traced
    BY <1>2 DEF Exhausted, requestVars, reportVars
  <2>2. Live = {} /\ Live' = Live
    BY <2>1 DEF EmptyRows, Live
  <2>3. next = count + 1 /\ count \in Nat
    <3>1. next \in 1 .. count + 1 /\ count \in Nat
      BY ConstantFacts DEF Inv, TypeInv, count
    <3> QED
      BY <2>1, <3>1
  <2>4. {traced[i].req : i \in DOMAIN traced} = 1 .. count
    <3>1. Live \cup {traced[i].req : i \in DOMAIN traced} = 1 .. next - 1
      BY DEF Inv, EachRequestOnce
    <3>2. next - 1 = count
      BY <2>3
    <3> QED
      BY <2>2, <3>1, <3>2
  <2>5. Pool!Close
    BY <2>1, <2>2, <2>4 DEF Pool!Close, count
  <2> QED
    BY <2>5 DEF Pool!Next
<1>3. CASE Keep
  <2>1. stage = "keep" /\ stage' = "admit" /\ cfg' = cfg /\ next' = next
    BY <1>3 DEF Keep
  <2>2. /\ Finishing \subseteq Live /\ Live' = Live \ Finishing
        /\ Served' = Served \cup Finishing
    BY <1>3, KeepKeepsRequests
  <2>3. Live \cap Served = {}
    BY DEF Inv, EachRequestOnce, Served
  <2>4. /\ Served = {traced[i].req : i \in DOMAIN traced}
        /\ Served' = {traced'[i].req : i \in DOMAIN traced'}
    BY DEF Served
  <2>5. CASE Finishing = {}
    <3>1. Live' = Live /\ Served' = Served /\ count' = count
      BY <2>1, <2>2, <2>5 DEF count
    <3>2. (stage' = "over") = (stage = "over")
      BY <2>1
    <3> QED
      BY <2>1, <3>1, <3>2 DEF Pool!vars, Served
  <2>6. CASE Finishing # {}
    <3>1. Finishing \in (SUBSET Live) \ {{}} /\ Finishing \cap Served = {}
      BY <2>2, <2>3, <2>6
    <3>2. count' = count /\ ~(stage = "over") /\ (stage' = "over") = (stage = "over")
      BY <2>1 DEF count
    <3>3. Pool!Finish
      BY <2>1, <2>2, <3>1, <3>2 DEF Pool!Finish, Served
    <3> QED
      BY <3>3 DEF Pool!Next
  <2> QED
    BY <2>5, <2>6
<1>4. ASSUME cfg' = cfg, next' = next, req' = req, traced' = traced,
             (stage' = "over") = (stage = "over")
      PROVE  UNCHANGED Pool!vars
  BY <1>4 DEF Pool!vars, count, Live
<1>5. CASE StartDrafting
  BY <1>4, <1>5 DEF StartDrafting, requestVars, reportVars
<1>6. CASE GrowRow
  <2>1. /\ stage = "grow" /\ cfg' = cfg /\ next' = next /\ req' = req /\ traced' = traced
    BY <1>6 DEF GrowRow, requestVars, reportVars
  <2>2. stage' # "over"
    BY <1>6, <2>1 DEF GrowRow, NextRow
  <2> QED
    BY <1>4, <2>1, <2>2
<1>7. CASE TrimRow
  <2>1. /\ stage = "trim" /\ cfg' = cfg /\ next' = next /\ req' = req /\ traced' = traced
    BY <1>7 DEF TrimRow, requestVars, reportVars
  <2>2. stage' # "over"
    BY <1>7, <2>1 DEF TrimRow, NextRow
  <2> QED
    BY <1>4, <2>1, <2>2
<1>8. CASE Verify
  BY <1>4, <1>8 DEF Verify, requestVars, reportVars
<1>9. CASE KeepFails
  BY <1>4, <1>9 DEF KeepFails, requestVars, reportVars
<1>10. CASE UNCHANGED vars
  BY <1>4, <1>10 DEF vars, requestVars, reportVars
<1> QED
  BY <1>1, <1>2, <1>3, <1>5, <1>6, <1>7, <1>8, <1>9, <1>10 DEF Next, Step, Terminated

\* main() serves a dataset as RequestPool says: requests are taken up in order
\* and at most max_batch_size at a time, each is served once, and the program
\* is over only when all of them have been.  (That it gets there is liveness.)
THEOREM ServerOnlyIsARequestPool ==
  ASSUME TargetGivesTokens
  PROVE  Spec => Pool!Spec
<1>1. Init => Pool!Init
  <2> SUFFICES ASSUME Init PROVE Pool!Init
    OBVIOUS
  <2>1. count \in Nat
    BY ConstantFacts DEF Init, count
  <2>2. Live = {} /\ {traced[i].req : i \in DOMAIN traced} = {}
    BY DEF Init, Live
  <2> QED
    BY <2>1, <2>2 DEF Init, Pool!Init
<1>2. Inv /\ [Next]_vars => [Pool!Next]_(Pool!vars)
  BY PoolStep
<1> QED
  BY <1>1, <1>2, InvHolds, PTL DEF Spec, Pool!Spec

-----------------------------------------------------------------------------
(* A row with a request does not outgrow max_len.                          *)

\* max_len has room for the prompt, max_new_tokens and the drafts of one
\* iteration, of any request and configuration.
EnoughRoom ==
  \A d \in Drafts, r \in Requests :
    Len(Prompts[r]) + MaxNew + d.budget * d.beamLen < MaxLen

\* Its tree has grown by the budget at most in each round it took part in.
Grown(b) == IF b < row THEN round + 1 ELSE round

RoomInv ==
  /\ stage \in {"admit", "verify", "keep"} => round = 0 /\ row = 0
  /\ stage = "trim" => round = 0
  /\ stage = "admit" => \A b \in Rows : end[b] = prefixLen[b]
  /\ stage \in {"grow", "trim", "verify", "keep"} => Live # {}
  /\ stage = "keep" => selection # NoSelection
  /\ \A b \in Rows : req[b] # 0 => prefixLen[b] <= initial[b] + MaxNew
  /\ stage = "grow" =>
       \A b \in Rows : req[b] # 0 => end[b] <= prefixLen[b] + cfg.budget * Grown(b)
  /\ OnlyIdleRowsOutgrow

\* What a row adds in its turn is within the budget.
LEMMA AffordableFits ==
  ASSUME Inv, NEW b \in Rows, NEW beams \in Beams(b), NEW children \in Proposals(beams, cfg.width),
         NEW best \in Affordable(b, children)
  PROVE  Cardinality(best) \in Nat /\ Cardinality(best) <= cfg.budget
<1>1. RowTree(tree[b], prefixLen[b], end[b]) /\ cfg.budget \in Nat
  BY ConstantFacts DEF Inv, TreesInv, TypeInv
<1>2. beams \in SUBSET WithStatus(tree[b], CANDIDATE)
  BY DEF Beams, Topk, kSubset
<1>3. beams \subseteq prefixLen[b] - 1 .. end[b] - 1 /\ beams \subseteq Slots
  BY <1>1, <1>2, MarkedRowTree
<1>4. best \in SUBSET children
  BY DEF Affordable
<1>5. IsFiniteSet(best)
  BY <1>1, <1>3, <1>4, ProposalsFit
<1> DEFINE older == Drafted(b) \cap UNION {tree[b][ParentOf(k)].row : k \in best}
<1>6. Cardinality(best) + Cardinality(older) <= cfg.budget
  BY DEF Affordable
<1>7. IsFiniteSet(older)
  <2>1. prefixLen[b] \in Int /\ end[b] - 1 \in Int
    BY <1>1, SizesAssumption DEF RowTree
  <2>2. IsFiniteSet(Drafted(b))
    BY <2>1, FS_Interval DEF Drafted
  <2>3. older \in SUBSET Drafted(b)
    OBVIOUS
  <2> QED
    BY <2>2, <2>3, FS_Subset
<1>8. Cardinality(best) \in Nat /\ Cardinality(older) \in Nat
  BY <1>5, <1>7, FS_CardinalityType
<1> HIDE DEF older
<1> QED
  BY <1>1, <1>6, <1>8

\* Multiples of the budget.
LEMMA Multiples ==
  ASSUME NEW m \in Nat, NEW i \in Nat, NEW j \in Nat
  PROVE  /\ m * i \in Nat /\ m * (i + 1) = m * i + m
         /\ i <= j => m * i <= m * j
<1>1. m * i \in Nat /\ m * (i + 1) = m * i + m
  OBVIOUS
<1>2. ASSUME i <= j
      PROVE  m * i <= m * j
  <2>1. PICK d \in Nat : j = i + d
    <3>1. j - i \in Nat /\ j = i + (j - i)
      BY <1>2
    <3> QED
      BY <3>1
  <2>2. m * j = m * i + m * d /\ m * d \in Nat
    BY <2>1
  <2> QED
    BY <1>1, <2>2
<1> QED
  BY <1>1, <1>2

LEMMA GrowRowKeepsRoom ==
  ASSUME Inv, RoomInv, EnoughRoom, GrowRow
  PROVE  RoomInv'
<1> DEFINE more == round + 1 < cfg.beamLen
           wrap == IF more THEN round + 1 ELSE 0
           then == IF more THEN "grow" ELSE "trim"
<1>1. SUFFICES ASSUME NEW beams \in Beams(row), NEW children \in Proposals(beams, cfg.width),
                      NEW best \in Affordable(row, children),
                      \/ /\ end[row] + Cardinality(best) < MaxLen
                         /\ end' = [end EXCEPT ![row] = end[row] + Cardinality(best)]
                         /\ NextRow(wrap, then)
                      \/ /\ end[row] + Cardinality(best) >= MaxLen
                         /\ stage' = "failed"
                         /\ UNCHANGED <<tree, end, round, row>>
               PROVE  RoomInv'
  BY DEF GrowRow
<1>2. /\ stage = "grow" /\ cfg' = cfg /\ req' = req /\ initial' = initial
      /\ prefixLen' = prefixLen /\ selection' = selection
  BY DEF GrowRow, requestVars
<1>3. /\ row \in Rows /\ round \in 0 .. cfg.beamLen - 1 /\ cfg.beamLen \in Nat
      /\ cfg.budget \in Nat /\ cfg \in Drafts /\ Batch \in Nat /\ Rows = 0 .. Batch - 1
      /\ end \in [Rows -> 0 .. MaxLen]
      /\ \A b \in Rows : prefixLen[b] \in Nat /\ end[b] \in Nat
      /\ MaxLen \in Nat
  <2>1. TypeInv
    BY DEF Inv
  <2>2. \A b \in Rows : prefixLen[b] \in Nat /\ end[b] \in Nat
    BY <2>1, Lengths
  <2>3. /\ row \in Rows /\ round \in 0 .. cfg.beamLen - 1 /\ cfg \in Drafts
        /\ end \in [Rows -> 0 .. MaxLen]
    BY <2>1 DEF TypeInv
  <2>4. cfg.beamLen \in Nat /\ cfg.budget \in Nat /\ Batch \in Nat
    BY <2>3, ConstantFacts
  <2> QED
    BY <2>2, <2>3, <2>4, SizesAssumption DEF Rows
<1>4. Cardinality(best) \in Nat /\ Cardinality(best) <= cfg.budget
  BY <1>3, AffordableFits
<1>5. Live # {} /\ \A b \in Rows : req[b] # 0 => /\ prefixLen[b] <= initial[b] + MaxNew
                                                /\ end[b] <= prefixLen[b] + cfg.budget * Grown(b)
  BY <1>2 DEF RoomInv
<1> DEFINE m == cfg.budget
<1>6. Grown(row) = round /\ round \in Nat
  BY <1>3 DEF Grown, Rows
<1>7. m * (round + 1) = m * round + m /\ m * round \in Nat /\ m * (round + 1) <= m * cfg.beamLen
  <2>1. round + 1 <= cfg.beamLen /\ round + 1 \in Nat
    BY <1>3
  <2> QED
    BY <1>3, <1>6, <2>1, Multiples
<1> HIDE DEF m
<1>8. CASE stage' = "failed" /\ UNCHANGED <<tree, end, round, row>>
           /\ end[row] + Cardinality(best) >= MaxLen
  <2>1. req[row] = 0
    <3> SUFFICES ASSUME req[row] # 0 PROVE FALSE
      OBVIOUS
    <3>1. /\ req[row] \in Requests /\ initial[row] = Len(Prompts[req[row]])
          /\ initial[row] \in Nat
      BY <1>3, HeldRequests
    <3>2. initial[row] + MaxNew + m * cfg.beamLen < MaxLen
      BY <1>3, <3>1 DEF EnoughRoom, m
    <3>3. end[row] <= prefixLen[row] + m * round /\ prefixLen[row] <= initial[row] + MaxNew
      BY <1>3, <1>5, <1>6 DEF m
    <3>4. /\ MaxNew \in Nat /\ Cardinality(best) <= m /\ m \in Nat
          /\ m * cfg.beamLen \in Nat
      BY <1>3, <1>4, StopAssumption, Multiples DEF m
    <3> DEFINE ev == end[row]
               pv == prefixLen[row]
               iv == initial[row]
               cv == Cardinality(best)
               m0 == m * round
               m1 == m * (round + 1)
               ml == m * cfg.beamLen
    <3>5. /\ ev \in Nat /\ pv \in Nat /\ iv \in Nat /\ cv \in Nat /\ m0 \in Nat /\ ml \in Nat
          /\ m \in Nat /\ MaxNew \in Nat /\ MaxLen \in Nat
          /\ m1 = m0 + m /\ m1 <= ml /\ cv <= m
      BY <1>3, <1>4, <1>7, <3>1, <3>4
    <3>6. ev + cv >= MaxLen /\ ev <= pv + m0 /\ pv <= iv + MaxNew /\ iv + MaxNew + ml < MaxLen
      BY <1>8, <3>2, <3>3
    <3> HIDE DEF m, ev, pv, iv, cv, m0, m1, ml
    <3> QED
      BY <3>5, <3>6
  <2>2. OnlyIdleRowsOutgrow'
    BY <1>2, <1>8, <2>1 DEF OnlyIdleRowsOutgrow
  <2> QED
    BY <1>2, <1>5, <1>8, <2>2 DEF RoomInv
<1>9. CASE /\ end' = [end EXCEPT ![row] = end[row] + Cardinality(best)]
           /\ NextRow(wrap, then)
  <2>1. stage' = "grow" \/ (stage' = "trim" /\ round' = 0)
    BY <1>2, <1>9 DEF NextRow
  <2>2. ASSUME NEW b \in Rows, req[b] # 0, stage' = "grow"
        PROVE  end'[b] <= prefixLen[b] + m * Grown(b)'
    <3> DEFINE g == IF b <= row THEN round + 1 ELSE round
    <3>1. Grown(b)' = g
      <4>1. Grown(b)' = IF b < row' THEN round' + 1 ELSE round'
        BY DEF Grown
      <4>2. CASE row < Batch - 1
        <5>1. row' = row + 1 /\ round' = round
          BY <1>9, <4>2 DEF NextRow
        <5> QED
          BY <1>3, <4>1, <5>1
      <4>3. CASE ~(row < Batch - 1)
        <5>1. row' = 0 /\ round' = wrap /\ stage' = then
          BY <1>9, <4>3 DEF NextRow
        <5>2. round' = round + 1
          BY <2>2, <5>1
        <5>3. b <= row /\ ~(b < row')
          BY <1>3, <4>3, <5>1
        <5> QED
          BY <4>1, <5>2, <5>3
      <4> QED
        BY <4>2, <4>3
    <3>2. end[b] <= prefixLen[b] + m * Grown(b) /\ prefixLen[b] \in Nat /\ end[b] \in Nat
      BY <1>3, <1>5, <2>2 DEF m
    <3>3. CASE b = row
      <4>1. end'[b] = end[b] + Cardinality(best)
        BY <1>3, <1>9, <3>3
      <4>2. g = round + 1
        BY <1>3, <3>3
      <4>3. end[b] <= prefixLen[b] + m * round /\ Cardinality(best) <= m
        BY <1>4, <1>6, <3>2, <3>3 DEF m
      <4>4. m \in Nat
        BY <1>3 DEF m
      <4> HIDE DEF g
      <4>5. end'[b] <= prefixLen[b] + m * (round + 1)
        BY <1>4, <1>7, <3>2, <4>1, <4>3, <4>4
      <4> QED
        BY <3>1, <4>2, <4>5
    <3>4. CASE b # row
      <4>1. end'[b] = end[b]
        BY <1>3, <1>9, <3>4
      <4>2. g = Grown(b)
        BY <1>3, <3>4 DEF Grown
      <4> HIDE DEF g
      <4> QED
        BY <3>1, <3>2, <4>1, <4>2
    <3> QED
      BY <3>3, <3>4
  <2>3. Live' = Live
    BY <1>2 DEF Live
  <2>4. OnlyIdleRowsOutgrow'
    BY <2>1 DEF OnlyIdleRowsOutgrow
  <2> QED
    BY <1>2, <1>5, <2>1, <2>2, <2>3, <2>4 DEF RoomInv, m
<1> QED
  BY <1>1, <1>8, <1>9

\* Where the lengths of the rows stay, the loop may go on.
LEMMA StageKeepsRoom ==
  ASSUME RoomInv, UNCHANGED <<req, initial, prefixLen, selection>>,
         \/ stage' \in {"over", "failed"} /\ OnlyIdleRowsOutgrow'
         \/ stage' = "trim" /\ round' = 0 /\ stage \in {"grow", "trim"}
         \/ stage' = "verify" /\ round' = 0 /\ row' = 0 /\ stage = "trim"
  PROVE  RoomInv'
<1>1. req' = req /\ initial' = initial /\ prefixLen' = prefixLen /\ selection' = selection
  OBVIOUS
<1>2. Live' = Live
  BY <1>1 DEF Live
<1>3. \A b \in Rows : req'[b] # 0 => prefixLen'[b] <= initial'[b] + MaxNew
  BY <1>1 DEF RoomInv
<1>4. CASE stage' \in {"over", "failed"} /\ OnlyIdleRowsOutgrow'
  BY <1>3, <1>4 DEF RoomInv
<1>5. CASE stage' = "trim" /\ round' = 0 /\ stage \in {"grow", "trim"}
  BY <1>2, <1>3, <1>5 DEF RoomInv, OnlyIdleRowsOutgrow
<1>6. CASE stage' = "verify" /\ round' = 0 /\ row' = 0 /\ stage = "trim"
  BY <1>2, <1>3, <1>6 DEF RoomInv, OnlyIdleRowsOutgrow
<1> QED
  BY <1>4, <1>5, <1>6

LEMMA RoomNext ==
  ASSUME Inv, RoomInv, EnoughRoom, TargetGivesTokens, [Next]_vars
  PROVE  RoomInv'
<1>0. TypeInv
  BY DEF Inv
<1>1. CASE AdmitRow
  <2> DEFINE b == Min(EmptyRows)
             l == Len(Prompts[next])
  <2>1. /\ stage = "admit" /\ stage' = "admit" /\ round' = round /\ row' = row
        /\ req' = [req EXCEPT ![b] = next] /\ initial' = [initial EXCEPT ![b] = l]
        /\ prefixLen' = [prefixLen EXCEPT ![b] = l] /\ end' = [end EXCEPT ![b] = l]
        /\ next <= count
    BY <1>1 DEF AdmitRow
  <2>2. round = 0 /\ row = 0 /\ \A c \in Rows : end[c] = prefixLen[c]
    BY <2>1 DEF RoomInv
  <2>3. l \in Nat
    <3>1. next \in 1 .. count + 1 /\ count \in Nat /\ 1 .. count \subseteq Requests
      BY <1>0, ConstantFacts DEF TypeInv, count
    <3>2. next \in 1 .. count
      BY <2>1, <3>1
    <3>3. next \in Requests
      BY <3>1, <3>2
    <3>4. Prompts[next] \in Seq(Tokens)
      BY <3>3, ConstantFacts
    <3> QED
      BY <3>4
  <2> HIDE DEF b, l
  <2>4. /\ req \in [Rows -> 0 .. next - 1] /\ initial \in [Rows -> Nat]
        /\ prefixLen \in [Rows -> 0 .. MaxLen] /\ end \in [Rows -> 0 .. MaxLen]
    BY <1>0 DEF TypeInv
  <2>5. \A c \in Rows : end'[c] = prefixLen'[c]
    BY <2>1, <2>2, <2>4
  <2>6. ASSUME NEW c \in Rows, req'[c] # 0
        PROVE  prefixLen'[c] <= initial'[c] + MaxNew
    <3>1. CASE c = b
      <4>1. prefixLen'[c] = l /\ initial'[c] = l
        BY <2>1, <2>4, <3>1
      <4> QED
        BY <2>3, <4>1, StopAssumption
    <3>2. CASE c # b
      <4>1. req'[c] = req[c] /\ prefixLen'[c] = prefixLen[c] /\ initial'[c] = initial[c]
        BY <2>1, <2>4, <3>2
      <4> QED
        BY <2>6, <4>1 DEF RoomInv
    <3> QED
      BY <3>1, <3>2
  <2> QED
    BY <2>1, <2>2, <2>5, <2>6 DEF RoomInv, OnlyIdleRowsOutgrow
<1>2. CASE StartDrafting
  <2>1. /\ stage = "admit" /\ stage' = "grow" /\ round' = round /\ row' = row /\ cfg' = cfg
        /\ req' = req /\ initial' = initial /\ prefixLen' = prefixLen /\ end' = end
        /\ EmptyRows = {} \/ EmptyRows # Rows
    BY <1>2 DEF StartDrafting, requestVars, treeVars
  <2>2. round = 0 /\ row = 0 /\ \A c \in Rows : end[c] = prefixLen[c]
    BY <2>1 DEF RoomInv
  <2>3. Live' # {}
    <3>1. \E c \in Rows : req[c] # 0
      BY <2>1, ConstantFacts DEF EmptyRows
    <3>2. Live' = {req[c] : c \in Rows} \ {0}
      BY <2>1 DEF Live
    <3> QED
      BY <3>1, <3>2
  <2>4. ASSUME NEW c \in Rows
        PROVE  end'[c] <= prefixLen'[c] + cfg'.budget * Grown(c)'
    <3>1. Grown(c)' = 0
      <4>1. ~(c < 0)
        BY DEF Rows
      <4> QED
        BY <2>1, <2>2, <4>1 DEF Grown
    <3>2. cfg'.budget * 0 = 0
      <4>1. cfg.budget \in Nat
        BY <1>0, ConstantFacts DEF TypeInv
      <4> QED
        BY <2>1, <4>1
    <3>3. prefixLen[c] \in Nat /\ end[c] = prefixLen[c]
      BY <1>0, <2>2, Lengths
    <3> QED
      BY <2>1, <3>1, <3>2, <3>3
  <2> QED
    BY <2>1, <2>3, <2>4 DEF RoomInv, OnlyIdleRowsOutgrow
<1>3. CASE Exhausted
  <2>1. /\ stage' = "over" /\ req' = req /\ initial' = initial /\ prefixLen' = prefixLen
        /\ selection' = selection
    BY <1>3 DEF Exhausted, requestVars, treeVars
  <2> QED
    BY <2>1, StageKeepsRoom DEF OnlyIdleRowsOutgrow
<1>4. CASE GrowRow
  BY <1>4, GrowRowKeepsRoom
<1>5. CASE TrimRow
  <2>1. /\ stage = "trim" /\ NextRow(0, "verify") /\ req' = req /\ initial' = initial
        /\ prefixLen' = prefixLen /\ selection' = selection
    BY <1>5 DEF TrimRow, requestVars, treeVars
  <2>2. round = 0
    BY <2>1 DEF RoomInv
  <2>3. \/ stage' = "trim" /\ round' = 0
        \/ stage' = "verify" /\ round' = 0 /\ row' = 0
    BY <2>1, <2>2 DEF NextRow
  <2> QED
    BY <2>1, <2>3, StageKeepsRoom
<1>6. CASE Verify
  <2>1. /\ stage = "verify" /\ stage' = "keep" /\ round' = round /\ row' = row
        /\ req' = req /\ initial' = initial /\ prefixLen' = prefixLen
    BY <1>6 DEF Verify, requestVars, treeVars
  <2>2. round = 0 /\ row = 0 /\ Live # {} /\ Live' = Live
    BY <2>1 DEF RoomInv, Live
  <2>3. selection' # NoSelection
    <3>1. PICK b \in Rows : req[b] # 0
      BY <2>2 DEF Live
    <3>2. prefixLen[b] \in Nat /\ prefixLen[b] >= 1 /\ end[b] \in Nat /\ prefixLen[b] <= end[b]
          /\ end[b] <= MaxLen
      <4>1. initial[b] = Len(Prompts[req[b]]) /\ req[b] \in Requests /\ initial[b] <= prefixLen[b]
        BY <3>1, HeldRequests
      <4>2. initial[b] \in 2 .. MaxLen
        BY <4>1, ConstantFacts
      <4>3. RowTree(tree[b], prefixLen[b], end[b])
        BY DEF Inv, TreesInv
      <4>4. end[b] \in prefixLen[b] .. MaxLen
        BY <4>3 DEF RowTree
      <4>5. prefixLen[b] \in Nat /\ end[b] \in Nat
        BY <1>0, Lengths
      <4> QED
        BY <4>1, <4>2, <4>4, <4>5, SizesAssumption
    <3>3. prefixLen[b] - 1 \in Submitted(b)
      BY <3>2, SizesAssumption DEF Submitted, Slots
    <3>4. DOMAIN selection'[b] = Submitted(b)
      BY <1>6 DEF Verify
    <3>5. DOMAIN NoSelection[b] = {}
      BY DEF NoSelection
    <3> QED
      BY <3>3, <3>4, <3>5
  <2> QED
    BY <2>1, <2>2, <2>3 DEF RoomInv, OnlyIdleRowsOutgrow
<1>7. CASE Keep
  <2>1. /\ stage = "keep" /\ stage' = "admit" /\ round' = round /\ row' = row
        /\ end' = prefixLen'
        /\ req' = [c \in Rows |-> IF c \in Recycled THEN 0 ELSE req[c]]
        /\ initial' = [c \in Rows |-> IF c \in Recycled THEN 0 ELSE initial[c]]
    BY <1>7 DEF Keep, Removed, Recycled
  <2>2. round = 0 /\ row = 0
    BY <2>1 DEF RoomInv
  <2>3. ASSUME NEW b \in Rows, req'[b] # 0
        PROVE  prefixLen'[b] <= initial'[b] + MaxNew
    <3>1. b \notin Recycled /\ req[b] # 0 /\ initial'[b] = initial[b]
      BY <2>1, <2>3
    <3>2. ~(prefixLen'[b] - initial[b] > MaxNew)
      BY <3>1 DEF Recycled, Finished
    <3>3. prefixLen'[b] \in Nat /\ initial[b] \in Nat /\ MaxNew \in Nat
      <4>1. Inv'
        BY <1>7, KeepKeepsInv
      <4>2. TypeInv'
        BY <4>1 DEF Inv
      <4>3. prefixLen'[b] \in 0 .. MaxLen
        BY <4>2 DEF TypeInv
      <4> QED
        BY <1>0, <4>3, SizesAssumption, StopAssumption DEF TypeInv
    <3> QED
      BY <3>1, <3>2, <3>3
  <2> QED
    BY <2>1, <2>2, <2>3 DEF RoomInv, OnlyIdleRowsOutgrow
<1>8. CASE KeepFails
  <2>1. /\ stage = "keep" /\ stage' = "failed" /\ req' = req /\ initial' = initial
        /\ prefixLen' = prefixLen /\ selection' = selection
    BY <1>8 DEF KeepFails, requestVars, treeVars
  <2>2. selection' # NoSelection
    BY <2>1 DEF RoomInv
  <2> QED
    BY <2>1, <2>2, StageKeepsRoom DEF OnlyIdleRowsOutgrow
<1>9. CASE UNCHANGED vars
  <2>1. /\ stage' = stage /\ round' = round /\ row' = row /\ cfg' = cfg /\ req' = req
        /\ initial' = initial /\ prefixLen' = prefixLen /\ end' = end /\ selection' = selection
    BY <1>9 DEF vars, requestVars, treeVars
  <2>2. Live' = Live /\ \A b \in Rows : Grown(b)' = Grown(b)
    BY <2>1 DEF Live, Grown
  <2> QED
    BY <2>1, <2>2 DEF RoomInv, OnlyIdleRowsOutgrow
<1> QED
  BY <1>1, <1>2, <1>3, <1>4, <1>5, <1>6, <1>7, <1>8, <1>9 DEF Next, Step, Terminated

\* A row that has a request never reaches the end of its slots while it
\* drafts, if max_len has room for the longest request and one iteration's
\* drafts: _remove_request stops it in time, and the budget bounds what a
\* round may add.  (NotImplementedError is then raised for idle rows only.)
THEOREM RowsWithRequestsFit ==
  ASSUME TargetGivesTokens, EnoughRoom
  PROVE  Spec => []OnlyIdleRowsOutgrow
<1>1. Init => RoomInv
  BY DEF Init, RoomInv, OnlyIdleRowsOutgrow
<1>2. Inv /\ RoomInv /\ [Next]_vars => RoomInv'
  BY RoomNext
<1>3. RoomInv => OnlyIdleRowsOutgrow
  BY DEF RoomInv
<1> QED
  BY <1>1, <1>2, <1>3, InvHolds, PTL DEF Spec
=============================================================================
