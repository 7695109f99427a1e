-------------------------- MODULE DraftCacheProofs --------------------------
(***************************************************************************)
(* Theorems about the draft model's cache in SpecDecode, and about the     *)
(* rounds that fill the budget: what of a tree was run by the draft model, *)
(* cycle after cycle, through trims, forests and splices; and about the    *)
(* shares by which Saguaro's rounds bet on outcomes.                       *)
(***************************************************************************)
EXTENDS SpecDecodeProofs, FanOutProofs

(***************************************************************************)
(* Passes over a tree that grows.                                          *)
(***************************************************************************)

\* The draft model ran a node, or all that the node attends to but itself: the
\* cache holds what it computes there.
Ran(tr, kv, n)   == kv[n] = Context(tr, n)
Ready(tr, kv, n) == \A j \in tr[n].row \ {n} : Ran(tr, kv, j)

\* A tree that grew behind `top' by children of nodes of `batch'.
Extended(tr, new, top, top2, batch) ==
  /\ top \in 0 .. MaxLen /\ top2 \in top .. MaxLen
  /\ IsTree(tr, top) /\ IsTree(new, top2)
  /\ \A n \in 0 .. top - 1 : /\ new[n].tok = tr[n].tok /\ new[n].par = tr[n].par
                             /\ new[n].pos = tr[n].pos /\ new[n].row = tr[n].row
  /\ \A n \in top .. top2 - 1 :
       new[n].par \in batch /\ new[n].row = tr[new[n].par].row \cup {n}

\* The slots on the path of a node are not behind it.
LEMMA RowIsBefore ==
  ASSUME NEW tr, NEW top \in 0 .. MaxLen, IsTree(tr, top), NEW n \in 0 .. top - 1
  PROVE  /\ tr[n].row \subseteq 0 .. n /\ n \in tr[n].row /\ n \in Nat
         /\ \A j \in tr[n].row : j \in 0 .. top - 1
<1>1. top \in Nat
  BY SizesAssumption
<1>2. tr[n].row \subseteq 0 .. n /\ n \in tr[n].row
  BY DEF IsTree
<1> QED
  BY <1>1, <1>2

\* A node has the same context in two trees that have the same path for it.
LEMMA SameContext ==
  ASSUME NEW tr, NEW top \in 0 .. MaxLen, IsTree(tr, top),
         NEW new, NEW top2 \in 0 .. MaxLen, IsTree(new, top2),
         NEW n \in 0 .. top - 1, NEW m \in 0 .. top2 - 1, tr[n].pos = new[m].pos,
         \A j \in tr[n].row : \E i \in new[m].row : new[i].pos = tr[j].pos /\ new[i].tok = tr[j].tok
  PROVE  Context(new, m) = Context(tr, n)
<1>1. tr[n].pos \in Nat /\ tr[n].pos <= new[m].pos
  BY ContextIsText
<1>2. Context(tr, n) = SubSeq(Context(new, m), 1, tr[n].pos + 1)
  BY <1>1, ContextsMatch
<1>3. Context(new, m) \in Seq(Tokens) /\ Len(Context(new, m)) = tr[n].pos + 1
  BY ContextIsText
<1>4. SubSeq(Context(new, m), 1, Len(Context(new, m))) = Context(new, m)
  BY <1>3
<1> QED
  BY <1>2, <1>3, <1>4

\* Growth changes no context.
LEMMA ContextStays ==
  ASSUME NEW tr, NEW new, NEW top, NEW top2, NEW batch, Extended(tr, new, top, top2, batch),
         NEW n \in 0 .. top - 1
  PROVE  Context(new, n) = Context(tr, n)
<1>1. /\ top \in 0 .. MaxLen /\ top2 \in 0 .. MaxLen /\ IsTree(tr, top) /\ IsTree(new, top2)
      /\ n \in 0 .. top2 - 1
  BY SizesAssumption DEF Extended
<1>2. tr[n].pos = new[n].pos /\ new[n].row = tr[n].row
  BY DEF Extended
<1>3. \A j \in tr[n].row : j \in 0 .. top - 1
  BY <1>1, RowIsBefore
<1>4. \A j \in tr[n].row : new[j].pos = tr[j].pos /\ new[j].tok = tr[j].tok
  BY <1>3 DEF Extended
<1> QED
  BY <1>1, <1>2, <1>4, SameContext

\* A pass over nodes all of whose ancestors were run.
LEMMA PassRuns ==
  ASSUME NEW tr, NEW new, NEW top, NEW top2, NEW batch, Extended(tr, new, top, top2, batch),
         batch \subseteq 0 .. top - 1, NEW kv, \A n \in batch : Ready(tr, kv, n)
  PROVE  LET run == ForwardKV(tr, kv, batch)
         IN  /\ \A n \in batch : Ran(new, run, n)
             /\ \A n \in 0 .. top - 1 : Ran(tr, kv, n) => Ran(new, run, n)
             /\ \A n \in 0 .. top - 1 : Ready(tr, kv, n) => Ready(new, run, n)
             /\ \A n \in top .. top2 - 1 : Ready(new, run, n)
<1> DEFINE run == ForwardKV(tr, kv, batch)
<1>1. /\ top \in 0 .. MaxLen /\ top2 \in 0 .. MaxLen /\ IsTree(tr, top) /\ IsTree(new, top2)
      /\ top \in Nat /\ top2 \in Nat /\ top <= top2 /\ MaxLen \in Nat /\ top <= MaxLen
      /\ \A n \in 0 .. top - 1 : n \in Slots
  BY SizesAssumption DEF Extended, Slots
<1>2. \A n \in 0 .. top - 1 : run[n] = IF n \in batch THEN Computed(tr, kv, batch, n) ELSE kv[n]
  BY <1>1 DEF ForwardKV
<1> HIDE DEF run
<1>3. ASSUME NEW n \in batch
      PROVE  Ran(new, run, n)
  <2>1. n \in 0 .. top - 1
    OBVIOUS
  <2>2. n \in Slots /\ Ready(tr, kv, n)
    BY <1>1, <2>1
  <2>3. \A j \in tr[n].row \ batch : kv[j] = Context(tr, j)
    BY <2>2 DEF Ready, Ran
  <2>4. Computed(tr, kv, batch, n) = Context(tr, n)
    BY <1>1, <2>1, <2>3, ForwardComputesContexts
  <2>5. Context(new, n) = Context(tr, n)
    BY <2>1, ContextStays
  <2> QED
    BY <1>2, <2>1, <2>4, <2>5 DEF Ran
<1>4. ASSUME NEW n \in 0 .. top - 1, Ran(tr, kv, n)
      PROVE  Ran(new, run, n)
  <2>1. CASE n \in batch
    BY <1>3, <2>1
  <2>2. CASE n \notin batch
    <3>1. Context(new, n) = Context(tr, n)
      BY ContextStays
    <3> QED
      BY <1>2, <1>4, <2>2, <3>1 DEF Ran
  <2> QED
    BY <2>1, <2>2
<1>5. ASSUME NEW n \in 0 .. top - 1, Ready(tr, kv, n)
      PROVE  Ready(new, run, n)
  <2>1. new[n].row = tr[n].row
    BY DEF Extended
  <2>2. \A j \in tr[n].row : j \in 0 .. top - 1
    BY <1>1, RowIsBefore
  <2> QED
    BY <1>4, <1>5, <2>1, <2>2 DEF Ready
<1>6. ASSUME NEW n \in top .. top2 - 1
      PROVE  Ready(new, run, n)
  <2> DEFINE p == new[n].par
  <2>1. p \in batch /\ new[n].row = tr[p].row \cup {n}
    BY DEF Extended
  <2>2. p \in 0 .. top - 1
    BY <2>1
  <2>3. new[p].row = tr[p].row /\ Ready(new, run, p) /\ Ran(new, run, p)
    BY <1>3, <1>5, <2>1, <2>2 DEF Extended
  <2> HIDE DEF p
  <2> QED
    BY <2>1, <2>3 DEF Ready
<1> QED
  BY <1>3, <1>4, <1>5, <1>6 DEF run

(***************************************************************************)
(* Trims: tree and cache are moved alike.                                  *)
(***************************************************************************)

LEMMA TrimMovesRan ==
  ASSUME NEW tr, NEW e \in 0 .. MaxLen, IsTree(tr, e), NEW base \in 0 .. e,
         NEW kept \in SUBSET (base .. e - 1), NEW dest, Places(tr, kept, dest, base),
         NEW kv, NEW low \in 0 .. base, \A n \in low .. e - 1 : Ready(tr, kv, n)
  PROVE  LET e2  == base + Cardinality(kept)
             new == GatherTree(tr, kept, dest, e2)
             run == MoveKV(kv, kept, dest, e2)
         IN  /\ \A n \in low .. e2 - 1 : Ready(new, run, n)
             /\ \A n \in Slots : n >= e2 => run[n] = NoKV
<1> DEFINE e2  == base + Cardinality(kept)
           new == GatherTree(tr, kept, dest, e2)
           run == MoveKV(kv, kept, dest, e2)
<1>1. /\ e2 \in 0 .. e /\ IsTree(new, e2)
      /\ \A n \in 0 .. base - 1 : new[n] = tr[n]
      /\ \A n \in base .. e2 - 1 : \E s \in kept : dest[s] = n
      /\ \A s \in kept : new[dest[s]] = MovedNode(tr, kept, dest, base, s)
  BY GatherMakesTree
<1>2. /\ e \in Nat /\ base \in Nat /\ low \in Nat /\ e2 \in Nat /\ e2 <= e /\ base <= e
      /\ e <= MaxLen /\ MaxLen \in Nat /\ low <= base
      /\ \A n \in 0 .. e - 1 : n \in Slots
  BY <1>1, SizesAssumption DEF Slots
<1>3. /\ \A s \in kept : dest[s] \in base .. e2 - 1
      /\ \A s, t \in kept : dest[s] = dest[t] => s = t
      /\ \A s \in kept : \A c \in tr[s].row : c >= base => c \in kept
  BY DEF Places
<1>4. base <= e2
  <2>1. IsFiniteSet(kept)
    <3>1. IsFiniteSet(base .. e - 1)
      BY <1>2, FS_Interval
    <3> QED
      BY <3>1, FS_Subset
  <2>2. Cardinality(kept) \in Nat
    BY <2>1, FS_CardinalityType
  <2> QED
    BY <1>2, <2>2
<1>5. \A n \in Slots : run[n] = IF \E s \in kept : dest[s] = n
                                THEN kv[CHOOSE s \in kept : dest[s] = n]
                                ELSE IF n < e2 THEN kv[n] ELSE NoKV
  BY DEF MoveKV
<1> HIDE DEF e2, new, run
<1>6. \A n \in 0 .. base - 1 : run[n] = kv[n]
  <2> TAKE n \in 0 .. base - 1
  <2>1. n \in Slots /\ n < e2 /\ ~\E s \in kept : dest[s] = n
    BY <1>2, <1>3, <1>4
  <2> QED
    BY <1>5, <2>1
<1>7. \A s \in kept : run[dest[s]] = kv[s]
  <2> TAKE s \in kept
  <2>1. dest[s] \in Slots
    BY <1>2, <1>3
  <2>2. (CHOOSE t \in kept : dest[t] = dest[s]) = s
    BY <1>3
  <2> QED
    BY <1>5, <2>1, <2>2
<1>8. \A n \in Slots : n >= e2 => run[n] = NoKV
  <2> TAKE n \in Slots
  <2>1. n >= e2 => ~(n < e2) /\ ~\E s \in kept : dest[s] = n
    BY <1>2, <1>3 DEF Slots
  <2> QED
    BY <1>5, <2>1
<1>9. ASSUME NEW j \in 0 .. base - 1
      PROVE  Context(new, j) = Context(tr, j)
  <2>1. j \in 0 .. e - 1 /\ j \in 0 .. e2 - 1 /\ e2 \in 0 .. MaxLen
    BY <1>2, <1>4
  <2>2. new[j].pos = tr[j].pos /\ new[j].row = tr[j].row
    BY <1>1
  <2>3. tr[j].row \subseteq 0 .. j /\ j \in Nat
    BY <2>1, RowIsBefore
  <2>4. \A i \in tr[j].row : i \in 0 .. base - 1
    BY <1>2, <2>3
  <2>5. \A i \in tr[j].row : new[i].pos = tr[i].pos /\ new[i].tok = tr[i].tok
    BY <1>1, <2>4
  <2> QED
    BY <1>1, <2>1, <2>2, <2>5, SameContext
<1>10. ASSUME NEW s \in kept
       PROVE  /\ new[dest[s]].pos = tr[s].pos /\ new[dest[s]].tok = tr[s].tok
              /\ new[dest[s]].row = (tr[s].row \cap 0 .. base - 1)
                                      \cup {dest[c] : c \in tr[s].row \cap kept}
  <2>1. tr[s] \in Nodes
    BY <1>2 DEF IsTree
  <2>2. new[dest[s]] = MovedNode(tr, kept, dest, base, s)
    BY <1>1
  <2> DEFINE P == IF tr[s].par \in kept THEN dest[tr[s].par] ELSE tr[s].par
             W == (tr[s].row \cap 0 .. base - 1) \cup {dest[c] : c \in tr[s].row \cap kept}
  <2>3. new[dest[s]] = [tr[s] EXCEPT !.par = P, !.row = W]
    BY <2>2 DEF MovedNode
  <2> HIDE DEF P
  <2> SUFFICES new[dest[s]].pos = tr[s].pos /\ new[dest[s]].tok = tr[s].tok /\ new[dest[s]].row = W
    OBVIOUS
  <2> HIDE DEF W
  <2> QED
    BY <2>1, <2>3 DEF Nodes
<1>11. ASSUME NEW s \in kept
       PROVE  \A j \in tr[s].row : j \in 0 .. base - 1 \/ (j \in kept /\ j \in tr[s].row \cap kept)
  <2>1. s \in 0 .. e - 1
    BY <1>2
  <2>2. \A j \in tr[s].row : j \in 0 .. e - 1
    BY <2>1, RowIsBefore
  <2> QED
    BY <1>2, <1>3, <2>2
<1>12. ASSUME NEW s \in kept
       PROVE  Context(new, dest[s]) = Context(tr, s)
  <2>1. s \in 0 .. e - 1 /\ dest[s] \in 0 .. e2 - 1 /\ e2 \in 0 .. MaxLen
    BY <1>2, <1>3
  <2>2. ASSUME NEW j \in tr[s].row
        PROVE  \E i \in new[dest[s]].row : new[i].pos = tr[j].pos /\ new[i].tok = tr[j].tok
    <3>1. CASE j \in 0 .. base - 1
      <4>1. j \in new[dest[s]].row /\ new[j] = tr[j]
        BY <1>1, <1>10, <3>1
      <4> QED
        BY <4>1
    <3>2. CASE j \in kept
      <4>1. dest[j] \in new[dest[s]].row
        BY <1>10, <3>2
      <4>2. new[dest[j]].pos = tr[j].pos /\ new[dest[j]].tok = tr[j].tok
        BY <1>10, <3>2
      <4> QED
        BY <4>1, <4>2
    <3> QED
      BY <1>11, <3>1, <3>2
  <2>3. tr[s].pos = new[dest[s]].pos
    BY <1>10
  <2> QED
    BY <1>1, <2>1, <2>2, <2>3, SameContext
<1>13. ASSUME NEW n \in low .. e2 - 1
       PROVE  Ready(new, run, n)
  <2>1. CASE n < base
    <3>1. n \in 0 .. base - 1 /\ n \in low .. e - 1 /\ n \in 0 .. e - 1
      BY <1>2, <2>1
    <3>2. tr[n].row \subseteq 0 .. n /\ n \in Nat
      BY <3>1, RowIsBefore
    <3>3. \A j \in tr[n].row : j \in 0 .. base - 1
      BY <1>2, <3>1, <3>2
    <3>4. new[n].row = tr[n].row
      BY <1>1, <3>1
    <3>5. \A j \in tr[n].row \ {n} : kv[j] = Context(tr, j)
      BY <3>1 DEF Ready, Ran
    <3> QED
      BY <1>6, <1>9, <3>3, <3>4, <3>5 DEF Ready, Ran
  <2>2. CASE n >= base
    <3>1. PICK s \in kept : dest[s] = n
      BY <1>1, <1>2, <2>2
    <3>2. s \in low .. e - 1
      BY <1>2
    <3>3. \A j \in tr[s].row \ {s} : kv[j] = Context(tr, j)
      BY <3>2 DEF Ready, Ran
    <3>4. ASSUME NEW i \in new[n].row \ {n}
          PROVE  run[i] = Context(new, i)
      <4>1. i \in tr[s].row \cap 0 .. base - 1 \/ \E c \in tr[s].row \cap kept : i = dest[c]
        BY <1>10, <3>1
      <4>2. CASE i \in tr[s].row \cap 0 .. base - 1
        <5>1. i # s
          BY <1>2, <4>2
        <5> QED
          BY <1>6, <1>9, <3>3, <4>2, <5>1
      <4>3. ASSUME NEW c \in tr[s].row \cap kept, i = dest[c]
            PROVE  run[i] = Context(new, i)
        <5>1. c # s
          BY <3>1, <4>3
        <5> QED
          BY <1>7, <1>12, <3>3, <4>3, <5>1
      <4> QED
        BY <4>1, <4>2, <4>3
    <3> QED
      BY <3>4 DEF Ready, Ran
  <2> QED
    BY <1>2, <2>1, <2>2
<1> QED
  BY <1>8, <1>13 DEF e2, new, run

(***************************************************************************)
(* The end of a cycle: the verified path, and a branch behind it.          *)
(***************************************************************************)

\* A cache compacted to a path and to some slots behind it.
Compacted(kv, A, B, run) ==
  LET k   == Cardinality(A)
      all == k + Cardinality(B)
  IN  /\ IsFiniteSet(A) /\ IsFiniteSet(B) /\ A \in SUBSET Int /\ B \in SUBSET Int
      /\ k \in Nat /\ Cardinality(B) \in Nat
      /\ \A n \in Slots : n < k => run[n] = kv[Nth(A, n)]
      /\ \A n \in Slots : n >= k /\ n < all => run[n] = kv[Nth(B, n - k)]
      /\ \A n \in Slots : n >= all => run[n] = NoKV

LEMMA CompactedKV ==
  ASSUME NEW kv, NEW A \in SUBSET Slots, NEW B \in SUBSET Slots, \A a \in A, b \in B : a < b
  PROVE  Compacted(kv, A, B, GatherKV(kv, A \cup B))
<1> DEFINE k == Cardinality(A)
           b == Cardinality(B)
           run == GatherKV(kv, A \cup B)
<1>1. /\ IsFiniteSet(A) /\ IsFiniteSet(B) /\ A \in SUBSET Int /\ B \in SUBSET Int
      /\ k \in Nat /\ b \in Nat
  <2>1. 0 \in Int /\ MaxLen - 1 \in Int
    BY SizesAssumption
  <2>2. IsFiniteSet(Slots) /\ Slots \in SUBSET Int
    BY <2>1, FS_Interval, SizesAssumption DEF Slots
  <2>3. IsFiniteSet(A) /\ IsFiniteSet(B)
    BY <2>2, FS_Subset
  <2> QED
    BY <2>2, <2>3, FS_CardinalityType
<1>2. /\ Cardinality(A \cup B) = k + b
      /\ \A n \in 0 .. k - 1 : Nth(A \cup B, n) = Nth(A, n)
      /\ \A n \in 0 .. b - 1 : Nth(A \cup B, k + n) = Nth(B, n)
  BY <1>1, RankOfUnion, NthOfUnion
<1>3. \A n \in Slots : run[n] = IF n < k + b THEN kv[Nth(A \cup B, n)] ELSE NoKV
  BY <1>2 DEF GatherKV
<1> HIDE DEF k, b, run
<1>4. \A n \in Slots : n < k => run[n] = kv[Nth(A, n)]
  <2> TAKE n \in Slots
  <2>1. n < k => n < k + b /\ n \in 0 .. k - 1
    BY <1>1, SizesAssumption DEF Slots
  <2> QED
    BY <1>2, <1>3, <2>1
<1>5. \A n \in Slots : n >= k /\ n < k + b => run[n] = kv[Nth(B, n - k)]
  <2> TAKE n \in Slots
  <2>1. n >= k /\ n < k + b => n - k \in 0 .. b - 1 /\ k + (n - k) = n
    BY <1>1, SizesAssumption DEF Slots
  <2> QED
    BY <1>2, <1>3, <2>1
<1>6. \A n \in Slots : n >= k + b => run[n] = NoKV
  <2> TAKE n \in Slots
  <2>1. n >= k + b => ~(n < k + b)
    BY <1>1, SizesAssumption DEF Slots
  <2> QED
    BY <1>3, <2>1
<1> QED
  BY <1>1, <1>4, <1>5, <1>6 DEF k, b, run, Compacted

\* A slot among the first k ones.
LEMMA AmongFirst ==
  ASSUME NEW k \in Nat, k <= MaxLen, NEW n \in 0 .. k - 1
  PROVE  n \in Slots /\ n < k /\ n \in 0 .. (k + 1) - 1 /\ n \in Nat
BY SizesAssumption DEF Slots

\* What of the text was run stays so when it is extended by a path that was.
LEMMA PathStaysRan ==
  ASSUME NEW tr, NEW len, NEW e, NEW top, TextTree(tr, len, e, top), NEW x \in len - 1 .. e - 1,
         NEW new, NEW e2, NEW token, TakesPath(tr, x, new, e2, token),
         NEW kv, \A j \in tr[x].row : Ran(tr, kv, j),
         NEW run, \A n \in Slots : n < Cardinality(tr[x].row) => run[n] = kv[Nth(tr[x].row, n)]
  PROVE  LET k == Cardinality(tr[x].row)
         IN  /\ \A n \in 0 .. k - 1 : Ran(new, run, n)
             /\ Ready(new, run, k)
<1> DEFINE R == tr[x].row
           k == Cardinality(R)
<1>1. /\ x \in 0 .. e - 1 /\ e \in 0 .. MaxLen /\ IsTree(tr, e) /\ k \in Nat /\ k = tr[x].pos + 1
      /\ e \in Nat /\ k <= e /\ MaxLen \in Nat /\ e <= MaxLen
  BY TextTreeBounds, PathFacts
<1>2. /\ RowTree(new, k + 1, e2)
      /\ \A n \in 0 .. k - 1 : new[n].tok = Context(tr, x)[n + 1]
  BY DEF TakesPath
<1>3. Context(tr, x) \in Seq(Tokens) /\ Len(Context(tr, x)) = k
  BY <1>1, ContextIsText
<1>4. ASSUME NEW n \in 0 .. k - 1
      PROVE  Ran(new, run, n)
  <2>1. n \in 0 .. tr[x].pos /\ n \in Slots /\ n < k /\ n \in 0 .. (k + 1) - 1 /\ n \in Nat
    <3>1. k - 1 = tr[x].pos
      BY <1>1, ContextIsText
    <3>2. n \in 0 .. tr[x].pos
      BY <3>1
    <3>3. k <= MaxLen
      BY <1>1
    <3>4. n \in Slots /\ n < k /\ n \in 0 .. (k + 1) - 1 /\ n \in Nat
      BY <1>1, <3>3, AmongFirst
    <3> QED
      BY <3>2, <3>4
  <2>2. /\ Nth(R, n) \in R
        /\ Context(tr, Nth(R, n)) = SubSeq(Context(tr, x), 1, n + 1)
    BY <1>1, <2>1, PlaceOnPath
  <2>3. Context(new, n) = [i \in 1 .. n + 1 |-> new[i - 1].tok]
    BY <1>2, <2>1, TextOfRowTree
  <2>4. \A i \in 1 .. n + 1 : new[i - 1].tok = Context(tr, x)[i]
    <3> TAKE i \in 1 .. n + 1
    <3>1. i - 1 \in 0 .. k - 1 /\ (i - 1) + 1 = i
      BY <1>1, <2>1
    <3> QED
      BY <1>2, <3>1
  <2>5. SubSeq(Context(tr, x), 1, n + 1) = [i \in 1 .. n + 1 |-> Context(tr, x)[i]]
    BY <1>1, <1>3, <2>1
  <2>6. Context(new, n) = SubSeq(Context(tr, x), 1, n + 1)
    BY <2>3, <2>4, <2>5
  <2>7. run[n] = kv[Nth(R, n)]
    BY <2>1
  <2> QED
    BY <2>2, <2>6, <2>7 DEF Ran
<1>5. Ready(new, run, k)
  <2>1. new[k].row = 0 .. k
    <3>1. k \in 0 .. (k + 1) - 1
      BY <1>1
    <3> QED
      BY <1>2, <3>1, TextOfRowTree
  <2>2. \A j \in (0 .. k) \ {k} : j \in 0 .. k - 1
    BY <1>1
  <2> HIDE DEF k
  <2> QED
    BY <1>4, <2>1, <2>2 DEF Ready
<1> QED
  BY <1>4, <1>5

\* A branch put behind the path it was planted on: its nodes keep tokens and
\* positions, and their paths are moved with them.
Follows(tr, x, B, new) ==
  LET k     == Cardinality(tr[x].row)
      To(s) == k + Rank(B, s)
  IN  \A s \in B : /\ new[To(s)].tok = tr[s].tok /\ new[To(s)].pos = tr[s].pos
                   /\ new[To(s)].row = (0 .. k) \cup {To(c) : c \in tr[s].row \cap B}

LEMMA BranchStaysReady ==
  ASSUME NEW tr, NEW len, NEW e, NEW top, TextTree(tr, len, e, top), NEW x \in len - 1 .. e - 1,
         NEW root, NEW B, IsBranch(tr, e, top, x, root, B),
         NEW new, NEW token, TakesPath(tr, x, new, Cardinality(tr[x].row) + Cardinality(B), token),
         Follows(tr, x, B, new),
         NEW kv, \A j \in tr[x].row : Ran(tr, kv, j), \A s \in B : Ready(tr, kv, s)
  PROVE  \A n \in Cardinality(tr[x].row) .. (Cardinality(tr[x].row) + Cardinality(B)) - 1 :
           Ready(new, GatherKV(kv, tr[x].row \cup B), n)
<1> DEFINE R     == tr[x].row
           k     == Cardinality(R)
           b     == Cardinality(B)
           To(s) == k + Rank(B, s)
           run   == GatherKV(kv, R \cup B)
<1>1. /\ x \in 0 .. e - 1 /\ e \in 0 .. MaxLen /\ IsTree(tr, e) /\ k \in Nat /\ k = tr[x].pos + 1
      /\ e \in Nat /\ top \in Nat /\ e <= top /\ k <= e /\ MaxLen \in Nat /\ top <= MaxLen
      /\ IsTree(tr, top) /\ top \in 0 .. MaxLen /\ len \in Nat
      /\ R \subseteq 0 .. x /\ R \in SUBSET Slots /\ IsFiniteSet(R) /\ x \in Nat
      /\ \A n \in 0 .. top - 1 : n \in Slots
  BY TextTreeBounds, PathFacts
<1>2. /\ root \in B /\ B \in SUBSET (e .. top - 1) /\ IsFiniteSet(B) /\ B \in SUBSET Int
      /\ \A s \in B : R \subseteq tr[s].row /\ tr[s].row \subseteq R \cup B
  BY DEF IsBranch
<1>3. B \in SUBSET Slots /\ \A a \in R, c \in B : a < c
  BY <1>1, <1>2
<1>4. /\ b \in Nat
      /\ \A n \in Slots : n < k => run[n] = kv[Nth(R, n)]
      /\ \A n \in Slots : n >= k /\ n < k + b => run[n] = kv[Nth(B, n - k)]
  <2>1. R \in SUBSET Slots
    BY <1>1
  <2>2. Compacted(kv, R, B, run)
    BY <1>3, <2>1, CompactedKV
  <2> QED
    BY <2>2 DEF Compacted
<1>5. RowTree(new, k + 1, k + b) /\ \A n \in 0 .. k - 1 : new[n].tok = Context(tr, x)[n + 1]
  BY DEF TakesPath
<1>6. /\ k + b \in 0 .. MaxLen /\ k + b <= MaxLen /\ k + 1 <= k + b /\ IsTree(new, k + b)
      /\ \A n \in 0 .. (k + 1) - 1 : new[n].pos = n
  <2>1. k + b \in k + 1 .. MaxLen /\ IsTree(new, k + b)
    BY <1>5 DEF RowTree
  <2>2. \A n \in 0 .. (k + 1) - 1 : new[n].pos = n
    BY <1>5, TextOfRowTree
  <2> QED
    BY <1>1, <1>4, <2>1, <2>2
<1>7. \A n \in 0 .. k - 1 : Ran(new, run, n)
  <2>1. \A n \in Slots : n < Cardinality(tr[x].row) => run[n] = kv[Nth(tr[x].row, n)]
    BY <1>4
  <2>2. \A j \in tr[x].row : Ran(tr, kv, j)
    OBVIOUS
  <2> DEFINE last == k + b
  <2>3. TakesPath(tr, x, new, last, token)
    OBVIOUS
  <2> HIDE DEF run, last
  <2> QED
    BY <2>1, <2>2, <2>3, PathStaysRan
<1> HIDE DEF run, b
<1>8. \A s \in B : Rank(B, s) \in 0 .. b - 1 /\ Nth(B, Rank(B, s)) = s
  BY <1>2, NthOfRank DEF b
<1>9. ASSUME NEW s \in B
      PROVE  /\ To(s) \in k .. (k + b) - 1 /\ To(s) \in 0 .. (k + b) - 1
             /\ run[To(s)] = kv[s]
  <2> DEFINE r == Rank(B, s)
  <2>1. r \in 0 .. b - 1 /\ Nth(B, r) = s
    BY <1>8
  <2> HIDE DEF r, k
  <2>2. k + r \in Slots /\ k + r >= k /\ k + r < k + b /\ (k + r) - k = r
        /\ k + r \in k .. (k + b) - 1 /\ k + r \in 0 .. (k + b) - 1
    BY <1>1, <1>4, <1>6, <2>1 DEF Slots
  <2>3. run[k + r] = kv[s]
    BY <1>4, <2>1, <2>2
  <2> QED
    BY <2>2, <2>3 DEF r
<1>10. ASSUME NEW s \in B
       PROVE  /\ new[To(s)].tok = tr[s].tok /\ new[To(s)].pos = tr[s].pos
              /\ new[To(s)].row = (0 .. k) \cup {To(c) : c \in tr[s].row \cap B}
  BY Zenon DEF Follows
<1>11. ASSUME NEW j \in R
       PROVE  /\ tr[j].pos \in 0 .. k - 1 /\ new[tr[j].pos].pos = tr[j].pos
              /\ new[tr[j].pos].tok = tr[j].tok
  <2> DEFINE p == tr[j].pos
  <2>1. p \in 0 .. tr[x].pos /\ Context(tr, x)[p + 1] = tr[j].tok
    <3>1. IsTree(tr, e) /\ e \in 0 .. MaxLen /\ x \in 0 .. e - 1 /\ j \in tr[x].row
      BY <1>1
    <3> HIDE DEF k, R
    <3> QED
      BY <3>1, ContextIsText
  <2>2. p \in 0 .. k - 1
    <3>1. k \in Nat /\ k = tr[x].pos + 1 /\ tr[x].pos \in Nat
      <4>1. tr[x].pos \in Nat
        BY PathFacts
      <4> QED
        BY <1>1, <4>1
    <3> HIDE DEF k, p
    <3> QED
      BY <2>1, <3>1
  <2>3. p \in 0 .. (k + 1) - 1
    <3>1. k \in Nat
      BY <1>1
    <3> HIDE DEF k, p
    <3> QED
      BY <2>2, <3>1
  <2> QED
    BY <1>5, <1>6, <2>1, <2>2, <2>3
<1> HIDE DEF To, k
<1>12. ASSUME NEW s \in B
       PROVE  Context(new, To(s)) = Context(tr, s)
  <2>1. s \in 0 .. top - 1 /\ To(s) \in 0 .. (k + b) - 1
    BY <1>1, <1>2, <1>9
  <2>2. ASSUME NEW j \in tr[s].row
        PROVE  \E i \in new[To(s)].row : new[i].pos = tr[j].pos /\ new[i].tok = tr[j].tok
    <3>1. CASE j \in R
      <4>1. tr[j].pos \in 0 .. k
        BY <1>1, <1>11, <3>1
      <4> QED
        BY <1>10, <1>11, <3>1, <4>1
    <3>2. CASE j \in B
      <4>1. To(j) \in new[To(s)].row
        BY <1>10, <3>2
      <4> QED
        BY <1>10, <3>2, <4>1
    <3> QED
      BY <1>2, <3>1, <3>2
  <2>3. tr[s].pos = new[To(s)].pos
    BY <1>10
  <2> QED
    BY <1>1, <1>6, <2>1, <2>2, <2>3, SameContext
<1>13. ASSUME NEW n \in k .. (k + b) - 1
       PROVE  Ready(new, run, n)
  <2>1. PICK s \in B : To(s) = n
    <3>1. n - k \in 0 .. b - 1 /\ k + (n - k) = n
      BY <1>1, <1>4
    <3>2. Nth(B, n - k) \in B /\ Rank(B, Nth(B, n - k)) = n - k
      BY <1>2, <3>1, NthIsMember DEF b
    <3>3. To(Nth(B, n - k)) = n
      BY <3>1, <3>2 DEF To
    <3> QED
      BY <3>2, <3>3
  <2>2. ASSUME NEW i \in new[n].row \ {n}
        PROVE  Ran(new, run, i)
    <3>1. i \in 0 .. k - 1 \/ i = k \/ \E c \in tr[s].row \cap B : i = To(c)
      <4>1. i \in 0 .. k \/ \E c \in tr[s].row \cap B : i = To(c)
        BY <1>10, <2>1
      <4> QED
        BY <1>1, <4>1
    <3>2. ASSUME NEW c \in tr[s].row \cap B, i = To(c)
          PROVE  Ran(new, run, i)
      <4>1. c # s
        BY <2>1, <2>2, <3>2
      <4>2. kv[c] = Context(tr, c)
        BY <4>1 DEF Ready, Ran
      <4> QED
        BY <1>9, <1>12, <3>2, <4>2 DEF Ran
    <3>3. CASE i = k
      <4>1. root \in tr[s].row \cap B /\ Rank(B, root) = 0
        <5>1. root \in tr[s].row /\ \A y \in B : ~(y < root)
          <6>1. \A y \in B : root <= y /\ root \in Int /\ y \in Int
            BY <1>2 DEF IsBranch
          <6>2. root \in tr[s].row
            BY DEF IsBranch
          <6> QED
            BY <6>1, <6>2
        <5>2. {y \in B : y < root} = {}
          BY <5>1
        <5> QED
          BY <1>2, <5>1, <5>2, FS_EmptySet DEF Rank
      <4>2. i = To(root)
        BY <1>1, <3>3, <4>1 DEF To
      <4> QED
        BY <3>2, <4>1, <4>2
    <3> QED
      BY <1>7, <3>1, <3>2, <3>3
  <2> QED
    BY <2>2 DEF Ready
<1> QED
  BY <1>13 DEF k, b, run

\* So are the nodes of a branch that Splice moves, and of one whose leaves are
\* re-opened.
LEMMA SpliceFollows ==
  ASSUME NEW tr, NEW len, NEW e, NEW top, TextTree(tr, len, e, top), NEW x \in len - 1 .. e - 1,
         NEW B \in SUBSET (e .. top - 1), Cardinality(tr[x].row) + Cardinality(B) <= MaxLen
  PROVE  LET new == Splice(tr, tr[x].row, B, len)
             k   == Cardinality(tr[x].row)
         IN  /\ Follows(tr, x, B, new)
             /\ \A s \in B :
                  new[k + Rank(B, s)].st =
                    IF k + Rank(B, s) \in {k, k + 1} THEN PROCESSED ELSE Settled(tr[s].st)
             /\ \A s \in B : tr[s].par \notin B => new[k + Rank(B, s)].par < k
             /\ \A n \in Slots : n < k => new[n] = PathNode(tr, tr[x].row, len, n)
<1> DEFINE R      == tr[x].row
           k      == Cardinality(R)
           b      == Cardinality(B)
           new    == Splice(tr, R, B, len)
           To(s)  == k + Rank(B, s)
           Par(s) == IF tr[s].par \in B THEN To(tr[s].par)
                     ELSE IF tr[s].par \in R /\ tr[s].par >= len THEN Rank(R, tr[s].par) ELSE -1
           St(s)  == IF To(s) \in {k, k + 1} THEN PROCESSED ELSE Settled(tr[s].st)
           Row(s) == (0 .. k) \cup {To(c) : c \in tr[s].row \cap B}
<1>1. /\ R \in SUBSET Int /\ IsFiniteSet(R) /\ k \in Nat /\ MaxLen \in Nat /\ tr \in [Slots -> Nodes]
      /\ e \in Nat /\ top \in Nat /\ top <= MaxLen
  BY TextTreeBounds, PathFacts
<1>2. B \in SUBSET Slots /\ B \in SUBSET Int /\ IsFiniteSet(B) /\ b \in Nat
  <2>1. IsFiniteSet(e .. top - 1)
    BY <1>1, FS_Interval
  <2>2. IsFiniteSet(B)
    BY <2>1, FS_Subset
  <2> QED
    BY <1>1, <2>2, FS_CardinalityType DEF Slots
<1>3. \A n \in Slots :
        new[n] = IF n < k THEN PathNode(tr, R, len, n)
                 ELSE IF n < k + b
                 THEN [tr[Nth(B, n - k)] EXCEPT !.par = Par(Nth(B, n - k)),
                                                !.st  = St(Nth(B, n - k)),
                                                !.row = Row(Nth(B, n - k))]
                 ELSE Blank
  BY DEF Splice
<1> HIDE DEF new, Par, St, Row
<1>4. ASSUME NEW s \in B
      PROVE  new[To(s)] = [tr[s] EXCEPT !.par = Par(s), !.st = St(s), !.row = Row(s)]
  <2> DEFINE r == Rank(B, s)
  <2>1. r \in 0 .. b - 1 /\ Nth(B, r) = s
    BY <1>2, NthOfRank
  <2> HIDE DEF r, k, b
  <2>2. k + r \in Slots /\ ~(k + r < k) /\ k + r < k + b /\ (k + r) - k = r
    BY <1>1, <1>2, <2>1 DEF Slots, k, b
  <2>3. new[k + r] = [tr[s] EXCEPT !.par = Par(s), !.st = St(s), !.row = Row(s)]
    BY <1>3, <2>1, <2>2
  <2> QED
    BY <2>3 DEF r, k
<1>5. ASSUME NEW s \in B
      PROVE  /\ new[To(s)].tok = tr[s].tok /\ new[To(s)].pos = tr[s].pos
             /\ new[To(s)].par = Par(s) /\ new[To(s)].st = St(s) /\ new[To(s)].row = Row(s)
  <2>1. tr[s] \in Nodes
    BY <1>1, <1>2
  <2> HIDE DEF To
  <2> QED
    BY <1>4, <2>1 DEF Nodes
<1>6. \A s \in B : tr[s].par \notin B => Par(s) < k
  <2> TAKE s \in B
  <2>1. ASSUME tr[s].par \notin B
        PROVE  Par(s) < k
    <3>1. CASE tr[s].par \in R /\ tr[s].par >= len
      <4>1. Rank(R, tr[s].par) < k
        BY <1>1, <3>1, RankBounds
      <4> QED
        BY <2>1, <3>1, <4>1 DEF Par
    <3>2. CASE ~(tr[s].par \in R /\ tr[s].par >= len)
      <4>1. Par(s) = -1
        BY <2>1, <3>2 DEF Par
      <4> QED
        BY <1>1, <4>1
    <3> QED
      BY <3>1, <3>2
  <2> QED
    BY <2>1
<1>7. Follows(tr, x, B, new)
  BY <1>5 DEF Follows, Row
<1>8. \A n \in Slots : n < k => new[n] = PathNode(tr, R, len, n)
  BY <1>3
<1> QED
  BY <1>5, <1>6, <1>7, <1>8 DEF new, St

LEMMA ReopenedFollows ==
  ASSUME NEW tr, NEW x, NEW B, NEW new, Follows(tr, x, B, new), NEW len, NEW e2,
         new \in [Slots -> Nodes], \A s \in B : Cardinality(tr[x].row) + Rank(B, s) \in Slots
  PROVE  Follows(tr, x, B, ReopenLeaves(new, len, e2))
<1> DEFINE open == ReopenLeaves(new, len, e2)
<1>1. \A n \in Slots : open[n] = new[n] \/ open[n] = [new[n] EXCEPT !.st = CANDIDATE]
  BY DEF ReopenLeaves
<1> HIDE DEF open
<1>2. \A n \in Slots : open[n].tok = new[n].tok /\ open[n].pos = new[n].pos /\ open[n].row = new[n].row
  <2> TAKE n \in Slots
  <2>1. new[n] \in Nodes
    OBVIOUS
  <2> QED
    BY <1>1, <2>1 DEF Nodes
<1> QED
  BY <1>2 DEF Follows, open

(***************************************************************************)
(* The steps that draft, put alike.                                        *)
(***************************************************************************)

\* Adding nodes to a tree of which only statuses were changed extends it.
Restatuses(tr, run) ==
  /\ run \in [Slots -> Nodes]
  /\ \A n \in Slots : /\ run[n].tok = tr[n].tok /\ run[n].par = tr[n].par
                      /\ run[n].pos = tr[n].pos /\ run[n].row = tr[n].row

Adds(tr, run, new, top, top2, batch, st) ==
  /\ Extended(tr, new, top, top2, batch) /\ top2 \in top .. MaxLen
  /\ \A n \in Slots : n < top \/ n >= top2 => new[n] = run[n]
  /\ \A n \in top .. top2 - 1 : new[n].st = st

LEMMA AddExtends ==
  ASSUME NEW tr, NEW top \in 0 .. MaxLen, IsTree(tr, top), NEW run, Restatuses(tr, run),
         NEW batch \in SUBSET (0 .. top - 1),
         NEW keys \in SUBSET Nat, IsFiniteSet(keys), top + Cardinality(keys) <= MaxLen,
         \A k \in keys : ParentOf(k) \in batch /\ TokenOf(k) \in Tokens, NEW st \in Status
  PROVE  Adds(tr, run, Add(run, top, keys, st), top, top + Cardinality(keys), batch, st)
<1> DEFINE new  == Add(run, top, keys, st)
           top2 == top + Cardinality(keys)
<1>1. /\ top \in Nat /\ Cardinality(keys) \in Nat /\ MaxLen \in Nat /\ top2 \in Nat /\ top2 <= MaxLen
      /\ top2 \in top .. MaxLen
  BY SizesAssumption, FS_CardinalityType
<1>2. \A n \in 0 .. top - 1 : n \in Slots
  BY <1>1 DEF Slots
<1>3. IsTree(run, top)
  <2>1. ASSUME NEW n \in 0 .. top - 1
        PROVE  /\ n \in run[n].row /\ run[n].row \subseteq 0 .. n
               /\ run[n].pos = Cardinality(run[n].row) - 1
               /\ \A j \in run[n].row : run[j].row = run[n].row \cap 0 .. j
    <3>1. /\ n \in tr[n].row /\ tr[n].row \subseteq 0 .. n
          /\ tr[n].pos = Cardinality(tr[n].row) - 1
          /\ \A j \in tr[n].row : tr[j].row = tr[n].row \cap 0 .. j
      BY DEF IsTree
    <3>2. run[n].row = tr[n].row /\ run[n].pos = tr[n].pos
      BY <1>2 DEF Restatuses
    <3>3. \A j \in tr[n].row : j \in 0 .. top - 1
      BY RowIsBefore
    <3>4. \A j \in tr[n].row : run[j].row = tr[j].row
      BY <1>2, <3>3 DEF Restatuses
    <3> QED
      BY <3>1, <3>2, <3>4
  <2> QED
    BY <2>1 DEF IsTree, Restatuses
<1>4. \A k \in keys : ParentOf(k) \in 0 .. top - 1 /\ TokenOf(k) \in Tokens
  OBVIOUS
<1>5. /\ IsTree(new, top2)
      /\ \A n \in Slots \ (top .. top2 - 1) : new[n] = run[n]
      /\ \A n \in top .. top2 - 1 :
           \E k \in keys :
             new[n] = [tok |-> TokenOf(k), par |-> ParentOf(k), pos |-> run[ParentOf(k)].pos + 1,
                       st |-> st, row |-> run[ParentOf(k)].row \cup {n}]
  <2>1. IsTree(new, top2)
    BY <1>1, <1>3, <1>4, AddMakesTree
  <2>2. \A n \in Slots \ (top .. top2 - 1) : new[n] = run[n]
    BY <1>1, <1>3, <1>4, AddMakesTree
  <2>3. \A n \in top .. top2 - 1 :
          \E k \in keys :
             /\ k = Nth(keys, n - top)
             /\ Add(run, top, keys, st)[n] =
                  [tok |-> TokenOf(k), par |-> ParentOf(k), pos |-> run[ParentOf(k)].pos + 1,
                   st |-> st, row |-> run[ParentOf(k)].row \cup {n}]
    BY <1>1, <1>3, <1>4, AddMakesTree
  <2> HIDE DEF top2
  <2>4. ASSUME NEW n \in top .. top2 - 1
        PROVE  \E k \in keys :
                 new[n] = [tok |-> TokenOf(k), par |-> ParentOf(k), pos |-> run[ParentOf(k)].pos + 1,
                           st |-> st, row |-> run[ParentOf(k)].row \cup {n}]
    <3>1. PICK k \in keys :
            Add(run, top, keys, st)[n] =
              [tok |-> TokenOf(k), par |-> ParentOf(k), pos |-> run[ParentOf(k)].pos + 1,
               st |-> st, row |-> run[ParentOf(k)].row \cup {n}]
      BY <2>3
    <3> QED
      BY <3>1
  <2> QED
    BY <2>1, <2>2, <2>4
<1> HIDE DEF new, top2
<1>6. \A n \in Slots : n < top \/ n >= top2 => new[n] = run[n]
  <2> TAKE n \in Slots
  <2>1. n < top \/ n >= top2 => n \notin top .. top2 - 1
    BY <1>1
  <2> QED
    BY <1>5, <2>1
<1>7. ASSUME NEW n \in top .. top2 - 1
      PROVE  new[n].par \in batch /\ new[n].row = tr[new[n].par].row \cup {n} /\ new[n].st = st
  <2>1. PICK k \in keys :
          new[n] = [tok |-> TokenOf(k), par |-> ParentOf(k), pos |-> run[ParentOf(k)].pos + 1,
                    st |-> st, row |-> run[ParentOf(k)].row \cup {n}]
    BY <1>5
  <2>2. new[n].par = ParentOf(k) /\ new[n].row = run[ParentOf(k)].row \cup {n} /\ new[n].st = st
    BY <2>1
  <2>3. ParentOf(k) \in batch /\ ParentOf(k) \in Slots
    BY <1>2
  <2>4. run[ParentOf(k)].row = tr[ParentOf(k)].row
    BY <2>3 DEF Restatuses
  <2> QED
    BY <2>2, <2>3, <2>4
<1>8. \A n \in 0 .. top - 1 : /\ new[n].tok = tr[n].tok /\ new[n].par = tr[n].par
                              /\ new[n].pos = tr[n].pos /\ new[n].row = tr[n].row
  <2> TAKE n \in 0 .. top - 1
  <2>1. n \in Slots /\ n < top
    BY <1>1, <1>2
  <2> QED
    BY <1>6, <2>1 DEF Restatuses
<1>9. Extended(tr, new, top, top2, batch)
  BY <1>1, <1>5, <1>7, <1>8 DEF Extended
<1> QED
  BY <1>1, <1>6, <1>7, <1>9 DEF new, top2, Adds

\* The status of the nodes of a pass changes, nothing else.
Statused(tr, batch, st) ==
  [n \in Slots |-> IF n \in batch THEN [tr[n] EXCEPT !.st = st] ELSE tr[n]]

LEMMA PassRestatuses ==
  ASSUME NEW tr \in [Slots -> Nodes], NEW batch, NEW st \in Status
  PROVE  /\ Restatuses(tr, Statused(tr, batch, st))
         /\ \A n \in Slots : Statused(tr, batch, st)[n].st = IF n \in batch THEN st ELSE tr[n].st
<1> DEFINE run == [n \in Slots |-> IF n \in batch THEN [tr[n] EXCEPT !.st = st] ELSE tr[n]]
<1>1. \A n \in Slots :
        /\ run[n] \in Nodes
        /\ run[n].tok = tr[n].tok /\ run[n].par = tr[n].par
        /\ run[n].pos = tr[n].pos /\ run[n].row = tr[n].row
        /\ run[n].st = IF n \in batch THEN st ELSE tr[n].st
  <2> TAKE n \in Slots
  <2>1. tr[n] \in Nodes
    OBVIOUS
  <2>2. run[n] = IF n \in batch THEN [tr[n] EXCEPT !.st = st] ELSE tr[n]
    OBVIOUS
  <2> HIDE DEF run
  <2> QED
    BY <2>1, <2>2 DEF Nodes
<1>2. run = [n \in Slots |-> run[n]]
  OBVIOUS
<1> HIDE DEF run
<1>3. run \in [Slots -> Nodes]
  BY <1>1, <1>2
<1> QED
  BY <1>1, <1>3 DEF Restatuses, run, Statused

\* A round that adds the children `best' of the candidates `beams'.
Grown(beams, children, best) ==
  LET cached == IF prefill /\ round = 0 THEN PrefilledKV ELSE draftKV
      state  == IF prefill /\ round = 0 THEN DraftPrefilled ELSE draftState
  IN  /\ beams \in Topk(Frontier, cfg.beams) /\ children \in Proposals(beams, cfg.width)
      /\ best \in WithinBudget(children, Drafted, {}, cfg.budget)
      /\ HasRoom(children, Drafted, best, end, cfg.budget)
      /\ draftKV' = DraftForward(cached, state, beams)
      /\ tree' = Add(Marked(tree, beams), end, best, CANDIDATE)
      /\ end' = end + Cardinality(best)
      /\ round' = IF best = {} THEN ceiling ELSE round + 1
      /\ phase' = "grow"

LEMMA GrowRoundGrows ==
  ASSUME GrowRound
  PROVE  phase' = "failed" \/ \E beams, children, best : Grown(beams, children, best)
<1> DEFINE cached == IF prefill /\ round = 0 THEN PrefilledKV ELSE draftKV
           state  == IF prefill /\ round = 0 THEN DraftPrefilled ELSE draftState
<1>1. PICK beams \in Topk(Frontier, cfg.beams) :
        /\ draftKV' = DraftForward(cached, state, beams)
        /\ \E children \in Proposals(beams, cfg.width) :
             \E best \in WithinBudget(children, Drafted, {}, cfg.budget) :
               \/ /\ HasRoom(children, Drafted, best, end, cfg.budget)
                  /\ tree' = Add(Marked(tree, beams), end, best, CANDIDATE)
                  /\ end' = end + Cardinality(best)
                  /\ round' = IF best = {} THEN ceiling ELSE round + 1
                  /\ phase' = phase
               \/ phase' = "failed"
  BY DEF GrowRound, Marked
<1>2. PICK children \in Proposals(beams, cfg.width) :
        \E best \in WithinBudget(children, Drafted, {}, cfg.budget) :
          \/ /\ HasRoom(children, Drafted, best, end, cfg.budget)
             /\ tree' = Add(Marked(tree, beams), end, best, CANDIDATE)
             /\ end' = end + Cardinality(best)
             /\ round' = IF best = {} THEN ceiling ELSE round + 1
             /\ phase' = phase
          \/ phase' = "failed"
  BY <1>1
<1>3. PICK best \in WithinBudget(children, Drafted, {}, cfg.budget) :
        \/ /\ HasRoom(children, Drafted, best, end, cfg.budget)
           /\ tree' = Add(Marked(tree, beams), end, best, CANDIDATE)
           /\ end' = end + Cardinality(best)
           /\ round' = IF best = {} THEN ceiling ELSE round + 1
           /\ phase' = phase
        \/ phase' = "failed"
  BY <1>2
<1>4. phase = "grow"
  BY DEF GrowRound
<1> QED
  BY <1>1, <1>3, <1>4 DEF Grown

\* It extends the tree by candidates.
LEMMA GrownExtends ==
  ASSUME CoreInv, GrowRound, NEW beams, NEW children, NEW best, Grown(beams, children, best)
  PROVE  /\ beams \in SUBSET (prefixLen - 1 .. end - 1) /\ beams \in SUBSET (0 .. end - 1)
         /\ IsFiniteSet(best) /\ Cardinality(best) \in Nat
         /\ end' \in end .. MaxLen /\ Top = end /\ Top' = end' /\ NoScratch(tree')
         /\ Extended(tree, tree', end, end', beams)
         /\ \A n \in end .. end' - 1 : tree'[n].st = CANDIDATE
         /\ UNCHANGED <<cfg, prefixLen, ceiling, spliced, forest, bets, selection, output, goal>>
<1>1. /\ RowTree(tree, prefixLen, end) /\ NoScratch(tree) /\ forest = NoForest
      /\ prefixLen \in Nat /\ end \in Nat /\ MaxLen \in Nat /\ 1 <= prefixLen /\ prefixLen <= end
      /\ end \in 0 .. MaxLen /\ IsTree(tree, end) /\ tree \in [Slots -> Nodes]
      /\ cfg.maxLen \in Nat /\ cfg.maxLen <= MaxLen
  BY CoreTreeFacts, ConfigFacts DEF CoreInv, TreeInv, GrowRound
<1>2. UNCHANGED <<cfg, prefixLen, ceiling, spliced, forest, bets, selection, output, goal>>
  BY DEF GrowRound, betVars
<1>3. /\ beams \in SUBSET WithStatus(tree, CANDIDATE) /\ best \in SUBSET children
      /\ children \in Proposals(beams, cfg.width)
      /\ HasRoom(children, Drafted, best, end, cfg.budget)
      /\ tree' = Add(Marked(tree, beams), end, best, CANDIDATE)
      /\ end' = end + Cardinality(best)
  BY ChosenOnes DEF Frontier, Grown
<1>4. beams \subseteq prefixLen - 1 .. end - 1 /\ beams \in SUBSET Slots
  BY <1>1, <1>3, MarkedRowTree
<1>5. beams \in SUBSET (0 .. end - 1)
  BY <1>1, <1>4
<1>6. /\ best \in SUBSET Nat /\ IsFiniteSet(best)
      /\ \A k \in best : ParentOf(k) \in beams /\ TokenOf(k) \in Tokens
  BY <1>3, <1>4, ProposedKeys
<1>7. Cardinality(best) \in Nat
  BY <1>6, FS_CardinalityType
<1>8. end + Cardinality(best) <= MaxLen
  <2>1. end + Cardinality(best) <= cfg.maxLen
    BY <1>3 DEF HasRoom
  <2> QED
    BY <1>1, <1>7, <2>1
<1>9. CANDIDATE \in Status /\ PROCESSED \in Status
  BY DEF Status
<1>10. Restatuses(tree, Marked(tree, beams))
  <2>1. Restatuses(tree, Statused(tree, beams, PROCESSED))
    BY <1>1, <1>9, PassRestatuses
  <2>2. Marked(tree, beams) = Statused(tree, beams, PROCESSED)
    BY DEF Marked, Statused
  <2> QED
    BY <2>1, <2>2
<1> DEFINE e2 == end + Cardinality(best)
<1>11. /\ Extended(tree, tree', end, e2, beams) /\ e2 \in end .. MaxLen
       /\ \A n \in end .. e2 - 1 : tree'[n].st = CANDIDATE
  <2> DEFINE run == Marked(tree, beams)
             new == Add(run, end, best, CANDIDATE)
  <2>1. Restatuses(tree, run)
    BY <1>10
  <2> HIDE DEF run
  <2>2. Adds(tree, run, new, end, e2, beams, CANDIDATE)
    BY <1>1, <1>5, <1>6, <1>8, <1>9, <2>1, AddExtends
  <2>3. tree' = new
    BY <1>3 DEF run
  <2> HIDE DEF new, e2
  <2> QED
    BY <2>2, <2>3 DEF Adds
<1>12. NoScratch(tree')
  <2> DEFINE new == Add(Marked(tree, beams), end, best, CANDIDATE)
  <2>1. NoScratch(new)
    <3>1. prefixLen > 0
      BY <1>1
    <3> QED
      BY <1>1, <1>3, <1>8, <3>1, GrownDraft
  <2>2. tree' = new
    BY <1>3
  <2> HIDE DEF new
  <2> QED
    BY <2>1, <2>2
<1>13. end' = e2
  BY <1>3
<1>14. Top = end /\ Top' = end'
  BY <1>1, <1>2 DEF Top, NoForest
<1> HIDE DEF e2
<1> QED
  BY <1>2, <1>4, <1>5, <1>6, <1>7, <1>11, <1>12, <1>13, <1>14

\* The first guesses, planted behind the exits.
PlantedAt(exits, guesses) ==
  /\ exits \in IF cfg.strategy = "proactive" THEN ProactiveExits ELSE SaguaroExits
  /\ draftKV' = DraftForward(draftKV, draftState, exits)
  /\ \/ /\ exits = {} /\ phase' = "wait" /\ UNCHANGED <<tree, forest>>
     \/ /\ exits # {} /\ guesses \in Guesses(exits)
        /\ end + Cardinality(guesses) <= cfg.maxLen
        /\ phase' = IF guesses = {} THEN "wait" ELSE "forest"
        /\ tree' = Add(tree, end, guesses, POST_CANDIDATE)
        /\ forest' = [end   |-> end + Cardinality(guesses),
                      roots |-> end .. (end + Cardinality(guesses)) - 1]

LEMMA PredictPlants ==
  ASSUME Predict
  PROVE  phase' = "failed" \/ \E exits, guesses : PlantedAt(exits, guesses)
<1>1. PICK exits \in IF cfg.strategy = "proactive" THEN ProactiveExits ELSE SaguaroExits :
        /\ draftKV' = DraftForward(draftKV, draftState, exits)
        /\ \/ exits = {} /\ phase' = "wait" /\ UNCHANGED <<tree, forest>>
           \/ /\ exits # {}
              /\ \E guesses \in Guesses(exits) :
                   LET newEnd == end + Cardinality(guesses)
                   IN  \/ /\ newEnd <= cfg.maxLen
                          /\ phase' = IF guesses = {} THEN "wait" ELSE "forest"
                          /\ tree' = Add(tree, end, guesses, POST_CANDIDATE)
                          /\ forest' = [end |-> newEnd, roots |-> end .. newEnd - 1]
                       \/ phase' = "failed"
  BY DEF Predict
<1>2. CASE exits = {} /\ phase' = "wait" /\ UNCHANGED <<tree, forest>>
  BY <1>1, <1>2 DEF PlantedAt
<1>3. ASSUME exits # {}, NEW guesses \in Guesses(exits),
             end + Cardinality(guesses) <= cfg.maxLen,
             phase' = IF guesses = {} THEN "wait" ELSE "forest",
             tree' = Add(tree, end, guesses, POST_CANDIDATE),
             forest' = [end   |-> end + Cardinality(guesses),
                        roots |-> end .. (end + Cardinality(guesses)) - 1]
      PROVE  PlantedAt(exits, guesses)
  BY <1>1, <1>3 DEF PlantedAt
<1> QED
  BY <1>1, <1>2, <1>3

LEMMA PlantedExtends ==
  ASSUME CoreInv, Predict, NEW exits, NEW guesses, PlantedAt(exits, guesses)
  PROVE  /\ exits \in SUBSET (0 .. end - 1)
         /\ Top = end /\ Top' \in end .. MaxLen
         /\ Extended(tree, tree', end, Top', exits)
         /\ \A n \in Slots : n < end \/ n >= Top' => tree'[n] = tree[n]
         /\ \A n \in end .. Top' - 1 : tree'[n].st = POST_CANDIDATE
         /\ NoScratch(tree) /\ phase' \in {"wait", "forest"} /\ phase = "predict"
         /\ UNCHANGED <<cfg, prefixLen, end, ceiling, spliced, selection, output, goal>>
<1>1. /\ NoScratch(tree) /\ forest = NoForest /\ TreeInv
      /\ end \in Nat /\ MaxLen \in Nat /\ end \in 0 .. MaxLen /\ end <= MaxLen /\ 1 <= end
      /\ IsTree(tree, end) /\ tree \in [Slots -> Nodes]
      /\ cfg.maxLen \in Nat /\ cfg.maxLen <= MaxLen
      /\ \A n \in 0 .. end - 1 : n \in Slots
  <2>1. TreeInv /\ phase = "predict"
    BY DEF CoreInv, Predict
  <2>2. NoScratch(tree) /\ forest = NoForest /\ cfg \in Configs
    BY <2>1 DEF TreeInv
  <2>3. /\ end \in Nat /\ MaxLen \in Nat /\ end \in 0 .. MaxLen /\ end <= MaxLen /\ 1 <= end
        /\ IsTree(tree, end) /\ tree \in [Slots -> Nodes]
    BY <2>1, CoreTreeFacts
  <2>4. \A n \in 0 .. end - 1 : n \in Slots
    BY <2>3 DEF Slots
  <2> QED
    BY <2>1, <2>2, <2>3, <2>4, ConfigFacts
<1>2. /\ UNCHANGED <<cfg, prefixLen, end, ceiling, spliced, selection, output, goal>>
      /\ phase = "predict"
  BY DEF Predict
<1>3. exits \in SUBSET (0 .. end - 1)
  BY <1>1, ExitsInTree DEF PlantedAt
<1>4. Top = end
  BY <1>1 DEF Top, NoForest
<1>5. CASE exits = {} /\ phase' = "wait" /\ UNCHANGED <<tree, forest>>
  <2>1. Top' = end
    BY <1>1, <1>2, <1>5 DEF Top, NoForest
  <2>2. Extended(tree, tree', end, Top', exits)
    BY <1>1, <1>5, <2>1 DEF Extended
  <2>3. \A n \in end .. Top' - 1 : tree'[n].st = POST_CANDIDATE
    BY <1>1, <2>1
  <2> QED
    BY <1>1, <1>2, <1>3, <1>4, <1>5, <2>1, <2>2, <2>3
<1>6. CASE /\ exits # {} /\ guesses \in Guesses(exits)
           /\ end + Cardinality(guesses) <= cfg.maxLen
           /\ phase' = IF guesses = {} THEN "wait" ELSE "forest"
           /\ tree' = Add(tree, end, guesses, POST_CANDIDATE)
           /\ forest' = [end   |-> end + Cardinality(guesses),
                         roots |-> end .. (end + Cardinality(guesses)) - 1]
  <2>1. exits \in SUBSET Slots /\ guesses \in SUBSET ChildKeys(exits)
    BY <1>1, <1>3, <1>6, GuessesAreChildren
  <2>2. /\ guesses \in SUBSET Nat /\ IsFiniteSet(guesses)
        /\ \A k \in guesses : ParentOf(k) \in exits /\ TokenOf(k) \in Tokens
    BY <2>1, KeysOfChildren
  <2>3. Cardinality(guesses) \in Nat
    BY <2>2, FS_CardinalityType
  <2>4. end + Cardinality(guesses) <= MaxLen
    BY <1>1, <1>6, <2>3
  <2>5. POST_CANDIDATE \in Status
    BY DEF Status
  <2>6. Restatuses(tree, tree)
    BY <1>1 DEF Restatuses
  <2> DEFINE t2  == end + Cardinality(guesses)
             new == Add(tree, end, guesses, POST_CANDIDATE)
  <2>7. /\ Extended(tree, new, end, t2, exits) /\ t2 \in end .. MaxLen
        /\ \A n \in Slots : n < end \/ n >= t2 => new[n] = tree[n]
        /\ \A n \in end .. t2 - 1 : new[n].st = POST_CANDIDATE
    <3>1. Adds(tree, tree, new, end, t2, exits, POST_CANDIDATE)
      BY <1>1, <1>3, <2>2, <2>4, <2>5, <2>6, AddExtends
    <3> HIDE DEF new, t2
    <3> QED
      BY <3>1 DEF Adds
  <2>8. tree' = new /\ forest'.end = t2
    BY <1>6
  <2>9. Top' = t2
    BY <1>1, <2>3, <2>8 DEF Top
  <2>10. phase' \in {"wait", "forest"}
    BY <1>6
  <2> HIDE DEF new, t2
  <2> QED
    BY <1>1, <1>2, <1>3, <1>4, <2>7, <2>8, <2>9, <2>10
<1> QED
  BY <1>5, <1>6 DEF PlantedAt

\* A round that adds the children `best' of the forest's candidates `beams'.
ForestGrown(beams, children, best) ==
  /\ beams \in Topk(WithStatus(tree, POST_CANDIDATE), cfg.pBeams)
  /\ children \in Proposals(beams, cfg.pWidth)
  /\ best \in WithinBudget(children, Planted, forest.roots, ForestBudget)
  /\ HasRoom(children, Planted, best, forest.end, ForestBudget)
  /\ draftKV' = DraftForward(draftKV, draftState, beams)
  /\ tree' = Add(Statused(tree, beams, POST_PROCESSED), forest.end, best, POST_CANDIDATE)
  /\ forest' = [forest EXCEPT !.end = @ + Cardinality(best)]
  /\ phase' = "forest"

LEMMA ForestRoundGrows ==
  ASSUME ForestRound
  PROVE  phase' = "failed" \/ \E beams, children, best : ForestGrown(beams, children, best)
<1>1. PICK beams \in Topk(WithStatus(tree, POST_CANDIDATE), cfg.pBeams) :
        /\ draftKV' = DraftForward(draftKV, draftState, beams)
        /\ \E children \in Proposals(beams, cfg.pWidth) :
             \E best \in WithinBudget(children, Planted, forest.roots, ForestBudget) :
               \/ /\ HasRoom(children, Planted, best, forest.end, ForestBudget)
                  /\ tree' = Add(Statused(tree, beams, POST_PROCESSED), forest.end, best,
                                 POST_CANDIDATE)
                  /\ forest' = [forest EXCEPT !.end = @ + Cardinality(best)]
                  /\ phase' = phase
               \/ phase' = "failed"
  BY DEF ForestRound, Statused
<1>2. PICK children \in Proposals(beams, cfg.pWidth) :
        \E best \in WithinBudget(children, Planted, forest.roots, ForestBudget) :
          \/ /\ HasRoom(children, Planted, best, forest.end, ForestBudget)
             /\ tree' = Add(Statused(tree, beams, POST_PROCESSED), forest.end, best, POST_CANDIDATE)
             /\ forest' = [forest EXCEPT !.end = @ + Cardinality(best)]
             /\ phase' = phase
          \/ phase' = "failed"
  BY <1>1
<1>3. PICK best \in WithinBudget(children, Planted, forest.roots, ForestBudget) :
        \/ /\ HasRoom(children, Planted, best, forest.end, ForestBudget)
           /\ tree' = Add(Statused(tree, beams, POST_PROCESSED), forest.end, best, POST_CANDIDATE)
           /\ forest' = [forest EXCEPT !.end = @ + Cardinality(best)]
           /\ phase' = phase
        \/ phase' = "failed"
  BY <1>2
<1>4. phase = "forest"
  BY DEF ForestRound
<1> QED
  BY <1>1, <1>3, <1>4 DEF ForestGrown

LEMMA ForestExtends ==
  ASSUME CoreInv, ForestRound, NEW beams, NEW children, NEW best,
         ForestGrown(beams, children, best)
  PROVE  /\ beams \in SUBSET (end .. Top - 1) /\ beams \in SUBSET (0 .. Top - 1)
         /\ \A n \in Slots : tree[n].st = POST_CANDIDATE => n \in end .. Top - 1
         /\ Top' \in Top .. MaxLen /\ forest'.end = Top' /\ forest'.end # 0
         /\ Extended(tree, tree', Top, Top', beams)
         /\ \A n \in Slots : n < Top \/ n >= Top' =>
              /\ tree'[n].par = tree[n].par
              /\ tree'[n].st = IF n \in beams THEN POST_PROCESSED ELSE tree[n].st
         /\ \A n \in Top .. Top' - 1 : tree'[n].st = POST_CANDIDATE
         /\ UNCHANGED <<cfg, prefixLen, end, ceiling, spliced, bets, selection, output, goal>>
<1>1. /\ phase = "forest" /\ TreeInv /\ forest.end # 0 /\ Top = forest.end
      /\ \A n \in Slots : tree[n].st = POST_CANDIDATE => n \in end .. Top - 1
      /\ forest \in [end : 0 .. MaxLen, roots : SUBSET Slots]
      /\ end \in Nat /\ MaxLen \in Nat /\ Top \in Nat /\ Top \in 0 .. MaxLen /\ end <= Top /\ Top <= MaxLen
      /\ IsTree(tree, Top) /\ tree \in [Slots -> Nodes]
      /\ cfg.maxLen \in Nat /\ cfg.maxLen <= MaxLen
  BY CoreTreeFacts, TextTreeBounds, ConfigFacts DEF CoreInv, TreeInv, ForestRound, Top, Planted
<1>2. UNCHANGED <<cfg, prefixLen, end, ceiling, spliced, bets, selection, output, goal>>
  BY DEF ForestRound
<1>3. /\ beams \in SUBSET WithStatus(tree, POST_CANDIDATE) /\ best \in SUBSET children
      /\ children \in Proposals(beams, cfg.pWidth)
      /\ HasRoom(children, Planted, best, forest.end, ForestBudget)
      /\ tree' = Add(Statused(tree, beams, POST_PROCESSED), Top, best, POST_CANDIDATE)
      /\ forest' = [forest EXCEPT !.end = Top + Cardinality(best)]
  BY <1>1, ChosenOnes DEF ForestGrown
<1>4. beams \in SUBSET Slots /\ beams \in SUBSET (end .. Top - 1)
  BY <1>1, <1>3 DEF WithStatus
<1>5. beams \in SUBSET (0 .. Top - 1)
  BY <1>1, <1>4
<1>6. /\ best \in SUBSET Nat /\ IsFiniteSet(best)
      /\ \A k \in best : ParentOf(k) \in beams /\ TokenOf(k) \in Tokens
  BY <1>3, <1>4, ProposedKeys
<1>7. Cardinality(best) \in Nat
  BY <1>6, FS_CardinalityType
<1>8. Top + Cardinality(best) <= MaxLen
  <2>1. Top + Cardinality(best) <= cfg.maxLen
    BY <1>1, <1>3 DEF HasRoom
  <2> QED
    BY <1>1, <1>7, <2>1
<1>9. POST_CANDIDATE \in Status /\ POST_PROCESSED \in Status
  BY DEF Status
<1> DEFINE run == Statused(tree, beams, POST_PROCESSED)
           t2  == Top + Cardinality(best)
           new == Add(run, Top, best, POST_CANDIDATE)
<1>10. /\ Restatuses(tree, run)
       /\ \A n \in Slots : run[n].st = IF n \in beams THEN POST_PROCESSED ELSE tree[n].st
  BY <1>1, <1>9, PassRestatuses
<1> HIDE DEF run
<1>11. Adds(tree, run, new, Top, t2, beams, POST_CANDIDATE)
  BY <1>1, <1>5, <1>6, <1>8, <1>9, <1>10, AddExtends
<1>12. tree' = new
  BY <1>3 DEF run
<1>13. forest'.end = t2 /\ t2 # 0 /\ t2 \in Top .. MaxLen
  BY <1>1, <1>3, <1>7, <1>8
<1> HIDE DEF t2, new
<1>14. Top' = t2
  BY <1>13 DEF Top
<1>15. \A n \in Slots : n < Top \/ n >= t2 =>
         /\ new[n].par = tree[n].par
         /\ new[n].st = IF n \in beams THEN POST_PROCESSED ELSE tree[n].st
  <2> TAKE n \in Slots
  <2>1. n < Top \/ n >= t2 => new[n] = run[n]
    BY <1>11 DEF Adds
  <2> QED
    BY <1>10, <2>1 DEF Restatuses
<1>16. Extended(tree, new, Top, t2, beams) /\ \A n \in Top .. t2 - 1 : new[n].st = POST_CANDIDATE
  BY <1>11 DEF Adds
<1> QED
  BY <1>1, <1>2, <1>4, <1>5, <1>12, <1>13, <1>14, <1>15, <1>16

(***************************************************************************)
(* What was never run: the frontier of the forest, and what is behind it.  *)
(***************************************************************************)

ScratchInv ==
  phase # "failed" =>
    /\ \A n \in Slots : n >= Top => draftKV[n] = NoKV
    /\ \A n \in end .. Top - 1 : /\ tree[n].st \in {POST_CANDIDATE, POST_PROCESSED}
                                 /\ tree[tree[n].par].st # POST_CANDIDATE
    /\ \A n \in Slots :
         tree[n].st = POST_CANDIDATE => n \in end .. Top - 1 /\ draftKV[n] = NoKV

LEMMA NothingBehind ==
  ASSUME NEW e \in Nat
  PROVE  \A n \in e .. e - 1 : FALSE
OBVIOUS

\* A pass writes the slots of its own nodes only.
LEMMA PassWrites ==
  ASSUME NEW kv, NEW state, NEW batch, NEW n \in Slots, n \notin batch
  PROVE  DraftForward(kv, state, batch)[n] = kv[n]
<1>1. ForwardKV(tree, kv, batch)[n] = kv[n]
  BY DEF ForwardKV
<1>2. HybridForwardKV(tree, kv, state, batch)[n] = ForwardKV(tree, kv, batch)[n]
  BY DEF HybridForwardKV
<1> QED
  BY <1>1, <1>2 DEF DraftForward

LEMMA ScratchGrowRound ==
  ASSUME CoreInv, ServerInv, ScratchInv, GrowRound
  PROVE  ScratchInv'
<1>1. CASE phase' = "failed"
  BY <1>1 DEF ScratchInv
<1>2. ASSUME NEW beams, NEW children, NEW best, Grown(beams, children, best)
      PROVE  ScratchInv'
  <2>1. /\ beams \in SUBSET (0 .. end - 1) /\ end' \in end .. MaxLen /\ Top = end /\ Top' = end'
        /\ NoScratch(tree')
    BY <1>2, GrownExtends
  <2>2. /\ end \in Nat /\ MaxLen \in Nat /\ prefixLen <= end /\ prefixLen \in Nat
        /\ Len(output) = prefixLen /\ phase = "grow" /\ Len(Prompt) \in Nat
    BY CoreTreeFacts, PromptAssumption DEF CoreInv, TextInv, GrowRound
  <2> DEFINE cached == IF prefill /\ round = 0 THEN PrefilledKV ELSE draftKV
             state  == IF prefill /\ round = 0 THEN DraftPrefilled ELSE draftState
  <2>3. draftKV' = DraftForward(cached, state, beams)
    BY <1>2 DEF Grown
  <2>4. ASSUME NEW n \in Slots, n >= Top'
        PROVE  draftKV'[n] = NoKV
    <3>1. n \in Nat /\ n >= end /\ n \notin beams
      BY <2>1, <2>2, <2>4, SizesAssumption DEF Slots
    <3>2. draftKV[n] = NoKV
      BY <2>1, <2>2, <3>1 DEF ScratchInv
    <3>3. PrefilledKV[n] = NoKV
      <4>1. Len(output) >= Len(Prompt)
        BY DEF ServerInv, OutputInv
      <4>2. ~(n < Len(Prompt) - 1)
        BY <2>2, <3>1, <4>1
      <4> QED
        BY <4>2 DEF PrefilledKV
    <3>4. cached[n] = NoKV
      BY <3>2, <3>3
    <3> HIDE DEF cached, state
    <3>5. DraftForward(cached, state, beams)[n] = cached[n]
      BY <3>1, PassWrites
    <3> QED
      BY <2>3, <3>4, <3>5
  <2>5. \A n \in end' .. Top' - 1 : FALSE
    <3>1. end' \in Nat
      BY <2>1, <2>2
    <3>2. \A n \in end' .. end' - 1 : FALSE
      BY <3>1, NothingBehind
    <3> QED
      BY <2>1, <3>2
  <2> QED
    BY <2>1, <2>4, <2>5 DEF ScratchInv, NoScratch
<1> QED
  BY <1>1, <1>2, GrowRoundGrows

LEMMA ScratchSubmit ==
  ASSUME CoreInv, ScratchInv, Submit
  PROVE  ScratchInv'
<1>1. /\ NoScratch(tree') /\ Top = end /\ Top' = end' /\ phase = "grow"
      /\ end \in Nat /\ prefixLen \in Nat /\ cfg.budget \in Nat /\ MaxLen \in Nat
  <2>1. CoreInv'
    BY CoreSubmit
  <2>2. forest = NoForest /\ phase = "grow" /\ phase' \in {"wait", "predict"} /\ UNCHANGED forest
    BY DEF CoreInv, TreeInv, Submit, betVars
  <2>3. NoScratch(tree')
    <3>1. CASE UNCHANGED treeVars
      <4>1. NoScratch(tree)
        BY <2>2 DEF CoreInv, TreeInv
      <4> QED
        BY <3>1, <4>1 DEF treeVars
    <3>2. CASE ~UNCHANGED treeVars
      <4>1. PICK kept \in {K \in kSubset(cfg.budget, Drafted) : Closed(K)} :
              \E lowest \in {n \in kept : \A m \in kept \ {n} : n \notin tree[m].row} :
                tree' = GatherTree(tree, kept, TopkOrder(kept, lowest, prefixLen),
                                   prefixLen + cfg.budget)
        BY <3>2 DEF Submit, TrimOrder
      <4>2. PICK lowest \in {n \in kept : \A m \in kept \ {n} : n \notin tree[m].row} :
              tree' = GatherTree(tree, kept, TopkOrder(kept, lowest, prefixLen),
                                 prefixLen + cfg.budget)
        BY <4>1
      <4>3. /\ kept \in SUBSET Drafted /\ Cardinality(kept) = cfg.budget
            /\ \A s \in kept : tree[s].row \cap Drafted \subseteq kept
            /\ lowest \in kept /\ \A m \in kept \ {lowest} : lowest \notin tree[m].row
        BY DEF kSubset, Closed
      <4>4. Trimmable(tree, prefixLen, end, kept, lowest)
        BY <4>3 DEF Trimmable, Drafted
      <4> DEFINE new == GatherTree(tree, kept, TopkOrder(kept, lowest, prefixLen),
                                   prefixLen + Cardinality(kept))
      <4>5. NoScratch(new)
        <5>1. prefixLen > 0 /\ RowTree(tree, prefixLen, end) /\ NoScratch(tree)
          BY <2>2, CoreTreeFacts DEF CoreInv, TreeInv
        <5> QED
          BY <4>4, <5>1, TrimmedTextTree
      <4>6. tree' = new
        BY <4>2, <4>3
      <4> HIDE DEF new
      <4> QED
        BY <4>5, <4>6
    <3> QED
      BY <3>1, <3>2
  <2>4. cfg \in Configs
    BY DEF CoreInv, TreeInv
  <2> QED
    BY <2>2, <2>3, <2>4, CoreTreeFacts, ConfigFacts DEF CoreInv, Top, NoForest
<1>2. end' \in Nat /\ \A n \in Slots : n >= end' => draftKV'[n] = NoKV
  <2>1. CASE UNCHANGED <<treeVars, draftKV>>
    BY <1>1, <2>1 DEF ScratchInv, treeVars
  <2>2. CASE ~UNCHANGED <<treeVars, draftKV>>
    <3>1. PICK kept \in {K \in kSubset(cfg.budget, Drafted) : Closed(K)} :
            \E lowest \in {n \in kept : \A m \in kept \ {n} : n \notin tree[m].row} :
              /\ draftKV' = MoveKV(draftKV, kept, TopkOrder(kept, lowest, prefixLen),
                                   prefixLen + cfg.budget)
              /\ end' = prefixLen + cfg.budget
      BY <2>2 DEF Submit, TrimOrder
    <3>2. PICK lowest \in kept :
            /\ \A m \in kept \ {lowest} : lowest \notin tree[m].row
            /\ draftKV' = MoveKV(draftKV, kept, TopkOrder(kept, lowest, prefixLen),
                                 prefixLen + cfg.budget)
            /\ end' = prefixLen + cfg.budget
      BY <3>1
    <3>3. /\ kept \in SUBSET (prefixLen .. end - 1) /\ Cardinality(kept) = cfg.budget
          /\ \A s \in kept : tree[s].row \cap prefixLen .. end - 1 \subseteq kept
      BY DEF kSubset, Closed, Drafted
    <3> DEFINE dest == TopkOrder(kept, lowest, prefixLen)
    <3>4. Places(tree, kept, dest, prefixLen)
      <4>1. IsTree(tree, end) /\ end \in 0 .. MaxLen /\ prefixLen \in 0 .. end
        BY CoreTreeFacts DEF CoreInv
      <4> QED
        BY <3>2, <3>3, <4>1, TopkPlaces
    <3> HIDE DEF dest
    <3>5. \A s \in kept : dest[s] \in prefixLen .. end' - 1
      BY <3>2, <3>3, <3>4 DEF Places
    <3>6. end' \in Nat
      BY <1>1, <3>2
    <3>7. \A n \in Slots : draftKV'[n] = IF \E s \in kept : dest[s] = n
                                         THEN draftKV[CHOOSE s \in kept : dest[s] = n]
                                         ELSE IF n < end' THEN draftKV[n] ELSE NoKV
      BY <3>2 DEF MoveKV, dest
    <3>8. ASSUME NEW n \in Slots, n >= end'
          PROVE  draftKV'[n] = NoKV
      <4>1. ~(n < end') /\ ~\E s \in kept : dest[s] = n
        BY <1>1, <3>5, <3>6, <3>8, SizesAssumption DEF Slots
      <4> QED
        BY <3>7, <4>1
    <3> QED
      BY <3>6, <3>8
  <2> QED
    BY <2>1, <2>2
<1>3. \A n \in end' .. Top' - 1 : FALSE
  <2>1. \A n \in end' .. end' - 1 : FALSE
    BY <1>2, NothingBehind
  <2> QED
    BY <1>1, <2>1
<1> QED
  BY <1>1, <1>2, <1>3 DEF ScratchInv, NoScratch

LEMMA ScratchPredict ==
  ASSUME CoreInv, ScratchInv, Predict
  PROVE  ScratchInv'
<1>1. CASE phase' = "failed"
  BY <1>1 DEF ScratchInv
<1>2. ASSUME NEW exits, NEW guesses, PlantedAt(exits, guesses)
      PROVE  ScratchInv'
  <2> DEFINE t2 == Top'
  <2>1. /\ exits \in SUBSET (0 .. end - 1) /\ Top = end /\ t2 \in end .. MaxLen
        /\ Extended(tree, tree', end, t2, exits)
        /\ \A n \in Slots : n < end \/ n >= t2 => tree'[n] = tree[n]
        /\ \A n \in end .. t2 - 1 : tree'[n].st = POST_CANDIDATE
        /\ NoScratch(tree) /\ phase = "predict" /\ end' = end
    <3>1. /\ exits \in SUBSET (0 .. end - 1) /\ Top = end /\ t2 \in end .. MaxLen
          /\ Extended(tree, tree', end, t2, exits)
          /\ NoScratch(tree) /\ phase = "predict" /\ end' = end
      BY <1>2, PlantedExtends
    <3>2. \A n \in Slots : n < end \/ n >= t2 => tree'[n] = tree[n]
      BY <1>2, PlantedExtends
    <3>3. \A n \in end .. t2 - 1 : tree'[n].st = POST_CANDIDATE
      BY <1>2, PlantedExtends
    <3> QED
      BY <3>1, <3>2, <3>3
  <2>2. draftKV' = DraftForward(draftKV, draftState, exits)
    BY <1>2 DEF PlantedAt
  <2>3. /\ end \in Nat /\ MaxLen \in Nat /\ t2 \in Nat /\ end <= t2 /\ t2 <= MaxLen
        /\ \A n \in 0 .. end - 1 : n \in Slots
    BY <2>1, CoreTreeFacts DEF CoreInv
  <2>e. \A n \in exits : n \in Slots /\ n < end
    BY <2>1, <2>3
  <2>4. Top' = t2
    OBVIOUS
  <2> HIDE DEF t2
  <2>5. ASSUME NEW n \in Slots, n >= end
        PROVE  draftKV'[n] = NoKV
    <3>1. n \notin exits
      <4>1. ~(n < end)
        BY <2>3, <2>5 DEF Slots
      <4> QED
        BY <2>e, <4>1
    <3>2. draftKV[n] = NoKV
      BY <2>1, <2>5 DEF ScratchInv
    <3> QED
      BY <2>2, <3>1, <3>2, PassWrites
  <2>6. \A n \in Slots : n >= t2 => draftKV'[n] = NoKV
    BY <2>3, <2>5 DEF Slots
  <2>7. ASSUME NEW n \in end .. t2 - 1
        PROVE  tree'[tree'[n].par].st # POST_CANDIDATE
    <3>1. tree'[n].par \in exits
      BY <2>1 DEF Extended
    <3>2. tree'[n].par \in Slots /\ tree'[n].par < end
      BY <2>e, <3>1
    <3> QED
      BY <2>1, <3>2 DEF NoScratch
  <2>8. ASSUME NEW n \in Slots, tree'[n].st = POST_CANDIDATE
        PROVE  n \in end .. t2 - 1 /\ draftKV'[n] = NoKV
    <3>1. ~(n < end \/ n >= t2)
      BY <2>1, <2>8 DEF NoScratch
    <3> QED
      BY <2>3, <2>5, <3>1 DEF Slots
  <2> QED
    BY <2>1, <2>4, <2>6, <2>7, <2>8 DEF ScratchInv
<1> QED
  BY <1>1, <1>2, PredictPlants

LEMMA ScratchForestRound ==
  ASSUME CoreInv, ScratchInv, ForestRound
  PROVE  ScratchInv'
<1>1. CASE phase' = "failed"
  BY <1>1 DEF ScratchInv
<1>2. ASSUME NEW beams, NEW children, NEW best, ForestGrown(beams, children, best)
      PROVE  ScratchInv'
  <2> DEFINE t2 == Top'
  <2>1. /\ beams \in SUBSET (end .. Top - 1)
        /\ \A n \in Slots : tree[n].st = POST_CANDIDATE => n \in end .. Top - 1
        /\ t2 \in Top .. MaxLen /\ Extended(tree, tree', Top, t2, beams)
        /\ \A n \in Slots : n < Top \/ n >= t2 =>
             /\ tree'[n].par = tree[n].par
             /\ tree'[n].st = IF n \in beams THEN POST_PROCESSED ELSE tree[n].st
        /\ \A n \in Top .. t2 - 1 : tree'[n].st = POST_CANDIDATE
        /\ end' = end
    BY <1>2, ForestExtends
  <2>2. draftKV' = DraftForward(draftKV, draftState, beams)
    BY <1>2 DEF ForestGrown
  <2>3. /\ end \in Nat /\ MaxLen \in Nat /\ t2 \in Nat /\ Top \in Nat /\ end <= Top /\ Top <= t2
        /\ t2 <= MaxLen /\ \A n \in 0 .. Top - 1 : n \in Slots
    BY <2>1, CoreTreeFacts DEF CoreInv
  <2>b. \A n \in beams : n \in 0 .. Top - 1 /\ n < Top
    BY <2>1, <2>3
  <2>4. Top' = t2 /\ phase = "forest"
    BY DEF ForestRound
  <2> HIDE DEF t2
  <2>5. ASSUME NEW n \in Slots, n \notin beams
        PROVE  draftKV'[n] = draftKV[n]
    BY <2>2, <2>5, PassWrites
  <2>6. ASSUME NEW n \in Slots, n >= Top
        PROVE  draftKV'[n] = NoKV
    <3>1. n \notin beams
      <4>1. ~(n < Top)
        BY <2>3, <2>6 DEF Slots
      <4> QED
        BY <2>b, <4>1
    <3>2. draftKV[n] = NoKV
      BY <2>4, <2>6 DEF ScratchInv
    <3> QED
      BY <2>5, <3>1, <3>2
  <2>7. \A n \in Slots : n >= t2 => draftKV'[n] = NoKV
    BY <2>3, <2>6 DEF Slots
  <2>8. ASSUME NEW n \in 0 .. Top - 1, n \in beams \/ tree[n].st # POST_CANDIDATE
        PROVE  tree'[n].st # POST_CANDIDATE
    <3>1. n \in Slots /\ n < Top
      BY <2>3
    <3>2. POST_PROCESSED # POST_CANDIDATE
      BY DEF POST_PROCESSED, POST_CANDIDATE
    <3> QED
      BY <2>1, <2>8, <3>1, <3>2
  <2>9. ASSUME NEW n \in end .. t2 - 1
        PROVE  /\ tree'[n].st \in {POST_CANDIDATE, POST_PROCESSED}
               /\ tree'[tree'[n].par].st # POST_CANDIDATE
    <3>1. CASE n >= Top
      <4>1. n \in Top .. t2 - 1
        BY <2>3, <3>1
      <4>2. tree'[n].par \in beams
        BY <4>1, <2>1 DEF Extended
      <4>3. tree'[n].par \in 0 .. Top - 1
        BY <2>b, <4>2
      <4> QED
        BY <2>1, <2>8, <4>1, <4>2, <4>3
    <3>2. CASE n < Top
      <4>1. n \in end .. Top - 1 /\ n \in Slots
        BY <2>3, <3>2
      <4>2. tree'[n].par = tree[n].par
        BY <2>1, <3>2, <4>1
      <4>3. tree'[n].st \in {POST_CANDIDATE, POST_PROCESSED}
        BY <2>1, <2>4, <3>2, <4>1 DEF ScratchInv
      <4>4. tree[n].par \in 0 .. Top - 1
        <5>1. tree[n].par \in 0 .. n - 1
          BY <4>1 DEF CoreInv, TreeInv, TextTree
        <5> QED
          BY <2>3, <4>1, <5>1
      <4>5. tree[tree[n].par].st # POST_CANDIDATE
        BY <2>4, <4>1 DEF ScratchInv
      <4> QED
        BY <2>8, <4>2, <4>3, <4>4, <4>5
    <3> QED
      BY <2>3, <3>1, <3>2
  <2>10. ASSUME NEW n \in Slots, tree'[n].st = POST_CANDIDATE
         PROVE  n \in end .. t2 - 1 /\ draftKV'[n] = NoKV
    <3>1. CASE n < Top \/ n >= t2
      <4>1. POST_PROCESSED # POST_CANDIDATE
        BY DEF POST_PROCESSED, POST_CANDIDATE
      <4>2. n \notin beams /\ tree[n].st = POST_CANDIDATE
        BY <2>1, <2>10, <3>1, <4>1
      <4>3. n \in end .. Top - 1 /\ draftKV[n] = NoKV
        BY <2>4, <4>2 DEF ScratchInv
      <4> QED
        BY <2>3, <2>5, <4>2, <4>3
    <3>2. CASE ~(n < Top \/ n >= t2)
      BY <2>3, <2>6, <3>2 DEF Slots
    <3> QED
      BY <3>1, <3>2
  <2> QED
    BY <2>1, <2>4, <2>7, <2>9, <2>10 DEF ScratchInv
<1> QED
  BY <1>1, <1>2, ForestRoundGrows

(***************************************************************************)
(* The end of a cycle, put alike.                                          *)
(***************************************************************************)

PlainOn(x) ==
  LET k == Cardinality(tree[x].row)
  IN  /\ tree' = AppendBonus(ReorderBySequence(tree, tree[x].row, prefixLen), k, Bonus)
      /\ end' = k + 1 /\ k < MaxLen
      /\ draftKV' = GatherKV(draftKV, tree[x].row) /\ spliced' = FALSE

SplicedOn(x, root, B) ==
  LET k      == Cardinality(tree[x].row)
      newEnd == k + Cardinality(B)
      joined == Splice(tree, tree[x].row, B, prefixLen)
      open   == \E n \in B : tree[n].st = POST_CANDIDATE
  IN  /\ IsBranch(tree, end, Top, x, root, B)
      /\ tree' = IF cfg.strategy = "saguaro" /\ ~open THEN ReopenLeaves(joined, k + 1, newEnd)
                 ELSE joined
      /\ end' = newEnd
      /\ draftKV' = GatherKV(draftKV, tree[x].row \cup B) /\ spliced' = TRUE

LEMMA ReconcileOutcome ==
  ASSUME CoreInv, Reconcile
  PROVE  /\ \E x \in Submitted : Taken(x) /\ (PlainOn(x) \/ \E root, B : SplicedOn(x, root, B))
         /\ UNCHANGED <<cfg, round, ceiling>> /\ selection' = NoSelection /\ goal' # 0
         /\ forest' = NoForest /\ Top' = end' /\ phase = "wait" /\ phase' \in {"draft", "done"}
<1>1. PICK x \in Submitted : Taken(x)
  BY ReconcileTakes
<1>2. /\ Path = tree[x].row /\ Exit = x /\ selection # NoSelection /\ phase = "wait"
      /\ TreeInv /\ Reconciled /\ selection' = NoSelection /\ UNCHANGED <<cfg, round, ceiling>>
  BY <1>1 DEF CoreInv, Taken, Reconcile, growVars
<1>3. /\ end \in Nat /\ end <= Top /\ Top \in Nat /\ MaxLen \in Nat
      /\ cfg.maxLen \in Nat /\ cfg.maxLen <= MaxLen
      /\ TextTree(tree, prefixLen, end, Top) /\ x \in prefixLen - 1 .. end - 1
  BY <1>2, CoreTreeFacts, ConfigFacts DEF Submitted, TreeInv
<1>4. Cardinality(tree[x].row) \in Nat
  BY <1>3, PathFacts
<1>5. ASSUME MayReorder, PlainReorder(Path, Bonus)
      PROVE  PlainOn(x)
  <2>1. Cardinality(tree[x].row) < MaxLen
    BY <1>2, <1>3, <1>4, <1>5 DEF MayReorder
  <2> QED
    BY <1>2, <1>5, <2>1 DEF PlainReorder, PlainOn
<1>6. ASSUME \E bet \in Hits : SpliceBet(Path, bet)
      PROVE  \E root, B : SplicedOn(x, root, B)
  <2>1. PICK bet \in Hits : SpliceBet(Path, bet)
    BY <1>6
  <2>2. bet \in bets /\ bet.exit = x
    BY <1>2 DEF Hits
  <2>3. PICK root \in forest.roots : bet = Bet(root)
    BY <1>2, <2>2 DEF TreeInv
  <2>4. /\ tree[root].par = x /\ bet.branch = Branch(root)
        /\ bet.frontier = \E n \in Branch(root) : tree[n].st = POST_CANDIDATE
    BY <2>2, <2>3 DEF Bet
  <2>5. forest.end # 0 /\ Top = forest.end /\ forest.roots \subseteq end .. Top - 1
    <3>1. forest.roots \subseteq end .. Top - 1
      BY <1>2 DEF TreeInv
    <3>2. Top # end
      BY <1>3, <3>1
    <3> QED
      BY <3>1, <3>2 DEF Top
  <2> DEFINE B == BranchOf(tree, end, Top, forest.roots, root)
  <2>6. Branch(root) = B
    BY <2>5 DEF Branch, Planted, BranchOf
  <2>7. IsBranch(tree, end, Top, x, root, B)
    BY <1>3, <2>4, <2>5, BranchFacts
  <2> HIDE DEF B
  <2>8. SplicedOn(x, root, B)
    BY <1>2, <2>1, <2>4, <2>6, <2>7 DEF SpliceBet, SplicedOn
  <2> QED
    BY <2>8
<1>7. PlainOn(x) \/ \E root, B : SplicedOn(x, root, B)
  BY <1>2, <1>5, <1>6 DEF Reconciled
<1>8. goal' # 0
  BY DraftCompaction
<1>9. forest' = NoForest /\ phase' \in {"draft", "done"} /\ Top' = end'
  BY <1>2 DEF Reconciled, Advance, Top, NoForest
<1> QED
  BY <1>1, <1>2, <1>7, <1>8, <1>9

LEMMA ScratchReconcile ==
  ASSUME CoreInv, ScratchInv, Reconcile
  PROVE  ScratchInv'
<1>1. PICK x \in Submitted : Taken(x) /\ (PlainOn(x) \/ \E root, B : SplicedOn(x, root, B))
  BY ReconcileOutcome
<1>2. forest' = NoForest /\ Top' = end'
  BY ReconcileOutcome
<1>3. /\ TextTree(tree, prefixLen, end, Top) /\ x \in prefixLen - 1 .. end - 1
      /\ end \in Nat /\ Top \in Nat /\ Top <= MaxLen /\ MaxLen \in Nat
  BY CoreTreeFacts DEF CoreInv, Submitted
<1>4. NoScratch(tree')
  BY <1>1 DEF Taken, TakesPath
<1> DEFINE R == tree[x].row
           k == Cardinality(R)
<1>5. k \in Nat /\ R \in SUBSET Slots /\ R \subseteq 0 .. x /\ x \in Nat
  BY <1>3, PathFacts
<1>6. end' \in Nat /\ \A n \in Slots : n >= end' => draftKV'[n] = NoKV
  <2>1. CASE PlainOn(x)
    <3>1. draftKV' = GatherKV(draftKV, R) /\ end' = k + 1
      BY <2>1 DEF PlainOn
    <3> HIDE DEF R
    <3>2. ASSUME NEW n \in Slots, n >= end'
          PROVE  draftKV'[n] = NoKV
      <4>1. ~(n < Cardinality(R))
        BY <1>5, <3>1, <3>2, SizesAssumption DEF Slots
      <4> QED
        BY <3>1, <4>1 DEF GatherKV
    <3> QED
      BY <1>5, <3>1, <3>2
  <2>2. ASSUME NEW root, NEW B, SplicedOn(x, root, B)
        PROVE  end' \in Nat /\ \A n \in Slots : n >= end' => draftKV'[n] = NoKV
    <3>1. /\ draftKV' = GatherKV(draftKV, R \cup B) /\ end' = k + Cardinality(B)
          /\ IsBranch(tree, end, Top, x, root, B)
      BY <2>2 DEF SplicedOn
    <3>2. B \in SUBSET (end .. Top - 1)
      BY <3>1 DEF IsBranch
    <3>3. B \in SUBSET Slots
      BY <1>3, <3>2 DEF Slots
    <3>o. ASSUME NEW a \in R, NEW b \in B
          PROVE  a < b
      <4>1. a \in 0 .. x /\ b \in end .. Top - 1
        BY <1>5, <3>2
      <4> QED
        BY <1>3, <1>5, <4>1
    <3>4. Compacted(draftKV, R, B, draftKV')
      BY <1>5, <3>1, <3>3, <3>o, CompactedKV
    <3> HIDE DEF R
    <3>5. Cardinality(B) \in Nat /\ \A n \in Slots : n >= k + Cardinality(B) => draftKV'[n] = NoKV
      BY <3>4 DEF Compacted
    <3> QED
      BY <1>5, <3>1, <3>5
  <2> QED
    BY <1>1, <2>1, <2>2
<1>7. \A n \in end' .. Top' - 1 : FALSE
  <2>1. \A n \in end' .. end' - 1 : FALSE
    BY <1>6, NothingBehind
  <2> QED
    BY <1>2, <2>1
<1> QED
  BY <1>2, <1>4, <1>6, <1>7 DEF ScratchInv, NoScratch

\* In the beginning nothing was run, and nothing planted.
LEMMA ScratchInit ==
  ASSUME Init, CoreInv
  PROVE  ScratchInv
<1>1. NoScratch(tree) \/ phase = "failed"
  BY DEF Init, CoreInv, TreeInv
<1>2. Top = end /\ end \in Nat
  BY CoreTreeFacts DEF Init, Top, NoForest, CoreInv
<1>3. \A n \in end .. Top - 1 : FALSE
  BY <1>2, NothingBehind
<1>4. \A n \in Slots : draftKV[n] = NoKV
  BY DEF Init, NoCache
<1> QED
  BY <1>1, <1>3, <1>4 DEF ScratchInv, NoScratch

\* Steps that leave the draft, the forest and the draft cache alone.
LEMMA ScratchIdles ==
  ASSUME ScratchInv,
         StartGrowing \/ Verify \/ VerifyFails \/ Replay \/ PlaceBets \/ ReorderRaises \/ UNCHANGED vars
  PROVE  ScratchInv'
<1>1. UNCHANGED <<tree, end, forest, draftKV>> /\ (phase' = "failed" \/ phase # "failed" \/ UNCHANGED phase)
  BY DEF StartGrowing, Verify, VerifyFails, Replay, PlaceBets, ReorderRaises, vars, treeVars, betVars
<1>2. phase' # "failed" => phase # "failed"
  BY DEF StartGrowing, Verify, VerifyFails, Replay, PlaceBets, ReorderRaises, vars
<1>3. Top' = Top
  BY <1>1 DEF Top
<1> QED
  BY <1>1, <1>2, <1>3 DEF ScratchInv

(***************************************************************************)
(* Rounds that fill the budget.                                            *)
(***************************************************************************)

\* Before the first round of a request nothing is drafted.
Unstarted == prefill /\ (phase = "draft" \/ (phase = "grow" /\ round = 0))

\* What a splice may lose.
LostFrontier == spliced /\ (cfg.strategy = "saguaro" => draftKV[FirstDrafted] = NoKV)

\* A frontier is lost in a splice only; what grows from a frontier fills the
\* budget, or has a frontier again and `width' nodes for every round.
GrowthInv ==
  /\ ceiling \in {0, cfg.beamLen}
  /\ prefill => ~spliced /\ (phase = "grow" => ceiling = cfg.beamLen)
  /\ phase = "draft" /\ ~spliced => tree[prefixLen - 1].st = CANDIDATE
  /\ Unstarted => end = prefixLen
  /\ phase = "grow" /\ ceiling # 0 =>
       /\ round < ceiling => Frontier # {}
       /\ BudgetMet \/ round * cfg.width <= Cardinality(Drafted)
  /\ (phase = "draft" /\ Frontier = {}) \/ (phase = "grow" /\ ceiling = 0) => LostFrontier

LEMMA ConfigSizes ==
  ASSUME CoreInv
  PROVE  /\ cfg.beams \in Nat \ {0} /\ cfg.beamLen \in Nat \ {0} /\ cfg.width \in Nat \ {0}
         /\ cfg.budget \in Nat \ {0} /\ cfg.pBeams \in Nat \ {0}
         /\ cfg.strategy \in {"disabled", "proactive", "saguaro"} /\ cfg.exitMode \in {"leaf", "trunk"}
         /\ cfg.replay \in BOOLEAN /\ cfg.hybrid \in BOOLEAN
BY ConfigsAssumption DEF CoreInv, TreeInv

LEMMA DraftedSize ==
  ASSUME CoreInv
  PROVE  IsFiniteSet(Drafted) /\ Cardinality(Drafted) = end - prefixLen /\ Cardinality(Drafted) \in Nat
<1>1. prefixLen \in Nat /\ end \in Nat /\ prefixLen <= end
  BY CoreTreeFacts DEF CoreInv
<1>2. IsFiniteSet(prefixLen .. end - 1) /\ Cardinality(prefixLen .. end - 1) = end - prefixLen
  BY <1>1, NthOfInterval
<1> QED
  BY <1>1, <1>2 DEF Drafted

\* Each of the beams is proposed `width' children.
LEMMA ProposalsMany ==
  ASSUME NEW beams \in SUBSET Slots, beams # {}, NEW width \in Nat,
         NEW children \in Proposals(beams, width)
  PROVE  IsFiniteSet(children) /\ Cardinality(children) \in Nat /\ width <= Cardinality(children)
<1>1. IsFiniteSet(children)
  BY ProposedKeys
<1>2. PICK f \in [beams -> kSubset(width, Tokens)] :
        children = {Key(b, t) : b \in beams, t \in Tokens} \cap
                     UNION {{Key(b, t) : t \in f[b]} : b \in beams}
  BY DEF Proposals
<1>3. PICK b \in beams : TRUE
  OBVIOUS
<1>4. b \in Nat
  BY SizesAssumption DEF Slots
<1>5. f[b] \in SUBSET Tokens /\ Cardinality(f[b]) = width
  BY DEF kSubset
<1> DEFINE key == [t \in f[b] |-> Key(b, t)]
<1>6. \A t \in f[b] : Key(b, t) \in children
  BY <1>2, <1>5
<1>7. \A s, t \in f[b] : Key(b, s) = Key(b, t) => s = t
  BY <1>4, <1>5, KeyParts
<1>8. key \in Injection(f[b], children)
  BY <1>6, <1>7 DEF Injection, IsInjective
<1>9. Cardinality(f[b]) <= Cardinality(children)
  BY <1>1, <1>8, FS_Injection
<1> QED
  BY <1>1, <1>5, <1>9, FS_CardinalityType

LEMMA TopkNonempty ==
  ASSUME NEW S, IsFiniteSet(S), S # {}, NEW k \in Nat \ {0}, NEW T \in Topk(S, k)
  PROVE  T # {}
<1>1. CASE Cardinality(S) > k
  <2>1. Cardinality(T) = k
    BY <1>1 DEF Topk, kSubset
  <2> QED
    BY <2>1, FS_EmptySet
<1>2. CASE ~(Cardinality(S) > k)
  BY <1>2 DEF Topk
<1> QED
  BY <1>1, <1>2

LEMMA GrowthInit ==
  ASSUME Init, CoreInv
  PROVE  GrowthInv
<1>1. /\ ceiling = 0 /\ ~spliced /\ end = prefixLen /\ prefixLen = Len(Prompt) /\ phase # "grow"
      /\ tree = PromptTree(Prompt)
  BY DEF Init
<1>2. Len(Prompt) \in 2 .. MaxLen /\ MaxLen \in Nat
  BY ConfigFacts DEF CoreInv, TreeInv
<1>3. prefixLen - 1 \in Slots /\ prefixLen - 1 < Len(Prompt)
  BY <1>1, <1>2 DEF Slots
<1>4. tree[prefixLen - 1].st = CANDIDATE
  BY <1>1, <1>3 DEF PromptTree
<1>5. Frontier # {}
  BY <1>3, <1>4 DEF Frontier, WithStatus
<1> QED
  BY <1>1, <1>4, <1>5 DEF GrowthInv

LEMMA GrowthStart ==
  ASSUME CoreInv, GrowthInv, StartGrowing
  PROVE  GrowthInv'
<1>1. /\ phase = "draft" /\ phase' = "grow" /\ round' = 0
      /\ ceiling' = IF Frontier = {} THEN 0 ELSE cfg.beamLen
      /\ UNCHANGED <<cfg, tree, prefixLen, end, draftKV, spliced, goal>>
  BY DEF StartGrowing, treeVars
<1>2. UNCHANGED <<Frontier, Drafted, FirstDrafted, LostFrontier, prefill>>
  BY <1>1 DEF Frontier, Drafted, FirstDrafted, LostFrontier, prefill
<1>3. prefill => ~spliced /\ Frontier # {} /\ end = prefixLen
  <2>1. prefill => Unstarted
    BY <1>1 DEF Unstarted
  <2>2. prefill => ~spliced /\ tree[prefixLen - 1].st = CANDIDATE /\ prefixLen - 1 \in Slots
    BY <1>1, CoreTreeFacts DEF GrowthInv, CoreInv, Slots
  <2>3. prefill => Frontier # {}
    BY <2>2 DEF Frontier, WithStatus
  <2> QED
    BY <2>1, <2>2, <2>3 DEF GrowthInv
<1>4. cfg.beamLen # 0 /\ cfg.width \in Nat /\ Cardinality(Drafted) \in Nat
  BY ConfigSizes, DraftedSize
<1>5. round' * cfg.width <= Cardinality(Drafted)
  BY <1>1, <1>4
<1>6. ceiling' = 0 => LostFrontier
  BY <1>1, <1>4 DEF GrowthInv
<1> QED
  BY <1>1, <1>2, <1>3, <1>5, <1>6 DEF GrowthInv, Unstarted

LEMMA GrowthIdles ==
  ASSUME GrowthInv, UNCHANGED <<cfg, ceiling, spliced, goal>>, phase' \notin {"draft", "grow"}
  PROVE  GrowthInv'
BY DEF GrowthInv, prefill, Unstarted

LEMMA OneRoundMore ==
  ASSUME NEW r \in Nat, NEW w \in Nat
  PROVE  (r + 1) * w = r * w + w /\ r * w \in Nat
OBVIOUS

LEMMA GrowthRound ==
  ASSUME CoreInv, CacheInv, GrowthInv, GrowRound
  PROVE  GrowthInv' /\ (phase' # "failed" => ~Unstarted')
<1>1. CASE phase' = "failed"
  <2>1. UNCHANGED <<cfg, ceiling, spliced, goal>>
    BY DEF GrowRound
  <2> QED
    BY <1>1, <2>1, GrowthIdles
<1>2. ASSUME NEW beams, NEW children, NEW best, Grown(beams, children, best)
      PROVE  GrowthInv' /\ ~Unstarted'
  <2>1. /\ beams \in Topk(Frontier, cfg.beams) /\ children \in Proposals(beams, cfg.width)
        /\ best \in WithinBudget(children, Drafted, {}, cfg.budget)
        /\ end' = end + Cardinality(best) /\ phase' = "grow"
        /\ round' = IF best = {} THEN ceiling ELSE round + 1
    BY <1>2 DEF Grown
  <2>2. /\ beams \in SUBSET (prefixLen - 1 .. end - 1) /\ beams \in SUBSET (0 .. end - 1)
        /\ IsFiniteSet(best) /\ Cardinality(best) \in Nat
        /\ \A n \in end .. end' - 1 : tree'[n].st = CANDIDATE
        /\ end' \in end .. MaxLen
        /\ UNCHANGED <<cfg, prefixLen, ceiling, spliced, goal>>
    BY <1>2, GrownExtends
  <2>3. /\ prefixLen \in Nat /\ end \in Nat /\ prefixLen <= end /\ MaxLen \in Nat /\ end <= MaxLen
        /\ \A n \in 0 .. end - 1 : n \in Slots
    BY CoreTreeFacts DEF CoreInv
  <2>4. round < ceiling /\ phase = "grow" /\ round \in Nat /\ ceiling \in Nat
    BY DEF GrowRound, Growing, CacheInv
  <2>5. /\ cfg.beams \in Nat \ {0} /\ cfg.width \in Nat \ {0} /\ cfg.budget \in Nat
        /\ IsFiniteSet(Drafted) /\ Cardinality(Drafted) = end - prefixLen
    BY ConfigSizes, DraftedSize
  <2>6. ceiling # 0 /\ Frontier # {} /\ (BudgetMet \/ round * cfg.width <= Cardinality(Drafted))
    BY <2>4 DEF GrowthInv
  <2>7. beams \in SUBSET Slots /\ beams # {}
    <3>1. beams \in SUBSET Slots
      BY <2>2, <2>3
    <3>2. IsFiniteSet(Frontier)
      <4>1. 0 \in Int /\ MaxLen - 1 \in Int
        BY <2>3
      <4>2. IsFiniteSet(Slots)
        BY <4>1, FS_Interval DEF Slots
      <4> QED
        BY <4>2, FS_Subset DEF Frontier, WithStatus
    <3> QED
      BY <2>1, <2>5, <2>6, <3>1, <3>2, TopkNonempty
  <2>8. IsFiniteSet(children) /\ Cardinality(children) \in Nat /\ cfg.width <= Cardinality(children)
    BY <2>1, <2>5, <2>7, ProposalsMany
  <2>9. best = children \/ cfg.budget <= Cardinality(best) + Cardinality(Drafted)
    BY <2>1 DEF WithinBudget
  <2>10. Cardinality(Drafted') = Cardinality(Drafted) + Cardinality(best)
    <3>1. end' \in Nat /\ prefixLen <= end'
      BY <2>1, <2>2, <2>3
    <3>2. Cardinality(prefixLen .. end' - 1) = end' - prefixLen
      BY <2>3, <3>1, NthOfInterval
    <3>3. Drafted' = prefixLen .. end' - 1
      BY <2>2 DEF Drafted
    <3> QED
      BY <2>1, <2>2, <2>3, <2>5, <3>2, <3>3
  <2>11. CASE best = {}
    <3>1. Cardinality(best) = 0 /\ best # children
      BY <2>5, <2>8, <2>11, FS_EmptySet
    <3>2. BudgetMet'
      BY <2>2, <2>5, <2>3, <2>9, <2>10, <3>1 DEF BudgetMet
    <3>3. round' = ceiling
      BY <2>1, <2>11
    <3>4. ~(round' < ceiling')
      BY <2>2, <2>4, <3>3
    <3>5. ~Unstarted'
      BY <2>2, <2>1, <2>6, <3>3 DEF Unstarted
    <3> QED
      BY <2>1, <2>2, <2>4, <2>6, <3>2, <3>4, <3>5 DEF GrowthInv, prefill
  <2>12. CASE best # {}
    <3>1. Cardinality(best) > 0
      BY <2>2, <2>12, FS_EmptySet
    <3>2. end \in end .. end' - 1 /\ end \in Slots
      BY <2>1, <2>2, <2>3, <3>1 DEF Slots
    <3>3. Frontier' # {}
      BY <2>2, <3>2 DEF Frontier, WithStatus
    <3>4. round' = round + 1
      BY <2>1, <2>12
    <3>5. BudgetMet' \/ round' * cfg.width <= Cardinality(Drafted')
      <4>1. CASE cfg.budget <= Cardinality(best) + Cardinality(Drafted) \/ BudgetMet
        BY <2>2, <2>3, <2>5, <2>10, <4>1 DEF BudgetMet
      <4>2. CASE best = children /\ round * cfg.width <= Cardinality(Drafted)
        <5>1. cfg.width <= Cardinality(best)
          BY <2>8, <4>2
        <5>2. (round + 1) * cfg.width = round * cfg.width + cfg.width /\ round * cfg.width \in Nat
          BY <2>4, <2>5, OneRoundMore
        <5> HIDE DEF GrowthInv
        <5> QED
          BY <2>2, <2>3, <2>5, <2>10, <3>4, <4>2, <5>1, <5>2
      <4> QED
        BY <2>6, <2>9, <4>1, <4>2
    <3>6. ~Unstarted'
      BY <2>1, <2>4, <3>4 DEF Unstarted
    <3> QED
      BY <2>1, <2>2, <2>4, <2>6, <3>3, <3>5, <3>6 DEF GrowthInv, prefill
  <2> QED
    BY <2>11, <2>12
<1> QED
  BY <1>1, <1>2, GrowRoundGrows

\* A tree that is spliced in keeps a frontier unless all there was of one is now
\* the last confirmed token or the first node behind it.
LEMMA SplicedFrontier ==
  ASSUME CoreInv, ScratchInv, Reconcile, cfg.strategy = "saguaro", NEW x \in Submitted, Taken(x),
         NEW root, NEW B, SplicedOn(x, root, B), Frontier' = {}
  PROVE  draftKV'[FirstDrafted'] = NoKV
<1> DEFINE R      == tree[x].row
           k      == Cardinality(R)
           b      == Cardinality(B)
           joined == Splice(tree, R, B, prefixLen)
           open   == \E n \in B : tree[n].st = POST_CANDIDATE
<1>1. /\ IsBranch(tree, end, Top, x, root, B)
      /\ tree' = IF ~open THEN ReopenLeaves(joined, k + 1, k + b) ELSE joined
      /\ end' = k + b /\ draftKV' = GatherKV(draftKV, R \cup B)
  BY DEF SplicedOn
<1>2. /\ TextTree(tree, prefixLen, end, Top) /\ x \in prefixLen - 1 .. end - 1
      /\ end \in Nat /\ Top \in Nat /\ Top <= MaxLen /\ MaxLen \in Nat /\ phase = "wait"
  BY CoreTreeFacts DEF CoreInv, Submitted, Reconcile
<1>3. k \in Nat /\ R \in SUBSET Slots /\ R \subseteq 0 .. x /\ x \in Nat
  BY <1>2, PathFacts
<1>4. /\ root \in B /\ B \in SUBSET (end .. Top - 1) /\ IsFiniteSet(B) /\ B \in SUBSET Int
      /\ \A n \in B : n # root => tree[n].par \in B /\ tree[n].par \in 0 .. n - 1
      /\ \A n \in B : root <= n
  BY <1>1 DEF IsBranch
<1>5. B \in SUBSET Slots /\ b \in Nat /\ b > 0
  <2>1. b \in Nat
    BY <1>4, FS_CardinalityType
  <2>2. b # 0
    BY <1>4, FS_EmptySet
  <2> QED
    BY <1>2, <1>4, <2>1, <2>2 DEF Slots
<1>6. TakesPath(tree, x, tree', end', Bonus) /\ prefixLen' = k + 1
  BY DEF Taken
<1>7. RowTree(tree', k + 1, k + b) /\ k + b <= MaxLen
  <2>1. RowTree(tree', k + 1, k + b)
    BY <1>1, <1>6 DEF TakesPath
  <2> QED
    BY <1>2, <1>3, <1>5, <2>1 DEF RowTree
<1>8. /\ \A s \in B : joined[k + Rank(B, s)].st = IF k + Rank(B, s) \in {k, k + 1} THEN PROCESSED
                                                  ELSE Settled(tree[s].st)
  BY <1>2, <1>4, <1>7, SpliceFollows
<1>9. \A s \in B : Rank(B, s) \in 0 .. b - 1 /\ Nth(B, Rank(B, s)) = s
  BY <1>4, NthOfRank
<1> HIDE DEF joined
<1>10. CASE open
  <2>1. PICK s \in B : tree[s].st = POST_CANDIDATE
    BY <1>10
  <2> DEFINE r == Rank(B, s)
  <2>2. r \in 0 .. b - 1 /\ Nth(B, r) = s
    BY <1>9
  <2>3. k + r \in Slots /\ r \in Nat
    BY <1>2, <1>3, <1>5, <1>7, <2>2 DEF Slots
  <2>4. joined[k + r].st # CANDIDATE
    BY <1>1, <1>10, <2>3 DEF Frontier, WithStatus
  <2>5. Settled(tree[s].st) = CANDIDATE
    BY <2>1 DEF Settled, POST_CANDIDATE, POST_PROCESSED
  <2>6. k + r \in {k, k + 1}
    BY <1>8, <2>4, <2>5
  <2>7. s \in Slots /\ draftKV[s] = NoKV
    BY <1>2, <1>5, <2>1 DEF ScratchInv
  <2> HIDE DEF r
  <2>8. r = 0 \/ r = 1
    BY <1>3, <2>3, <2>6
  <2>9. r = 0 => b = 1
    <3>1. ASSUME r = 0, b # 1
          PROVE  FALSE
      <4>1. 1 \in 0 .. b - 1 /\ 0 \in 0 .. b - 1
        BY <1>5, <3>1
      <4> DEFINE c == Nth(B, 1)
      <4>2. c \in B /\ Rank(B, c) = 1
        BY <1>4, <4>1, NthIsMember
      <4>3. c # s
        BY <2>2, <3>1, <4>2 DEF r
      <4>4. s = root
        <5>1. s \in Int /\ root \in Int /\ root <= s
          BY <1>4
        <5>2. root < s => Rank(B, root) < Rank(B, s) /\ Rank(B, root) \in Nat
          BY <1>4, <5>1, RankGrows, RankBounds
        <5>3. Rank(B, s) = 0
          BY <3>1 DEF r
        <5> QED
          BY <5>1, <5>2, <5>3
      <4> HIDE DEF c
      <4>5. tree[c].par \in B /\ tree[c].par \in 0 .. c - 1
        BY <1>4, <4>2, <4>3, <4>4
      <4> DEFINE p == tree[c].par
      <4>6. p < c /\ p \in Int /\ c \in Int
        BY <1>4, <4>2, <4>5
      <4>7. Rank(B, p) < 1 /\ Rank(B, p) \in Nat
        <5>1. p \in B
          BY <4>5
        <5> HIDE DEF p
        <5> QED
          BY <1>4, <4>2, <4>6, <5>1, RankGrows, RankBounds
      <4>8. Rank(B, p) = Rank(B, s)
        BY <3>1, <4>7 DEF r
      <4>9. p = s
        BY <1>4, <4>5, <4>8, RankIsInjective
      <4>10. tree[p].st # POST_CANDIDATE
        <5>1. c \in end .. Top - 1
          BY <1>4, <4>2
        <5> QED
          BY <1>2, <5>1 DEF ScratchInv
      <4> QED
        BY <2>1, <4>9, <4>10
    <3> QED
      BY <3>1
  <2>10. FirstDrafted' = k + r
    <3>1. Drafted' = k + 1 .. (k + b) - 1
      BY <1>1, <1>6 DEF Drafted
    <3>2. FirstDrafted' = IF k + 1 .. (k + b) - 1 = {} THEN (k + 1) - 1 ELSE k + 1
      BY <1>6, <3>1 DEF FirstDrafted
    <3>3. CASE r = 0
      <4>1. k + 1 .. (k + b) - 1 = {}
        BY <1>3, <2>9, <3>3
      <4> QED
        BY <1>3, <3>2, <3>3, <4>1
    <3>4. CASE r = 1
      <4>1. k + 1 \in k + 1 .. (k + b) - 1
        BY <1>3, <1>5, <2>2, <3>4
      <4> QED
        BY <3>2, <3>4, <4>1
    <3> QED
      BY <2>8, <3>3, <3>4
  <2>11. draftKV'[k + r] = draftKV[s]
    <3>1. ASSUME NEW p \in R, NEW q \in B
          PROVE  p < q
      <4>1. p \in 0 .. x /\ q \in end .. Top - 1
        BY <1>3, <1>4
      <4> QED
        BY <1>2, <1>3, <4>1
    <3>2. Compacted(draftKV, R, B, draftKV')
      BY <1>1, <1>3, <1>5, <3>1, CompactedKV
    <3>3. \A n \in Slots : n >= k /\ n < k + b => draftKV'[n] = draftKV[Nth(B, n - k)]
      BY <3>2 DEF Compacted
    <3>4. k + r >= k /\ k + r < k + b /\ (k + r) - k = r
      BY <1>3, <1>5, <2>2
    <3> QED
      BY <2>2, <2>3, <3>3, <3>4
  <2> QED
    BY <2>7, <2>10, <2>11
<1>11. CASE ~open
  <2> DEFINE n == (k + b) - 1
             opened == ReopenLeaves(joined, k + 1, k + b)
  <2>1. n \in Slots /\ n \in k .. (k + b) - 1 /\ n \in Nat /\ n - k \in 0 .. b - 1 /\ k + (n - k) = n
    BY <1>2, <1>3, <1>5, <1>7 DEF Slots
  <2>2. joined[n].st = PROCESSED
    <3>1. PICK s \in B : Rank(B, s) = n - k
      BY <1>4, <2>1, NthIsMember
    <3>2. tree[s].st = POST_PROCESSED
      <4>1. s \in end .. Top - 1
        BY <1>4
      <4> QED
        BY <1>2, <1>11, <4>1 DEF ScratchInv
    <3>3. Settled(POST_PROCESSED) = PROCESSED
      BY DEF Settled, POST_PROCESSED, POST_CANDIDATE
    <3> QED
      BY <1>8, <2>1, <3>1, <3>2, <3>3
  <2> HIDE DEF n
  <2>3. tree' = opened
    BY <1>1, <1>11
  <2>4. \A m \in Slots : opened[m].par = joined[m].par
    <3>1. \A m \in Slots : opened[m] = joined[m] \/ opened[m] = [joined[m] EXCEPT !.st = CANDIDATE]
      BY DEF ReopenLeaves
    <3> HIDE DEF opened
    <3>2. joined \in [Slots -> Nodes]
      BY <1>2, <1>4, <1>1, SplicedRowTree DEF joined, TakesPath, RowTree, IsTree
    <3> TAKE m \in Slots
    <3>3. joined[m] \in Nodes
      BY <3>2
    <3> QED
      BY <3>1, <3>3 DEF Nodes
  <2>5. n \notin {joined[m].par : m \in k + 1 .. (k + b) - 1}
    <3>1. ASSUME NEW m \in k + 1 .. (k + b) - 1, joined[m].par = n
          PROVE  FALSE
      <4>1. m \in Slots /\ m \in Nat
        BY <1>2, <1>3, <1>5, <1>7 DEF Slots
      <4>2. tree'[m].par \in (k + 1) - 1 .. m - 1
        BY <1>7 DEF RowTree, DraftNode
      <4>3. n \in (k + 1) - 1 .. m - 1
        BY <2>3, <2>4, <3>1, <4>1, <4>2
      <4> QED
        BY <1>3, <1>5, <4>1, <4>3 DEF n
    <3> QED
      BY <3>1
  <2>6. n \in (k + 1) - 1 .. (k + b) - 1
    BY <1>3, <2>1
  <2>7. opened[n] = [joined[n] EXCEPT !.st = CANDIDATE]
    BY <2>1, <2>2, <2>5, <2>6 DEF ReopenLeaves
  <2>8. opened[n].st = CANDIDATE
    <3>1. joined[n] \in Nodes
      <4>1. joined \in [Slots -> Nodes]
        BY <1>2, <1>4, <1>1, SplicedRowTree DEF joined, TakesPath, RowTree, IsTree
      <4> QED
        BY <2>1, <4>1
    <3> HIDE DEF opened
    <3> QED
      BY <2>7, <3>1 DEF Nodes
  <2> HIDE DEF opened
  <2> QED
    BY <2>1, <2>3, <2>8 DEF Frontier, WithStatus
<1> QED
  BY <1>10, <1>11

\* A child that is added alone.
LEMMA OneChild ==
  ASSUME NEW tr, NEW k \in Slots, NEW keys, Cardinality(keys) = 1, NEW st
  PROVE  LET new == Add(tr, k, keys, st)
         IN  new[k].st = st /\ new[k].par = ParentOf(Nth(keys, 0))
<1> DEFINE Child(n) == [tok |-> TokenOf(Nth(keys, n - k)), par |-> ParentOf(Nth(keys, n - k)),
                        pos |-> tr[ParentOf(Nth(keys, n - k))].pos + 1, st |-> st,
                        row |-> (tr[ParentOf(Nth(keys, n - k))].row \cap 0 .. k - 1) \cup {n}]
<1>1. Add(tr, k, keys, st) = [n \in Slots |-> IF n \in k .. k + Cardinality(keys) - 1 THEN Child(n)
                                               ELSE tr[n]]
  BY DEF Add
<1>2. Child(k).st = st /\ Child(k).par = ParentOf(Nth(keys, k - k))
  OBVIOUS
<1> HIDE DEF Child
<1>3. k \in Int /\ Cardinality(keys) = 1
  BY SizesAssumption DEF Slots
<1>4. k \in k .. k + Cardinality(keys) - 1 /\ k - k = 0
  BY <1>3
<1>5. Add(tr, k, keys, st)[k] = Child(k)
  BY <1>1, <1>4
<1> QED
  BY <1>2, <1>4, <1>5

LEMMA BeforeChild ==
  ASSUME NEW tr, NEW k \in Slots, NEW keys, Cardinality(keys) = 1, NEW st, NEW n \in Slots, n < k
  PROVE  Add(tr, k, keys, st)[n] = tr[n]
<1>1. ~(n \in k .. k + Cardinality(keys) - 1)
  BY SizesAssumption DEF Slots
<1> QED
  BY <1>1 DEF Add

LEMMA GrowthReconcile ==
  ASSUME CoreInv, ScratchInv, GrowthInv, Reconcile
  PROVE  GrowthInv'
<1>1. PICK x \in Submitted : Taken(x) /\ (PlainOn(x) \/ \E root, B : SplicedOn(x, root, B))
  BY ReconcileOutcome
<1>2. UNCHANGED <<cfg, ceiling>> /\ goal' # 0 /\ phase' \in {"draft", "done"}
  BY ReconcileOutcome
<1>3. prefixLen' = Cardinality(tree[x].row) + 1
  BY <1>1 DEF Taken
<1>4. CASE PlainOn(x)
  <2> DEFINE k    == Cardinality(tree[x].row)
             path == ReorderBySequence(tree, tree[x].row, prefixLen)
  <2>1. tree' = AppendBonus(path, k, Bonus) /\ spliced' = FALSE /\ k < MaxLen /\ k \in Nat
    <3>1. TextTree(tree, prefixLen, end, Top) /\ x \in prefixLen - 1 .. end - 1
      BY CoreTreeFacts DEF CoreInv, Submitted
    <3> QED
      BY <1>4, <3>1, PathFacts DEF PlainOn
  <2> HIDE DEF path, k
  <2>2. k \in Slots /\ k \in k .. (k + Cardinality({Key(k - 1, Bonus)})) - 1
    <3>1. Cardinality({Key(k - 1, Bonus)}) = 1
      BY FS_Singleton
    <3> QED
      BY <2>1, <3>1, SizesAssumption DEF Slots
  <2>3. tree'[k].st = CANDIDATE
    <3>1. Add(path, k, {Key(k - 1, Bonus)}, CANDIDATE)[k].st = CANDIDATE
      <4> DEFINE keys == {Key(k - 1, Bonus)}
      <4>1. Cardinality(keys) = 1
        BY FS_Singleton
      <4> HIDE DEF keys
      <4>2. Add(path, k, keys, CANDIDATE)[k].st = CANDIDATE
        BY <2>2, <4>1, OneChild
      <4> QED
        BY <4>2 DEF keys
    <3>2. AppendBonus(path, k, Bonus) = Add(path, k, {Key(k - 1, Bonus)}, CANDIDATE)
      BY DEF AppendBonus
    <3> QED
      BY <2>1, <3>1, <3>2 DEF path, k
  <2>4. prefixLen' - 1 = k
    BY <1>3, <2>1 DEF k
  <2>5. Frontier' # {}
    BY <2>2, <2>3 DEF Frontier, WithStatus
  <2> QED
    BY <1>2, <2>1, <2>3, <2>4, <2>5 DEF GrowthInv, prefill, Unstarted
<1>5. ASSUME NEW root, NEW B, SplicedOn(x, root, B)
      PROVE  GrowthInv'
  <2>1. spliced' = TRUE
    BY <1>5 DEF SplicedOn
  <2>2. Frontier' = {} => LostFrontier'
    <3>1. Frontier' = {} /\ cfg.strategy = "saguaro" => draftKV'[FirstDrafted'] = NoKV
      BY <1>1, <1>5, SplicedFrontier
    <3> QED
      BY <1>2, <2>1, <3>1 DEF LostFrontier
  <2> QED
    BY <1>2, <2>1, <2>2 DEF GrowthInv, prefill, Unstarted
<1> QED
  BY <1>1, <1>4, <1>5

(***************************************************************************)
(* What a request submits.                                                 *)
(***************************************************************************)

\* A draft that is trimmed to the nodes `kept'.
TrimmedBy(kept, dest) ==
  /\ kept \in SUBSET (prefixLen .. end - 1) /\ Cardinality(kept) = cfg.budget
  /\ Places(tree, kept, dest, prefixLen)
  /\ tree' = GatherTree(tree, kept, dest, prefixLen + cfg.budget)
  /\ draftKV' = MoveKV(draftKV, kept, dest, prefixLen + cfg.budget)
  /\ end' = prefixLen + cfg.budget

LEMMA SubmitTrims ==
  ASSUME CoreInv, Submit
  PROVE  (~BudgetMet /\ UNCHANGED <<treeVars, draftKV>>) \/ \E kept, dest : TrimmedBy(kept, dest)
<1>1. CASE ~BudgetMet /\ UNCHANGED <<treeVars, draftKV>>
  BY <1>1
<1>2. CASE ~(~BudgetMet /\ UNCHANGED <<treeVars, draftKV>>)
  <2>1. PICK kept \in {K \in kSubset(cfg.budget, Drafted) : Closed(K)} :
          \E lowest \in {n \in kept : \A m \in kept \ {n} : n \notin tree[m].row} :
            /\ tree' = GatherTree(tree, kept, TopkOrder(kept, lowest, prefixLen),
                                  prefixLen + cfg.budget)
            /\ draftKV' = MoveKV(draftKV, kept, TopkOrder(kept, lowest, prefixLen),
                                 prefixLen + cfg.budget)
            /\ end' = prefixLen + cfg.budget
    BY <1>2 DEF Submit, TrimOrder
  <2>2. PICK lowest \in {n \in kept : \A m \in kept \ {n} : n \notin tree[m].row} :
            /\ tree' = GatherTree(tree, kept, TopkOrder(kept, lowest, prefixLen),
                                  prefixLen + cfg.budget)
            /\ draftKV' = MoveKV(draftKV, kept, TopkOrder(kept, lowest, prefixLen),
                                 prefixLen + cfg.budget)
            /\ end' = prefixLen + cfg.budget
    BY <2>1
  <2>3. /\ kept \in SUBSET (prefixLen .. end - 1) /\ Cardinality(kept) = cfg.budget
        /\ \A s \in kept : tree[s].row \cap prefixLen .. end - 1 \subseteq kept
        /\ lowest \in kept /\ \A m \in kept \ {lowest} : lowest \notin tree[m].row
    BY DEF kSubset, Closed, Drafted
  <2>4. IsTree(tree, end) /\ end \in 0 .. MaxLen /\ prefixLen \in 0 .. end
    BY CoreTreeFacts DEF CoreInv
  <2>5. Places(tree, kept, TopkOrder(kept, lowest, prefixLen), prefixLen)
    BY <2>3, <2>4, TopkPlaces
  <2>6. TrimmedBy(kept, TopkOrder(kept, lowest, prefixLen))
    BY <2>2, <2>3, <2>5 DEF TrimmedBy
  <2> QED
    BY <2>6
<1> QED
  BY <1>1, <1>2

\* The parents of confirmed nodes are confirmed.
TextParents == \A n \in 0 .. prefixLen - 1 : tree[n].par < prefixLen

\* A request is no larger than the budget, and as large if the server took it.
RequestSize ==
  /\ phase \in {"predict", "forest", "wait"} => Cardinality(Drafted) <= cfg.budget
  /\ selection # NoSelection => Drafted # {} /\ (~cfg.replay => Cardinality(Drafted) = cfg.budget)

RequestInv == phase # "failed" => TextParents /\ RequestSize

LEMMA RequestInit ==
  ASSUME Init, CoreInv
  PROVE  RequestInv
<1>1. /\ tree = PromptTree(Prompt) /\ prefixLen = Len(Prompt)
      /\ phase \in {"draft", "failed"} /\ selection = NoSelection
  BY DEF Init
<1>2. prefixLen \in Nat /\ 1 <= prefixLen /\ prefixLen <= MaxLen /\ MaxLen \in Nat
  BY CoreTreeFacts DEF CoreInv
<1>3. ASSUME NEW n \in 0 .. prefixLen - 1
      PROVE  tree[n].par < prefixLen
  <2>1. n \in Slots /\ n < Len(Prompt) /\ n \in Nat
    BY <1>1, <1>2 DEF Slots
  <2>2. tree[n].par = IF n = 0 THEN 0 ELSE n - 1
    BY <1>1, <2>1 DEF PromptTree
  <2> QED
    BY <1>1, <1>2, <2>1, <2>2
<1> QED
  BY <1>1, <1>3 DEF RequestInv, TextParents, RequestSize

\* Steps that leave the draft alone.
LEMMA RequestIdles ==
  ASSUME CoreInv, RequestInv,
         StartGrowing \/ Verify \/ VerifyFails \/ Replay \/ PlaceBets \/ ReorderRaises \/ UNCHANGED vars
  PROVE  RequestInv'
<1>1. CASE StartGrowing
  BY <1>1 DEF StartGrowing, RequestInv, TextParents, RequestSize, treeVars, Drafted
<1>2. CASE Verify
  <2>1. Cardinality(Drafted) = cfg.budget /\ Drafted # {}
    BY <1>2, ConfigSizes, FS_EmptySet DEF Verify, CoreInv
  <2> QED
    BY <1>2, <2>1 DEF Verify, RequestInv, TextParents, RequestSize, treeVars, Drafted
<1>3. CASE VerifyFails \/ ReorderRaises
  BY <1>3 DEF VerifyFails, ReorderRaises, RequestInv
<1>4. CASE Replay
  BY <1>4 DEF Replay, RequestInv, TextParents, RequestSize, treeVars, Drafted
<1>5. CASE PlaceBets
  BY <1>5 DEF PlaceBets, RequestInv, TextParents, RequestSize, treeVars, Drafted
<1>6. CASE UNCHANGED vars
  BY <1>6 DEF vars, RequestInv, TextParents, RequestSize, treeVars, Drafted
<1> QED
  BY <1>1, <1>2, <1>3, <1>4, <1>5, <1>6

LEMMA RequestGrowRound ==
  ASSUME CoreInv, RequestInv, GrowRound
  PROVE  RequestInv'
<1>1. CASE phase' = "failed"
  BY <1>1 DEF RequestInv
<1>2. ASSUME NEW beams, NEW children, NEW best, Grown(beams, children, best)
      PROVE  RequestInv'
  <2>1. Extended(tree, tree', end, end', beams) /\ UNCHANGED <<cfg, prefixLen, selection>>
    BY <1>2, GrownExtends
  <2>2. phase' = "grow" /\ phase = "grow" /\ selection = NoSelection
    BY <1>2 DEF Grown, GrowRound, CoreInv, SelectionInv
  <2>3. \A n \in 0 .. prefixLen - 1 : n \in 0 .. end - 1
    BY CoreTreeFacts DEF CoreInv
  <2>4. TextParents'
    BY <2>1, <2>2, <2>3 DEF Extended, RequestInv, TextParents
  <2> QED
    BY <2>1, <2>2, <2>4 DEF RequestInv, RequestSize
<1> QED
  BY <1>1, <1>2, GrowRoundGrows

LEMMA RequestSubmit ==
  ASSUME CoreInv, RequestInv, Submit
  PROVE  RequestInv'
<1>1. /\ UNCHANGED <<cfg, prefixLen>> /\ selection' = NoSelection /\ phase = "grow"
  BY DEF Submit, treeVars
<1>2. /\ prefixLen \in Nat /\ end \in Nat /\ prefixLen <= end /\ cfg.budget \in Nat
      /\ IsTree(tree, end) /\ end \in 0 .. MaxLen /\ prefixLen \in 0 .. end
  BY CoreTreeFacts, ConfigFacts DEF CoreInv, TreeInv
<1>3. CASE ~BudgetMet /\ UNCHANGED <<treeVars, draftKV>>
  <2>1. Cardinality(Drafted) <= cfg.budget
    BY <1>2, <1>3, DraftedSize DEF BudgetMet
  <2>2. UNCHANGED <<tree, prefixLen, end>>
    BY <1>3 DEF treeVars
  <2> QED
    BY <1>1, <2>1, <2>2 DEF RequestInv, TextParents, RequestSize, Drafted
<1>4. ASSUME NEW kept, NEW dest, TrimmedBy(kept, dest)
      PROVE  RequestInv'
  <2> DEFINE e2  == prefixLen + Cardinality(kept)
             new == GatherTree(tree, kept, dest, e2)
  <2>1. \A n \in 0 .. prefixLen - 1 : new[n] = tree[n]
    BY <1>2, <1>4, GatherMakesTree DEF TrimmedBy
  <2>2. tree' = new /\ end' = prefixLen + cfg.budget
    BY <1>4 DEF TrimmedBy
  <2> HIDE DEF e2, new
  <2>3. TextParents'
    BY <1>1, <2>1, <2>2 DEF RequestInv, TextParents
  <2>4. Cardinality(Drafted') = cfg.budget
    <3> DEFINE e == prefixLen + cfg.budget
    <3>1. e \in Nat /\ prefixLen <= e /\ e - prefixLen = cfg.budget
      BY <1>2
    <3>2. Drafted' = prefixLen .. e - 1
      BY <1>1, <2>2 DEF Drafted
    <3> HIDE DEF e
    <3>3. Cardinality(prefixLen .. e - 1) = e - prefixLen
      BY <1>2, <3>1, NthOfInterval
    <3> QED
      BY <3>1, <3>2, <3>3
  <2> QED
    BY <1>1, <1>2, <2>3, <2>4 DEF RequestInv, RequestSize
<1> QED
  BY <1>3, <1>4, SubmitTrims

LEMMA RequestOverlap ==
  ASSUME CoreInv, RequestInv, Predict \/ ForestRound
  PROVE  RequestInv'
<1>1. SubmittedStays
  BY DraftingKeepsSubmitted
<1>2. \A n \in 0 .. prefixLen - 1 : n \in 0 .. end - 1
  BY CoreTreeFacts DEF CoreInv
<1>3. UNCHANGED <<cfg, selection>> /\ phase \in {"predict", "forest"}
  BY DEF Predict, ForestRound
<1>4. TextParents => TextParents'
  BY <1>1, <1>2 DEF SubmittedStays, TextParents
<1>5. Drafted' = Drafted
  BY <1>1 DEF SubmittedStays, Drafted
<1> QED
  BY <1>3, <1>4, <1>5 DEF RequestInv, RequestSize
\* The verified path is numbered anew, and what is put behind it hangs off it.
LEMMA TextParentsAnew ==
  ASSUME CoreInv, TextParents, Reconcile
  PROVE  TextParents'
<1>1. PICK x \in Submitted : Taken(x) /\ (PlainOn(x) \/ \E root, B : SplicedOn(x, root, B))
  BY ReconcileOutcome
<1> DEFINE R == tree[x].row
           k == Cardinality(R)
<1>2. /\ TextTree(tree, prefixLen, end, Top) /\ x \in prefixLen - 1 .. end - 1
      /\ tree \in [Slots -> Nodes]
      /\ prefixLen \in Nat /\ end \in Nat /\ Top \in Nat /\ Top <= MaxLen /\ MaxLen \in Nat
  BY CoreTreeFacts DEF CoreInv, Submitted
<1>3. k \in Nat /\ k >= prefixLen /\ k >= 1
  BY <1>2, PathFacts, CoreTreeFacts DEF CoreInv
<1>4. prefixLen' = k + 1 /\ Bonus \in Tokens
  BY <1>1 DEF Taken
<1>5. ASSUME NEW n \in Slots, n < k
      PROVE  PathNode(tree, R, prefixLen, n).par < k
  <2>1. n \in Nat
    BY DEF Slots
  <2>2. CASE n < prefixLen
    <3>1. PathNode(tree, R, prefixLen, n).par = tree[n].par
      BY <1>2, <2>2 DEF PathNode, Nodes
    <3>2. tree[n].par < prefixLen /\ tree[n].par \in Int
      <4>1. n \in 0 .. prefixLen - 1
        BY <1>2, <2>1, <2>2
      <4>2. tree[n].par \in Slots \cup {-1}
        BY <1>2 DEF Nodes
      <4> QED
        BY <4>1, <4>2 DEF TextParents, Slots
    <3> HIDE DEF k
    <3> QED
      BY <1>2, <1>3, <3>1, <3>2
  <2>3. CASE ~(n < prefixLen)
    <3>1. PathNode(tree, R, prefixLen, n).par = n - 1
      BY <2>3 DEF PathNode
    <3> HIDE DEF k
    <3> QED
      BY <1>3, <1>5, <2>1, <3>1
  <2> QED
    BY <2>2, <2>3
<1>6. SUFFICES \A n \in 0 .. k : n \in Slots /\ tree'[n].par < k + 1
  <2> HIDE DEF k
  <2>1. \A n \in 0 .. (k + 1) - 1 : n \in 0 .. k
    BY <1>3
  <2> QED
    BY <1>4, <2>1, <1>6 DEF TextParents
<1>7. k < MaxLen /\ tree' \in [Slots -> Nodes]
  <2>1. CoreInv'
    BY CoreReconcile
  <2>2. prefixLen' <= end' /\ end' <= MaxLen /\ end' \in Nat /\ tree' \in [Slots -> Nodes]
    <3>1. TextTree(tree, prefixLen, end, Top)' /\ Top' = end'
      BY <2>1, ReconcileOutcome DEF CoreInv, TreeInv
    <3> QED
      BY <1>2, <3>1 DEF TextTree, IsTree
  <2> HIDE DEF k
  <2> QED
    BY <1>2, <1>3, <1>4, <2>2
<1>8. \A n \in 0 .. k : n \in Slots /\ n \in Nat /\ (n < k \/ n = k)
  <2> HIDE DEF k
  <2> QED
    BY <1>2, <1>3, <1>7 DEF Slots
<1>9. \A n \in Slots : tree'[n].par \in Int
  <2>1. \A n \in Slots : tree'[n].par \in Slots \cup {-1}
    BY <1>7 DEF Nodes
  <2> QED
    BY <2>1 DEF Slots
<1>10. CASE PlainOn(x)
  <2> DEFINE path == ReorderBySequence(tree, R, prefixLen)
             keys == {Key(k - 1, Bonus)}
  <2>1. tree' = Add(path, k, keys, CANDIDATE)
    BY <1>10 DEF PlainOn, AppendBonus
  <2>2. \A n \in Slots : n < k => path[n] = PathNode(tree, R, prefixLen, n)
    BY DEF ReorderBySequence
  <2>3. Cardinality(keys) = 1 /\ ParentOf(Nth(keys, 0)) = k - 1
    <3>1. k - 1 \in Nat
      BY <1>3
    <3>2. Key(k - 1, Bonus) \in Nat /\ ParentOf(Key(k - 1, Bonus)) = k - 1
      BY <1>4, <3>1, KeyParts
    <3>3. IsFiniteSet(keys) /\ Cardinality(keys) = 1 /\ keys \in SUBSET Int
      <4>1. IsFiniteSet(keys) /\ Cardinality(keys) = 1
        BY FS_Singleton
      <4>2. Key(k - 1, Bonus) \in Int
        BY <3>2
      <4> QED
        BY <4>1, <4>2
    <3>4. 0 \in 0 .. Cardinality(keys) - 1
      BY <3>3
    <3>5. Nth(keys, 0) \in keys
      BY <3>3, <3>4, NthIsMember
    <3> QED
      BY <3>2, <3>3, <3>5
  <2>4. k \in Slots
    BY <1>3, <1>8
  <2> HIDE DEF path, keys, k
  <2>5. tree'[k].par = k - 1 /\ \A n \in Slots : n < k => tree'[n] = path[n]
    BY <2>1, <2>3, <2>4, OneChild, BeforeChild
  <2> TAKE n \in 0 .. k
  <2>6. CASE n < k
    <3>1. n \in Slots /\ tree'[n].par < k
      BY <1>5, <1>8, <2>2, <2>5, <2>6
    <3> QED
      BY <1>3, <1>9, <3>1
  <2>7. CASE n = k
    BY <1>3, <2>4, <2>5, <2>7
  <2> QED
    BY <1>8, <2>6, <2>7
<1>11. ASSUME NEW root, NEW B, SplicedOn(x, root, B)
       PROVE  \A n \in 0 .. k : n \in Slots /\ tree'[n].par < k + 1
  <2> DEFINE joined == Splice(tree, R, B, prefixLen)
             b      == Cardinality(B)
  <2>1. /\ IsBranch(tree, end, Top, x, root, B)
        /\ tree' = joined \/ tree' = ReopenLeaves(joined, k + 1, k + b)
        /\ end' = k + b
    BY <1>11 DEF SplicedOn
  <2>2. /\ root \in B /\ B \in SUBSET (end .. Top - 1) /\ IsFiniteSet(B) /\ B \in SUBSET Int
        /\ \A n \in B : root <= n
    BY <2>1 DEF IsBranch
  <2>3. joined \in [Slots -> Nodes] /\ k + b <= MaxLen
    <3>1. TakesPath(tree, x, joined, k + b, tree[root].tok)
      BY <1>2, <2>1, SplicedRowTree
    <3>2. RowTree(joined, k + 1, k + b)
      BY <3>1 DEF TakesPath
    <3>3. b \in Nat
      BY <2>2, FS_CardinalityType
    <3> HIDE DEF joined, k, b
    <3> QED
      BY <1>2, <1>3, <3>2, <3>3 DEF RowTree, IsTree
  <2>4. \A n \in Slots : tree'[n].par = joined[n].par
    <3> HIDE DEF joined, k, b
    <3>1. \A n \in Slots : ReopenLeaves(joined, k + 1, k + b)[n].par = joined[n].par
      BY <2>3 DEF ReopenLeaves, Nodes
    <3> QED
      BY <2>1, <3>1
  <2>5. /\ \A s \in B : tree[s].par \notin B => joined[k + Rank(B, s)].par < k
        /\ \A n \in Slots : n < k => joined[n] = PathNode(tree, R, prefixLen, n)
    BY <1>2, <2>2, <2>3, SpliceFollows
  <2>6. tree[root].par \notin B
    <3>1. root \in end .. Top - 1
      BY <2>2
    <3>2. tree[root].par \in 0 .. root - 1 /\ root \in Int
      BY <1>2, <3>1 DEF TextTree
    <3> QED
      BY <2>2, <3>2
  <2>7. Rank(B, root) = 0
    <3>1. {y \in B : y < root} = {}
      <4>1. ASSUME NEW y \in B
            PROVE  ~(y < root)
        <5>1. y \in Int /\ root \in Int /\ root <= y
          BY <2>2
        <5> QED
          BY <5>1
      <4> QED
        BY <4>1
    <3> QED
      BY <3>1, FS_EmptySet DEF Rank
  <2> HIDE DEF joined, b, k
  <2>8. k + Rank(B, root) = k
    BY <1>3, <2>7
  <2>9. joined[k].par < k
    BY <2>2, <2>5, <2>6, <2>8
  <2> TAKE n \in 0 .. k
  <2>10. n \in Slots /\ tree'[n].par < k
    <3>1. CASE n < k
      BY <1>5, <1>8, <2>4, <2>5, <3>1
    <3>2. CASE n = k
      BY <1>8, <2>4, <2>9, <3>2
    <3> QED
      BY <1>8, <3>1, <3>2
  <2> QED
    BY <1>3, <1>9, <2>10
<1> QED
  BY <1>1, <1>10, <1>11

LEMMA RequestReconcile ==
  ASSUME CoreInv, RequestInv, Reconcile
  PROVE  RequestInv'
<1>1. phase = "wait" /\ phase' \in {"draft", "done"} /\ selection' = NoSelection
  BY ReconcileOutcome
<1>2. TextParents'
  BY <1>1, TextParentsAnew DEF RequestInv
<1> QED
  BY <1>1, <1>2 DEF RequestInv, RequestSize

LEMMA RequestStep ==
  ASSUME CoreInv, RequestInv, [Next]_vars
  PROVE  RequestInv'
BY RequestIdles, RequestGrowRound, RequestSubmit, RequestOverlap, RequestReconcile
   DEF Next, Step, Terminated

(***************************************************************************)
(* What the overlap fills.                                                 *)
(***************************************************************************)

\* Whatever is drafted or planted is ready to be run; once the prediction pass
\* was made, what is submitted was.
AllReady == Unstarted \/ \A n \in prefixLen - 1 .. Top - 1 : Ready(tree, draftKV, n)
ExitsRan ==
  phase \in {"forest", "wait"} /\ (cfg.exitMode = "trunk" \/ Drafted # {}) =>
    \A n \in Submitted : Ran(tree, draftKV, n)
FilledInv == phase # "failed" /\ RunsEveryExit => AllReady /\ ExitsRan

LEMMA FilledInit ==
  ASSUME Init
  PROVE  FilledInv
BY DEF Init, FilledInv, AllReady, ExitsRan, Unstarted, prefill

\* Steps that leave the draft, the forest and the draft cache alone.
LEMMA FilledIdles ==
  ASSUME FilledInv,
         StartGrowing \/ Verify \/ VerifyFails \/ Replay \/ PlaceBets \/ ReorderRaises \/ UNCHANGED vars
  PROVE  FilledInv'
<1> USE DEF FilledInv, AllReady, ExitsRan, Unstarted, prefill, RunsEveryExit, Top, Drafted, Submitted
<1>1. CASE StartGrowing
  BY <1>1 DEF StartGrowing, treeVars, betVars
<1>2. CASE Verify
  BY <1>2 DEF Verify, treeVars, betVars, growVars
<1>3. CASE VerifyFails \/ ReorderRaises
  BY <1>3 DEF VerifyFails, ReorderRaises
<1>4. CASE Replay
  BY <1>4 DEF Replay, treeVars, betVars, growVars
<1>5. CASE PlaceBets
  BY <1>5 DEF PlaceBets, treeVars, growVars
<1>6. CASE UNCHANGED vars
  BY <1>6 DEF vars, treeVars, betVars, growVars
<1> QED
  BY <1>1, <1>2, <1>3, <1>4, <1>5, <1>6

\* The prompt that the first round prefills is the text.
LEMMA PrefillIsText ==
  ASSUME CoreInv, ServerInv, prefill
  PROVE  Ready(tree, PrefilledKV, prefixLen - 1)
<1>1. /\ output = Prompt /\ prefixLen = Len(Prompt)
  BY DEF ServerInv, OutputInv, prefill, CoreInv, TextInv
<1>2. /\ prefixLen \in Nat /\ 1 <= prefixLen /\ prefixLen <= MaxLen /\ MaxLen \in Nat
      /\ TextTree(tree, prefixLen, end, Top)
  BY CoreTreeFacts DEF CoreInv
<1>3. tree[prefixLen - 1].row = 0 .. prefixLen - 1
  <2>1. prefixLen - 1 \in 0 .. prefixLen - 1
    BY <1>2
  <2> QED
    BY <1>2, <2>1, TextPlaces
<1>4. ASSUME NEW j \in tree[prefixLen - 1].row \ {prefixLen - 1}
      PROVE  PrefilledKV[j] = Context(tree, j)
  <2>1. j \in 0 .. prefixLen - 1 /\ j \in Slots /\ j < Len(Prompt) - 1
    BY <1>1, <1>2, <1>3 DEF Slots
  <2>2. PrefilledKV[j] = SubSeq(Prompt, 1, j + 1)
    BY <2>1 DEF PrefilledKV
  <2> QED
    BY <1>1, <2>1, <2>2, ConfirmedContext
<1> QED
  BY <1>4 DEF Ready, Ran

\* Old nodes and new ones.
LEMMA InTwoParts ==
  ASSUME NEW p \in Nat, 1 <= p, NEW e \in Nat, p <= e, NEW e2 \in Nat, NEW n \in p - 1 .. e2 - 1
  PROVE  (n \in p - 1 .. e - 1 /\ n \in 0 .. e - 1) \/ n \in e .. e2 - 1
OBVIOUS

LEMMA FilledGrowRound ==
  ASSUME CoreInv, CacheInv, ServerInv, GrowthInv, FilledInv, GrowRound
  PROVE  FilledInv'
<1>1. CASE phase' = "failed"
  BY <1>1 DEF FilledInv
<1>2. ASSUME RunsEveryExit, NEW beams, NEW children, NEW best, Grown(beams, children, best)
      PROVE  AllReady' /\ ExitsRan'
  <2> DEFINE kv == IF prefill /\ round = 0 THEN PrefilledKV ELSE draftKV
  <2>1. /\ beams \in SUBSET (prefixLen - 1 .. end - 1) /\ beams \in SUBSET (0 .. end - 1)
        /\ end' \in end .. MaxLen /\ Top = end /\ Top' = end'
        /\ Extended(tree, tree', end, end', beams) /\ prefixLen' = prefixLen
    BY <1>2, GrownExtends
  <2>2. phase = "grow" /\ phase' = "grow"
    BY <1>2 DEF GrowRound, Grown
  <2>3. draftKV' = ForwardKV(tree, kv, beams)
    BY <1>2 DEF Grown, DraftForward, RunsEveryExit
  <2>4. prefixLen \in Nat /\ end \in Nat /\ 1 <= prefixLen /\ prefixLen <= end /\ end' \in Nat
    BY <2>1, CoreTreeFacts DEF CoreInv
  <2>5. \A n \in prefixLen - 1 .. end - 1 : Ready(tree, kv, n)
    <3>1. CASE prefill /\ round = 0
      <4>1. end = prefixLen
        BY <2>2, <3>1 DEF GrowthInv, Unstarted
      <4>2. \A n \in prefixLen - 1 .. end - 1 : n = prefixLen - 1
        BY <2>4, <4>1
      <4> QED
        BY <3>1, <4>2, PrefillIsText
    <3>2. CASE ~(prefill /\ round = 0)
      BY <1>2, <2>1, <2>2, <3>2 DEF FilledInv, AllReady, Unstarted
    <3> QED
      BY <3>1, <3>2
  <2> HIDE DEF kv
  <2>6. \A n \in beams : Ready(tree, kv, n)
    BY <2>1, <2>5
  <2>7. /\ \A n \in 0 .. end - 1 : Ready(tree, kv, n) => Ready(tree', draftKV', n)
        /\ \A n \in end .. end' - 1 : Ready(tree', draftKV', n)
    BY <2>1, <2>3, <2>6, PassRuns
  <2>8. \A n \in prefixLen - 1 .. end' - 1 : Ready(tree', draftKV', n)
    <3>1. \A n \in prefixLen - 1 .. end' - 1 :
            (n \in prefixLen - 1 .. end - 1 /\ n \in 0 .. end - 1) \/ n \in end .. end' - 1
      BY <2>4, InTwoParts
    <3> QED
      BY <2>5, <2>7, <3>1
  <2> QED
    BY <2>1, <2>2, <2>8 DEF AllReady, ExitsRan
<1>3. RunsEveryExit' => RunsEveryExit
  BY DEF GrowRound, RunsEveryExit
<1> QED
  BY <1>1, <1>2, <1>3, GrowRoundGrows DEF FilledInv

LEMMA FilledSubmit ==
  ASSUME CoreInv, CacheInv, GrowthInv, FilledInv, Submit
  PROVE  FilledInv'
<1> SUFFICES ASSUME RunsEveryExit'
             PROVE  AllReady' /\ ExitsRan'
  BY DEF FilledInv
<1>1. /\ UNCHANGED <<cfg, prefixLen, forest>> /\ phase = "grow" /\ phase' = "predict" /\ RunsEveryExit
  BY DEF Submit, treeVars, betVars, RunsEveryExit
<1>2. /\ prefixLen \in Nat /\ end \in Nat /\ 1 <= prefixLen /\ prefixLen <= end
      /\ IsTree(tree, end) /\ end \in 0 .. MaxLen /\ prefixLen \in 0 .. end
      /\ forest = NoForest
  BY <1>1, CoreTreeFacts DEF CoreInv, TreeInv
<1>3. Top = end /\ Top' = end'
  BY <1>1, <1>2 DEF Top, NoForest
<1>4. ~Unstarted
  <2> SUFFICES ASSUME prefill, round = 0
               PROVE  FALSE
    BY <1>1 DEF Unstarted
  <2>1. ~spliced /\ ceiling = cfg.beamLen
    BY <1>1 DEF GrowthInv
  <2>2. cfg.beamLen \in Nat \ {0}
    BY ConfigSizes
  <2>3. Discounted = cfg.beamLen
    BY <2>1 DEF Discounted
  <2>4. Growing
    BY <2>1, <2>2, <2>3 DEF Growing
  <2> QED
    BY <2>4 DEF Submit
<1>5. \A n \in prefixLen - 1 .. end - 1 : Ready(tree, draftKV, n)
  BY <1>1, <1>3, <1>4 DEF FilledInv, AllReady
<1>6. CASE UNCHANGED <<treeVars, draftKV>>
  <2>1. UNCHANGED <<tree, end, draftKV>>
    BY <1>6 DEF treeVars
  <2> QED
    BY <1>1, <1>3, <1>5, <2>1 DEF AllReady, ExitsRan
<1>7. ASSUME NEW kept, NEW dest, TrimmedBy(kept, dest)
      PROVE  AllReady' /\ ExitsRan'
  <2> DEFINE e2  == prefixLen + Cardinality(kept)
             new == GatherTree(tree, kept, dest, e2)
             run == MoveKV(draftKV, kept, dest, e2)
             low == prefixLen - 1
  <2>1. tree' = new /\ draftKV' = run /\ end' = e2
    BY <1>7 DEF TrimmedBy
  <2>2. low \in 0 .. prefixLen
    BY <1>2
  <2>3. \A n \in low .. e2 - 1 : Ready(new, run, n)
    <3>1. \A n \in low .. end - 1 : Ready(tree, draftKV, n)
      BY <1>5
    <3> HIDE DEF low
    <3> QED
      BY <1>2, <1>7, <2>2, <3>1, TrimMovesRan DEF TrimmedBy
  <2> HIDE DEF e2, new, run
  <2> QED
    BY <1>1, <1>3, <2>1, <2>3 DEF AllReady, ExitsRan
<1> QED
  BY <1>6, <1>7, SubmitTrims
\* The exits of a strategy that has beams enough for them all.
LEMMA AllExits ==
  ASSUME CoreInv, RequestInv, RunsEveryExit, phase = "predict", NEW exits \in SaguaroExits
  PROVE  exits = IF cfg.exitMode = "trunk" THEN Submitted
                 ELSE Leaves({tree[n].par : n \in 0 .. end - 1})
<1>1. /\ prefixLen \in Nat /\ end \in Nat /\ 1 <= prefixLen /\ prefixLen <= end
      /\ cfg.budget \in Nat /\ cfg.pBeams \in Nat /\ cfg.exitMode \in {"leaf", "trunk"}
  BY CoreTreeFacts, ConfigSizes DEF CoreInv
<1>2. /\ IsFiniteSet(Drafted) /\ Cardinality(Drafted) = end - prefixLen
      /\ Cardinality(Drafted) <= cfg.budget
  BY DraftedSize DEF RequestInv, RequestSize
<1>3. CASE cfg.exitMode = "trunk"
  <2>1. Cardinality(Submitted) = (end - prefixLen) + 1
    <3> DEFINE p == prefixLen - 1
    <3>1. p \in Nat /\ p <= end /\ end - p = (end - prefixLen) + 1
      BY <1>1
    <3> HIDE DEF p
    <3>2. Cardinality(p .. end - 1) = end - p
      BY <1>1, <3>1, NthOfInterval
    <3> QED
      BY <3>1, <3>2 DEF Submitted, p
  <2>2. cfg.budget < cfg.pBeams
    BY <1>3 DEF RunsEveryExit
  <2>3. ~(Cardinality(Submitted) > cfg.pBeams)
    BY <1>1, <1>2, <2>1, <2>2
  <2> QED
    BY <1>3, <2>3 DEF SaguaroExits, Topk
<1>4. CASE cfg.exitMode # "trunk"
  <2> DEFINE leaves == Leaves({tree[n].par : n \in 0 .. end - 1})
  <2>1. leaves \subseteq Drafted
    BY DEF Leaves
  <2> HIDE DEF leaves
  <2>2. Cardinality(leaves) <= Cardinality(Drafted) /\ Cardinality(leaves) \in Nat
    BY <1>2, <2>1, FS_Subset, FS_CardinalityType
  <2>3. cfg.budget <= cfg.pBeams
    BY <1>4 DEF RunsEveryExit
  <2>4. ~(Cardinality(leaves) > cfg.pBeams)
    BY <1>1, <1>2, <2>2, <2>3, DraftedSize
  <2> QED
    BY <1>4, <2>4 DEF SaguaroExits, Topk, leaves
<1> QED
  BY <1>3, <1>4

\* What is no exit in leaf mode was run before one of its children.
LEMMA InnerNodesRan ==
  ASSUME CoreInv, RequestInv, phase = "predict", Top = end, Drafted # {},
         \A n \in prefixLen - 1 .. end - 1 : Ready(tree, draftKV, n),
         NEW n \in Submitted, n \notin Leaves({tree[c].par : c \in 0 .. end - 1})
  PROVE  Ran(tree, draftKV, n)
<1>1. /\ prefixLen \in Nat /\ end \in Nat /\ 1 <= prefixLen /\ prefixLen <= end
      /\ TextTree(tree, prefixLen, end, end) /\ IsTree(tree, end) /\ end \in 0 .. MaxLen
      /\ tree \in [Slots -> Nodes] /\ \A c \in 0 .. end - 1 : c \in Slots
  BY CoreTreeFacts DEF CoreInv
<1>2. n \in prefixLen - 1 .. end - 1 /\ n \in Nat /\ n \in 0 .. end - 1
  BY <1>1 DEF Submitted
<1>3. \E c \in Drafted : n \in tree[c].row \ {c}
  <2>1. CASE n = prefixLen - 1
    <3>1. PICK c \in Drafted : TRUE
      OBVIOUS
    <3>2. c \in prefixLen .. end - 1
      BY DEF Drafted
    <3>3. 0 .. prefixLen - 1 \subseteq tree[c].row
      BY <1>1, <3>2 DEF TextTree, DraftNode
    <3>4. n \in 0 .. prefixLen - 1 /\ n # c
      BY <1>1, <2>1, <3>2
    <3> QED
      BY <3>3, <3>4
  <2>2. CASE n # prefixLen - 1
    <3>1. n \in Drafted /\ n >= prefixLen
      BY <1>1, <1>2, <2>2 DEF Drafted
    <3>2. PICK c \in 0 .. end - 1 : tree[c].par = n
      BY <3>1 DEF Leaves
    <3>3. c \in Drafted
      <4>1. ~(c \in 0 .. prefixLen - 1)
        BY <1>1, <1>2, <3>1, <3>2 DEF RequestInv, TextParents
      <4> QED
        BY <1>1, <3>2, <4>1 DEF Drafted
    <3>4. tree[c].row = tree[n].row \cup {c} /\ n \in prefixLen - 1 .. c - 1
      BY <1>1, <3>2, <3>3 DEF TextTree, DraftNode, Drafted
    <3>5. n \in tree[n].row
      BY <1>1, <1>2, RowIsBefore
    <3>6. n # c
      <4>1. c \in Int
        BY <3>2
      <4> QED
        BY <1>2, <3>4, <4>1
    <3> QED
      BY <3>3, <3>4, <3>5, <3>6
  <2> QED
    BY <2>1, <2>2
<1>4. PICK c \in Drafted : n \in tree[c].row \ {c}
  BY <1>3
<1>5. c \in prefixLen - 1 .. end - 1
  BY <1>1 DEF Drafted
<1> QED
  BY <1>4, <1>5 DEF Ready

LEMMA FilledPredict ==
  ASSUME CoreInv, RequestInv, FilledInv, Predict
  PROVE  FilledInv'
<1>1. CASE phase' = "failed"
  BY <1>1 DEF FilledInv
<1>2. ASSUME RunsEveryExit, NEW exits, NEW guesses, PlantedAt(exits, guesses)
      PROVE  AllReady' /\ ExitsRan'
  <2>1. /\ exits \in SUBSET (0 .. end - 1) /\ Top = end /\ Top' \in end .. MaxLen
        /\ Extended(tree, tree', end, Top', exits)
        /\ phase = "predict" /\ UNCHANGED <<cfg, prefixLen, end>>
    BY <1>2, PlantedExtends
  <2>2. draftKV' = ForwardKV(tree, draftKV, exits)
    BY <1>2 DEF PlantedAt, DraftForward, RunsEveryExit
  <2>3. /\ prefixLen \in Nat /\ end \in Nat /\ 1 <= prefixLen /\ prefixLen <= end /\ Top' \in Nat
        /\ MaxLen \in Nat
    BY <2>1, CoreTreeFacts DEF CoreInv
  <2>4. \A n \in prefixLen - 1 .. end - 1 : Ready(tree, draftKV, n)
    BY <1>2, <2>1 DEF FilledInv, AllReady, Unstarted
  <2>5. exits = IF cfg.exitMode = "trunk" THEN Submitted
                ELSE Leaves({tree[n].par : n \in 0 .. end - 1})
    <3>1. exits \in SaguaroExits
      BY <1>2 DEF PlantedAt, RunsEveryExit
    <3> QED
      BY <1>2, <2>1, <3>1, AllExits
  <2>6. \A n \in exits : Ready(tree, draftKV, n)
    <3>1. exits \subseteq prefixLen - 1 .. end - 1
      BY <2>3, <2>5 DEF Leaves, Drafted, Submitted
    <3> QED
      BY <2>4, <3>1
  <2>7. /\ \A n \in exits : Ran(tree', draftKV', n)
        /\ \A n \in 0 .. end - 1 : Ran(tree, draftKV, n) => Ran(tree', draftKV', n)
        /\ \A n \in 0 .. end - 1 : Ready(tree, draftKV, n) => Ready(tree', draftKV', n)
        /\ \A n \in end .. Top' - 1 : Ready(tree', draftKV', n)
    BY <2>1, <2>2, <2>6, PassRuns
  <2>8. \A n \in prefixLen - 1 .. Top' - 1 : Ready(tree', draftKV', n)
    <3>1. \A n \in prefixLen - 1 .. Top' - 1 :
            (n \in prefixLen - 1 .. end - 1 /\ n \in 0 .. end - 1) \/ n \in end .. Top' - 1
      BY <2>3, InTwoParts
    <3> QED
      BY <2>4, <2>7, <3>1
  <2>9. ASSUME cfg.exitMode = "trunk" \/ Drafted # {}, NEW n \in Submitted
        PROVE  Ran(tree', draftKV', n)
    <3>1. CASE n \in exits
      BY <2>7, <3>1
    <3>2. CASE n \notin exits
      <4>1. cfg.exitMode # "trunk" /\ Drafted # {} /\ exits = Leaves({tree[c].par : c \in 0 .. end - 1})
        BY <2>5, <2>9, <3>2
      <4>2. Ran(tree, draftKV, n)
        BY <2>1, <2>4, <3>2, <4>1, InnerNodesRan
      <4>3. n \in 0 .. end - 1
        BY <2>3 DEF Submitted
      <4> QED
        BY <2>7, <4>2, <4>3
    <3> QED
      BY <3>1, <3>2
  <2>10. Drafted' = Drafted /\ Submitted' = Submitted
    BY <2>1 DEF Drafted, Submitted
  <2> QED
    BY <2>1, <2>8, <2>9, <2>10 DEF AllReady, ExitsRan
<1>3. RunsEveryExit' => RunsEveryExit
  BY DEF Predict, RunsEveryExit
<1> QED
  BY <1>1, <1>2, <1>3, PredictPlants DEF FilledInv

LEMMA FilledForestRound ==
  ASSUME CoreInv, FilledInv, ForestRound
  PROVE  FilledInv'
<1>1. CASE phase' = "failed"
  BY <1>1 DEF FilledInv
<1>2. ASSUME RunsEveryExit, NEW beams, NEW children, NEW best, ForestGrown(beams, children, best)
      PROVE  AllReady' /\ ExitsRan'
  <2>1. /\ beams \in SUBSET (end .. Top - 1) /\ beams \in SUBSET (0 .. Top - 1)
        /\ Top' \in Top .. MaxLen /\ Extended(tree, tree', Top, Top', beams)
        /\ UNCHANGED <<cfg, prefixLen, end>>
    BY <1>2, ForestExtends
  <2>2. phase = "forest" /\ phase' = "forest"
    BY <1>2 DEF ForestRound, ForestGrown
  <2>3. draftKV' = ForwardKV(tree, draftKV, beams)
    BY <1>2 DEF ForestGrown, DraftForward, RunsEveryExit
  <2>4. /\ prefixLen \in Nat /\ end \in Nat /\ Top \in Nat /\ 1 <= prefixLen /\ prefixLen <= end
        /\ end <= Top /\ prefixLen <= Top /\ MaxLen \in Nat
    BY CoreTreeFacts DEF CoreInv
  <2>5. Top' \in Nat
    BY <2>1, <2>4
  <2>6. \A n \in prefixLen - 1 .. Top - 1 : Ready(tree, draftKV, n)
    BY <1>2, <2>2 DEF FilledInv, AllReady, Unstarted
  <2>7. \A n \in beams : Ready(tree, draftKV, n)
    <3>1. beams \subseteq prefixLen - 1 .. Top - 1
      BY <2>1, <2>4
    <3> QED
      BY <2>6, <3>1
  <2>8. /\ \A n \in 0 .. Top - 1 : Ran(tree, draftKV, n) => Ran(tree', draftKV', n)
        /\ \A n \in 0 .. Top - 1 : Ready(tree, draftKV, n) => Ready(tree', draftKV', n)
        /\ \A n \in Top .. Top' - 1 : Ready(tree', draftKV', n)
    BY <2>1, <2>3, <2>7, PassRuns
  <2>9. \A n \in prefixLen - 1 .. Top' - 1 : Ready(tree', draftKV', n)
    <3>1. \A n \in prefixLen - 1 .. Top' - 1 :
            (n \in prefixLen - 1 .. Top - 1 /\ n \in 0 .. Top - 1) \/ n \in Top .. Top' - 1
      BY <2>4, <2>5, InTwoParts
    <3> QED
      BY <2>6, <2>8, <3>1
  <2>10. \A n \in Submitted : n \in 0 .. Top - 1
    BY <2>4 DEF Submitted
  <2>11. Drafted' = Drafted /\ Submitted' = Submitted
    BY <2>1 DEF Drafted, Submitted
  <2>12. ExitsRan
    BY <1>2, <2>2 DEF FilledInv
  <2>13. ExitsRan'
    BY <2>1, <2>2, <2>8, <2>10, <2>11, <2>12 DEF ExitsRan
  <2> QED
    BY <2>1, <2>9, <2>13 DEF AllReady
<1>3. RunsEveryExit' => RunsEveryExit
  BY DEF ForestRound, RunsEveryExit
<1> QED
  BY <1>1, <1>2, <1>3, ForestRoundGrows DEF FilledInv
LEMMA FilledReconcile ==
  ASSUME CoreInv, RequestInv, FilledInv, Reconcile
  PROVE  FilledInv'
<1> SUFFICES ASSUME RunsEveryExit'
             PROVE  AllReady' /\ ExitsRan'
  BY DEF FilledInv
<1>1. PICK x \in Submitted : Taken(x) /\ (PlainOn(x) \/ \E root, B : SplicedOn(x, root, B))
  BY ReconcileOutcome
<1>2. /\ UNCHANGED cfg /\ phase = "wait" /\ phase' \in {"draft", "done"} /\ Top' = end'
      /\ selection # NoSelection /\ RunsEveryExit
  BY ReconcileOutcome DEF Reconcile, RunsEveryExit
<1>3. /\ TextTree(tree, prefixLen, end, Top) /\ x \in prefixLen - 1 .. end - 1
      /\ prefixLen \in Nat /\ end \in Nat /\ Top \in Nat /\ 1 <= prefixLen /\ prefixLen <= end
      /\ end <= Top /\ Top <= MaxLen /\ MaxLen \in Nat
  BY CoreTreeFacts DEF CoreInv, Submitted
<1> DEFINE R == tree[x].row
           k == Cardinality(R)
<1>4. k \in Nat /\ R \subseteq 0 .. x /\ R \in SUBSET Slots /\ x \in Nat
  BY <1>3, PathFacts
<1>5. TakesPath(tree, x, tree', end', Bonus) /\ prefixLen' = k + 1
  BY <1>1 DEF Taken
\* Whatever was submitted was run.
<1>6. \A n \in Submitted : Ran(tree, draftKV, n)
  <2>1. cfg.exitMode = "trunk" \/ Drafted # {}
    BY <1>2 DEF RequestInv, RequestSize
  <2> QED
    BY <1>2, <2>1 DEF FilledInv, ExitsRan
<1>7. \A n \in prefixLen - 1 .. Top - 1 : Ready(tree, draftKV, n)
  BY <1>2 DEF FilledInv, AllReady, Unstarted
<1>8. \A j \in R : Ran(tree, draftKV, j)
  <2>1. x \in prefixLen - 1 .. Top - 1
    BY <1>3
  <2>2. \A j \in R \ {x} : Ran(tree, draftKV, j)
    BY <1>7, <2>1 DEF Ready
  <2> QED
    BY <1>1, <1>6, <2>2
<1>9. SUFFICES \A n \in k .. end' - 1 : Ready(tree', draftKV', n)
  <2>1. prefixLen' - 1 = k
    BY <1>4, <1>5
  <2> HIDE DEF k
  <2> QED
    BY <1>2, <1>9, <2>1 DEF AllReady, ExitsRan
<1>10. CASE PlainOn(x)
  <2>1. draftKV' = GatherKV(draftKV, R) /\ end' = k + 1
    BY <1>10 DEF PlainOn
  <2>2. \A n \in Slots : n < Cardinality(R) => draftKV'[n] = draftKV[Nth(R, n)]
    BY <2>1 DEF GatherKV
  <2>3. Ready(tree', draftKV', k)
    BY <1>3, <1>5, <1>8, <2>2, PathStaysRan
  <2> HIDE DEF k
  <2>4. \A n \in k .. end' - 1 : n = k
    BY <1>4, <2>1
  <2> QED
    BY <2>3, <2>4
<1>11. ASSUME NEW root, NEW B, SplicedOn(x, root, B)
       PROVE  \A n \in k .. end' - 1 : Ready(tree', draftKV', n)
  <2> DEFINE joined == Splice(tree, R, B, prefixLen)
             b      == Cardinality(B)
  <2>1. /\ IsBranch(tree, end, Top, x, root, B)
        /\ tree' = joined \/ tree' = ReopenLeaves(joined, k + 1, k + b)
        /\ end' = k + b /\ draftKV' = GatherKV(draftKV, R \cup B)
    BY <1>11 DEF SplicedOn
  <2>2. B \in SUBSET (end .. Top - 1) /\ IsFiniteSet(B) /\ B \in SUBSET Int /\ b \in Nat
    BY <2>1, FS_CardinalityType DEF IsBranch
  <2>3. joined \in [Slots -> Nodes] /\ k + b <= MaxLen
    <3>1. TakesPath(tree, x, joined, k + b, tree[root].tok)
      BY <1>3, <2>1, SplicedRowTree
    <3>2. RowTree(joined, k + 1, k + b)
      BY <3>1 DEF TakesPath
    <3> HIDE DEF joined, k, b
    <3> QED
      BY <1>3, <1>4, <2>2, <3>2 DEF RowTree, IsTree
  <2>4. Follows(tree, x, B, joined)
    BY <1>3, <2>2, <2>3, SpliceFollows
  <2>5. \A s \in B : Cardinality(tree[x].row) + Rank(B, s) \in Slots
    <3> TAKE s \in B
    <3>1. Rank(B, s) \in 0 .. b - 1
      BY <2>2, NthOfRank
    <3>2. k + Rank(B, s) \in Slots
      <4> HIDE DEF k, b
      <4> QED
        BY <1>3, <1>4, <2>2, <2>3, <3>1 DEF Slots
    <3> QED
      BY <3>2
  <2>6. Follows(tree, x, B, tree')
    <3>1. Follows(tree, x, B, ReopenLeaves(joined, k + 1, k + b))
      <4> HIDE DEF joined, b
      <4> QED
        BY <2>3, <2>4, <2>5, ReopenedFollows
    <3> HIDE DEF joined, b
    <3> QED
      BY <2>1, <2>4, <3>1
  <2>7. \A s \in B : Ready(tree, draftKV, s)
    <3>1. \A s \in B : s \in prefixLen - 1 .. Top - 1
      BY <1>3, <2>2
    <3> QED
      BY <1>7, <3>1
  <2>8. TakesPath(tree, x, tree', Cardinality(tree[x].row) + Cardinality(B), Bonus)
    BY <1>5, <2>1
  <2>9. \A n \in Cardinality(tree[x].row) .. (Cardinality(tree[x].row) + Cardinality(B)) - 1 :
          Ready(tree', GatherKV(draftKV, tree[x].row \cup B), n)
    BY <1>3, <1>8, <2>1, <2>6, <2>7, <2>8, BranchStaysReady
  <2> QED
    BY <2>1, <2>9
<1> QED
  BY <1>1, <1>10, <1>11

(***************************************************************************)
(* The theorems.                                                           *)
(***************************************************************************)

DraftCacheInv == ScratchInv /\ GrowthInv /\ RequestInv /\ FilledInv

LEMMA ScratchStep ==
  ASSUME CoreInv, ServerInv, ScratchInv, [Next]_vars
  PROVE  ScratchInv'
BY ScratchIdles, ScratchGrowRound, ScratchSubmit, ScratchPredict, ScratchForestRound,
   ScratchReconcile DEF Next, Step, Terminated

LEMMA GrowthStep ==
  ASSUME CoreInv, CacheInv, ScratchInv, GrowthInv, [Next]_vars
  PROVE  GrowthInv'
<1>1. CASE Submit
  BY <1>1, GrowthIdles DEF Submit, growVars
<1>2. CASE Verify \/ Replay
  BY <1>2, GrowthIdles DEF Verify, Replay, growVars
<1>3. CASE VerifyFails \/ ReorderRaises \/ PlaceBets
  BY <1>3, GrowthIdles DEF VerifyFails, ReorderRaises, PlaceBets, growVars
<1>4. CASE Predict
  <2>1. phase' \in {"wait", "forest", "failed"}
    BY <1>4 DEF Predict
  <2> QED
    BY <1>4, <2>1, GrowthIdles DEF Predict
<1>5. CASE ForestRound
  <2>1. phase' \in {"forest", "failed"}
    BY <1>5 DEF ForestRound
  <2> QED
    BY <1>5, <2>1, GrowthIdles DEF ForestRound
<1>6. CASE UNCHANGED vars
  BY <1>6 DEF vars, treeVars, growVars, betVars, GrowthInv, Unstarted, prefill, Frontier, BudgetMet,
              Drafted, LostFrontier, FirstDrafted
<1> QED
  BY <1>1, <1>2, <1>3, <1>4, <1>5, <1>6, GrowthStart, GrowthRound, GrowthReconcile
     DEF Next, Step, Terminated

LEMMA FilledStep ==
  ASSUME CoreInv, CacheInv, ServerInv, GrowthInv, RequestInv, FilledInv, [Next]_vars
  PROVE  FilledInv'
BY FilledIdles, FilledGrowRound, FilledSubmit, FilledPredict, FilledForestRound, FilledReconcile
   DEF Next, Step, Terminated

\* What of the tree the draft model has run, and what each round adds: a forest's
\* frontier never was run, nothing behind the tree is cached, a frontier is lost
\* in a splice only, the server takes requests of the budget's size, and if the
\* prediction pass runs every exit, whatever is drafted or planted finds its
\* ancestors in the cache.
THEOREM DraftCacheFollowsTree == Spec => []DraftCacheInv
<1>1. Init => DraftCacheInv
  BY CoreInit, ScratchInit, GrowthInit, RequestInit, FilledInit DEF DraftCacheInv
<1>2. CoreInv /\ CacheInv /\ ServerInv /\ DraftCacheInv /\ [Next]_vars => DraftCacheInv'
  BY ScratchStep, GrowthStep, RequestStep, FilledStep DEF DraftCacheInv
<1> QED
  BY <1>1, <1>2, TextInTree, CachesHoldTexts, ServerKnowsText, PTL DEF Spec

\* Rounds that add `width' nodes each reach the budget, if there are enough.
LEMMA RoundsAreEnough ==
  ASSUME NEW beamLen \in Nat, NEW width \in Nat, NEW round0 \in Nat, NEW budget \in Nat,
         NEW drafted \in Nat, round0 >= beamLen, budget <= beamLen * width,
         round0 * width <= drafted
  PROVE  drafted >= budget
<1>1. beamLen * width <= round0 * width
  <2>1. PICK d \in Nat : round0 = beamLen + d
    <3>1. round0 - beamLen \in Nat /\ round0 = beamLen + (round0 - beamLen)
      OBVIOUS
    <3> QED
      BY <3>1
  <2>2. (beamLen + d) * width = beamLen * width + d * width
    OBVIOUS
  <2>3. d * width \in Nat /\ beamLen * width \in Nat
    OBVIOUS
  <2> QED
    BY <2>1, <2>2, <2>3
<1>2. beamLen * width \in Nat /\ round0 * width \in Nat
  OBVIOUS
<1> QED
  BY <1>1, <1>2

\* A tree comes out of _grow_tree too small for the server only if it was
\* spliced in without a frontier.
THEOREM OnlyLostFrontiersStarve == Spec => []OnlyLostFrontierStarves
<1>1. CoreInv /\ CacheInv /\ GrowthInv => OnlyLostFrontierStarves
  <2> SUFFICES ASSUME CoreInv, CacheInv, GrowthInv,
                      phase = "grow", EnoughRounds, ~Growing, ~BudgetMet
               PROVE  spliced /\ ceiling = 0 /\ (cfg.strategy = "saguaro" => draftKV[FirstDrafted] = NoKV)
    BY DEF OnlyLostFrontierStarves
  <2>1. ~(round < ceiling)
    BY DEF Growing
  <2>2. ceiling = 0
    <3> SUFFICES ASSUME ceiling # 0
                 PROVE  FALSE
      OBVIOUS
    <3>1. ceiling = cfg.beamLen /\ round * cfg.width <= Cardinality(Drafted)
      BY DEF GrowthInv
    <3>2. /\ cfg.beamLen \in Nat /\ cfg.width \in Nat /\ cfg.budget \in Nat /\ round \in Nat
          /\ Cardinality(Drafted) \in Nat
      BY ConfigSizes, DraftedSize DEF CacheInv
    <3>3. round >= cfg.beamLen /\ cfg.budget <= cfg.beamLen * cfg.width
      BY <2>1, <3>1, <3>2 DEF EnoughRounds
    <3>4. Cardinality(Drafted) >= cfg.budget
      BY <3>1, <3>2, <3>3, RoundsAreEnough
    <3> QED
      BY <3>4 DEF BudgetMet
  <2>3. LostFrontier
    BY <2>2 DEF GrowthInv
  <2> QED
    BY <2>2, <2>3 DEF LostFrontier
<1> QED
  BY <1>1, TextInTree, CachesHoldTexts, DraftCacheFollowsTree, PTL DEF DraftCacheInv

\* With a prediction pass over every exit the draft cache misses nothing of the
\* confirmed sequence, whichever branch is spliced in.
THEOREM OverlapFillsTheCache == Spec => []OverlapFillsDraftCache
<1>1. CoreInv /\ FilledInv => OverlapFillsDraftCache
  <2> SUFFICES ASSUME CoreInv, FilledInv, RunsEveryExit, phase = "draft", ~prefill,
                      NEW n \in 0 .. prefixLen - 2
               PROVE  draftKV[n] = SubSeq(output, 1, n + 1)
    BY DEF OverlapFillsDraftCache, DraftCacheHoldsPath
  <2>1. /\ prefixLen \in Nat /\ 1 <= prefixLen /\ end \in Nat /\ prefixLen <= end
        /\ Top \in Nat /\ end <= Top /\ TextTree(tree, prefixLen, end, Top)
    BY CoreTreeFacts DEF CoreInv
  <2>2. prefixLen - 1 \in prefixLen - 1 .. Top - 1 /\ prefixLen - 1 \in 0 .. prefixLen - 1
    BY <2>1
  <2>3. Ready(tree, draftKV, prefixLen - 1)
    BY <2>2 DEF FilledInv, AllReady, Unstarted
  <2>4. tree[prefixLen - 1].row = 0 .. prefixLen - 1
    BY <2>1, <2>2, TextPlaces
  <2>5. n \in tree[prefixLen - 1].row \ {prefixLen - 1} /\ n \in 0 .. prefixLen - 1
    BY <2>1, <2>4
  <2>6. draftKV[n] = Context(tree, n)
    BY <2>3, <2>5 DEF Ready, Ran
  <2> QED
    BY <2>5, <2>6, ConfirmedContext
<1> QED
  BY <1>1, TextInTree, DraftCacheFollowsTree, PTL DEF DraftCacheInv

\* The schedules of the rates that the clients of the decoder may be given are
\* fair, at whatever moment of the decoding the client draws one up.
THEOREM FanOutFair == Spec => []FanOutIsFair
<1>1. Rates \subseteq RationalRates
  BY DEF Rates, RationalRates
<1>2. FanOutIsFair
  <2>1. \A K \in 0 .. 4, B \in 0 .. 9, rate \in Rates : K \in Nat /\ B \in Nat /\ rate \in RationalRates
    BY <1>1
  <2>2. \A K \in 0 .. 4, B \in 0 .. 9, rate \in Rates : FairSchedule(K, B, rate)
    BY <2>1, SchedulesAreFair
  <2> QED
    BY <2>2 DEF FanOutIsFair
<1> QED
  BY <1>2, PTL
=============================================================================
