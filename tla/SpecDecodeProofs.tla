-------------------------- MODULE SpecDecodeProofs --------------------------
(***************************************************************************)
(* Theorems about SpecDecode, for any target model, prompt, recordings,    *)
(* configurations and length of the tree.                                  *)
(***************************************************************************)
EXTENDS SpecDecode, DraftTreeProofs, SequenceTheorems

(***************************************************************************)
(* Sets of slots one behind the other.                                     *)
(***************************************************************************)

\* In the union of two sets, all of the first before all of the second, the
\* places of the second follow those of the first.
LEMMA RankOfUnion ==
  ASSUME NEW A \in SUBSET Int, IsFiniteSet(A), NEW B \in SUBSET Int, IsFiniteSet(B),
         \A a \in A, b \in B : a < b
  PROVE  /\ IsFiniteSet(A \cup B) /\ A \cup B \in SUBSET Int
         /\ Cardinality(A) \in Nat /\ Cardinality(B) \in Nat
         /\ Cardinality(A \cup B) = Cardinality(A) + Cardinality(B)
         /\ \A a \in A : Rank(A \cup B, a) = Rank(A, a)
         /\ \A b \in B : Rank(A \cup B, b) = Cardinality(A) + Rank(B, b)
<1> DEFINE S == A \cup B
<1>1. Cardinality(A) \in Nat /\ Cardinality(B) \in Nat
  BY FS_CardinalityType
<1>2. A \cap B = {}
  <2>1. \A a \in A \cap B : a < a /\ a \in Int
    OBVIOUS
  <2>2. \A a \in Int : ~(a < a)
    OBVIOUS
  <2> QED
    BY <2>1, <2>2
<1>3. IsFiniteSet(S) /\ Cardinality(S) = Cardinality(A) + Cardinality(B)
  <2>1. IsFiniteSet(S)
    BY FS_Union
  <2>2. Cardinality(S) = Cardinality(A) + Cardinality(B) - Cardinality(A \cap B)
    BY FS_Union
  <2>3. Cardinality(A \cap B) = 0
    BY <1>2, FS_EmptySet
  <2> HIDE DEF S
  <2> QED
    BY <1>1, <2>1, <2>2, <2>3
<1>4. \A a \in A : Rank(S, a) = Rank(A, a)
  <2> TAKE a \in A
  <2>1. \A b \in B : ~(b < a)
    OBVIOUS
  <2>2. {y \in S : y < a} = {y \in A : y < a}
    BY <2>1
  <2> QED
    BY <2>2 DEF Rank
<1>5. ASSUME NEW b \in B
      PROVE  Rank(S, b) = Cardinality(A) + Rank(B, b)
  <2> DEFINE C == {y \in B : y < b}
  <2>1. {y \in S : y < b} = A \cup C
    OBVIOUS
  <2>2. A \cap C = {}
    BY <1>2
  <2>3. IsFiniteSet(C) /\ Cardinality(C) \in Nat
    BY FS_Subset, FS_CardinalityType
  <2> HIDE DEF C
  <2>4. Cardinality(A \cup C) = Cardinality(A) + Cardinality(C) - Cardinality(A \cap C)
    BY <2>3, FS_Union
  <2>5. Cardinality(A \cup C) = Cardinality(A) + Cardinality(C)
    BY <1>1, <2>2, <2>3, <2>4, FS_EmptySet
  <2> QED
    BY <2>1, <2>5 DEF Rank, C
<1> QED
  BY <1>1, <1>3, <1>4, <1>5

LEMMA NthOfUnion ==
  ASSUME NEW A \in SUBSET Int, IsFiniteSet(A), NEW B \in SUBSET Int, IsFiniteSet(B),
         \A a \in A, b \in B : a < b
  PROVE  /\ \A n \in 0 .. Cardinality(A) - 1 : Nth(A \cup B, n) = Nth(A, n)
         /\ \A n \in 0 .. Cardinality(B) - 1 : Nth(A \cup B, Cardinality(A) + n) = Nth(B, n)
<1>1. /\ IsFiniteSet(A \cup B) /\ A \cup B \in SUBSET Int
      /\ Cardinality(A) \in Nat /\ Cardinality(B) \in Nat
      /\ \A a \in A : Rank(A \cup B, a) = Rank(A, a)
      /\ \A b \in B : Rank(A \cup B, b) = Cardinality(A) + Rank(B, b)
  BY RankOfUnion
<1>2. ASSUME NEW n \in 0 .. Cardinality(A) - 1
      PROVE  Nth(A \cup B, n) = Nth(A, n)
  <2>1. Nth(A, n) \in A /\ Rank(A, Nth(A, n)) = n
    BY NthIsMember
  <2>2. Rank(A \cup B, Nth(A, n)) = n
    BY <1>1, <2>1
  <2>3. Nth(A \cup B, Rank(A \cup B, Nth(A, n))) = Nth(A, n)
    BY <1>1, <2>1, NthOfRank
  <2> QED
    BY <2>2, <2>3
<1>3. ASSUME NEW n \in 0 .. Cardinality(B) - 1
      PROVE  Nth(A \cup B, Cardinality(A) + n) = Nth(B, n)
  <2>1. Nth(B, n) \in B /\ Rank(B, Nth(B, n)) = n
    BY NthIsMember
  <2>2. Rank(A \cup B, Nth(B, n)) = Cardinality(A) + n
    BY <1>1, <2>1
  <2>3. Nth(A \cup B, Rank(A \cup B, Nth(B, n))) = Nth(B, n)
    BY <1>1, <2>1, NthOfRank
  <2> QED
    BY <2>2, <2>3
<1> QED
  BY <1>2, <1>3

\* An interval of slots is in its own order.
LEMMA NthOfInterval ==
  ASSUME NEW a \in Nat, NEW b \in Nat, a <= b
  PROVE  /\ IsFiniteSet(a .. b - 1) /\ a .. b - 1 \in SUBSET Int
         /\ Cardinality(a .. b - 1) = b - a
         /\ \A n \in 0 .. (b - a) - 1 : Nth(a .. b - 1, n) = a + n
<1> DEFINE S == a .. b - 1
<1>1. IsFiniteSet(S) /\ Cardinality(S) = b - a
  <2>1. a \in Int /\ b - 1 \in Int
    OBVIOUS
  <2>2. IsFiniteSet(S) /\ Cardinality(S) = IF a > b - 1 THEN 0 ELSE (b - 1) - a + 1
    BY <2>1, FS_Interval
  <2> HIDE DEF S
  <2> QED
    BY <2>2
<1>2. ASSUME NEW n \in 0 .. (b - a) - 1
      PROVE  Nth(S, n) = a + n
  <2>1. a + n \in S /\ n \in Nat
    OBVIOUS
  <2>2. {y \in S : y < a + n} = a .. (a + n) - 1
    OBVIOUS
  <2>3. Cardinality(a .. (a + n) - 1) = n
    <3>1. a \in Int /\ (a + n) - 1 \in Int
      BY <2>1
    <3>2. Cardinality(a .. (a + n) - 1)
            = IF a > (a + n) - 1 THEN 0 ELSE ((a + n) - 1) - a + 1
      BY <3>1, FS_Interval
    <3> QED
      BY <2>1, <3>2
  <2>4. Rank(S, a + n) = n
    BY <2>2, <2>3 DEF Rank
  <2>5. S \in SUBSET Int
    OBVIOUS
  <2> HIDE DEF S
  <2>6. Nth(S, Rank(S, a + n)) = a + n
    BY <1>1, <2>1, <2>5, NthOfRank
  <2> QED
    BY <2>4, <2>6
<1> QED
  BY <1>1, <1>2

(***************************************************************************)
(* The tree of a request: the text, the draft, and behind the draft what   *)
(* an overlap strategy planted.                                            *)
(***************************************************************************)
TextTree(tr, len, e, top) ==
  /\ len \in 1 .. MaxLen /\ e \in len .. MaxLen /\ top \in e .. MaxLen
  /\ IsTree(tr, top)
  /\ \A n \in 0 .. len - 1 : tr[n].row = 0 .. n
  /\ \A n \in len .. e - 1 : DraftNode(tr, len, n)
  /\ \A n \in e .. top - 1 : tr[n].par \in 0 .. n - 1 /\ tr[n].row = tr[tr[n].par].row \cup {n}

\* What is in front of an earlier end is a tree too.
LEMMA TextTreeBounds ==
  ASSUME NEW tr, NEW len, NEW e, NEW top, TextTree(tr, len, e, top)
  PROVE  /\ len \in Nat /\ e \in Nat /\ top \in Nat /\ MaxLen \in Nat
         /\ 1 <= len /\ len <= e /\ e <= top /\ top <= MaxLen
         /\ e \in 0 .. MaxLen /\ top \in 0 .. MaxLen
         /\ IsTree(tr, e) /\ IsTree(tr, top) /\ tr \in [Slots -> Nodes]
         /\ \A n \in 0 .. top - 1 : n \in Slots
<1>1. /\ len \in 1 .. MaxLen /\ e \in len .. MaxLen /\ top \in e .. MaxLen
      /\ IsTree(tr, top) /\ MaxLen \in Nat
  BY SizesAssumption DEF TextTree
<1>2. /\ len \in Nat /\ e \in Nat /\ top \in Nat /\ MaxLen \in Nat
      /\ 1 <= len /\ len <= e /\ e <= top /\ top <= MaxLen
  BY <1>1
<1>3. \A n \in 0 .. top - 1 : n \in Slots
  BY <1>2 DEF Slots
<1>4. \A n \in 0 .. e - 1 : n \in 0 .. top - 1
  BY <1>2
<1>5. IsTree(tr, e) /\ tr \in [Slots -> Nodes]
  BY <1>1, <1>4 DEF IsTree
<1> QED
  BY <1>1, <1>2, <1>3, <1>5

LEMMA RowTreeIsTextTree ==
  ASSUME NEW tr, NEW len, NEW e, RowTree(tr, len, e), len > 0
  PROVE  TextTree(tr, len, e, e)
<1>1. /\ len \in 0 .. MaxLen /\ e \in len .. MaxLen /\ IsTree(tr, e) /\ MaxLen \in Nat
      /\ \A n \in 0 .. len - 1 : tr[n].row = 0 .. n
      /\ \A n \in len .. e - 1 : DraftNode(tr, len, n)
  BY SizesAssumption DEF RowTree
<1>2. len \in 1 .. MaxLen /\ e \in e .. MaxLen /\ e .. e - 1 = {}
  BY <1>1
<1> QED
  BY <1>1, <1>2 DEF TextTree

\* A node of the draft comes one place behind its parent, on the same path.
LEMMA ParentOnPath ==
  ASSUME NEW tr, NEW top \in 0 .. MaxLen, IsTree(tr, top), NEW j \in 0 .. top - 1,
         tr[j].par \in 0 .. j - 1, tr[j].row = tr[tr[j].par].row \cup {j}
  PROVE  /\ tr[j].par \in 0 .. top - 1 /\ tr[j].par \in tr[j].row /\ j \notin tr[tr[j].par].row
         /\ tr[j].pos = tr[tr[j].par].pos + 1 /\ tr[tr[j].par].pos \in Nat
<1> DEFINE par == tr[j].par
<1>1. par \in 0 .. top - 1 /\ top \in Nat /\ par < j /\ j \in Nat /\ par \in Nat
  BY SizesAssumption
<1>2. /\ par \in tr[par].row /\ tr[par].row \subseteq 0 .. par
      /\ tr[j].row = tr[par].row \cup {j}
  BY <1>1 DEF IsTree
<1>3. /\ Cardinality(tr[par].row) = tr[par].pos + 1 /\ tr[par].pos \in Nat
      /\ IsFiniteSet(tr[par].row)
  BY <1>1, PathInOrder
<1>4. Cardinality(tr[j].row) = tr[j].pos + 1 /\ tr[j].pos \in Nat
  BY PathInOrder
<1> HIDE DEF par
<1>5. j \notin tr[par].row
  BY <1>1, <1>2
<1>6. Cardinality(tr[j].row) = Cardinality(tr[par].row) + 1
  BY <1>2, <1>3, <1>5, FS_AddElement
<1>7. tr[j].pos = tr[par].pos + 1
  BY <1>3, <1>4, <1>6
<1> QED
  BY <1>1, <1>2, <1>3, <1>5, <1>7 DEF par

\* A path that may be accepted: the text and some draft nodes behind it.
LEMMA PathFacts ==
  ASSUME NEW tr, NEW len, NEW e, NEW top, TextTree(tr, len, e, top), NEW x \in len - 1 .. e - 1
  PROVE  /\ x \in 0 .. e - 1 /\ x \in 0 .. top - 1 /\ x \in Nat /\ x \in Slots
         /\ 0 .. len - 1 \subseteq tr[x].row /\ tr[x].row \subseteq 0 .. x /\ x \in tr[x].row
         /\ IsFiniteSet(tr[x].row) /\ tr[x].row \in SUBSET Int /\ tr[x].row \in SUBSET Slots
         /\ Cardinality(tr[x].row) = tr[x].pos + 1 /\ tr[x].pos \in Nat
         /\ Cardinality(tr[x].row) >= len /\ Cardinality(tr[x].row) <= e
<1>1. /\ len \in Nat /\ e \in Nat /\ top \in Nat /\ MaxLen \in Nat
      /\ 1 <= len /\ len <= e /\ e <= top /\ top <= MaxLen
      /\ e \in 0 .. MaxLen /\ IsTree(tr, e) /\ \A n \in 0 .. top - 1 : n \in Slots
  BY TextTreeBounds
<1>2. x \in 0 .. e - 1 /\ x \in 0 .. top - 1 /\ x \in Nat /\ x \in Slots
  BY <1>1
<1>3. 0 .. len - 1 \subseteq tr[x].row
  <2>1. CASE x = len - 1
    BY <1>1, <2>1 DEF TextTree
  <2>2. CASE x # len - 1
    <3>1. DraftNode(tr, len, x)
      BY <1>1, <2>2 DEF TextTree
    <3> QED
      BY <3>1 DEF DraftNode
  <2> QED
    BY <2>1, <2>2
<1>4. /\ IsFiniteSet(tr[x].row) /\ tr[x].row \in SUBSET Int
      /\ Cardinality(tr[x].row) = tr[x].pos + 1 /\ tr[x].pos \in Nat
  BY <1>1, <1>2, PathInOrder
<1>5. tr[x].row \subseteq 0 .. x /\ x \in tr[x].row
  BY <1>1, <1>2 DEF IsTree
<1>6. \A n \in 0 .. x : n \in Slots /\ n \in 0 .. e - 1
  BY <1>1, <1>2
<1>7. Cardinality(tr[x].row) >= len /\ Cardinality(tr[x].row) <= e
  <2>1. /\ IsFiniteSet(0 .. e - 1)
        /\ Cardinality(0 .. e - 1) = e - 0 /\ Cardinality(0 .. len - 1) = len - 0
    BY <1>1, NthOfInterval
  <2>2. tr[x].row \subseteq 0 .. e - 1
    BY <1>5, <1>6
  <2>3. Cardinality(tr[x].row) <= Cardinality(0 .. e - 1)
    BY <2>1, <2>2, FS_Subset
  <2>4. Cardinality(0 .. len - 1) <= Cardinality(tr[x].row)
    BY <1>3, <1>4, FS_Subset
  <2> QED
    BY <1>1, <1>4, <2>1, <2>3, <2>4
<1> QED
  BY <1>2, <1>3, <1>4, <1>5, <1>6, <1>7

\* The part of a path from a slot on.
PathFrom(tr, x, len) == {n \in tr[x].row : n >= len}

\* What is behind a piece of the text comes, on a path, behind that piece.
LEMMA PartBehind ==
  ASSUME NEW tr, NEW len, NEW e, NEW top, TextTree(tr, len, e, top), NEW x \in len - 1 .. e - 1,
         NEW m \in 0 .. len
  PROVE  LET fresh == PathFrom(tr, x, m)
         IN  /\ IsFiniteSet(fresh) /\ Cardinality(fresh) \in Nat /\ fresh \in SUBSET Int
             /\ Cardinality(tr[x].row) = m + Cardinality(fresh)
             /\ \A n \in 0 .. m - 1 : Nth(tr[x].row, n) = n
             /\ \A n \in 0 .. Cardinality(fresh) - 1 : Nth(tr[x].row, m + n) = Nth(fresh, n)
<1> DEFINE fresh == PathFrom(tr, x, m)
<1>f. fresh = {n \in tr[x].row : n >= m}
  BY DEF PathFrom
<1> HIDE DEF fresh
<1> DEFINE R == tr[x].row
           T == 0 .. m - 1
<1>0. len \in Nat
  BY TextTreeBounds
<1>1. m \in Nat /\ m <= len
  BY <1>0
<1>2. T \subseteq R /\ IsFiniteSet(R) /\ R \in SUBSET Int /\ R \subseteq 0 .. x
  <2>1. 0 .. len - 1 \subseteq R /\ IsFiniteSet(R) /\ R \in SUBSET Int /\ R \subseteq 0 .. x
    BY PathFacts
  <2>2. T \subseteq 0 .. len - 1
    BY <1>0, <1>1
  <2> QED
    BY <2>1, <2>2
<1>3. /\ IsFiniteSet(T) /\ T \in SUBSET Int /\ Cardinality(T) = m - 0
      /\ \A n \in 0 .. (m - 0) - 1 : Nth(T, n) = 0 + n
  BY <1>1, NthOfInterval
<1>4. IsFiniteSet(fresh) /\ Cardinality(fresh) \in Nat /\ fresh \in SUBSET Int
  BY <1>2, <1>f, FS_Subset, FS_CardinalityType
<1>5. R = T \cup fresh
  <2>1. \A n \in R : n \in Int /\ n >= 0
    BY <1>2
  <2> HIDE DEF R
  <2>2. \A n \in R : n \in T \/ n >= m
    BY <1>1, <2>1
  <2> HIDE DEF T
  <2> QED
    BY <1>2, <1>f, <2>2 DEF R
<1>6. \A a \in T, b \in fresh : a < b
  BY <1>1, <1>4, <1>f
<1> HIDE DEF T, R
<1>7. /\ Cardinality(T) = m /\ \A n \in 0 .. m - 1 : Nth(T, n) = n
  BY <1>1, <1>3
<1>8. Cardinality(T \cup fresh) = Cardinality(T) + Cardinality(fresh)
  BY <1>3, <1>4, <1>6, RankOfUnion
<1>9. /\ \A n \in 0 .. Cardinality(T) - 1 : Nth(T \cup fresh, n) = Nth(T, n)
      /\ \A n \in 0 .. Cardinality(fresh) - 1 : Nth(T \cup fresh, Cardinality(T) + n) = Nth(fresh, n)
  BY <1>3, <1>4, <1>6, NthOfUnion
<1> QED
  BY <1>4, <1>5, <1>7, <1>8, <1>9 DEF R, fresh

\* Its draft nodes are behind its text.
LEMMA FreshPart ==
  ASSUME NEW tr, NEW len, NEW e, NEW top, TextTree(tr, len, e, top), NEW x \in len - 1 .. e - 1
  PROVE  LET fresh == PathFrom(tr, x, len)
         IN  /\ IsFiniteSet(fresh) /\ Cardinality(fresh) \in Nat /\ fresh \in SUBSET Int
             /\ Cardinality(tr[x].row) = len + Cardinality(fresh)
             /\ \A n \in 0 .. len - 1 : Nth(tr[x].row, n) = n
             /\ \A n \in 0 .. Cardinality(fresh) - 1 : Nth(tr[x].row, len + n) = Nth(fresh, n)
<1>1. len \in 0 .. len
  BY TextTreeBounds
<1> DEFINE fresh == PathFrom(tr, x, len)
<1>2. /\ IsFiniteSet(fresh) /\ Cardinality(fresh) \in Nat /\ fresh \in SUBSET Int
      /\ Cardinality(tr[x].row) = len + Cardinality(fresh)
  BY <1>1, PartBehind
<1>3. \A n \in 0 .. len - 1 : Nth(tr[x].row, n) = n
  BY <1>1, PartBehind
<1>4. \A n \in 0 .. Cardinality(fresh) - 1 : Nth(tr[x].row, len + n) = Nth(fresh, n)
  BY <1>1, PartBehind
<1> QED
  BY <1>2, <1>3, <1>4

\* The token at a place of a path, and the context there.
LEMMA PlaceOnPath ==
  ASSUME NEW tr, NEW e \in 0 .. MaxLen, IsTree(tr, e), NEW x \in 0 .. e - 1,
         NEW p \in 0 .. tr[x].pos
  PROVE  LET j == Nth(tr[x].row, p)
         IN  /\ j \in tr[x].row /\ j \in 0 .. e - 1 /\ tr[j].pos = p
             /\ Context(tr, x)[p + 1] = tr[j].tok
             /\ Context(tr, j) = SubSeq(Context(tr, x), 1, p + 1)
<1> DEFINE R == tr[x].row
           j == Nth(R, p)
<1>1. /\ IsFiniteSet(R) /\ R \in SUBSET Int /\ Cardinality(R) = tr[x].pos + 1 /\ tr[x].pos \in Nat
      /\ \A i \in R : tr[i].pos = Rank(R, i)
  BY PathInOrder
<1>2. p \in 0 .. Cardinality(R) - 1
  BY <1>1
<1>3. j \in R /\ Rank(R, j) = p
  BY <1>1, <1>2, NthIsMember
<1>4. tr[j].pos = p
  BY <1>1, <1>3
<1> HIDE DEF j
<1>5. Context(tr, x)[tr[j].pos + 1] = tr[j].tok
  BY <1>3, ContextIsText
<1>6. j \in 0 .. e - 1 /\ Context(tr, j) = SubSeq(Context(tr, x), 1, tr[j].pos + 1)
  BY <1>3, ContextOfAncestor
<1> QED
  BY <1>3, <1>4, <1>5, <1>6 DEF j, R

\* The text is in the first slots, in order.
LEMMA TextPlaces ==
  ASSUME NEW tr, NEW len, NEW e, NEW top, TextTree(tr, len, e, top), NEW n \in 0 .. len - 1
  PROVE  /\ n \in Nat /\ n \in 0 .. e - 1 /\ n \in Slots
         /\ tr[n].row = 0 .. n /\ tr[n].pos = n
         /\ Context(tr, n) = [k \in 1 .. n + 1 |-> tr[k - 1].tok]
<1>1. /\ len \in Nat /\ e \in Nat /\ len <= e /\ e \in 0 .. MaxLen /\ IsTree(tr, e) /\ e <= top
      /\ top \in Nat /\ \A m \in 0 .. top - 1 : m \in Slots
  BY TextTreeBounds
<1>2. n \in Nat /\ n \in 0 .. e - 1 /\ n \in Slots
  BY <1>1
<1>3. tr[n].row = 0 .. n
  BY DEF TextTree
<1> QED
  BY <1>1, <1>2, <1>3, ContextOfPrefix

\* Each accepted token is the answer at the node before it on the path.
LEMMA AcceptedPath ==
  ASSUME NEW tr, NEW len, NEW e, NEW top, TextTree(tr, len, e, top), NEW x \in len - 1 .. e - 1,
         NEW sel, \A j \in tr[x].row : j >= len => tr[j].tok = sel[tr[j].par],
         NEW k \in len + 1 .. tr[x].pos + 1
  PROVE  \E p \in len - 1 .. e - 1 :
           /\ tr[p].pos = k - 2
           /\ Context(tr, p) = SubSeq(Context(tr, x), 1, k - 1)
           /\ Context(tr, x)[k] = sel[p]
<1>1. /\ len \in Nat /\ e \in Nat /\ 1 <= len /\ len <= e /\ e \in 0 .. MaxLen /\ IsTree(tr, e)
  BY TextTreeBounds
<1>2. x \in 0 .. e - 1 /\ tr[x].pos \in Nat /\ tr[x].row \subseteq 0 .. x /\ x \in Nat
  BY PathFacts
<1> DEFINE j == Nth(tr[x].row, k - 1)
<1>3. /\ k - 1 \in 0 .. tr[x].pos /\ (k - 1) + 1 = k /\ k \in Nat /\ k >= len + 1
  BY <1>1, <1>2
<1>4. /\ j \in tr[x].row /\ j \in 0 .. e - 1 /\ tr[j].pos = k - 1
      /\ Context(tr, x)[(k - 1) + 1] = tr[j].tok
  <2> HIDE DEF j
  <2>1. j = Nth(tr[x].row, k - 1)
    BY DEF j
  <2> QED
    BY <1>1, <1>2, <1>3, <2>1, PlaceOnPath
<1> HIDE DEF j
<1>5. j >= len
  <2>1. j < len => j \in 0 .. len - 1
    BY <1>1, <1>4
  <2>2. j \in 0 .. len - 1 => tr[j].pos = j
    BY TextPlaces
  <2> QED
    BY <1>1, <1>3, <1>4, <2>1, <2>2
<1>6. DraftNode(tr, len, j)
  BY <1>1, <1>4, <1>5 DEF TextTree
<1> DEFINE p == tr[j].par
<1>7. p \in len - 1 .. e - 1 /\ p \in 0 .. j - 1 /\ tr[j].row = tr[p].row \cup {j}
  BY <1>1, <1>4, <1>6 DEF DraftNode
<1>8. /\ p \in 0 .. e - 1 /\ p \in tr[j].row /\ tr[j].pos = tr[p].pos + 1 /\ tr[p].pos \in Nat
  BY <1>1, <1>4, <1>7, ParentOnPath
<1>9. tr[j].tok = sel[p]
  BY <1>4, <1>5
<1> HIDE DEF p
<1>10. p \in tr[x].row
  <2>1. tr[j].row = tr[x].row \cap 0 .. j
    BY <1>1, <1>2, <1>4 DEF IsTree
  <2> QED
    BY <1>8, <2>1
<1>11. tr[p].pos = k - 2 /\ tr[p].pos + 1 = k - 1
  BY <1>1, <1>3, <1>4, <1>8
<1>12. Context(tr, p) = SubSeq(Context(tr, x), 1, tr[p].pos + 1)
  BY <1>1, <1>2, <1>10, ContextOfAncestor
<1> QED
  BY <1>3, <1>4, <1>7, <1>9, <1>11, <1>12

\* What the target makes of a text is determined by the text.
LEMMA GreedyIsUnique ==
  ASSUME NEW s \in Seq(Tokens), NEW t \in Seq(Tokens), Len(s) = Len(t), NEW len \in Nat,
         \A i \in 1 .. Len(s) : i <= len => s[i] = t[i],
         \A i \in len + 1 .. Len(s) : s[i] = Target(SubSeq(s, 1, i - 1)),
         \A i \in len + 1 .. Len(s) : t[i] = Target(SubSeq(t, 1, i - 1))
  PROVE  s = t
<1> DEFINE D == {i \in 1 .. Len(s) : s[i] # t[i]}
           m == Min(D)
<1>1. Len(s) \in Nat
  OBVIOUS
<1>2. IsFiniteSet(D) /\ D \in SUBSET Int
  <2>1. IsFiniteSet(1 .. Len(s))
    <3>1. 1 \in Int /\ Len(s) \in Int
      BY <1>1
    <3> QED
      BY <3>1, FS_Interval
  <2> QED
    BY <2>1, FS_Subset
<1>3. CASE D = {}
  <2>1. \A i \in 1 .. Len(s) : s[i] = t[i]
    BY <1>3
  <2>2. s = [i \in 1 .. Len(s) |-> s[i]] /\ t = [i \in 1 .. Len(s) |-> t[i]]
    OBVIOUS
  <2> QED
    BY <2>1, <2>2
<1>4. CASE D # {}
  <2> HIDE DEF D
  <2>1. m \in D /\ \A y \in D : m <= y
    BY <1>2, <1>4, MinIsLeast
  <2> HIDE DEF m
  <2>2. m \in 1 .. Len(s) /\ s[m] # t[m] /\ m \in Nat
    BY <2>1 DEF D
  <2>3. m > len
    BY <2>2
  <2>4. s[m] = Target(SubSeq(s, 1, m - 1)) /\ t[m] = Target(SubSeq(t, 1, m - 1))
    BY <1>1, <2>2, <2>3
  <2>5. \A i \in 1 .. m - 1 : s[i] = t[i]
    <3> TAKE i \in 1 .. m - 1
    <3>1. i \in 1 .. Len(s) /\ ~(m <= i)
      BY <1>1, <2>2
    <3> QED
      BY <2>1, <3>1 DEF D
  <2>6. /\ SubSeq(s, 1, m - 1) = [i \in 1 .. m - 1 |-> s[i]]
        /\ SubSeq(t, 1, m - 1) = [i \in 1 .. m - 1 |-> t[i]]
    BY <2>2
  <2>7. SubSeq(s, 1, m - 1) = SubSeq(t, 1, m - 1)
    BY <2>5, <2>6
  <2> QED
    BY <2>2, <2>4, <2>7
<1> QED
  BY <1>3, <1>4

\* Of two paths of a tree that start with the text and are all accepted, and
\* are of the same length, the texts are the same.
LEMMA AcceptedTextIsUnique ==
  ASSUME NEW tr, NEW len, NEW e, NEW top, TextTree(tr, len, e, top),
         NEW sel, \A n \in len - 1 .. e - 1 : sel[n] = Target(Context(tr, n)),
         NEW x \in len - 1 .. e - 1, \A j \in tr[x].row : j >= len => tr[j].tok = sel[tr[j].par],
         NEW y \in len - 1 .. e - 1, \A j \in tr[y].row : j >= len => tr[j].tok = sel[tr[j].par],
         tr[x].pos = tr[y].pos
  PROVE  Context(tr, x) = Context(tr, y)
<1>1. /\ len \in Nat /\ 1 <= len /\ e \in 0 .. MaxLen /\ IsTree(tr, e)
      /\ x \in 0 .. e - 1 /\ y \in 0 .. e - 1
      /\ 0 .. len - 1 \subseteq tr[x].row /\ 0 .. len - 1 \subseteq tr[y].row
  BY TextTreeBounds, PathFacts
<1>2. ASSUME NEW z \in len - 1 .. e - 1, z \in 0 .. e - 1, 0 .. len - 1 \subseteq tr[z].row,
             \A j \in tr[z].row : j >= len => tr[j].tok = sel[tr[j].par]
      PROVE  /\ Context(tr, z) \in Seq(Tokens) /\ Len(Context(tr, z)) = tr[z].pos + 1
             /\ tr[z].pos \in Nat
             /\ \A i \in 1 .. tr[z].pos + 1 : i <= len => Context(tr, z)[i] = tr[i - 1].tok
             /\ \A i \in len + 1 .. tr[z].pos + 1 :
                  Context(tr, z)[i] = Target(SubSeq(Context(tr, z), 1, i - 1))
  <2>1. /\ Context(tr, z) \in Seq(Tokens) /\ Len(Context(tr, z)) = tr[z].pos + 1
        /\ tr[z].pos \in Nat
        /\ \A j \in tr[z].row : Context(tr, z)[tr[j].pos + 1] = tr[j].tok
    BY <1>1, <1>2, ContextIsText
  <2>2. ASSUME NEW i \in 1 .. tr[z].pos + 1, i <= len
        PROVE  Context(tr, z)[i] = tr[i - 1].tok
    <3>1. i - 1 \in 0 .. len - 1 /\ (i - 1) + 1 = i
      BY <1>1, <2>1, <2>2
    <3>2. tr[i - 1].pos = i - 1 /\ i - 1 \in tr[z].row
      BY <3>1, <1>2, TextPlaces
    <3>3. Context(tr, z)[(i - 1) + 1] = tr[i - 1].tok
      BY <2>1, <3>2
    <3> QED
      BY <3>1, <3>3
  <2>3. ASSUME NEW i \in len + 1 .. tr[z].pos + 1
        PROVE  Context(tr, z)[i] = Target(SubSeq(Context(tr, z), 1, i - 1))
    <3>1. PICK p \in len - 1 .. e - 1 :
            /\ Context(tr, p) = SubSeq(Context(tr, z), 1, i - 1)
            /\ Context(tr, z)[i] = sel[p]
      BY <1>2, AcceptedPath
    <3> QED
      BY <3>1
  <2> QED
    BY <2>1, <2>2, <2>3
<1>3. /\ Context(tr, x) \in Seq(Tokens) /\ Len(Context(tr, x)) = tr[x].pos + 1
      /\ \A i \in 1 .. tr[x].pos + 1 : i <= len => Context(tr, x)[i] = tr[i - 1].tok
      /\ \A i \in len + 1 .. tr[x].pos + 1 :
           Context(tr, x)[i] = Target(SubSeq(Context(tr, x), 1, i - 1))
  BY <1>1, <1>2
<1>4. /\ Context(tr, y) \in Seq(Tokens) /\ Len(Context(tr, y)) = tr[y].pos + 1
      /\ \A i \in 1 .. tr[y].pos + 1 : i <= len => Context(tr, y)[i] = tr[i - 1].tok
      /\ \A i \in len + 1 .. tr[y].pos + 1 :
           Context(tr, y)[i] = Target(SubSeq(Context(tr, y), 1, i - 1))
  BY <1>1, <1>2
<1> DEFINE s == Context(tr, x)
           t == Context(tr, y)
<1> HIDE DEF s, t
<1>5. /\ s \in Seq(Tokens) /\ t \in Seq(Tokens) /\ Len(s) = Len(t)
      /\ \A i \in 1 .. Len(s) : i <= len => s[i] = t[i]
      /\ \A i \in len + 1 .. Len(s) : s[i] = Target(SubSeq(s, 1, i - 1))
      /\ \A i \in len + 1 .. Len(s) : t[i] = Target(SubSeq(t, 1, i - 1))
  BY <1>3, <1>4 DEF s, t
<1>6. s = t
  BY <1>1, <1>5, GreedyIsUnique
<1> QED
  BY <1>6 DEF s, t

(***************************************************************************)
(* What becomes of the tree at the end of a cycle.                         *)
(***************************************************************************)
\* Nothing in the tree is on the frontier of a forest.
NoScratch(tr) == \A n \in Slots : tr[n].st # POST_CANDIDATE

\* A node of the path that is kept.
LEMMA PathNodeFacts ==
  ASSUME NEW tr, NEW len, NEW e, NEW top, TextTree(tr, len, e, top), NEW x \in len - 1 .. e - 1,
         NEW n \in 0 .. Cardinality(tr[x].row) - 1
  PROVE  LET node == PathNode(tr, tr[x].row, len, n)
         IN  /\ node \in Nodes /\ node.row = 0 .. n /\ node.pos = n /\ node.st = PROMPT
             /\ node.tok = Context(tr, x)[n + 1]
<1> DEFINE R == tr[x].row
           k == Cardinality(R)
           node == PathNode(tr, R, len, n)
           j == Nth(R, n)
<1>1. /\ len \in Nat /\ e \in Nat /\ 1 <= len /\ len <= e /\ e \in 0 .. MaxLen /\ IsTree(tr, e)
      /\ MaxLen \in Nat /\ e <= MaxLen /\ tr \in [Slots -> Nodes]
  BY TextTreeBounds
<1>2. /\ x \in 0 .. e - 1 /\ k = tr[x].pos + 1 /\ tr[x].pos \in Nat /\ k <= e
  BY PathFacts
<1>3. n \in Nat /\ n \in 0 .. tr[x].pos /\ n < e /\ n \in Slots /\ \A i \in 0 .. n : i \in Slots
  BY <1>1, <1>2 DEF Slots
<1>4. j \in R /\ j \in 0 .. e - 1 /\ tr[j].pos = n /\ Context(tr, x)[n + 1] = tr[j].tok
  <2> HIDE DEF j
  <2>1. j = Nth(tr[x].row, n)
    BY DEF j
  <2> QED
    BY <1>1, <1>2, <1>3, <2>1, PlaceOnPath
<1>5. tr[n] \in Nodes /\ tr[j].tok \in Tokens /\ PROMPT \in Status /\ 0 .. n \in SUBSET Slots
  <2>1. tr[j] \in Nodes
    BY <1>1, <1>4 DEF Slots
  <2> QED
    BY <1>1, <1>3, <2>1 DEF Nodes, Status
<1> HIDE DEF j
<1>6. CASE n < len
  <2>1. n \in 0 .. len - 1
    BY <1>1, <1>3, <1>6
  <2>2. j = n
    <3>2. \A m \in 0 .. len - 1 : Nth(tr[x].row, m) = m
      BY FreshPart
    <3> QED
      BY <2>1, <3>2 DEF j
  <2>3. node = [tr[n] EXCEPT !.st = PROMPT, !.row = 0 .. n]
    BY <1>6 DEF PathNode
  <2> HIDE DEF node
  <2>4. /\ node \in Nodes /\ node.row = 0 .. n /\ node.st = PROMPT
        /\ node.tok = tr[n].tok /\ node.pos = tr[n].pos
    BY <1>5, <2>3 DEF Nodes
  <2> QED
    BY <1>4, <2>2, <2>4 DEF node, R
<1>7. CASE ~(n < len)
  <2>1. node = [tok |-> tr[j].tok, par |-> n - 1, pos |-> n, st |-> PROMPT, row |-> 0 .. n]
    BY <1>7 DEF PathNode, j
  <2> HIDE DEF node
  <2>2. n - 1 \in Slots
    BY <1>1, <1>3, <1>7 DEF Slots
  <2>3. node \in Nodes
    BY <1>3, <1>5, <2>1, <2>2 DEF Nodes
  <2> QED
    BY <1>4, <2>1, <2>3 DEF node, R
<1> QED
  BY <1>6, <1>7

LEMMA BlankFacts ==
  Blank \in Nodes /\ Blank.st = PROMPT /\ Blank.row = {}
BY SizesAssumption DEF Blank, Nodes, Status, PROMPT, Tokens, Slots

\* What becomes of a tree when the path of x is kept, a token behind it.
TakesPath(tr, x, new, end2, token) ==
  LET k == Cardinality(tr[x].row)
  IN  /\ RowTree(new, k + 1, end2) /\ NoScratch(new)
      /\ \A n \in 0 .. k - 1 : new[n].tok = Context(tr, x)[n + 1]
      /\ new[k].tok = token

\* The verified path and the bonus token behind it.
LEMMA PlainRowTree ==
  ASSUME NEW tr, NEW len, NEW e, NEW top, TextTree(tr, len, e, top), NEW x \in len - 1 .. e - 1,
         Cardinality(tr[x].row) < MaxLen, NEW token \in Tokens
  PROVE  LET k   == Cardinality(tr[x].row)
             new == AppendBonus(ReorderBySequence(tr, tr[x].row, len), k, token)
         IN  TakesPath(tr, x, new, k + 1, token)
<1> DEFINE R    == tr[x].row
           k    == Cardinality(R)
           path == ReorderBySequence(tr, R, len)
           new  == Add(path, k, {Key(k - 1, token)}, CANDIDATE)
<1>1. k \in Nat /\ k >= 1 /\ k <= MaxLen /\ MaxLen \in Nat /\ k < MaxLen
  <2>1. /\ len \in Nat /\ 1 <= len /\ MaxLen \in Nat
    BY TextTreeBounds
  <2>2. k \in Nat /\ k >= len
    BY PathFacts
  <2> HIDE DEF k
  <2>3. k < MaxLen
    BY DEF k
  <2> QED
    BY <2>1, <2>2, <2>3
<1>2. \A n \in Slots : path[n] = IF n < k THEN PathNode(tr, R, len, n) ELSE Blank
  BY DEF ReorderBySequence
<1>3. path = [n \in Slots |-> path[n]]
  BY DEF ReorderBySequence
<1> HIDE DEF path
<1>4. ASSUME NEW n \in 0 .. k - 1
      PROVE  /\ path[n] \in Nodes /\ path[n].row = 0 .. n /\ path[n].pos = n /\ path[n].st = PROMPT
             /\ path[n].tok = Context(tr, x)[n + 1]
  <2>1. n \in Slots /\ n < k
    BY <1>1 DEF Slots
  <2>2. path[n] = PathNode(tr, R, len, n)
    BY <1>2, <2>1
  <2> QED
    BY <2>2, PathNodeFacts
<1> HIDE DEF k
<1>5. \A n \in Slots : n >= k => path[n] = Blank
  BY <1>1, <1>2 DEF Slots
<1>6. \A n \in Slots : path[n] \in Nodes /\ path[n].st = PROMPT
  <2> TAKE n \in Slots
  <2>1. n \in 0 .. k - 1 \/ n >= k
    BY <1>1 DEF Slots
  <2> QED
    BY <1>4, <1>5, <2>1, BlankFacts
<1>7. path \in [Slots -> Nodes]
  BY <1>3, <1>6
<1>8. \A n \in 0 .. k - 1 : path[n].st # CANDIDATE
  BY <1>4 DEF PROMPT, CANDIDATE
<1>9. RowTree(path, k, k)
  <2>1. k \in 1 .. MaxLen
    BY <1>1
  <2> QED
    BY <1>4, <1>5, <1>7, <1>8, <2>1, StraightRowTree
<1>10. /\ RowTree(new, k + 1, k + 1)
       /\ \A n \in 0 .. k - 1 : new[n] = path[n]
       /\ new[k].tok = token
       /\ \A n \in Slots : new[n].st \in {path[n].st, CANDIDATE}
  <2>1. k > 0
    BY <1>1
  <2> QED
    BY <1>1, <1>8, <1>9, <2>1, BonusRowTree
<1>11. NoScratch(new)
  <2>1. \A n \in Slots : new[n].st \in {PROMPT, CANDIDATE}
    BY <1>6, <1>10
  <2> QED
    BY <2>1 DEF NoScratch, PROMPT, CANDIDATE, POST_CANDIDATE
<1>12. new = AppendBonus(path, k, token)
  BY DEF AppendBonus
<1> HIDE DEF new
<1> QED
  BY <1>4, <1>10, <1>11, <1>12 DEF TakesPath, k, path, R

\* The root of a planted node is itself, that of its parent, or none: the
\* recursion is well founded, for a parent comes before its children.
LEMMA ForestRootFacts ==
  ASSUME NEW tr, NEW start \in Nat, NEW last \in Nat, start <= last, NEW roots
  PROVE  \A n \in start .. last - 1 :
           ForestRoot(tr, start, last, roots)[n] =
             IF n \in roots THEN n
             ELSE IF tr[n].par \in start .. n - 1
                  THEN ForestRoot(tr, start, last, roots)[tr[n].par] ELSE -1
<1> DEFINE Step_(f, n) == IF n \in roots THEN n
                          ELSE IF tr[n].par \in start .. n - 1 THEN f[tr[n].par] ELSE -1
           Good(f, k) == \A n \in start .. k - 1 : f[n] = Step_(f, n)
           Bad == {k \in start .. last : ~ \E f : Good(f, k)}
<1>1. Bad = {}
  <2> SUFFICES ASSUME Bad # {} PROVE FALSE
    OBVIOUS
  <2>1. IsFiniteSet(Bad) /\ Bad \in SUBSET Int
    <3>1. start \in Int /\ last \in Int
      OBVIOUS
    <3>2. IsFiniteSet(start .. last)
      BY <3>1, FS_Interval
    <3> QED
      BY <3>2, FS_Subset
  <2>2. Min(Bad) \in Bad /\ \A y \in Bad : Min(Bad) <= y
    <3> HIDE DEF Bad
    <3> QED
      BY <2>1, MinIsLeast
  <2> DEFINE k == Min(Bad)
  <2> HIDE DEF k
  <2>3. k \in start .. last /\ ~ \E f : Good(f, k)
    BY <2>2 DEF k
  <2>4. k # start
    <3>1. start .. start - 1 = {}
      OBVIOUS
    <3>2. Good(<< >>, start)
      BY <3>1
    <3> HIDE DEF Good
    <3> QED
      BY <2>3, <3>2
  <2>5. k - 1 \in start .. last /\ k - 1 \notin Bad
    <3>1. k - 1 \in start .. last /\ ~(k <= k - 1)
      BY <2>3, <2>4
    <3> QED
      BY <2>2, <3>1 DEF k
  <2>6. PICK f : Good(f, k - 1)
    <3> HIDE DEF Good
    <3> QED
      BY <2>5
  <2> DEFINE g == [n \in start .. k - 1 |-> IF n = k - 1 THEN Step_(f, n) ELSE f[n]]
  <2>7. \A n \in start .. k - 2 : g[n] = f[n]
    BY <2>3
  <2>8. g[k - 1] = Step_(f, k - 1)
    BY <2>5
  <2>9. ASSUME NEW n \in start .. k - 1
        PROVE  g[n] = Step_(g, n)
    <3>1. n \in Int /\ k \in Int /\ n - 1 <= k - 2
      BY <2>3
    <3>2. Step_(g, n) = Step_(f, n)
      <4>1. ASSUME tr[n].par \in start .. n - 1
            PROVE  g[tr[n].par] = f[tr[n].par]
        <5>1. tr[n].par \in start .. k - 2
          BY <3>1, <4>1
        <5> HIDE DEF g
        <5> QED
          BY <2>7, <5>1
      <4> HIDE DEF g
      <4> QED
        BY <4>1
    <3>3. CASE n = k - 1
      <4> HIDE DEF g, Step_
      <4> QED
        BY <2>8, <3>2, <3>3
    <3>4. CASE n # k - 1
      <4>1. n \in start .. (k - 1) - 1 /\ n \in start .. k - 2
        BY <3>1, <3>4
      <4>2. f[n] = Step_(f, n)
        BY <2>6, <4>1
      <4> HIDE DEF g, Step_
      <4> QED
        BY <2>7, <3>2, <4>1, <4>2
    <3> QED
      BY <3>3, <3>4
  <2>10. Good(g, k)
    <3> HIDE DEF g, Step_
    <3> QED
      BY <2>9
  <2> HIDE DEF Good, g
  <2> QED
    BY <2>3, <2>10
<1>2. PICK f : Good(f, last)
  <2>1. last \in start .. last
    OBVIOUS
  <2> HIDE DEF Good
  <2> QED
    BY <1>1, <2>1
<1> DEFINE g == [n \in start .. last - 1 |-> f[n]]
<1>3. g = [n \in start .. last - 1 |-> Step_(g, n)]
  <2>1. ASSUME NEW n \in start .. last - 1
        PROVE  f[n] = Step_(g, n)
    <3>1. ASSUME tr[n].par \in start .. n - 1
          PROVE  g[tr[n].par] = f[tr[n].par]
      <4>1. tr[n].par \in start .. last - 1
        BY <3>1
      <4> QED
        BY <4>1
    <3>2. f[n] = Step_(f, n)
      BY <1>2
    <3> HIDE DEF g
    <3> QED
      BY <3>1, <3>2
  <2> HIDE DEF Step_
  <2> QED
    BY <2>1
<1> DEFINE root == ForestRoot(tr, start, last, roots)
<1>4. root = [n \in start .. last - 1 |-> Step_(root, n)]
  <2>1. root = CHOOSE h : h = [n \in start .. last - 1 |-> Step_(h, n)]
    BY DEF ForestRoot
  <2> HIDE DEF root, g, Step_
  <2> QED
    BY <1>3, <2>1
<1> HIDE DEF root
<1>5. \A n \in start .. last - 1 : root[n] = Step_(root, n)
  BY <1>4
<1> QED
  BY <1>5 DEF root

\* The planted nodes that descend from a root.
BranchOf(tr, e, top, roots, root) ==
  {n \in e .. top - 1 : ForestRoot(tr, e, top, roots)[n] = root}

\* A set of planted nodes that hang off x at their root.
IsBranch(tr, e, top, x, root, B) ==
  /\ root \in B /\ B \in SUBSET (e .. top - 1) /\ IsFiniteSet(B) /\ B \in SUBSET Int
  /\ \A n \in B : n # root => tr[n].par \in B /\ tr[n].par \in 0 .. n - 1
  /\ \A n \in B : /\ root <= n /\ tr[n].row = tr[tr[n].par].row \cup {n}
                  /\ root \in tr[n].row
                  /\ tr[x].row \subseteq tr[n].row /\ tr[n].row \subseteq tr[x].row \cup B

\* The path of a node of a branch is that of the exit the branch was planted
\* on, and nodes of the branch, its root among them.
LEMMA BranchFacts ==
  ASSUME NEW tr, NEW len, NEW e, NEW top, TextTree(tr, len, e, top),
         NEW roots \in SUBSET (e .. top - 1), NEW root \in roots,
         NEW x \in len - 1 .. e - 1, tr[root].par = x
  PROVE  IsBranch(tr, e, top, x, root, BranchOf(tr, e, top, roots, root))
<1> DEFINE B == BranchOf(tr, e, top, roots, root)
<1>1. /\ len \in Nat /\ e \in Nat /\ top \in Nat /\ 1 <= len /\ len <= e /\ e <= top
      /\ top \in 0 .. MaxLen /\ IsTree(tr, top)
  BY TextTreeBounds
<1>2. \A n \in e .. top - 1 :
        /\ n \in 0 .. top - 1 /\ n \in Nat
        /\ tr[n].par \in 0 .. n - 1 /\ tr[n].row = tr[tr[n].par].row \cup {n}
        /\ tr[n].row \subseteq 0 .. n
  <2> TAKE n \in e .. top - 1
  <2>1. n \in 0 .. top - 1 /\ n \in Nat
    BY <1>1
  <2> QED
    BY <1>1, <2>1 DEF TextTree, IsTree
<1> DEFINE R == ForestRoot(tr, e, top, roots)
<1>3. \A n \in e .. top - 1 :
        R[n] = IF n \in roots THEN n ELSE IF tr[n].par \in e .. n - 1 THEN R[tr[n].par] ELSE -1
  BY <1>1, ForestRootFacts
<1> HIDE DEF R
<1>4. B = {n \in e .. top - 1 : R[n] = root}
  BY DEF BranchOf, R
<1> HIDE DEF B
<1>5. root \in e .. top - 1 /\ root \in Nat
  BY <1>1
<1>6. root \in B
  BY <1>3, <1>4, <1>5
<1>7. B \in SUBSET (e .. top - 1) /\ IsFiniteSet(B) /\ B \in SUBSET Int
  <2>1. IsFiniteSet(e .. top - 1)
    BY <1>1, NthOfInterval
  <2>2. B \in SUBSET (e .. top - 1)
    BY <1>4
  <2>3. IsFiniteSet(B)
    BY <2>1, <2>2, FS_Subset
  <2> QED
    BY <2>2, <2>3
<1>8. ASSUME NEW n \in B, n # root
      PROVE  tr[n].par \in B /\ tr[n].par \in 0 .. n - 1
  <2>1. n \in e .. top - 1 /\ R[n] = root
    BY <1>4
  <2>2. n \notin roots
    BY <1>3, <1>8, <2>1
  <2>3. tr[n].par \in e .. n - 1 /\ R[tr[n].par] = root
    BY <1>3, <1>5, <2>1, <2>2
  <2>4. tr[n].par \in e .. top - 1
    BY <1>1, <2>1, <2>3
  <2> QED
    BY <1>2, <1>4, <2>1, <2>3, <2>4
<1> DEFINE P(n) == /\ root \in tr[n].row /\ tr[x].row \subseteq tr[n].row
                   /\ tr[n].row \subseteq tr[x].row \cup B
           Bad == {n \in B : ~P(n)}
<1>9. Bad = {}
  <2> SUFFICES ASSUME Bad # {} PROVE FALSE
    OBVIOUS
  <2>1. IsFiniteSet(Bad) /\ Bad \in SUBSET Int
    BY <1>7, FS_Subset
  <2>2. Min(Bad) \in Bad /\ \A y \in Bad : Min(Bad) <= y
    <3> HIDE DEF Bad
    <3> QED
      BY <2>1, MinIsLeast
  <2> DEFINE n == Min(Bad)
  <2> HIDE DEF n
  <2>3. n \in B /\ ~P(n) /\ n \in e .. top - 1
    BY <1>7, <2>2 DEF n
  <2>4. tr[n].row = tr[tr[n].par].row \cup {n} /\ n \in Nat
    BY <1>2, <2>3
  <2>5. CASE n = root
    BY <1>6, <2>3, <2>4, <2>5
  <2>6. CASE n # root
    <3>1. tr[n].par \in B /\ tr[n].par \in 0 .. n - 1
      BY <1>8, <2>3, <2>6
    <3>2. tr[n].par \notin Bad
      <4>1. ~(n <= tr[n].par)
        BY <2>4, <3>1
      <4> HIDE DEF Bad
      <4> QED
        BY <2>2, <4>1 DEF n
    <3>3. P(tr[n].par)
      BY <3>1, <3>2
    <3> QED
      BY <2>3, <2>4, <3>3
  <2> QED
    BY <2>5, <2>6
<1>10. \A n \in B : P(n)
  BY <1>9
<1> HIDE DEF P
<1>11. ASSUME NEW n \in B
       PROVE  /\ root <= n /\ tr[n].row = tr[tr[n].par].row \cup {n}
              /\ root \in tr[n].row
              /\ tr[x].row \subseteq tr[n].row /\ tr[n].row \subseteq tr[x].row \cup B
  <2>1. n \in e .. top - 1 /\ P(n)
    BY <1>7, <1>10
  <2>2. /\ tr[n].row \subseteq 0 .. n /\ tr[n].row = tr[tr[n].par].row \cup {n}
        /\ n \in Nat
    BY <1>2, <2>1
  <2>3. root \in 0 .. n
    BY <2>1, <2>2 DEF P
  <2> QED
    BY <2>1, <2>2, <2>3 DEF P
<1> QED
  BY <1>6, <1>7, <1>8, <1>11 DEF IsBranch, B

\* A node that attends to as many slots as there are up to it attends to them
\* all.
LEMMA FullRow ==
  ASSUME NEW tr, NEW e \in 0 .. MaxLen, IsTree(tr, e), NEW n \in 0 .. e - 1, tr[n].pos = n
  PROVE  tr[n].row = 0 .. n
<1>1. /\ tr[n].row \subseteq 0 .. n /\ Cardinality(tr[n].row) = n + 1 /\ n \in Nat
  BY PathInOrder, SizesAssumption DEF IsTree
<1>2. IsFiniteSet(0 .. n) /\ Cardinality(0 .. n) = n + 1
  BY <1>1, FS_Interval
<1>3. Cardinality(tr[n].row) = Cardinality(0 .. n)
  BY <1>1, <1>2
<1> QED
  BY <1>1, <1>2, <1>3, FS_Subset

\* The slots of a set moved to the front.
InOrder(S) == [s \in S |-> Rank(S, s)]

\* A set of planted nodes whose paths lead over the path of x only.
Behind(tr, x, B, e, top) ==
  /\ B \in SUBSET (e .. top - 1)
  /\ \A n \in B : tr[n].row \subseteq tr[x].row \cup B

\* How they are put behind that path.
PutBehind(tr, x, B, top) ==
  LET R    == tr[x].row
      dest == InOrder(R \cup B)
  IN  /\ IsFiniteSet(B) /\ B \in SUBSET Int /\ Cardinality(B) \in Nat
      /\ Cardinality(R \cup B) = Cardinality(R) + Cardinality(B)
      /\ R \cup B \in SUBSET (0 .. top - 1)
      /\ Places(tr, R \cup B, dest, 0)
      /\ \A s \in R : dest[s] = tr[s].pos /\ dest[s] < Cardinality(R)
      /\ \A s \in B : dest[s] = Cardinality(R) + Rank(B, s)

\* Those of a path and of a branch behind it.
LEMMA SplicePlaces ==
  ASSUME NEW tr, NEW len, NEW e, NEW top, TextTree(tr, len, e, top),
         NEW x \in len - 1 .. e - 1, NEW B, Behind(tr, x, B, e, top)
  PROVE  PutBehind(tr, x, B, top)
<1>b. B \in SUBSET (e .. top - 1) /\ \A n \in B : tr[n].row \subseteq tr[x].row \cup B
  BY DEF Behind
<1> USE <1>b
<1> DEFINE R == tr[x].row
           kept == R \cup B
           dest == InOrder(kept)
<1>1. /\ len \in Nat /\ e \in Nat /\ top \in Nat /\ 1 <= len /\ len <= e /\ e <= top
      /\ top \in 0 .. MaxLen /\ IsTree(tr, top) /\ IsTree(tr, e) /\ e \in 0 .. MaxLen
  BY TextTreeBounds
<1>2. /\ IsFiniteSet(R) /\ R \in SUBSET Int /\ R \subseteq 0 .. x /\ x \in 0 .. e - 1
      /\ x \in 0 .. top - 1 /\ x \in Nat
  BY PathFacts
<1>3. IsFiniteSet(B) /\ B \in SUBSET Int
  <2>1. IsFiniteSet(e .. top - 1)
    BY <1>1, NthOfInterval
  <2>2. IsFiniteSet(B)
    BY <2>1, FS_Subset
  <2>3. B \in SUBSET Int
    OBVIOUS
  <2> QED
    BY <2>2, <2>3
<1>4. \A a \in R, b \in B : a < b
  <2>1. \A a \in R : a \in Int /\ a < e
    BY <1>1, <1>2
  <2>2. \A b \in B : b \in Int /\ e <= b
    BY <1>1
  <2> HIDE DEF R
  <2> QED
    BY <1>1, <2>1, <2>2
<1>5. \A s \in R : tr[s].pos = Rank(R, s) /\ tr[s].row \subseteq R /\ Rank(R, s) < Cardinality(R)
  <2>1. \A s \in R : tr[s].pos = Rank(R, s)
    BY <1>1, <1>2, PathInOrder
  <2>2. \A s \in R : tr[s].row \subseteq R
    BY <1>1, <1>2 DEF IsTree
  <2> HIDE DEF R
  <2>3. \A s \in R : Rank(R, s) < Cardinality(R)
    BY <1>2, RankBounds
  <2> QED
    BY <2>1, <2>2, <2>3
<1>6. \A s \in B : tr[s].row \subseteq kept
  OBVIOUS
<1> HIDE DEF R
<1>7. /\ IsFiniteSet(kept) /\ kept \in SUBSET Int
      /\ Cardinality(R) \in Nat /\ Cardinality(B) \in Nat
      /\ Cardinality(kept) = Cardinality(R) + Cardinality(B)
      /\ \A s \in R : Rank(kept, s) = Rank(R, s)
      /\ \A s \in B : Rank(kept, s) = Cardinality(R) + Rank(B, s)
  BY <1>2, <1>3, <1>4, RankOfUnion
<1>8. kept \in SUBSET (0 .. top - 1)
  <2>1. \A n \in 0 .. x : n \in 0 .. top - 1
    BY <1>1, <1>2
  <2>2. \A n \in e .. top - 1 : n \in 0 .. top - 1
    BY <1>1
  <2> QED
    BY <1>2, <2>1, <2>2
<1>9. \A s \in kept : tr[s].row \subseteq kept /\ tr[s].row \subseteq 0 .. s
  <2>1. \A s \in kept : tr[s].row \subseteq 0 .. s
    BY <1>1, <1>8 DEF IsTree
  <2> QED
    BY <1>5, <1>6, <2>1
<1>d. dest = [s \in kept |-> Rank(kept, s)]
  BY DEF InOrder
<1> HIDE DEF kept, dest
<1>10. Places(tr, kept, dest, 0)
  <2>1. \A s \in kept : Rank(kept, s) \in 0 .. (0 + Cardinality(kept)) - 1
    <3>1. \A s \in kept : /\ Rank(kept, s) \in Nat /\ Rank(kept, s) < Cardinality(kept)
                          /\ Cardinality(kept) \in Nat
      BY <1>7, RankBounds
    <3> QED
      BY <3>1
  <2>2. dest \in [kept -> 0 .. (0 + Cardinality(kept)) - 1]
    BY <1>d, <2>1
  <2>3. \A s, t \in kept : dest[s] = dest[t] => s = t
    BY <1>7, <1>d, RankIsInjective
  <2>4. ASSUME NEW s \in kept, NEW c \in tr[s].row, c # s
        PROVE  dest[c] < dest[s]
    <3>1. c \in kept /\ c \in 0 .. s /\ c \in Int /\ s \in Int
      BY <1>7, <1>9
    <3>2. c < s
      BY <2>4, <3>1
    <3>3. Rank(kept, c) < Rank(kept, s)
      BY <1>7, <3>1, <3>2, RankGrows
    <3> QED
      BY <1>d, <3>1, <3>3
  <2> QED
    BY <1>9, <2>2, <2>3, <2>4 DEF Places
<1>11. \A s \in R : dest[s] = tr[s].pos /\ dest[s] < Cardinality(R)
  BY <1>5, <1>7, <1>d DEF kept
<1>12. \A s \in B : dest[s] = Cardinality(R) + Rank(B, s)
  BY <1>7, <1>d DEF kept
<1> QED
  BY <1>3, <1>7, <1>8, <1>10, <1>11, <1>12 DEF kept, dest, R, PutBehind

\* A branch spliced in behind the path it was planted on: the branch's root is
\* the last confirmed token, the rest of the branch is the draft.
LEMMA SplicedRowTree ==
  ASSUME NEW tr, NEW len, NEW e, NEW top, TextTree(tr, len, e, top),
         NEW x \in len - 1 .. e - 1, NEW root, NEW B, IsBranch(tr, e, top, x, root, B)
  PROVE  LET k   == Cardinality(tr[x].row)
             new == Splice(tr, tr[x].row, B, len)
         IN  TakesPath(tr, x, new, k + Cardinality(B), tr[root].tok)
<1>b. /\ root \in e .. top - 1 /\ root \in B /\ B \in SUBSET (e .. top - 1)
      /\ \A n \in B : n # root => tr[n].par \in B /\ tr[n].par \in 0 .. n - 1
      /\ \A n \in B : /\ root <= n /\ tr[n].row = tr[tr[n].par].row \cup {n}
                      /\ root \in tr[n].row
                      /\ tr[x].row \subseteq tr[n].row /\ tr[n].row \subseteq tr[x].row \cup B
  BY DEF IsBranch
<1> USE <1>b
<1>s. Behind(tr, x, B, e, top)
  BY DEF Behind
<1>p. PutBehind(tr, x, B, top)
  BY <1>s, SplicePlaces
<1> DEFINE R      == tr[x].row
           k      == Cardinality(R)
           b      == Cardinality(B)
           last   == k + b
           kept   == R \cup B
           dest   == InOrder(kept)
           mid    == GatherTree(tr, kept, dest, last)
           new    == Splice(tr, R, B, len)
           To(s)  == k + Rank(B, s)
           Par(s) == IF tr[s].par \in B THEN To(tr[s].par)
                     ELSE IF tr[s].par \in R /\ tr[s].par >= len THEN Rank(R, tr[s].par) ELSE -1
           St(s)  == IF To(s) \in {k, k + 1} THEN PROCESSED ELSE Settled(tr[s].st)
           Row(s) == (0 .. k) \cup {To(c) : c \in tr[s].row \cap B}
<1>1. /\ len \in Nat /\ e \in Nat /\ top \in Nat /\ 1 <= len /\ len <= e /\ e <= top
      /\ top \in 0 .. MaxLen /\ IsTree(tr, top) /\ tr \in [Slots -> Nodes]
      /\ MaxLen \in Nat /\ top <= MaxLen /\ \A n \in 0 .. top - 1 : n \in Slots
  BY TextTreeBounds
<1>2. /\ IsFiniteSet(R) /\ R \in SUBSET Int /\ R \subseteq 0 .. x /\ R \in SUBSET Slots
      /\ k \in Nat /\ k >= len
  BY PathFacts
<1>3. \A n \in B : n \in Slots /\ n \in Nat
  BY <1>1
<1>4. /\ IsFiniteSet(B) /\ B \in SUBSET Int /\ b \in Nat
      /\ Cardinality(kept) = last
      /\ kept \in SUBSET (0 .. top - 1)
      /\ Places(tr, kept, dest, 0)
      /\ \A s \in R : dest[s] = tr[s].pos /\ dest[s] < k
      /\ \A s \in B : dest[s] = To(s)
  BY <1>p DEF PutBehind
<1>5. b >= 1 /\ Rank(B, root) = 0
  <2>1. {y \in B : y < root} = {}
    <3>1. \A y \in B : ~(y < root)
      <4>1. root \in Int
        BY <1>3
      <4> QED
        BY <1>3, <4>1
    <3> QED
      BY <3>1
  <2>2. Rank(B, root) = 0
    BY <2>1, FS_EmptySet DEF Rank
  <2>3. root \in Int
    BY <1>3
  <2>4. Rank(B, root) < Cardinality(B)
    BY <1>4, <2>3, RankBounds
  <2> QED
    BY <1>4, <2>2, <2>4
<1>6. /\ last \in 0 .. top /\ IsTree(mid, last)
      /\ \A n \in 0 .. last - 1 : \E s \in kept : dest[s] = n
      /\ \A s \in kept : mid[dest[s]] = MovedNode(tr, kept, dest, 0, s)
  <2> HIDE DEF dest, kept
  <2>1. 0 \in 0 .. top /\ 0 + Cardinality(kept) = last
    BY <1>1, <1>2, <1>4
  <2>2. kept \in SUBSET (0 .. top - 1)
    BY <1>4
  <2>3. LET newEnd == 0 + Cardinality(kept)
            nw     == GatherTree(tr, kept, dest, newEnd)
        IN  /\ newEnd \in 0 .. top
            /\ IsTree(nw, newEnd)
            /\ \A n \in 0 .. newEnd - 1 : \E s \in kept : dest[s] = n
            /\ \A s \in kept : nw[dest[s]] = MovedNode(tr, kept, dest, 0, s)
    BY <1>1, <1>4, <2>1, <2>2, GatherMakesTree
  <2> QED
    BY <2>1, <2>3
<1>7. last \in Nat /\ last <= MaxLen /\ last >= k + 1 /\ last \in 0 .. MaxLen /\ MaxLen \in Nat
  BY <1>1, <1>2, <1>4, <1>5, <1>6
<1>8. \A n \in Slots :
        new[n] = IF n < k THEN PathNode(tr, R, len, n)
                 ELSE IF n < last
                 THEN [tr[Nth(B, n - k)] EXCEPT !.par = Par(Nth(B, n - k)),
                                                !.st  = St(Nth(B, n - k)),
                                                !.row = Row(Nth(B, n - k))]
                 ELSE Blank
  BY DEF Splice
<1>9. new = [n \in Slots |-> new[n]]
  BY DEF Splice
<1> HIDE DEF new, mid
<1>10. ASSUME NEW n \in 0 .. k - 1
       PROVE  /\ new[n] \in Nodes /\ new[n].row = 0 .. n /\ new[n].pos = n /\ new[n].st = PROMPT
              /\ new[n].tok = Context(tr, x)[n + 1]
  <2>1. n \in Slots /\ n < k
    BY <1>2, <1>7 DEF Slots
  <2>2. new[n] = PathNode(tr, R, len, n)
    BY <1>8, <2>1
  <2> QED
    BY <2>2, PathNodeFacts
<1>11. \A s \in B : To(s) \in k .. last - 1 /\ To(s) \in Slots /\ Nth(B, To(s) - k) = s
  <2> TAKE s \in B
  <2>1. Rank(B, s) \in 0 .. b - 1 /\ Nth(B, Rank(B, s)) = s
    BY <1>4, NthOfRank
  <2> HIDE DEF k, b
  <2>2. To(s) \in k .. last - 1 /\ To(s) - k = Rank(B, s)
    BY <1>2, <1>4, <2>1
  <2>3. To(s) \in Slots
    BY <1>2, <1>4, <1>7, <2>2 DEF Slots
  <2> QED
    BY <2>1, <2>2, <2>3
<1>12. \A n \in k .. last - 1 : Nth(B, n - k) \in B /\ To(Nth(B, n - k)) = n
  <2> TAKE n \in k .. last - 1
  <2> HIDE DEF k
  <2>1. n - k \in 0 .. b - 1
    BY <1>2, <1>4
  <2>2. Nth(B, n - k) \in B /\ Rank(B, Nth(B, n - k)) = n - k
    BY <1>4, <2>1, NthIsMember
  <2> QED
    BY <1>2, <1>4, <2>1, <2>2
<1>13. ASSUME NEW s \in B
       PROVE  /\ new[To(s)] \in Nodes
              /\ new[To(s)].tok = tr[s].tok /\ new[To(s)].pos = tr[s].pos
              /\ new[To(s)].par = Par(s) /\ new[To(s)].st = St(s) /\ new[To(s)].row = Row(s)
              /\ St(s) # POST_CANDIDATE
  <2>1. tr[s] \in Nodes /\ To(s) \in k .. last - 1 /\ To(s) \in Slots /\ Nth(B, To(s) - k) = s
    BY <1>1, <1>3, <1>11
  <2>2. Par(s) \in Slots \cup {-1}
    <3>1. CASE tr[s].par \in B
      <4>1. Par(s) = To(tr[s].par)
        BY <3>1
      <4> QED
        BY <1>11, <3>1, <4>1
    <3>2. CASE tr[s].par \notin B /\ tr[s].par \in R /\ tr[s].par >= len
      <4>1. Par(s) = Rank(R, tr[s].par)
        BY <3>2
      <4>2. tr[s].par \in Int
        BY <1>2, <3>2
      <4>3. Rank(R, tr[s].par) \in Nat /\ Rank(R, tr[s].par) < Cardinality(R)
        BY <1>2, <3>2, <4>2, RankBounds
      <4> QED
        BY <1>2, <1>7, <4>1, <4>3 DEF Slots
    <3>3. CASE tr[s].par \notin B /\ ~(tr[s].par \in R /\ tr[s].par >= len)
      BY <3>3
    <3> HIDE DEF Par
    <3> QED
      BY <3>1, <3>2, <3>3
  <2>3. St(s) \in Status /\ St(s) # POST_CANDIDATE
    BY <2>1 DEF Nodes, Status, Settled, PROMPT, GENERATED, PROCESSED, CANDIDATE, POST_CANDIDATE,
                POST_PROCESSED
  <2>4. Row(s) \in SUBSET Slots
    <3>1. \A c \in tr[s].row \cap B : To(c) \in Slots
      BY <1>11
    <3>2. 0 .. k \subseteq Slots
      BY <1>2, <1>7 DEF Slots
    <3> HIDE DEF To, k
    <3> QED
      BY <3>1, <3>2
  <2> DEFINE t == To(s)
  <2>5. new[t] = [tr[s] EXCEPT !.par = Par(s), !.st = St(s), !.row = Row(s)]
    <3> HIDE DEF Par, St, Row, To
    <3>1. t \in Slots /\ ~(t < k) /\ t < last
      BY <1>2, <1>4, <2>1
    <3> QED
      BY <1>8, <2>1, <3>1
  <2> HIDE DEF t, Par, St, Row
  <2>6. /\ new[t] \in Nodes /\ new[t].tok = tr[s].tok /\ new[t].pos = tr[s].pos
        /\ new[t].par = Par(s) /\ new[t].st = St(s) /\ new[t].row = Row(s)
    BY <2>1, <2>2, <2>3, <2>4, <2>5 DEF Nodes
  <2> QED
    BY <2>3, <2>6 DEF t
<1>14. \A n \in Slots : n >= last => new[n] = Blank
  <2> TAKE n \in Slots
  <2> HIDE DEF k, last, Par, St, Row
  <2>1. n >= last => ~(n < k) /\ ~(n < last)
    BY <1>2, <1>7 DEF Slots
  <2> QED
    BY <1>8, <2>1
<1>z. \A n \in Slots : n \in 0 .. k - 1 \/ n \in k .. last - 1 \/ n >= last
  BY <1>2, <1>7 DEF Slots
<1>15. \A n \in k .. last - 1 : \E s \in B : To(s) = n
  BY <1>12
<1> HIDE DEF To, Par, St
<1>16. new \in [Slots -> Nodes] /\ NoScratch(new)
  <2>1. ASSUME NEW n \in Slots
        PROVE  new[n] \in Nodes /\ new[n].st # POST_CANDIDATE
    <3>1. CASE n \in 0 .. k - 1
      BY <1>10, <3>1 DEF PROMPT, POST_CANDIDATE
    <3>2. CASE n \in k .. last - 1
      <4>1. PICK s \in B : To(s) = n
        BY <1>15, <3>2
      <4> QED
        BY <1>13, <4>1
    <3>3. CASE n >= last
      BY <1>14, <3>3, BlankFacts DEF PROMPT, POST_CANDIDATE
    <3> QED
      BY <1>z, <3>1, <3>2, <3>3
  <2>2. new \in [Slots -> Nodes]
    BY <1>9, <2>1
  <2> QED
    BY <2>1, <2>2 DEF NoScratch
<1>17. \A s \in R : dest[s] \in 0 .. k - 1
  <2> TAKE s \in R
  <2>1. s \in kept /\ dest[s] < k
    BY <1>4
  <2>2. dest[s] \in 0 .. (0 + Cardinality(kept)) - 1
    BY <1>4, <2>1 DEF Places
  <2> HIDE DEF dest, k
  <2> QED
    BY <1>2, <2>1, <2>2
<1>18. \A n \in 0 .. k - 1 : \E s \in R : dest[s] = n
  <2> TAKE n \in 0 .. k - 1
  <2> HIDE DEF dest, k
  <2>1. n \in 0 .. last - 1
    BY <1>2, <1>7
  <2>2. PICK s \in kept : dest[s] = n
    BY <1>6, <2>1
  <2>3. s \notin B
    <3>1. s \in B => To(s) \in k .. last - 1 /\ dest[s] = To(s)
      BY <1>4, <1>11
    <3> QED
      BY <1>2, <2>2, <3>1
  <2> QED
    BY <2>2, <2>3
<1>19. ASSUME NEW s \in kept
       PROVE  /\ mid[dest[s]].pos = tr[s].pos
              /\ mid[dest[s]].row = {dest[c] : c \in tr[s].row}
  <2>1. s \in Slots /\ s \in 0 .. top - 1 /\ tr[s] \in Nodes
    BY <1>1, <1>4
  <2>2. tr[s].row \cap 0 .. 0 - 1 = {}
    OBVIOUS
  <2>3. tr[s].row \subseteq kept
    <3>1. tr[s].row \subseteq 0 .. s
      BY <1>1, <2>1 DEF IsTree
    <3>2. \A c \in tr[s].row : c >= 0
      BY <3>1
    <3> HIDE DEF kept, dest
    <3> QED
      BY <1>4, <3>2 DEF Places
  <2>4. mid[dest[s]] = MovedNode(tr, kept, dest, 0, s)
    BY <1>6
  <2> HIDE DEF kept, dest
  <2> DEFINE P == IF tr[s].par \in kept THEN dest[tr[s].par] ELSE tr[s].par
             W == (tr[s].row \cap 0 .. 0 - 1) \cup {dest[c] : c \in tr[s].row \cap kept}
  <2>5. mid[dest[s]] = [tr[s] EXCEPT !.par = P, !.row = W]
    BY <2>4 DEF MovedNode
  <2>6. tr[s].row \cap kept = tr[s].row
    BY <2>3
  <2>7. W = {dest[c] : c \in tr[s].row}
    BY <2>2, <2>6
  <2> HIDE DEF P, W
  <2> QED
    BY <2>1, <2>5, <2>7 DEF Nodes
<1>20. ASSUME NEW n \in 0 .. last - 1
       PROVE  mid[n].pos = new[n].pos /\ mid[n].row = new[n].row
  <2>1. CASE n \in 0 .. k - 1
    <3>1. PICK s \in R : dest[s] = n
      BY <1>18, <2>1
    <3>2. mid[n].pos = n
      <4>1. s \in kept /\ tr[s].pos = dest[s]
        BY <1>4
      <4> HIDE DEF dest
      <4> QED
        BY <1>19, <3>1, <4>1
    <3>3. mid[n].row = 0 .. n
      BY <1>6, <1>7, <3>2, FullRow
    <3> QED
      BY <1>10, <2>1, <3>2, <3>3
  <2>2. CASE n \in k .. last - 1
    <3>1. PICK s \in B : To(s) = n
      BY <1>15, <2>2
    <3>2. s \in kept /\ dest[s] = n
      BY <1>4, <3>1
    <3> HIDE DEF dest
    <3>3. mid[n].pos = tr[s].pos /\ mid[n].row = {dest[c] : c \in tr[s].row}
      BY <1>19, <3>2
    <3>4. new[n].pos = tr[s].pos /\ new[n].row = (0 .. k) \cup {To(c) : c \in tr[s].row \cap B}
      BY <1>13, <3>1
    <3>5. R \subseteq tr[s].row /\ tr[s].row \subseteq R \cup B /\ root \in tr[s].row
      OBVIOUS
    <3>6. \A c \in tr[s].row : dest[c] \in new[n].row
      <4> TAKE c \in tr[s].row
      <4>1. CASE c \in R
        <5>1. dest[c] \in 0 .. k - 1
          BY <1>17, <4>1
        <5>2. dest[c] \in 0 .. k
          BY <1>2, <5>1
        <5> QED
          BY <3>4, <5>2
      <4>2. CASE c \in B
        BY <1>4, <3>4, <4>2
      <4> QED
        BY <3>5, <4>1, <4>2
    <3>7. To(root) = k
      BY <1>2, <1>5 DEF To
    <3>8. \A m \in 0 .. k : \E c \in tr[s].row : dest[c] = m
      <4> TAKE m \in 0 .. k
      <4>1. CASE m \in 0 .. k - 1
        BY <1>18, <3>5, <4>1
      <4>2. CASE m = k
        BY <1>4, <3>5, <3>7, <4>2
      <4> QED
        BY <1>2, <4>1, <4>2
    <3>9. \A c \in tr[s].row \cap B : dest[c] = To(c)
      BY <1>4
    <3> HIDE DEF R, k, last
    <3> QED
      BY <3>3, <3>4, <3>6, <3>8, <3>9
  <2>3. n \in 0 .. k - 1 \/ n \in k .. last - 1
    BY <1>2, <1>7
  <2> QED
    BY <2>1, <2>2, <2>3
<1> HIDE DEF dest, k, R, last, kept
<1>21. IsTree(new, last)
  <2>1. ASSUME NEW n \in 0 .. last - 1
        PROVE  /\ n \in new[n].row /\ new[n].row \subseteq 0 .. n
               /\ new[n].pos = Cardinality(new[n].row) - 1
               /\ \A j \in new[n].row : new[j].row = new[n].row \cap 0 .. j
    <3>1. /\ n \in mid[n].row /\ mid[n].row \subseteq 0 .. n /\ n \in Nat
          /\ mid[n].pos = Cardinality(mid[n].row) - 1
          /\ \A j \in mid[n].row : mid[j].row = mid[n].row \cap 0 .. j
      BY <1>6, <1>7 DEF IsTree
    <3>2. \A j \in mid[n].row : j \in 0 .. last - 1
      BY <1>7, <3>1
    <3> QED
      BY <1>20, <3>1, <3>2
  <2> QED
    BY <1>16, <2>1 DEF IsTree
<1>22. To(root) = k
  BY <1>2, <1>5 DEF To
<1>23. new[k].row = 0 .. k /\ new[k].tok = tr[root].tok
  <2>1. \A c \in tr[root].row \cap B : c = root
    <3>1. tr[root].row \subseteq 0 .. root
      BY <1>1, <1>4 DEF IsTree
    <3>2. \A c \in B : root <= c /\ c \in Int /\ root \in Int
      BY <1>3
    <3> QED
      BY <3>1, <3>2
  <2>2. Row(root) = (0 .. k) \cup {k}
    <3>1. {To(c) : c \in tr[root].row \cap B} = {k}
      <4>1. root \in tr[root].row \cap B
        OBVIOUS
      <4> QED
        BY <1>22, <2>1, <4>1
    <3> QED
      BY <3>1
  <2>3. Row(root) = 0 .. k
    BY <1>2, <2>2
  <2> HIDE DEF Row
  <2> QED
    BY <1>13, <1>22, <2>3
<1>24. \A n \in 0 .. (k + 1) - 1 : new[n].row = 0 .. n
  <2>1. \A n \in 0 .. (k + 1) - 1 : n \in 0 .. k - 1 \/ n = k
    BY <1>2
  <2> QED
    BY <1>10, <1>23, <2>1
<1>25. ASSUME NEW n \in k + 1 .. last - 1
       PROVE  DraftNode(new, k + 1, n)
  <2>1. n \in k .. last - 1 /\ n # k /\ n \in Nat
    BY <1>2
  <2>2. PICK s \in B : To(s) = n
    BY <1>15, <2>1
  <2>3. s # root
    BY <1>22, <2>1, <2>2
  <2> DEFINE par == tr[s].par
  <2>4. par \in B /\ par \in 0 .. s - 1 /\ tr[s].row = tr[par].row \cup {s}
    BY <2>3
  <2>5. par \in Int /\ s \in Int /\ par < s
    BY <1>3, <2>4
  <2> HIDE DEF par
  <2>6. To(par) \in k .. n - 1
    <3>1. Rank(B, par) < Rank(B, s)
      BY <1>4, <2>4, <2>5, RankGrows
    <3>2. Rank(B, par) \in Nat /\ Rank(B, s) \in Nat
      BY <1>4, <2>5, RankBounds
    <3>3. n = k + Rank(B, s) /\ To(par) = k + Rank(B, par)
      BY <2>2 DEF To
    <3> QED
      BY <1>2, <3>1, <3>2, <3>3
  <2>7. new[n].par = To(par)
    <3>1. Par(s) = To(par)
      BY <2>4 DEF Par, par
    <3> QED
      BY <1>13, <2>2, <3>1
  <2>8. new[n].row = Row(s) /\ new[To(par)].row = Row(par)
    <3> HIDE DEF Row
    <3> QED
      BY <1>13, <2>2, <2>4
  <2>9. Row(s) = Row(par) \cup {n}
    <3>1. tr[s].row \cap B = (tr[par].row \cap B) \cup {s}
      BY <2>4
    <3>2. {To(c) : c \in tr[s].row \cap B} = {To(c) : c \in tr[par].row \cap B} \cup {To(s)}
      BY <3>1
    <3> QED
      BY <2>2, <3>2
  <2>10. 0 .. (k + 1) - 1 \subseteq Row(s)
    BY <1>2
  <2> HIDE DEF Row
  <2>11. To(par) \in (k + 1) - 1 .. n - 1
    BY <1>2, <2>6
  <2> QED
    BY <2>7, <2>8, <2>9, <2>10, <2>11 DEF DraftNode
<1>26. \A n \in Slots : new[n].st = CANDIDATE => n >= (k + 1) - 1
  <2> TAKE n \in Slots
  <2>1. n \in 0 .. k - 1 \/ n >= (k + 1) - 1
    BY <1>2 DEF Slots
  <2>2. CASE n \in 0 .. k - 1
    BY <1>10, <2>2 DEF PROMPT, CANDIDATE
  <2> QED
    BY <2>1, <2>2
<1>27. RowTree(new, k + 1, last)
  <2>1. k + 1 \in 0 .. MaxLen /\ last \in k + 1 .. MaxLen /\ k + 1 # 0
    BY <1>2, <1>7
  <2> QED
    BY <1>14, <1>21, <1>24, <1>25, <1>26, <2>1 DEF RowTree
<1> QED
  BY <1>10, <1>16, <1>23, <1>27 DEF TakesPath, new, k, R, last

(***************************************************************************)
(* Growth.                                                                 *)
(***************************************************************************)

\* Tokens and statuses are no part of the shape of a tree.
SameShape(tr, new, top) ==
  /\ new \in [Slots -> Nodes]
  /\ \A n \in 0 .. top - 1 :
       new[n].par = tr[n].par /\ new[n].pos = tr[n].pos /\ new[n].row = tr[n].row

LEMMA RestatedTextTree ==
  ASSUME NEW tr, NEW len, NEW e, NEW top, TextTree(tr, len, e, top),
         NEW new, SameShape(tr, new, top)
  PROVE  TextTree(new, len, e, top)
<1>1. /\ len \in Nat /\ e \in Nat /\ top \in Nat /\ 1 <= len /\ len <= e /\ e <= top
      /\ IsTree(tr, top)
  BY TextTreeBounds
<1>2. /\ new \in [Slots -> Nodes]
      /\ \A n \in 0 .. top - 1 :
           new[n].par = tr[n].par /\ new[n].pos = tr[n].pos /\ new[n].row = tr[n].row
  BY DEF SameShape
<1>3. ASSUME NEW n \in 0 .. top - 1
      PROVE  /\ n \in new[n].row /\ new[n].row \subseteq 0 .. n
             /\ new[n].pos = Cardinality(new[n].row) - 1
             /\ \A j \in new[n].row : new[j].row = new[n].row \cap 0 .. j
  <2>1. /\ n \in tr[n].row /\ tr[n].row \subseteq 0 .. n
        /\ tr[n].pos = Cardinality(tr[n].row) - 1
        /\ \A j \in tr[n].row : tr[j].row = tr[n].row \cap 0 .. j
    BY <1>1 DEF IsTree
  <2>2. \A j \in tr[n].row : j \in 0 .. top - 1
    BY <1>1, <2>1
  <2> QED
    BY <1>2, <2>1, <2>2
<1>4. IsTree(new, top)
  BY <1>2, <1>3 DEF IsTree
<1>5. \A n \in 0 .. len - 1 : new[n].row = 0 .. n
  <2>1. \A n \in 0 .. len - 1 : n \in 0 .. top - 1
    BY <1>1
  <2> QED
    BY <1>2, <2>1 DEF TextTree
<1>6. ASSUME NEW n \in len .. e - 1
      PROVE  DraftNode(new, len, n)
  <2>1. DraftNode(tr, len, n) /\ n \in 0 .. top - 1
    BY <1>1 DEF TextTree
  <2>2. tr[n].par \in 0 .. top - 1
    BY <1>1, <2>1 DEF DraftNode
  <2> QED
    BY <1>2, <2>1, <2>2 DEF DraftNode
<1>7. ASSUME NEW n \in e .. top - 1
      PROVE  new[n].par \in 0 .. n - 1 /\ new[n].row = new[new[n].par].row \cup {n}
  <2>1. n \in 0 .. top - 1 /\ tr[n].par \in 0 .. n - 1 /\ tr[n].row = tr[tr[n].par].row \cup {n}
    BY <1>1 DEF TextTree
  <2>2. tr[n].par \in 0 .. top - 1
    BY <1>1, <2>1
  <2> QED
    BY <1>2, <2>1, <2>2
<1> QED
  BY <1>4, <1>5, <1>6, <1>7 DEF TextTree

\* Children that may be added to a tree behind its last node.
MayAdd(keys, top) ==
  /\ keys \in SUBSET Nat /\ IsFiniteSet(keys) /\ top + Cardinality(keys) <= MaxLen
  /\ \A k \in keys : ParentOf(k) \in 0 .. top - 1 /\ TokenOf(k) \in Tokens

\* A tree that grew behind `top', by nodes of one status.
Grows(tr, new, len, e, top, top2, st) ==
  /\ TextTree(new, len, e, top2) /\ top2 \in top .. MaxLen
  /\ \A n \in Slots : n < top \/ n >= top2 => new[n] = tr[n]
  /\ \A n \in top .. top2 - 1 : new[n].st = st

LEMMA PlantedTextTree ==
  ASSUME NEW tr, NEW len, NEW e, NEW top, TextTree(tr, len, e, top),
         NEW keys, MayAdd(keys, top), NEW st \in Status
  PROVE  Grows(tr, Add(tr, top, keys, st), len, e, top, top + Cardinality(keys), st)
<1> DEFINE c   == Cardinality(keys)
           t2  == top + c
           new == Add(tr, top, keys, st)
<1>1. /\ len \in Nat /\ e \in Nat /\ top \in Nat /\ 1 <= len /\ len <= e /\ e <= top
      /\ IsTree(tr, top) /\ MaxLen \in Nat /\ top \in 0 .. MaxLen
      /\ tr \in [Slots -> Nodes]
  BY TextTreeBounds
<1>2. /\ keys \in SUBSET Nat /\ IsFiniteSet(keys) /\ t2 <= MaxLen
      /\ \A k \in keys : ParentOf(k) \in 0 .. top - 1 /\ TokenOf(k) \in Tokens
  BY DEF MayAdd
<1>3. c \in Nat
  BY <1>2, FS_CardinalityType
<1>4. /\ IsTree(new, t2)
      /\ \A n \in Slots \ (top .. t2 - 1) : new[n] = tr[n]
      /\ \A n \in top .. t2 - 1 :
           \E k \in keys :
             /\ k = Nth(keys, n - top)
             /\ new[n] =
                  [tok |-> TokenOf(k), par |-> ParentOf(k), pos |-> tr[ParentOf(k)].pos + 1,
                   st |-> st, row |-> tr[ParentOf(k)].row \cup {n}]
  <2>1. /\ keys \in SUBSET Nat /\ IsFiniteSet(keys) /\ top + Cardinality(keys) <= MaxLen
        /\ \A k \in keys : ParentOf(k) \in 0 .. top - 1 /\ TokenOf(k) \in Tokens
    BY <1>2
  <2> HIDE DEF new
  <2>2. new = Add(tr, top, keys, st)
    BY DEF new
  <2> QED
    BY <1>1, <2>1, <2>2, AddMakesTree
<1>5. t2 \in Nat /\ top <= t2 /\ t2 \in top .. MaxLen
  BY <1>1, <1>2, <1>3
<1> HIDE DEF new, t2
<1>6. \A n \in Slots : n < top \/ n >= t2 => new[n] = tr[n]
  BY <1>1, <1>4, <1>5 DEF Slots
<1>7. \A n \in 0 .. top - 1 : new[n] = tr[n] /\ n \in Slots
  <2>1. \A n \in 0 .. top - 1 : n \in Slots /\ n < top
    BY <1>1, <1>5 DEF Slots
  <2> QED
    BY <1>6, <2>1
<1>8. ASSUME NEW n \in top .. t2 - 1
      PROVE  /\ new[n].st = st /\ new[n].par \in 0 .. n - 1
             /\ new[n].row = new[new[n].par].row \cup {n}
  <2>1. PICK k \in keys :
          new[n] = [tok |-> TokenOf(k), par |-> ParentOf(k), pos |-> tr[ParentOf(k)].pos + 1,
                    st |-> st, row |-> tr[ParentOf(k)].row \cup {n}]
    BY <1>4
  <2>2. new[n].par = ParentOf(k) /\ new[n].st = st
    BY <2>1
  <2>3. new[n].row = tr[ParentOf(k)].row \cup {n}
    BY <2>1
  <2>4. ParentOf(k) \in 0 .. top - 1
    BY <1>2
  <2>5. \A m \in 0 .. top - 1 : m \in 0 .. n - 1
    BY <1>1, <1>5
  <2> QED
    BY <1>7, <2>2, <2>3, <2>4, <2>5
<1>9. ASSUME NEW n \in len .. e - 1
      PROVE  DraftNode(new, len, n)
  <2>1. DraftNode(tr, len, n) /\ n \in 0 .. top - 1
    BY <1>1 DEF TextTree
  <2>2. tr[n].par \in 0 .. top - 1
    BY <1>1, <2>1 DEF DraftNode
  <2> QED
    BY <1>7, <2>1, <2>2 DEF DraftNode
<1>10. ASSUME NEW n \in e .. t2 - 1
       PROVE  new[n].par \in 0 .. n - 1 /\ new[n].row = new[new[n].par].row \cup {n}
  <2>1. CASE n \in top .. t2 - 1
    BY <1>8, <2>1
  <2>2. CASE n \in e .. top - 1
    <3>1. n \in 0 .. top - 1 /\ tr[n].par \in 0 .. n - 1 /\ tr[n].row = tr[tr[n].par].row \cup {n}
      BY <1>1, <2>2 DEF TextTree
    <3>2. tr[n].par \in 0 .. top - 1
      BY <1>1, <3>1
    <3> QED
      BY <1>7, <3>1, <3>2
  <2> QED
    BY <1>1, <1>5, <2>1, <2>2
<1>11. \A n \in 0 .. len - 1 : new[n].row = 0 .. n
  <2>1. \A n \in 0 .. len - 1 : n \in 0 .. top - 1
    BY <1>1
  <2> QED
    BY <1>7, <2>1 DEF TextTree
<1>12. len \in 1 .. MaxLen /\ e \in len .. MaxLen /\ t2 \in e .. MaxLen
  BY <1>1, <1>5 DEF TextTree
<1>13. TextTree(new, len, e, t2)
  BY <1>4, <1>9, <1>10, <1>11, <1>12 DEF TextTree
<1> QED
  BY <1>5, <1>6, <1>8, <1>13 DEF Grows, new, t2

\* A row tree whose draft grew.
LEMMA GrownDraft ==
  ASSUME NEW tr, NEW len, NEW e, RowTree(tr, len, e), NoScratch(tr), len > 0,
         NEW beams \in SUBSET WithStatus(tr, CANDIDATE), NEW width,
         NEW children \in Proposals(beams, width), NEW best \in SUBSET children,
         e + Cardinality(best) <= MaxLen
  PROVE  LET new == Add(Marked(tr, beams), e, best, CANDIDATE)
         IN  /\ RowTree(new, len, e + Cardinality(best)) /\ NoScratch(new)
             /\ \A n \in 0 .. len - 1 : new[n].tok = tr[n].tok
<1> DEFINE run == Marked(tr, beams)
           new == Add(run, e, best, CANDIDATE)
<1>1. /\ RowTree(run, len, e) /\ \A n \in Slots : run[n].tok = tr[n].tok
      /\ beams \subseteq len - 1 .. e - 1 /\ beams \subseteq Slots
  BY MarkedRowTree
<1>2. /\ best \in SUBSET Nat /\ IsFiniteSet(best)
      /\ \A k \in best : ParentOf(k) \in beams /\ TokenOf(k) \in Tokens
  BY <1>1, ProposedKeys
<1>3. Fits(best, len, e)
  BY <1>1, <1>2 DEF Fits
<1>4. /\ len \in Nat /\ e \in Nat /\ len <= e /\ MaxLen \in Nat /\ e <= MaxLen
      /\ tr \in [Slots -> Nodes]
  BY SizesAssumption DEF RowTree, IsTree
<1>5. /\ RowTree(new, len, e + Cardinality(best))
      /\ \A n \in 0 .. e - 1 : new[n] = run[n]
  <2> HIDE DEF new, run
  <2>1. new = Add(run, e, best, CANDIDATE)
    BY DEF new
  <2> QED
    BY <1>1, <1>3, <2>1, GrownRowTree
<1>6. \A n \in Slots : run[n].st # POST_CANDIDATE
  <2> TAKE n \in Slots
  <2>1. tr[n].st # POST_CANDIDATE /\ tr[n] \in Nodes
    BY <1>4 DEF NoScratch
  <2> QED
    BY <2>1 DEF Marked, Nodes, PROCESSED, POST_CANDIDATE
<1> HIDE DEF run
<1>7. \A n \in Slots : new[n].st # POST_CANDIDATE
  BY <1>6 DEF Add, CANDIDATE, POST_CANDIDATE
<1>8. \A n \in 0 .. len - 1 : new[n].tok = tr[n].tok
  <2>1. \A n \in 0 .. len - 1 : n \in 0 .. e - 1 /\ n \in Slots
    BY <1>4 DEF Slots
  <2> HIDE DEF new
  <2> QED
    BY <1>1, <1>5, <2>1
<1> QED
  BY <1>5, <1>7, <1>8 DEF run, NoScratch

\* A draft of which a set is kept that holds the parents of its nodes, in the
\* order topk lists it.
Trimmable(tr, len, e, kept, lowest) ==
  /\ kept \in SUBSET (len .. e - 1) /\ lowest \in kept
  /\ \A s \in kept : tr[s].row \cap len .. e - 1 \subseteq kept
  /\ \A m \in kept \ {lowest} : lowest \notin tr[m].row

LEMMA TrimmedTextTree ==
  ASSUME NEW tr, NEW len, NEW e, RowTree(tr, len, e), NoScratch(tr), len > 0,
         NEW kept, NEW lowest, Trimmable(tr, len, e, kept, lowest)
  PROVE  LET e2  == len + Cardinality(kept)
             new == GatherTree(tr, kept, TopkOrder(kept, lowest, len), e2)
         IN  /\ TextTree(new, len, e2, e2) /\ NoScratch(new)
             /\ \A n \in 0 .. len - 1 : new[n] = tr[n]
<1> DEFINE e2   == len + Cardinality(kept)
           dest == TopkOrder(kept, lowest, len)
           new  == GatherTree(tr, kept, dest, e2)
<1>1. /\ len \in Nat /\ e \in Nat /\ e \in len .. MaxLen /\ len \in 0 .. e /\ MaxLen \in Nat
      /\ e \in 0 .. MaxLen /\ IsTree(tr, e) /\ tr \in [Slots -> Nodes]
      /\ \A n \in 0 .. e - 1 : n \in Slots
  <2>1. TextTree(tr, len, e, e) /\ e \in len .. MaxLen
    BY RowTreeIsTextTree DEF RowTree
  <2>2. /\ len \in Nat /\ e \in Nat /\ MaxLen \in Nat /\ len <= e /\ e \in 0 .. MaxLen
        /\ IsTree(tr, e) /\ tr \in [Slots -> Nodes] /\ \A n \in 0 .. e - 1 : n \in Slots
    BY <2>1, TextTreeBounds
  <2>3. len \in 0 .. e
    BY <2>2
  <2> QED
    BY <2>1, <2>2, <2>3
<1>2. /\ kept \in SUBSET (len .. e - 1) /\ lowest \in kept
      /\ \A s \in kept : tr[s].row \cap len .. e - 1 \subseteq kept
      /\ \A m \in kept \ {lowest} : lowest \notin tr[m].row
  BY DEF Trimmable
<1>3. Places(tr, kept, dest, len)
  BY <1>1, <1>2, TopkPlaces
<1> HIDE DEF dest
<1>4. /\ e2 \in 0 .. e /\ IsTree(new, e2)
      /\ \A n \in 0 .. len - 1 : new[n] = tr[n]
      /\ \A n \in len .. e2 - 1 : \E s \in kept : dest[s] = n
      /\ \A s \in kept : new[dest[s]] = MovedNode(tr, kept, dest, len, s)
  BY <1>1, <1>2, <1>3, GatherMakesTree
<1>5. dest \in [kept -> len .. e2 - 1]
  BY <1>3 DEF Places
<1>6. \A n \in Slots : n >= e2 => new[n].st = tr[n].st
  <2> TAKE n \in Slots
  <2> HAVE n >= e2
  <2> DEFINE Interim(s) == IF s \in kept THEN dest[s] ELSE s
             Parent(s)  == IF s \in kept THEN Interim(tr[s].par) ELSE tr[s].par
             P          == Parent(n)
  <2>1. n \notin {dest[s] : s \in kept} /\ ~(n < e2)
    <3>1. \A s \in kept : dest[s] \in len .. e2 - 1
      BY <1>5
    <3>2. n \in Int /\ e2 \in Int
      BY <1>4 DEF Slots
    <3> HIDE DEF e2
    <3> QED
      BY <1>1, <3>1, <3>2
  <2>2. new[n] = [tr[n] EXCEPT !.par = P, !.row = {}]
    <3> HIDE DEF e2
    <3> QED
      BY <2>1 DEF GatherTree
  <2> HIDE DEF P, new
  <2>3. tr[n] \in Nodes
    BY <1>1
  <2> QED
    BY <2>2, <2>3 DEF Nodes
<1> HIDE DEF new
<1>7. /\ e2 \in len .. MaxLen
      /\ \A n \in len .. e2 - 1 : DraftNode(new, len, n)
      /\ \A s \in kept : new[dest[s]].st = tr[s].st
  <2>1. e2 = len + Cardinality(kept)
    OBVIOUS
  <2> HIDE DEF e2
  <2> QED
    BY <1>1, <1>2, <1>3, <1>4, <2>1, TrimmedDraft
<1>8. NoScratch(new)
  <2>1. ASSUME NEW n \in Slots
        PROVE  new[n].st # POST_CANDIDATE
    <3>1. CASE n \in 0 .. len - 1
      BY <1>4, <3>1 DEF NoScratch
    <3>2. CASE n \in len .. e2 - 1
      <4>1. PICK s \in kept : dest[s] = n
        BY <1>4, <3>2
      <4>2. s \in Slots
        BY <1>1, <1>2
      <4> QED
        BY <1>7, <4>1, <4>2 DEF NoScratch
    <3>3. CASE n >= e2
      BY <1>6, <3>3 DEF NoScratch
    <3>4. n \in 0 .. len - 1 \/ n \in len .. e2 - 1 \/ n >= e2
      BY <1>1, <1>7 DEF Slots
    <3> QED
      BY <3>1, <3>2, <3>3, <3>4
  <2> QED
    BY <2>1 DEF NoScratch
<1>9. \A n \in 0 .. len - 1 : new[n].row = 0 .. n
  BY <1>4 DEF RowTree
<1>10. TextTree(new, len, e2, e2)
  <2>1. len \in 1 .. MaxLen /\ e2 \in e2 .. MaxLen /\ e2 .. e2 - 1 = {}
    BY <1>1, <1>7
  <2> HIDE DEF e2
  <2> QED
    BY <1>4, <1>7, <1>9, <2>1 DEF TextTree
<1> QED
  BY <1>4, <1>8, <1>10 DEF new, dest

\* Re-opening leaves changes statuses only.
LEMMA ReopenedTakesPath ==
  ASSUME NEW tr, NEW x, NEW new, NEW e2, NEW token, TakesPath(tr, x, new, e2, token),
         Cardinality(tr[x].row) \in Nat
  PROVE  TakesPath(tr, x, ReopenLeaves(new, Cardinality(tr[x].row) + 1, e2), e2, token)
<1> DEFINE k    == Cardinality(tr[x].row)
           open == ReopenLeaves(new, k + 1, e2)
<1>1. /\ RowTree(new, k + 1, e2) /\ NoScratch(new)
      /\ \A n \in 0 .. k - 1 : new[n].tok = Context(tr, x)[n + 1]
      /\ new[k].tok = token /\ k \in Nat
  BY DEF TakesPath
<1>2. /\ e2 \in k + 1 .. MaxLen /\ new \in [Slots -> Nodes] /\ MaxLen \in Nat
      /\ \A n \in Slots : n >= e2 => new[n] = Blank
      /\ \A n \in Slots : new[n].st = CANDIDATE => n >= (k + 1) - 1
      /\ \A n \in 0 .. k : n \in Slots
  BY <1>1, SizesAssumption DEF RowTree, IsTree, Slots
<1>3. ASSUME NEW n \in Slots
      PROVE  /\ open[n] = new[n] \/ /\ open[n] = [new[n] EXCEPT !.st = CANDIDATE]
                                    /\ n \in (k + 1) - 1 .. e2 - 1
  BY DEF ReopenLeaves
<1>4. open = [n \in Slots |-> open[n]]
  BY DEF ReopenLeaves
<1> HIDE DEF open, k
<1>5. ASSUME NEW n \in Slots
      PROVE  /\ open[n] \in Nodes
             /\ open[n].tok = new[n].tok /\ open[n].par = new[n].par
             /\ open[n].pos = new[n].pos /\ open[n].row = new[n].row
             /\ n >= e2 => open[n] = Blank
             /\ open[n].st = CANDIDATE => n >= (k + 1) - 1
             /\ open[n].st # POST_CANDIDATE
  <2>1. new[n] \in Nodes /\ new[n].st # POST_CANDIDATE
    BY <1>1, <1>2 DEF NoScratch
  <2>2. CASE open[n] = new[n]
    BY <1>2, <2>1, <2>2
  <2>3. CASE /\ open[n] = [new[n] EXCEPT !.st = CANDIDATE]
             /\ n \in (k + 1) - 1 .. e2 - 1
    <3>1. n >= (k + 1) - 1 /\ ~(n >= e2)
      BY <1>1, <1>2, <2>3
    <3>2. /\ open[n] \in Nodes /\ open[n].st = CANDIDATE
          /\ open[n].tok = new[n].tok /\ open[n].par = new[n].par
          /\ open[n].pos = new[n].pos /\ open[n].row = new[n].row
      BY <2>1, <2>3 DEF Nodes, Status
    <3> QED
      BY <3>1, <3>2 DEF CANDIDATE, POST_CANDIDATE
  <2> QED
    BY <1>3, <2>2, <2>3
<1>6. open \in [Slots -> Nodes]
  BY <1>4, <1>5
<1>7. RowTree(open, k + 1, e2)
  BY <1>1, <1>5, <1>6, RestatedRowTree
<1>8. \A n \in 0 .. k : open[n].tok = new[n].tok
  BY <1>2, <1>5
<1>9. k \in 0 .. k /\ \A n \in 0 .. k - 1 : n \in 0 .. k
  BY <1>1
<1> QED
  BY <1>1, <1>5, <1>7, <1>8, <1>9 DEF TakesPath, NoScratch, open, k

(***************************************************************************)
(* The tree and the text.                                                  *)
(***************************************************************************)

\* Where the nodes of the tree end, those of the scratch forest included.
Top == IF forest.end = 0 THEN end ELSE forest.end

Phases == {"draft", "grow", "predict", "forest", "wait", "done", "failed"}

\* The tree is one, with the text in front; it has scratch nodes while there is
\* a forest, and bets are placed on the branches of that.
TreeInv ==
  /\ cfg \in Configs /\ phase \in Phases
  /\ TextTree(tree, prefixLen, end, Top)
  /\ forest \in [end : 0 .. MaxLen, roots : SUBSET Slots]
  /\ forest.roots \subseteq end .. Top - 1
  /\ phase \in {"draft", "grow", "done"} => RowTree(tree, prefixLen, end)
  /\ phase \in {"draft", "grow", "predict", "done"} =>
       NoScratch(tree) /\ forest = NoForest /\ bets = {}
  /\ phase = "forest" =>
       /\ forest.end # 0 /\ bets = {}
       /\ \A n \in Slots : tree[n].st = POST_CANDIDATE => n \in Planted
  /\ \A bet \in bets : \E root \in forest.roots : bet = Bet(root)

\* The server's choices are for the nodes that were submitted.
SelectionInv ==
  /\ selection = NoSelection \/ selection \in [Submitted -> Tokens]
  /\ phase \in {"draft", "grow", "done"} => selection = NoSelection

\* What is confirmed of the tree is the text.
TextInv ==
  /\ output \in Seq(Tokens) /\ Len(output) = prefixLen
  /\ \A n \in 0 .. prefixLen - 1 : tree[n].tok = output[n + 1]
  /\ goal \in Nat

CoreInv == TreeInv /\ SelectionInv /\ TextInv

LEMMA ConfigFacts ==
  ASSUME cfg \in Configs
  PROVE  /\ cfg.maxLen \in Nat /\ cfg.maxLen <= MaxLen /\ MaxLen \in Nat /\ Len(Prompt) <= MaxLen
         /\ Len(Prompt) \in 2 .. MaxLen /\ Prompt \in Seq(Tokens)
         /\ cfg.budget \in Nat \ {0} /\ cfg.beams \in Nat /\ cfg.pBeams \in Nat
         /\ cfg.beamLen \in Nat /\ cfg.pBeamLen \in Nat /\ cfg.sBranchLen \in Nat
<1>1. /\ cfg.maxLen \in Len(Prompt) .. MaxLen /\ cfg.budget \in Nat \ {0}
      /\ cfg.beams \in Nat /\ cfg.pBeams \in Nat
      /\ cfg.beamLen \in Nat /\ cfg.pBeamLen \in Nat /\ cfg.sBranchLen \in Nat
  BY ConfigsAssumption
<1>2. Prompt \in Seq(Tokens) /\ Len(Prompt) > 1 /\ Len(Prompt) \in Nat
  BY PromptAssumption
<1> QED
  BY <1>1, <1>2, SizesAssumption

\* The core invariant holds in the beginning.
LEMMA CoreInit ==
  ASSUME Init
  PROVE  CoreInv
<1> USE DEF Init
<1> DEFINE len == Len(Prompt)
<1>1. len \in 2 .. MaxLen /\ Prompt \in Seq(Tokens) /\ MaxLen \in Nat
  BY ConfigFacts
<1>2. RowTree(tree, len, len) /\ \A k \in 1 .. len : tree[k - 1].tok = Prompt[k]
  BY <1>1, PromptRowTree
<1>3. NoScratch(tree)
  BY DEF NoScratch, PromptTree, Blank, PROMPT, CANDIDATE, POST_CANDIDATE
<1>4. Top = len /\ end = len /\ prefixLen = len /\ forest = NoForest /\ bets = {}
  BY DEF Top, NoForest
<1>5. TextTree(tree, len, len, len)
  <2>1. len > 0
    BY <1>1
  <2> HIDE DEF len, Init
  <2> QED
    BY <1>2, <2>1, RowTreeIsTextTree
<1>6. phase \in Phases /\ phase # "forest"
  BY DEF Phases
<1>7. forest \in [end : 0 .. MaxLen, roots : SUBSET Slots] /\ forest.roots \subseteq end .. Top - 1
  BY <1>1, <1>4 DEF NoForest
<1>8. TreeInv
  <2>1. cfg \in Configs
    OBVIOUS
  <2> HIDE DEF Init, len
  <2> QED
    BY <1>2, <1>3, <1>4, <1>5, <1>6, <1>7, <2>1 DEF TreeInv
<1>9. SelectionInv
  BY DEF SelectionInv
<1>10. TextInv
  <2>1. \A n \in 0 .. len - 1 : tree[n].tok = Prompt[n + 1]
    <3> TAKE n \in 0 .. len - 1
    <3>1. n + 1 \in 1 .. len /\ (n + 1) - 1 = n
      BY <1>1
    <3> HIDE DEF Init
    <3> QED
      BY <1>2, <3>1
  <2> QED
    BY <1>1, <1>4, <2>1 DEF TextInv
<1> QED
  BY <1>8, <1>9, <1>10 DEF CoreInv

\* A submitted node all of whose path was accepted, and the longest such path.
WholePath(x, sel) ==
  x \in Submitted /\ \A j \in tree[x].row : j >= prefixLen => tree[j].tok = sel[tree[j].par]
LongestPath(x, sel) ==
  /\ WholePath(x, sel)
  /\ \A y \in Submitted : WholePath(y, sel) => tree[y].pos <= tree[x].pos

\* The row that is kept is that of a longest accepted path.
LEMMA BestRowIsLongest ==
  ASSUME TreeInv, NEW sel
  PROVE  \E x \in Submitted : BestRow(sel) = tree[x].row /\ LongestPath(x, sel)
<1> DEFINE accepted == (0 .. prefixLen - 1)
                         \cup {j \in Drafted : tree[j].tok = sel[tree[j].par]}
           whole == {i \in Submitted : tree[i].row \subseteq accepted}
           Longer(i, j) == Cardinality(tree[i].row) > Cardinality(tree[j].row)
           Best(i) == \A j \in whole : ~Longer(j, i) /\ (j < i => Longer(i, j))
           lens == {Cardinality(tree[i].row) : i \in whole}
<1>1. /\ prefixLen \in Nat /\ end \in Nat /\ 1 <= prefixLen /\ prefixLen <= end
      /\ TextTree(tree, prefixLen, end, Top)
  BY TextTreeBounds DEF TreeInv
<1>2. ASSUME NEW i \in Submitted
      PROVE  /\ i \in 0 .. end - 1 /\ i \in Nat /\ tree[i].row \subseteq 0 .. i
             /\ tree[i].pos \in Nat /\ Cardinality(tree[i].row) = tree[i].pos + 1
             /\ Cardinality(tree[i].row) <= end
  BY <1>1, PathFacts DEF Submitted
<1>3. ASSUME NEW i \in Submitted
      PROVE  i \in whole <=> WholePath(i, sel)
  <2>1. \A j \in tree[i].row : j \in Nat /\ j < end
    BY <1>1, <1>2
  <2>2. \A j \in tree[i].row : j \in 0 .. prefixLen - 1 \/ (j \in Drafted /\ j >= prefixLen)
    BY <1>1, <2>1 DEF Drafted
  <2>3. \A j \in 0 .. prefixLen - 1 : ~(j >= prefixLen)
    BY <1>1
  <2>4. \A j \in Drafted : j >= prefixLen /\ j \notin 0 .. prefixLen - 1
    BY <1>1 DEF Drafted
  <2>5. \A j \in tree[i].row : j \in accepted <=> (j >= prefixLen => tree[j].tok = sel[tree[j].par])
    BY <2>2, <2>3, <2>4
  <2> QED
    BY <2>5 DEF WholePath
<1>4. prefixLen - 1 \in whole
  <2>1. prefixLen - 1 \in Submitted /\ prefixLen - 1 \in 0 .. prefixLen - 1
    BY <1>1 DEF Submitted
  <2>2. tree[prefixLen - 1].row = 0 .. prefixLen - 1
    BY <1>1, <2>1 DEF TextTree
  <2> QED
    BY <2>1, <2>2
<1> HIDE DEF accepted, whole
<1>5. \A i \in whole : i \in Submitted
  BY DEF whole
<1>6. \E i \in whole : Best(i)
  <2>1. lens \in SUBSET (0 .. end)
    BY <1>1, <1>2, <1>5
  <2>2. IsFiniteSet(0 .. end) /\ lens \in SUBSET Int
    BY <1>1, <2>1, FS_Interval
  <2>n. lens # {}
    BY <1>4
  <2> HIDE DEF lens
  <2>3. IsFiniteSet(lens) /\ lens # {}
    BY <2>1, <2>2, <2>n, FS_Subset
  <2>4. PICK m \in lens : \A y \in lens : y <= m
    BY <2>2, <2>3, GreatestExists
  <2> DEFINE M == {i \in whole : Cardinality(tree[i].row) = m}
  <2>5. M # {} /\ M \in SUBSET (0 .. end)
    BY <1>1, <1>2, <1>5 DEF lens
  <2> HIDE DEF M
  <2>6. IsFiniteSet(M) /\ M \in SUBSET Int
    <3>1. IsFiniteSet(M)
      BY <2>2, <2>5, FS_Subset
    <3>2. \A n \in 0 .. end : n \in Int
      OBVIOUS
    <3> QED
      BY <2>5, <3>1, <3>2
  <2>7. Min(M) \in M /\ \A y \in M : Min(M) <= y
    BY <2>5, <2>6, MinIsLeast
  <2> DEFINE i == Min(M)
  <2>8. i \in whole /\ Cardinality(tree[i].row) = m /\ i \in Int
    BY <2>6, <2>7 DEF M
  <2>9. ASSUME NEW j \in whole
        PROVE  ~Longer(j, i) /\ (j < i => Longer(i, j))
    <3>1. Cardinality(tree[j].row) \in lens /\ j \in Int /\ Cardinality(tree[j].row) \in Int
      BY <1>2, <1>5, <2>2 DEF lens
    <3>2. Cardinality(tree[j].row) <= m /\ m \in Int
      BY <2>2, <2>4, <3>1
    <3>3. Cardinality(tree[j].row) = m => i <= j
      BY <2>7 DEF M
    <3> HIDE DEF i
    <3> QED
      BY <2>8, <3>1, <3>2, <3>3
  <2> QED
    BY <2>8, <2>9
<1> DEFINE best == CHOOSE i \in whole : Best(i)
<1>7. best \in whole /\ Best(best)
  <2> HIDE DEF Best
  <2> QED
    BY <1>6
<1>8. BestRow(sel) = tree[best].row
  BY DEF BestRow, whole, accepted
<1> HIDE DEF best
<1>9. LongestPath(best, sel)
  <2>1. WholePath(best, sel) /\ best \in Submitted
    BY <1>3, <1>5, <1>7
  <2>2. ASSUME NEW y \in Submitted, WholePath(y, sel)
        PROVE  tree[y].pos <= tree[best].pos
    <3>1. y \in whole
      BY <1>3, <2>2
    <3>2. ~(Cardinality(tree[y].row) > Cardinality(tree[best].row))
      BY <1>7, <3>1
    <3> QED
      BY <1>2, <2>1, <3>2
  <2> QED
    BY <2>1, <2>2 DEF LongestPath
<1> QED
  BY <1>5, <1>7, <1>8, <1>9

\* The last node of a path.
LEMMA ExitOfPath ==
  ASSUME TreeInv, NEW x \in Submitted
  PROVE  (IF Fresh(tree[x].row) = {} THEN prefixLen - 1 ELSE Max(Fresh(tree[x].row))) = x
<1> DEFINE F == Fresh(tree[x].row)
<1>1. /\ prefixLen \in Nat /\ end \in Nat /\ 1 <= prefixLen /\ prefixLen <= end
      /\ TextTree(tree, prefixLen, end, Top)
  BY TextTreeBounds DEF TreeInv
<1>2. x \in tree[x].row /\ tree[x].row \subseteq 0 .. x /\ x \in Nat
  BY <1>1, PathFacts DEF Submitted
<1>3. x = prefixLen - 1 \/ x >= prefixLen
  BY <1>1, <1>2 DEF Submitted
<1>4. CASE x = prefixLen - 1
  <2>1. \A n \in tree[x].row : n \in Nat /\ n <= x
    BY <1>2
  <2>2. F = {}
    BY <1>1, <1>4, <2>1 DEF Fresh
  <2> QED
    BY <1>4, <2>2
<1>5. CASE x >= prefixLen
  <2>1. x \in F /\ \A n \in F : n \in Int /\ n <= x
    BY <1>2, <1>5 DEF Fresh
  <2>f. F = Fresh(tree[x].row)
    OBVIOUS
  <2> HIDE DEF F
  <2>2. Max(F) = CHOOSE m \in F : \A n \in F : m >= n
    BY DEF Max
  <2>3. \A m \in F : (\A n \in F : m >= n) => m = x
    BY <1>2, <2>1
  <2>4. \E m \in F : \A n \in F : m >= n
    BY <1>2, <2>1
  <2>5. Max(F) = x
    BY <2>2, <2>3, <2>4
  <2> QED
    BY <2>1, <2>5, <2>f
<1> QED
  BY <1>3, <1>4, <1>5

\* A text extended by the rest of a path and a token.
Extends(tr, x, text, token) ==
  LET k == Cardinality(tr[x].row)
  IN  /\ text \in Seq(Tokens) /\ Len(text) = k + 1
      /\ \A n \in 0 .. k - 1 : text[n + 1] = Context(tr, x)[n + 1]
      /\ text[k + 1] = token

LEMMA TextAfterPath ==
  ASSUME TreeInv, TextInv, NEW x \in Submitted, NEW extra \in Tokens
  PROVE  /\ FreshTokens(tree[x].row, extra) \in Seq(Tokens)
         /\ Extends(tree, x, output \o FreshTokens(tree[x].row, extra), extra)
<1> DEFINE R     == tree[x].row
           c     == Cardinality(Fresh(R))
           k     == Cardinality(R)
           fresh == FreshTokens(R, extra)
           new   == output \o fresh
<1>1. /\ prefixLen \in Nat /\ end \in Nat /\ 1 <= prefixLen /\ prefixLen <= end
      /\ TextTree(tree, prefixLen, end, Top) /\ Top \in Nat /\ end <= Top
      /\ end \in 0 .. MaxLen /\ IsTree(tree, end) /\ tree \in [Slots -> Nodes]
  BY TextTreeBounds DEF TreeInv
<1>2. /\ R \subseteq 0 .. x /\ x \in 0 .. end - 1 /\ R \in SUBSET Slots
      /\ k = tree[x].pos + 1 /\ tree[x].pos \in Nat
  BY <1>1, PathFacts DEF Submitted
<1>3. /\ IsFiniteSet(Fresh(R)) /\ c \in Nat /\ Fresh(R) \in SUBSET Int
      /\ k = prefixLen + c
      /\ \A n \in 0 .. c - 1 : Nth(R, prefixLen + n) = Nth(Fresh(R), n)
  <2> DEFINE f == PathFrom(tree, x, prefixLen)
  <2>2. x \in prefixLen - 1 .. end - 1
    BY DEF Submitted
  <2>3. /\ IsFiniteSet(f) /\ Cardinality(f) \in Nat /\ f \in SUBSET Int
        /\ Cardinality(tree[x].row) = prefixLen + Cardinality(f)
        /\ \A n \in 0 .. Cardinality(f) - 1 : Nth(tree[x].row, prefixLen + n) = Nth(f, n)
    BY <1>1, <2>2, FreshPart
  <2>4. f = Fresh(R)
    BY DEF Fresh, PathFrom
  <2> QED
    BY <2>3, <2>4
<1>4. output \in Seq(Tokens) /\ Len(output) = prefixLen
  BY DEF TextInv
<1>5. fresh = [m \in 1 .. c + 1 |-> IF m <= c THEN tree[Nth(Fresh(R), m - 1)].tok ELSE extra]
  BY DEF FreshTokens
<1> HIDE DEF c, k, fresh
<1>6. ASSUME NEW m \in 1 .. c
      PROVE  /\ fresh[m] \in Tokens /\ fresh[m] = Context(tree, x)[prefixLen + m]
  <2>1. m - 1 \in 0 .. c - 1 /\ m \in 1 .. c + 1 /\ m <= c
    BY <1>3
  <2> DEFINE p == prefixLen + (m - 1)
             j == Nth(R, p)
  <2>2. p \in 0 .. tree[x].pos
    BY <1>1, <1>2, <1>3
  <2>3. j \in R /\ Context(tree, x)[p + 1] = tree[j].tok
    <3>1. end \in 0 .. MaxLen /\ IsTree(tree, end) /\ x \in 0 .. end - 1
      BY <1>1, <1>2
    <3> HIDE DEF p
    <3> QED
      BY <2>2, <3>1, PlaceOnPath
  <2>4. j = Nth(Fresh(R), m - 1)
    BY <1>3, <2>1
  <2>5. p + 1 = prefixLen + m
    BY <1>1, <1>3
  <2>6. tree[j].tok \in Tokens
    BY <1>1, <1>2, <2>3 DEF Nodes
  <2> HIDE DEF p, j
  <2>7. fresh[m] = tree[j].tok
    BY <1>5, <2>1, <2>4
  <2> QED
    BY <2>3, <2>5, <2>6, <2>7
<1>7. fresh[c + 1] = extra
  <2>1. c + 1 \in 1 .. c + 1 /\ ~(c + 1 <= c)
    BY <1>3
  <2> QED
    BY <1>5, <2>1
<1>8. fresh \in [1 .. c + 1 -> Tokens]
  <2>1. \A m \in 1 .. c + 1 : m \in 1 .. c \/ m = c + 1
    BY <1>3
  <2>2. \A m \in 1 .. c + 1 : fresh[m] \in Tokens
    BY <1>6, <1>7, <2>1
  <2> QED
    BY <1>5, <2>2
<1>9. fresh \in Seq(Tokens) /\ Len(fresh) = c + 1
  <2>1. c + 1 \in Nat
    BY <1>3
  <2>2. fresh \in Seq(Tokens)
    BY <1>8, <2>1
  <2>3. DOMAIN fresh = 1 .. c + 1
    BY <1>8
  <2> QED
    BY <2>1, <2>2, <2>3, LenProperties
<1>10. /\ new \in Seq(Tokens) /\ Len(new) = k + 1
       /\ \A i \in 1 .. prefixLen : new[i] = output[i]
       /\ \A i \in 1 .. c + 1 : new[prefixLen + i] = fresh[i]
  <2>1. /\ new \in Seq(Tokens) /\ Len(new) = Len(output) + Len(fresh)
        /\ \A i \in 1 .. Len(new) : new[i] = IF i <= Len(output) THEN output[i]
                                             ELSE fresh[i - Len(output)]
    BY <1>4, <1>9, ConcatProperties
  <2> HIDE DEF new
  <2>2. Len(new) = k + 1
    BY <1>1, <1>3, <1>4, <1>9, <2>1
  <2>3. \A i \in 1 .. prefixLen : i \in 1 .. Len(new) /\ i <= Len(output)
    BY <1>1, <1>3, <1>4, <2>2
  <2>4. \A i \in 1 .. c + 1 : /\ prefixLen + i \in 1 .. Len(new) /\ ~(prefixLen + i <= Len(output))
                              /\ (prefixLen + i) - Len(output) = i
    BY <1>1, <1>3, <1>4, <2>2
  <2> QED
    BY <2>1, <2>2, <2>3, <2>4
<1> HIDE DEF new
<1>11. ASSUME NEW n \in 0 .. k - 1
       PROVE  new[n + 1] = Context(tree, x)[n + 1]
  <2>1. CASE n < prefixLen
    <3>1. n \in 0 .. prefixLen - 1 /\ n + 1 \in 1 .. prefixLen
      BY <1>1, <2>1
    <3>2. new[n + 1] = tree[n].tok
      BY <1>10, <3>1 DEF TextInv
    <3>3. n \in R /\ tree[n].pos = n
      <4>1. 0 .. prefixLen - 1 \subseteq R
        BY <1>1, PathFacts DEF Submitted
      <4> QED
        BY <1>1, <3>1, <4>1, TextPlaces
    <3>4. Context(tree, x)[tree[n].pos + 1] = tree[n].tok
      BY <1>1, <1>2, <3>3, ContextIsText
    <3> QED
      BY <3>2, <3>3, <3>4
  <2>2. CASE ~(n < prefixLen)
    <3> DEFINE m == (n - prefixLen) + 1
    <3>1. m \in 1 .. c /\ m \in 1 .. c + 1 /\ prefixLen + m = n + 1
      BY <1>1, <1>3, <2>2
    <3> HIDE DEF m
    <3>2. new[prefixLen + m] = fresh[m] /\ fresh[m] = Context(tree, x)[prefixLen + m]
      BY <1>6, <1>10, <3>1
    <3> QED
      BY <3>1, <3>2
  <2> QED
    BY <2>1, <2>2
<1>12. new[k + 1] = extra
  <2>1. k + 1 = prefixLen + (c + 1) /\ c + 1 \in 1 .. c + 1
    BY <1>1, <1>3
  <2> QED
    BY <1>7, <1>10, <2>1
<1> QED
  BY <1>9, <1>10, <1>11, <1>12 DEF Extends, new, fresh, k

(***************************************************************************)
(* The steps.                                                              *)
(***************************************************************************)

\* What scores choose.
LEMMA ChosenOnes ==
  /\ \A S, k : \A T \in Topk(S, k) : T \subseteq S
  /\ \A children, existing, top, budget :
       \A best \in WithinBudget(children, existing, top, budget) : best \subseteq children
<1>1. \A S, k : \A T \in Topk(S, k) : T \subseteq S
  BY DEF Topk, kSubset
<1>2. \A children, existing, top, budget :
        \A best \in WithinBudget(children, existing, top, budget) : best \subseteq children
  BY DEF WithinBudget
<1> QED
  BY <1>1, <1>2

LEMMA CoreTreeFacts ==
  ASSUME TreeInv
  PROVE  /\ prefixLen \in Nat /\ end \in Nat /\ Top \in Nat /\ MaxLen \in Nat
         /\ 1 <= prefixLen /\ prefixLen <= end /\ end <= Top /\ Top <= MaxLen
         /\ TextTree(tree, prefixLen, end, Top) /\ tree \in [Slots -> Nodes]
         /\ end \in 0 .. MaxLen /\ IsTree(tree, end)
         /\ \A n \in 0 .. Top - 1 : n \in Slots
BY TextTreeBounds DEF TreeInv

LEMMA CoreStartGrowing ==
  ASSUME CoreInv, StartGrowing
  PROVE  CoreInv'
<1>1. TreeInv'
  <2>1. Top' = Top /\ UNCHANGED <<cfg, tree, prefixLen, end, forest, bets>>
    BY DEF StartGrowing, Top, treeVars, betVars
  <2>2. phase = "draft" /\ phase' = "grow" /\ "grow" \in Phases
    BY DEF StartGrowing, Phases
  <2>3. bets' = {}
    BY <2>1, <2>2 DEF CoreInv, TreeInv
  <2> QED
    BY <2>1, <2>2, <2>3 DEF CoreInv, TreeInv
<1>2. SelectionInv'
  BY DEF CoreInv, SelectionInv, StartGrowing, Submitted, treeVars
<1>3. TextInv'
  BY DEF CoreInv, TextInv, StartGrowing, treeVars
<1> QED
  BY <1>1, <1>2, <1>3 DEF CoreInv

LEMMA CoreGrowRound ==
  ASSUME CoreInv, GrowRound
  PROVE  CoreInv'
<1>1. /\ RowTree(tree, prefixLen, end) /\ NoScratch(tree) /\ forest = NoForest /\ bets = {}
      /\ phase = "grow" /\ selection = NoSelection
  BY DEF CoreInv, TreeInv, SelectionInv, GrowRound
<1>2. /\ prefixLen \in Nat /\ end \in Nat /\ MaxLen \in Nat /\ 1 <= prefixLen /\ prefixLen <= end
      /\ cfg \in Configs /\ cfg.maxLen \in Nat /\ cfg.maxLen <= MaxLen
  BY CoreTreeFacts, ConfigFacts DEF CoreInv, TreeInv
<1>3. UNCHANGED <<cfg, prefixLen, forest, bets, selection, output, goal>>
  BY DEF GrowRound, betVars
<1>4. TextInv
  BY DEF CoreInv
<1>5. \/ /\ UNCHANGED <<tree, end>> /\ phase' = "failed"
      \/ /\ phase' = "grow" /\ RowTree(tree', prefixLen, end') /\ NoScratch(tree')
         /\ \A n \in 0 .. prefixLen - 1 : tree'[n].tok = tree[n].tok
  <2>1. PICK beams \in Topk(Frontier, cfg.beams) :
          LET run == [n \in Slots |-> IF n \in beams THEN [tree[n] EXCEPT !.st = PROCESSED]
                                      ELSE tree[n]]
          IN  \E children \in Proposals(beams, cfg.width) :
                \E best \in WithinBudget(children, Drafted, {}, cfg.budget) :
                  \/ /\ HasRoom(children, Drafted, best, end, cfg.budget)
                     /\ tree' = Add(run, end, best, CANDIDATE)
                     /\ end' = end + Cardinality(best)
                     /\ phase' = phase
                  \/ /\ phase' = "failed"
                     /\ UNCHANGED <<tree, end>>
    BY DEF GrowRound
  <2>c. PICK children \in Proposals(beams, cfg.width) :
          \E best \in WithinBudget(children, Drafted, {}, cfg.budget) :
            \/ /\ HasRoom(children, Drafted, best, end, cfg.budget)
               /\ tree' = Add(Marked(tree, beams), end, best, CANDIDATE)
               /\ end' = end + Cardinality(best)
               /\ phase' = phase
            \/ /\ phase' = "failed"
               /\ UNCHANGED <<tree, end>>
    BY <2>1 DEF Marked
  <2>2. PICK best \in WithinBudget(children, Drafted, {}, cfg.budget) :
          \/ /\ HasRoom(children, Drafted, best, end, cfg.budget)
             /\ tree' = Add(Marked(tree, beams), end, best, CANDIDATE)
             /\ end' = end + Cardinality(best)
             /\ phase' = phase
          \/ /\ phase' = "failed"
             /\ UNCHANGED <<tree, end>>
    BY <2>c
  <2>3. beams \in SUBSET WithStatus(tree, CANDIDATE) /\ best \in SUBSET children
    BY ChosenOnes DEF Frontier
  <2>4. CASE /\ HasRoom(children, Drafted, best, end, cfg.budget)
             /\ tree' = Add(Marked(tree, beams), end, best, CANDIDATE)
             /\ end' = end + Cardinality(best)
             /\ phase' = phase
    <3>1. beams \in SUBSET Slots
      BY <2>3 DEF WithStatus
    <3>2. IsFiniteSet(best)
      BY <2>3, <3>1, ProposedKeys
    <3>3. Cardinality(best) \in Nat /\ end + Cardinality(best) <= cfg.maxLen
      BY <2>4, <3>2, FS_CardinalityType DEF HasRoom
    <3>4. end + Cardinality(best) <= MaxLen /\ prefixLen > 0
      BY <1>2, <3>3
    <3> DEFINE new == Add(Marked(tree, beams), end, best, CANDIDATE)
    <3>5. /\ RowTree(new, prefixLen, end + Cardinality(best)) /\ NoScratch(new)
          /\ \A n \in 0 .. prefixLen - 1 : new[n].tok = tree[n].tok
      BY <1>1, <2>3, <3>4, GrownDraft
    <3> HIDE DEF new
    <3>6. tree' = new
      BY <2>4 DEF new
    <3> QED
      BY <1>1, <2>4, <3>5, <3>6
  <2> QED
    BY <2>2, <2>4
<1>6. CASE UNCHANGED <<tree, end>> /\ phase' = "failed"
  <2>1. Top' = Top
    BY <1>3, <1>6 DEF Top
  <2>2. TreeInv'
    BY <1>1, <1>3, <1>6, <2>1 DEF CoreInv, TreeInv, Phases
  <2>3. SelectionInv' /\ TextInv'
    BY <1>1, <1>3, <1>4, <1>6 DEF SelectionInv, TextInv
  <2> QED
    BY <2>2, <2>3 DEF CoreInv
<1>7. CASE /\ phase' = "grow" /\ RowTree(tree', prefixLen, end') /\ NoScratch(tree')
           /\ \A n \in 0 .. prefixLen - 1 : tree'[n].tok = tree[n].tok
  <2>1. TextTree(tree', prefixLen, end', end')
    <3>1. prefixLen > 0
      BY <1>2
    <3> QED
      BY <1>7, <3>1, RowTreeIsTextTree
  <2>2. forest' = NoForest /\ bets' = {} /\ Top' = end' /\ forest'.roots = {}
        /\ forest' \in [end : 0 .. MaxLen, roots : SUBSET Slots]
    BY <1>1, <1>2, <1>3 DEF Top, NoForest
  <2>3. TreeInv'
    BY <1>2, <1>3, <1>7, <2>1, <2>2 DEF TreeInv, Phases
  <2>4. SelectionInv'
    BY <1>1, <1>3 DEF SelectionInv
  <2>5. TextInv'
    BY <1>3, <1>4, <1>7 DEF TextInv
  <2> QED
    BY <2>3, <2>4, <2>5 DEF CoreInv
<1> QED
  BY <1>5, <1>6, <1>7

LEMMA CoreSubmit ==
  ASSUME CoreInv, Submit
  PROVE  CoreInv'
<1>1. /\ RowTree(tree, prefixLen, end) /\ NoScratch(tree) /\ forest = NoForest /\ bets = {}
      /\ phase = "grow"
  BY DEF CoreInv, TreeInv, SelectionInv, Submit
<1>2. /\ prefixLen \in Nat /\ end \in Nat /\ MaxLen \in Nat /\ 1 <= prefixLen /\ prefixLen <= end
      /\ TextTree(tree, prefixLen, end, Top) /\ cfg \in Configs /\ cfg.budget \in Nat
  BY CoreTreeFacts, ConfigFacts DEF CoreInv, TreeInv
<1>3. /\ UNCHANGED <<cfg, prefixLen, forest, bets, output, goal>> /\ selection' = NoSelection
      /\ phase' \in {"wait", "predict"}
  BY DEF Submit, betVars, treeVars
<1>4. TextInv
  BY DEF CoreInv
<1>5. Top = end /\ Top' = end'
  BY <1>1, <1>3 DEF Top, NoForest
<1>6. /\ TextTree(tree', prefixLen, end', end') /\ NoScratch(tree')
      /\ \A n \in 0 .. prefixLen - 1 : tree'[n] = tree[n]
  <2>1. CASE UNCHANGED treeVars
    BY <1>1, <1>2, <1>5, <2>1 DEF treeVars
  <2>2. CASE ~UNCHANGED treeVars
    <3>k. PICK kept \in {K \in kSubset(cfg.budget, Drafted) : Closed(K)} :
          \E lowest \in {n \in kept : \A m \in kept \ {n} : n \notin tree[m].row} :
            /\ tree' = GatherTree(tree, kept, TopkOrder(kept, lowest, prefixLen),
                                  prefixLen + cfg.budget)
            /\ end' = prefixLen + cfg.budget
      BY <2>2 DEF Submit, TrimOrder
    <3>1. PICK lowest \in {n \in kept : \A m \in kept \ {n} : n \notin tree[m].row} :
            /\ tree' = GatherTree(tree, kept, TopkOrder(kept, lowest, prefixLen),
                                  prefixLen + cfg.budget)
            /\ end' = prefixLen + cfg.budget
      BY <3>k
    <3>2. /\ kept \in SUBSET Drafted /\ Cardinality(kept) = cfg.budget
          /\ \A s \in kept : tree[s].row \cap Drafted \subseteq kept
          /\ lowest \in kept /\ \A m \in kept \ {lowest} : lowest \notin tree[m].row
      BY DEF kSubset, Closed
    <3>3. Trimmable(tree, prefixLen, end, kept, lowest)
      BY <3>2 DEF Trimmable, Drafted
    <3> DEFINE e2  == prefixLen + Cardinality(kept)
               new == GatherTree(tree, kept, TopkOrder(kept, lowest, prefixLen), e2)
    <3>4. /\ TextTree(new, prefixLen, e2, e2) /\ NoScratch(new)
          /\ \A n \in 0 .. prefixLen - 1 : new[n] = tree[n]
      <4>1. prefixLen > 0
        BY <1>2
      <4> QED
        BY <1>1, <3>3, <4>1, TrimmedTextTree
    <3>5. tree' = new /\ end' = e2
      BY <3>1, <3>2
    <3> HIDE DEF new, e2
    <3> QED
      BY <3>4, <3>5
  <2> QED
    BY <2>1, <2>2
<1>7. TreeInv'
  <2>1. /\ forest' = NoForest /\ bets' = {} /\ forest'.roots = {}
        /\ forest' \in [end : 0 .. MaxLen, roots : SUBSET Slots]
    BY <1>1, <1>2, <1>3 DEF NoForest
  <2>2. phase' \in Phases /\ phase' # "forest" /\ phase' \notin {"draft", "grow", "done"}
    BY <1>3 DEF Phases
  <2> QED
    BY <1>2, <1>3, <1>5, <1>6, <2>1, <2>2 DEF TreeInv
<1>8. SelectionInv'
  BY <1>3 DEF SelectionInv
<1>9. TextInv'
  BY <1>3, <1>4, <1>6 DEF TextInv
<1> QED
  BY <1>7, <1>8, <1>9 DEF CoreInv

\* A replaying client has its trace, and goes on if it is one of the prompt.
ReferenceInv ==
  /\ reference \in IF cfg.replay THEN Recordings ELSE {NoTrace}
  /\ phase # "failed" => check_prompt(reference)

LEMMA RecordedTokens ==
  ASSUME ReferenceInv, cfg.replay, NEW p \in Nat
  PROVE  /\ Recorded(reference, p) \in Tokens
         /\ reference \in Recordings /\ reference \in Seq(Tokens) /\ Len(reference) \in Nat
<1>1. reference \in Recordings
  BY DEF ReferenceInv
<1>2. reference \in Seq(Tokens) /\ Len(reference) \in Nat
  BY <1>1, RecordingsAssumption
<1>3. ASSUME p + 2 <= Len(reference) PROVE reference[p + 2] \in Tokens
  <2>1. p + 2 \in 1 .. Len(reference)
    BY <1>2, <1>3
  <2> QED
    BY <1>2, <2>1
<1> QED
  BY <1>1, <1>2, <1>3, EosAssumption DEF Recorded

\* Steps that leave tree and text alone.
LEMMA CoreServerStep ==
  ASSUME CoreInv, ReferenceInv, Verify \/ VerifyFails \/ Replay \/ ReorderRaises
  PROVE  CoreInv'
<1>1. /\ UNCHANGED <<cfg, tree, prefixLen, end, forest, bets, output, goal>>
      /\ phase \in {"predict", "forest", "wait"}
      /\ phase' = phase \/ phase' = "failed"
  BY DEF Verify, VerifyFails, Replay, ReorderRaises, treeVars, betVars
<1>2. Top' = Top
  BY <1>1 DEF Top
<1>3. TreeInv'
  <2>1. \A root : Bet(root)' = Bet(root)
    BY <1>1 DEF Bet, Branch, Planted
  <2>2. "failed" \in Phases /\ Planted' = Planted
    BY <1>1 DEF Phases, Planted
  <2> QED
    BY <1>1, <1>2, <2>1, <2>2 DEF CoreInv, TreeInv
<1>4. SelectionInv'
  <2>1. Submitted' = Submitted
    BY <1>1 DEF Submitted
  <2>2. selection' = selection \/ selection' \in [Submitted -> Tokens]
    <3>1. CASE Verify
      BY <3>1 DEF Verify, Answers
    <3>2. CASE Replay
      <4>1. selection' = [n \in Submitted |-> Recorded(reference, tree[n].pos)] /\ cfg.replay
        BY <3>2 DEF Replay
      <4>2. \A n \in Submitted : Recorded(reference, tree[n].pos) \in Tokens
        <5> TAKE n \in Submitted
        <5>1. n \in Slots
          BY CoreTreeFacts DEF CoreInv, Submitted
        <5>2. tree[n].pos \in Nat
          BY <5>1, CoreTreeFacts DEF CoreInv, Nodes
        <5> QED
          BY <4>1, <5>2, RecordedTokens
      <4> QED
        BY <4>1, <4>2
    <3>3. CASE VerifyFails \/ ReorderRaises
      BY <3>3 DEF VerifyFails, ReorderRaises
    <3> QED
      BY <3>1, <3>2, <3>3
  <2> QED
    BY <1>1, <2>1, <2>2 DEF CoreInv, SelectionInv
<1>5. TextInv'
  BY <1>1 DEF CoreInv, TextInv
<1> QED
  BY <1>3, <1>4, <1>5 DEF CoreInv

LEMMA CorePlaceBets ==
  ASSUME CoreInv, PlaceBets
  PROVE  CoreInv'
<1>1. /\ UNCHANGED <<cfg, tree, prefixLen, end, forest, selection, output, goal>>
      /\ phase' = "wait" /\ bets' = {Bet(root) : root \in forest.roots}
  BY DEF PlaceBets, treeVars
<1>2. Top' = Top
  BY <1>1 DEF Top
<1>3. TreeInv'
  <2>1. \A root : Bet(root)' = Bet(root)
    BY <1>1 DEF Bet, Branch, Planted
  <2>2. \A bet \in bets' : \E root \in forest.roots : bet = Bet(root)'
    BY <1>1, <2>1
  <2> QED
    BY <1>1, <1>2, <2>2 DEF CoreInv, TreeInv, Phases
<1>4. SelectionInv'
  BY <1>1 DEF CoreInv, SelectionInv, Submitted
<1>5. TextInv'
  BY <1>1 DEF CoreInv, TextInv
<1> QED
  BY <1>3, <1>4, <1>5 DEF CoreInv

\* The candidate exits are in the tree.
LEMMA ExitsInTree ==
  ASSUME TreeInv,
         NEW exits \in IF cfg.strategy = "proactive" THEN ProactiveExits ELSE SaguaroExits
  PROVE  exits \in SUBSET (0 .. end - 1)
<1>1. /\ prefixLen \in Nat /\ end \in Nat /\ 1 <= prefixLen /\ prefixLen <= end
  BY CoreTreeFacts
<1>2. Drafted \subseteq 0 .. end - 1 /\ Submitted \subseteq 0 .. end - 1
  BY <1>1 DEF Drafted, Submitted
<1>3. \A parents : Leaves(parents) \subseteq Drafted
  BY DEF Leaves
<1>4. CASE exits \in ProactiveExits
  <2> DEFINE leaves == Leaves({tree[n].par : n \in Slots})
             moved  == {n - prefixLen : n \in leaves}
  <2>1. leaves \subseteq Drafted
    BY <1>3
  <2>2. moved \subseteq 0 .. end - 1
    <3>1. \A n \in Drafted : n - prefixLen \in 0 .. end - 1
      BY <1>1 DEF Drafted
    <3> HIDE DEF leaves
    <3> QED
      BY <2>1, <3>1
  <2>3. exits = leaves \/ exits \in SUBSET moved
    <3>1. exits \in IF Cardinality(leaves) > cfg.pBeams THEN kSubset(cfg.pBeams, moved)
                    ELSE {leaves}
      BY <1>4 DEF ProactiveExits
    <3> HIDE DEF leaves, moved
    <3> QED
      BY <3>1 DEF kSubset
  <2> HIDE DEF leaves, moved
  <2> QED
    BY <1>2, <2>1, <2>2, <2>3
<1>5. CASE exits \in SaguaroExits
  <2> DEFINE leaves == Leaves({tree[n].par : n \in 0 .. end - 1})
             all    == IF cfg.exitMode = "trunk" THEN Submitted ELSE leaves
  <2>1. leaves \subseteq Drafted
    BY <1>3
  <2>2. all \subseteq 0 .. end - 1
    BY <1>2, <2>1
  <2>3. exits \in Topk(all, cfg.pBeams)
    BY <1>5 DEF SaguaroExits
  <2> HIDE DEF all
  <2> QED
    BY <2>2, <2>3, ChosenOnes
<1> QED
  BY <1>4, <1>5

\* The outcomes to bet on are children of the exits.
LEMMA GuessesAreChildren ==
  ASSUME NEW exits, NEW guesses \in Guesses(exits)
  PROVE  guesses \in SUBSET ChildKeys(exits)
<1>1. \A n \in exits : Open(n) \subseteq ChildKeys(exits)
  BY DEF Open, ChildKeys
<1>2. CASE cfg.strategy = "proactive"
  BY <1>2 DEF Guesses, ChildKeys
<1>3. CASE cfg.strategy # "proactive"
  <2>1. guesses \in SUBSET UNION {Open(n) : n \in exits}
    BY <1>3 DEF Guesses
  <2> QED
    BY <1>1, <2>1
<1> QED
  BY <1>2, <1>3

LEMMA CorePredict ==
  ASSUME CoreInv, Predict
  PROVE  CoreInv'
<1>1. /\ NoScratch(tree) /\ forest = NoForest /\ phase = "predict"
      /\ TreeInv /\ SelectionInv /\ TextInv
  BY DEF CoreInv, TreeInv, Predict
<1>2. /\ prefixLen \in Nat /\ end \in Nat /\ MaxLen \in Nat /\ 1 <= prefixLen /\ prefixLen <= end
      /\ TextTree(tree, prefixLen, end, Top) /\ end \in 0 .. MaxLen
      /\ cfg \in Configs /\ cfg.maxLen \in Nat /\ cfg.maxLen <= MaxLen
      /\ \A n \in 0 .. end - 1 : n \in Slots
  BY <1>1, CoreTreeFacts, ConfigFacts DEF TreeInv
<1>3. UNCHANGED <<cfg, prefixLen, end, selection, output, goal>> /\ bets' = {}
  BY DEF Predict
<1>4. Top = end
  BY <1>1 DEF Top, NoForest
<1>5. \/ /\ UNCHANGED <<tree, forest>> /\ phase' \in {"wait", "failed"}
      \/ /\ phase' \in {"wait", "forest"}
         /\ forest'.end \in end .. MaxLen
         /\ forest' = [end |-> forest'.end, roots |-> end .. forest'.end - 1]
         /\ Grows(tree, tree', prefixLen, end, end, forest'.end, POST_CANDIDATE)
  <2>1. PICK exits \in IF cfg.strategy = "proactive" THEN ProactiveExits ELSE SaguaroExits :
          \/ phase' = "wait" /\ UNCHANGED <<tree, forest>>
          \/ \E guesses \in Guesses(exits) :
               LET newEnd == end + Cardinality(guesses)
               IN  \/ /\ newEnd <= cfg.maxLen
                      /\ phase' = IF guesses = {} THEN "wait" ELSE "forest"
                      /\ tree' = Add(tree, end, guesses, POST_CANDIDATE)
                      /\ forest' = [end |-> newEnd, roots |-> end .. newEnd - 1]
                   \/ phase' = "failed" /\ UNCHANGED <<tree, forest>>
    BY DEF Predict
  <2>2. CASE \/ phase' = "wait" /\ UNCHANGED <<tree, forest>>
             \/ phase' = "failed" /\ UNCHANGED <<tree, forest>>
    BY <2>2
  <2>3. ASSUME NEW guesses \in Guesses(exits),
               end + Cardinality(guesses) <= cfg.maxLen,
               phase' = IF guesses = {} THEN "wait" ELSE "forest",
               tree' = Add(tree, end, guesses, POST_CANDIDATE),
               forest' = [end   |-> end + Cardinality(guesses),
                          roots |-> end .. (end + Cardinality(guesses)) - 1]
        PROVE  /\ phase' \in {"wait", "forest"}
               /\ forest'.end \in end .. MaxLen
               /\ forest' = [end |-> forest'.end, roots |-> end .. forest'.end - 1]
               /\ Grows(tree, tree', prefixLen, end, end, forest'.end, POST_CANDIDATE)
    <3>1. exits \in SUBSET (0 .. end - 1)
      BY <1>1, ExitsInTree
    <3>2. exits \in SUBSET Slots /\ guesses \in SUBSET ChildKeys(exits)
      BY <1>2, <3>1, GuessesAreChildren
    <3>3. /\ guesses \in SUBSET Nat /\ IsFiniteSet(guesses)
          /\ \A k \in guesses : ParentOf(k) \in exits /\ TokenOf(k) \in Tokens
      BY <3>2, KeysOfChildren
    <3>4. Cardinality(guesses) \in Nat
      BY <3>3, FS_CardinalityType
    <3>5. MayAdd(guesses, end)
      <4>1. end + Cardinality(guesses) <= MaxLen
        BY <1>2, <2>3, <3>4
      <4> QED
        BY <3>1, <3>3, <4>1 DEF MayAdd
    <3>6. POST_CANDIDATE \in Status
      BY DEF Status
    <3> DEFINE t2 == end + Cardinality(guesses)
    <3>7. Grows(tree, Add(tree, end, guesses, POST_CANDIDATE), prefixLen, end, end, t2, POST_CANDIDATE)
      BY <1>2, <1>4, <3>5, <3>6, PlantedTextTree
    <3>8. t2 \in end .. MaxLen
      BY <1>2, <2>3, <3>4
    <3>9. forest' = [end |-> t2, roots |-> end .. t2 - 1]
      BY <2>3
    <3> HIDE DEF t2
    <3>10. forest'.end = t2
      BY <3>9
    <3> QED
      BY <2>3, <3>7, <3>8, <3>9, <3>10
  <2> QED
    BY <2>1, <2>2, <2>3
<1>6. CASE UNCHANGED <<tree, forest>> /\ phase' \in {"wait", "failed"}
  <2>1. Top' = Top
    BY <1>3, <1>6 DEF Top
  <2>2. TreeInv'
    BY <1>1, <1>3, <1>6, <2>1 DEF TreeInv, Phases
  <2>3. SelectionInv' /\ TextInv'
    BY <1>1, <1>3, <1>6 DEF SelectionInv, TextInv, Submitted
  <2> QED
    BY <2>2, <2>3 DEF CoreInv
<1>7. CASE /\ phase' \in {"wait", "forest"}
           /\ forest'.end \in end .. MaxLen
           /\ forest' = [end |-> forest'.end, roots |-> end .. forest'.end - 1]
           /\ Grows(tree, tree', prefixLen, end, end, forest'.end, POST_CANDIDATE)
  <2> DEFINE top == forest'.end
  <2>1. /\ TextTree(tree', prefixLen, end, top)
        /\ \A n \in Slots : n < end \/ n >= top => tree'[n] = tree[n]
    BY <1>7 DEF Grows
  <2>2. top \in Nat /\ end <= top /\ top # 0 /\ top \in 0 .. MaxLen
    BY <1>2, <1>7
  <2>3. Top' = top
    BY <2>2 DEF Top
  <2>4. forest'.roots = end .. top - 1
    BY <1>7
  <2>5. end .. top - 1 \in SUBSET Slots
    BY <1>2, <2>2 DEF Slots
  <2>6. forest' \in [end : 0 .. MaxLen, roots : SUBSET Slots]
    <3>1. forest' = [end |-> top, roots |-> end .. top - 1]
      BY <1>7
    <3> HIDE DEF top
    <3> QED
      BY <2>2, <2>5, <3>1
  <2>7. \A n \in Slots : tree'[n].st = POST_CANDIDATE => n \in end .. top - 1
    <3> TAKE n \in Slots
    <3>1. n \in end .. top - 1 \/ n < end \/ n >= top
      BY <1>2, <2>2 DEF Slots
    <3> QED
      BY <1>1, <2>1, <3>1 DEF NoScratch
  <2>8. Planted' = end .. top - 1
    BY <1>3 DEF Planted
  <2>9. phase' \in Phases /\ phase' \notin {"draft", "grow", "predict", "done"}
    BY <1>7 DEF Phases
  <2> HIDE DEF top
  <2>10. TreeInv'
    BY <1>2, <1>3, <2>1, <2>2, <2>3, <2>4, <2>6, <2>7, <2>8, <2>9 DEF TreeInv, top
  <2>11. SelectionInv'
    BY <1>1, <1>3, <2>9 DEF SelectionInv, Submitted
  <2>12. \A n \in 0 .. prefixLen - 1 : tree'[n] = tree[n]
    <3>1. \A n \in 0 .. prefixLen - 1 : n \in Slots /\ n < end
      BY <1>2
    <3> QED
      BY <2>1, <3>1
  <2>13. TextInv'
    BY <1>1, <1>3, <2>12 DEF TextInv
  <2> QED
    BY <2>10, <2>11, <2>13 DEF CoreInv
<1> QED
  BY <1>5, <1>6, <1>7

LEMMA CoreForestRound ==
  ASSUME CoreInv, ForestRound
  PROVE  CoreInv'
<1>1. /\ phase = "forest" /\ TreeInv /\ SelectionInv /\ TextInv
      /\ forest.end # 0 /\ bets = {} /\ Top = forest.end
      /\ \A n \in Slots : tree[n].st = POST_CANDIDATE => n \in Planted
      /\ forest \in [end : 0 .. MaxLen, roots : SUBSET Slots]
      /\ forest.roots \subseteq end .. forest.end - 1
  BY DEF CoreInv, TreeInv, ForestRound, Top
<1> DEFINE top == forest.end
<1>2. /\ prefixLen \in Nat /\ end \in Nat /\ MaxLen \in Nat /\ 1 <= prefixLen /\ prefixLen <= end
      /\ TextTree(tree, prefixLen, end, top) /\ end \in 0 .. MaxLen /\ top \in Nat /\ end <= top
      /\ top <= MaxLen
      /\ cfg \in Configs /\ cfg.maxLen \in Nat /\ cfg.maxLen <= MaxLen
      /\ tree \in [Slots -> Nodes]
      /\ \A n \in 0 .. top - 1 : n \in Slots
  BY <1>1, CoreTreeFacts, ConfigFacts DEF TreeInv
<1>3. UNCHANGED <<cfg, prefixLen, end, selection, output, goal, bets>>
  BY DEF ForestRound
<1>4. \/ /\ UNCHANGED <<tree, forest>> /\ phase' = "failed"
      \/ /\ phase' = "forest"
         /\ \E t2 \in top .. MaxLen :
              /\ forest' = [forest EXCEPT !.end = t2]
              /\ TextTree(tree', prefixLen, end, t2)
              /\ \A n \in 0 .. prefixLen - 1 : tree'[n].tok = tree[n].tok
              /\ \A n \in Slots : tree'[n].st = POST_CANDIDATE => n \in end .. t2 - 1
  <2>1. PICK beams \in Topk(WithStatus(tree, POST_CANDIDATE), cfg.pBeams) :
          LET run == [n \in Slots |-> IF n \in beams THEN [tree[n] EXCEPT !.st = POST_PROCESSED]
                                      ELSE tree[n]]
          IN  \E children \in Proposals(beams, cfg.pWidth) :
                \E best \in WithinBudget(children, Planted, forest.roots, ForestBudget) :
                  \/ /\ HasRoom(children, Planted, best, forest.end, ForestBudget)
                     /\ tree' = Add(run, forest.end, best, POST_CANDIDATE)
                     /\ forest' = [forest EXCEPT !.end = @ + Cardinality(best)]
                     /\ phase' = phase
                  \/ /\ phase' = "failed"
                     /\ UNCHANGED <<tree, forest>>
    BY DEF ForestRound
  <2> DEFINE run == [n \in Slots |-> IF n \in beams THEN [tree[n] EXCEPT !.st = POST_PROCESSED]
                                     ELSE tree[n]]
  <2>c. PICK children \in Proposals(beams, cfg.pWidth) :
          \E best \in WithinBudget(children, Planted, forest.roots, ForestBudget) :
            \/ /\ HasRoom(children, Planted, best, forest.end, ForestBudget)
               /\ tree' = Add(run, forest.end, best, POST_CANDIDATE)
               /\ forest' = [forest EXCEPT !.end = @ + Cardinality(best)]
               /\ phase' = phase
            \/ /\ phase' = "failed"
               /\ UNCHANGED <<tree, forest>>
    BY <2>1
  <2>2. PICK best \in WithinBudget(children, Planted, forest.roots, ForestBudget) :
          \/ /\ HasRoom(children, Planted, best, forest.end, ForestBudget)
             /\ tree' = Add(run, forest.end, best, POST_CANDIDATE)
             /\ forest' = [forest EXCEPT !.end = @ + Cardinality(best)]
             /\ phase' = phase
          \/ /\ phase' = "failed"
             /\ UNCHANGED <<tree, forest>>
    BY <2>c
  <2>3. /\ beams \in SUBSET WithStatus(tree, POST_CANDIDATE) /\ best \in SUBSET children
        /\ beams \in SUBSET Slots /\ beams \subseteq end .. top - 1
    <3>1. beams \in SUBSET WithStatus(tree, POST_CANDIDATE) /\ best \in SUBSET children
      BY ChosenOnes
    <3> QED
      BY <1>1, <3>1 DEF WithStatus, Planted
  <2>4. \A n \in Slots :
          /\ run[n] \in Nodes
          /\ run[n].tok = tree[n].tok /\ run[n].par = tree[n].par
          /\ run[n].pos = tree[n].pos /\ run[n].row = tree[n].row
          /\ run[n].st = POST_CANDIDATE => tree[n].st = POST_CANDIDATE
    <3> TAKE n \in Slots
    <3>1. tree[n] \in Nodes
      BY <1>2
    <3>2. run[n] = tree[n] \/ run[n] = [tree[n] EXCEPT !.st = POST_PROCESSED]
      OBVIOUS
    <3> HIDE DEF run
    <3>3. CASE run[n] = [tree[n] EXCEPT !.st = POST_PROCESSED]
      BY <3>1, <3>3 DEF Nodes, Status, POST_PROCESSED, POST_CANDIDATE
    <3> QED
      BY <3>1, <3>2, <3>3
  <2>5. run \in [Slots -> Nodes]
    BY <2>4
  <2> HIDE DEF run
  <2>6. TextTree(run, prefixLen, end, top)
    <3>1. SameShape(tree, run, top)
      BY <1>2, <2>4, <2>5 DEF SameShape
    <3> QED
      BY <1>2, <3>1, RestatedTextTree
  <2>7. CASE phase' = "failed" /\ UNCHANGED <<tree, forest>>
    BY <2>7
  <2>8. CASE /\ HasRoom(children, Planted, best, forest.end, ForestBudget)
             /\ tree' = Add(run, forest.end, best, POST_CANDIDATE)
             /\ forest' = [forest EXCEPT !.end = @ + Cardinality(best)]
             /\ phase' = phase
    <3>1. /\ best \in SUBSET Nat /\ IsFiniteSet(best)
          /\ \A k \in best : ParentOf(k) \in beams /\ TokenOf(k) \in Tokens
      BY <2>3, ProposedKeys
    <3>2. Cardinality(best) \in Nat
      BY <3>1, FS_CardinalityType
    <3> DEFINE t2 == top + Cardinality(best)
    <3>3. t2 <= MaxLen
      <4>1. t2 <= cfg.maxLen
        BY <2>8 DEF HasRoom
      <4> QED
        BY <1>2, <3>2, <4>1
    <3>4. MayAdd(best, top)
      <4>1. \A k \in beams : k \in 0 .. top - 1
        BY <1>2, <2>3
      <4> QED
        BY <3>1, <3>3, <4>1 DEF MayAdd
    <3>5. POST_CANDIDATE \in Status
      BY DEF Status
    <3>6. Grows(run, Add(run, top, best, POST_CANDIDATE), prefixLen, end, top, t2, POST_CANDIDATE)
      BY <2>6, <3>4, <3>5, PlantedTextTree
    <3>7. Grows(run, tree', prefixLen, end, top, t2, POST_CANDIDATE)
      BY <2>8, <3>6
    <3>8. t2 \in top .. MaxLen
      BY <1>2, <3>2, <3>3
    <3>9. forest' = [forest EXCEPT !.end = t2]
      BY <2>8
    <3> HIDE DEF t2, top
    <3>10. /\ TextTree(tree', prefixLen, end, t2)
           /\ \A n \in Slots : n < top \/ n >= t2 => tree'[n] = run[n]
      BY <3>7 DEF Grows
    <3>11. \A n \in 0 .. prefixLen - 1 : tree'[n].tok = tree[n].tok
      <4>1. \A n \in 0 .. prefixLen - 1 : n \in Slots /\ n < top
        BY <1>2
      <4> QED
        BY <2>4, <3>10, <4>1
    <3>12. \A n \in Slots : tree'[n].st = POST_CANDIDATE => n \in end .. t2 - 1
      <4> TAKE n \in Slots
      <4>1. n \in top .. t2 - 1 \/ n < top \/ n >= t2
        BY <1>2, <3>8 DEF Slots
      <4>2. CASE n \in top .. t2 - 1
        BY <1>2, <3>8, <4>2
      <4>3. CASE n < top \/ n >= t2
        <5>1. tree'[n].st = POST_CANDIDATE => n \in end .. top - 1
          BY <1>1, <2>4, <3>10, <4>3 DEF Planted, top
        <5>2. \A m \in end .. top - 1 : m \in end .. t2 - 1
          BY <1>2, <3>8
        <5> QED
          BY <5>1, <5>2
      <4> QED
        BY <4>1, <4>2, <4>3
    <3>13. phase' = "forest"
      BY <1>1, <2>8
    <3> QED
      BY <3>8, <3>9, <3>10, <3>11, <3>12, <3>13
  <2> QED
    BY <2>2, <2>7, <2>8
<1>5. CASE UNCHANGED <<tree, forest>> /\ phase' = "failed"
  <2>1. Top' = Top
    BY <1>3, <1>5 DEF Top
  <2>2. TreeInv'
    BY <1>1, <1>3, <1>5, <2>1 DEF TreeInv, Phases
  <2>3. SelectionInv' /\ TextInv'
    BY <1>1, <1>3, <1>5 DEF SelectionInv, TextInv, Submitted
  <2> QED
    BY <2>2, <2>3 DEF CoreInv
<1>6. ASSUME phase' = "forest", NEW t2 \in top .. MaxLen,
             forest' = [forest EXCEPT !.end = t2],
             TextTree(tree', prefixLen, end, t2),
             \A n \in 0 .. prefixLen - 1 : tree'[n].tok = tree[n].tok,
             \A n \in Slots : tree'[n].st = POST_CANDIDATE => n \in end .. t2 - 1
      PROVE  CoreInv'
  <2>1. t2 \in Nat /\ t2 # 0 /\ t2 \in 0 .. MaxLen /\ top <= t2
    BY <1>1, <1>2
  <2>2. forest'.end = t2 /\ forest'.roots = forest.roots
    BY <1>1, <1>6
  <2>3. forest' \in [end : 0 .. MaxLen, roots : SUBSET Slots]
    BY <1>1, <1>6, <2>1
  <2>4. Top' = t2 /\ Planted' = end .. t2 - 1
    BY <1>3, <2>1, <2>2 DEF Top, Planted
  <2>5. forest'.roots \subseteq end .. t2 - 1
    <3>1. \A m \in end .. top - 1 : m \in end .. t2 - 1
      BY <1>2, <2>1
    <3> QED
      BY <1>1, <2>2, <3>1
  <2> HIDE DEF top
  <2>6. TreeInv'
    BY <1>1, <1>2, <1>3, <1>6, <2>1, <2>2, <2>3, <2>4, <2>5 DEF TreeInv, Phases
  <2>7. SelectionInv'
    BY <1>1, <1>3, <1>6 DEF SelectionInv, Submitted
  <2>8. TextInv'
    BY <1>1, <1>3, <1>6 DEF TextInv
  <2> QED
    BY <2>6, <2>7, <2>8 DEF CoreInv
<1> QED
  BY <1>4, <1>5, <1>6

\* What a cycle comes to: a longest accepted path is kept, with the server's
\* token behind it, and becomes the text.
Taken(x) ==
  /\ x \in Submitted /\ Path = tree[x].row /\ LongestPath(x, selection)
  /\ Exit = x /\ Bonus = selection[x] /\ selection \in [Submitted -> Tokens]
  /\ TakesPath(tree, x, tree', end', Bonus) /\ prefixLen' = Cardinality(Path) + 1
  /\ output' = output \o FreshTokens(Path, Bonus) /\ Extends(tree, x, output', Bonus)
  /\ FreshTokens(Path, Bonus) \in Seq(Tokens)

LEMMA ReconcileTakes ==
  ASSUME CoreInv, Reconcile
  PROVE  \E x \in Submitted : Taken(x)
<1>1. /\ TreeInv /\ SelectionInv /\ TextInv /\ phase = "wait" /\ selection # NoSelection
      /\ Reconciled
  BY DEF CoreInv, Reconcile
<1>2. selection \in [Submitted -> Tokens]
  BY <1>1 DEF SelectionInv
<1>3. PICK x \in Submitted : BestRow(selection) = tree[x].row /\ LongestPath(x, selection)
  BY <1>1, BestRowIsLongest
<1>4. Path = tree[x].row /\ Exit = x /\ Bonus = selection[x] /\ Bonus \in Tokens
  <2>1. Path = tree[x].row
    BY <1>3 DEF Path
  <2>2. Exit = x
    BY <1>1, <2>1, ExitOfPath DEF Exit
  <2> QED
    BY <1>2, <2>1, <2>2 DEF Bonus
<1> DEFINE k == Cardinality(tree[x].row)
<1>5. /\ prefixLen \in Nat /\ end \in Nat /\ 1 <= prefixLen /\ prefixLen <= end
      /\ TextTree(tree, prefixLen, end, Top) /\ x \in prefixLen - 1 .. end - 1
      /\ cfg \in Configs /\ cfg.maxLen \in Nat /\ cfg.maxLen <= MaxLen /\ MaxLen \in Nat
      /\ end <= Top /\ Top \in Nat
  BY <1>1, CoreTreeFacts, ConfigFacts DEF TreeInv, Submitted
<1>6. k \in Nat
  BY <1>5, PathFacts
<1>7. TakesPath(tree, x, tree', end', Bonus) /\ prefixLen' = k + 1
  <2>1. CASE MayReorder /\ PlainReorder(Path, Bonus)
    <3>1. k < MaxLen
      BY <1>4, <1>5, <1>6, <2>1 DEF MayReorder
    <3>2. TakesPath(tree, x, AppendBonus(ReorderBySequence(tree, tree[x].row, prefixLen), k, Bonus),
                    k + 1, Bonus)
      BY <1>4, <1>5, <3>1, PlainRowTree
    <3>3. /\ tree' = AppendBonus(ReorderBySequence(tree, tree[x].row, prefixLen), k, Bonus)
          /\ prefixLen' = k + 1 /\ end' = k + 1
      BY <1>4, <2>1 DEF PlainReorder
    <3> HIDE DEF k
    <3> QED
      BY <3>2, <3>3
  <2>2. CASE \E bet \in Hits : SpliceBet(Path, bet)
    <3>1. PICK bet \in Hits : SpliceBet(Path, bet)
      BY <2>2
    <3>2. bet \in bets /\ bet.exit = x /\ bet.bonus = Bonus
      BY <1>4 DEF Hits
    <3>3. PICK root \in forest.roots : bet = Bet(root)
      BY <1>1, <3>2 DEF TreeInv
    <3>4. tree[root].par = x /\ tree[root].tok = Bonus /\ bet.branch = Branch(root)
      BY <3>2, <3>3 DEF Bet
    <3>5. forest.end # 0 /\ Top = forest.end /\ forest.roots \subseteq end .. Top - 1
      <4>1. forest.roots \subseteq end .. Top - 1
        BY <1>1 DEF TreeInv
      <4>2. Top # end
        BY <1>5, <4>1
      <4> QED
        BY <4>1, <4>2 DEF Top
    <3> DEFINE B   == BranchOf(tree, end, Top, forest.roots, root)
               new == Splice(tree, tree[x].row, B, prefixLen)
               e2  == k + Cardinality(B)
    <3>6. bet.branch = B
      BY <3>4, <3>5 DEF Branch, Planted, BranchOf
    <3>7. IsBranch(tree, end, Top, x, root, B)
      BY <1>5, <3>4, <3>5, BranchFacts
    <3> HIDE DEF B
    <3>8. TakesPath(tree, x, new, e2, Bonus)
      BY <1>5, <3>4, <3>7, SplicedRowTree
    <3>9. /\ tree' = new \/ tree' = ReopenLeaves(new, k + 1, e2)
          /\ prefixLen' = k + 1 /\ end' = e2
      BY <1>4, <3>1, <3>6 DEF SpliceBet
    <3> HIDE DEF new, e2
    <3>10. TakesPath(tree, x, ReopenLeaves(new, k + 1, e2), e2, Bonus)
      BY <1>6, <3>8, ReopenedTakesPath
    <3> HIDE DEF k
    <3> QED
      BY <3>8, <3>9, <3>10
  <2> QED
    BY <1>1, <2>1, <2>2 DEF Reconciled
<1>8. output' = output \o FreshTokens(Path, Bonus)
  BY <1>1 DEF Reconciled, Advance
<1>9. /\ FreshTokens(Path, Bonus) \in Seq(Tokens)
      /\ Extends(tree, x, output \o FreshTokens(Path, Bonus), Bonus)
  BY <1>1, <1>4, TextAfterPath
<1> QED
  BY <1>2, <1>3, <1>4, <1>7, <1>8, <1>9 DEF Taken

LEMMA CoreReconcile ==
  ASSUME CoreInv, Reconcile
  PROVE  CoreInv'
<1>1. PICK x \in Submitted : Taken(x)
  BY ReconcileTakes
<1>2. /\ forest' = NoForest /\ bets' = {} /\ selection' = NoSelection /\ cfg' = cfg
      /\ phase' \in {"draft", "done"}
      /\ goal' = IF prefill THEN MaxNew + Len(Prompt) + Len(FreshTokens(Path, Bonus)) ELSE goal
  BY DEF Reconcile, Reconciled, Advance
<1> DEFINE k == Cardinality(tree[x].row)
<1>3. /\ RowTree(tree', k + 1, end') /\ NoScratch(tree') /\ prefixLen' = k + 1
      /\ \A n \in 0 .. k - 1 : tree'[n].tok = Context(tree, x)[n + 1]
      /\ tree'[k].tok = Bonus
      /\ output' \in Seq(Tokens) /\ Len(output') = k + 1
      /\ \A n \in 0 .. k - 1 : output'[n + 1] = Context(tree, x)[n + 1]
      /\ output'[k + 1] = Bonus
      /\ FreshTokens(Path, Bonus) \in Seq(Tokens)
  BY <1>1 DEF Taken, TakesPath, Extends
<1>4. /\ prefixLen \in Nat /\ TextTree(tree, prefixLen, end, Top)
      /\ x \in prefixLen - 1 .. end - 1 /\ cfg \in Configs
  BY CoreTreeFacts DEF CoreInv, TreeInv, Submitted
<1>5. k \in Nat /\ MaxLen \in Nat
  BY <1>4, PathFacts, SizesAssumption
<1> HIDE DEF k
<1>6. TextTree(tree', prefixLen', end', end')
  <2>1. k + 1 > 0
    BY <1>5
  <2> QED
    BY <1>3, <2>1, RowTreeIsTextTree
<1>7. TreeInv'
  <2>1. forest' \in [end : 0 .. MaxLen, roots : SUBSET Slots] /\ forest'.roots = {} /\ Top' = end'
    BY <1>2, <1>5 DEF NoForest, Top
  <2> QED
    BY <1>2, <1>3, <1>4, <1>6, <2>1 DEF TreeInv, Phases
<1>8. SelectionInv'
  BY <1>2 DEF SelectionInv
<1>9. TextInv'
  <2>1. goal' \in Nat
    <3>1. Len(FreshTokens(Path, Bonus)) \in Nat
      BY <1>3
    <3>2. MaxNew \in Nat /\ Len(Prompt) \in Nat
      BY MaxNewAssumption, PromptAssumption
    <3>3. goal \in Nat
      BY DEF CoreInv, TextInv
    <3> QED
      BY <1>2, <3>1, <3>2, <3>3
  <2>2. \A n \in 0 .. (k + 1) - 1 : tree'[n].tok = output'[n + 1]
    <3>1. \A n \in 0 .. (k + 1) - 1 : n \in 0 .. k - 1 \/ n = k
      BY <1>5
    <3> QED
      BY <1>3, <3>1
  <2> QED
    BY <1>3, <2>1, <2>2 DEF TextInv
<1> QED
  BY <1>7, <1>8, <1>9 DEF CoreInv

LEMMA CoreStep ==
  ASSUME CoreInv, ReferenceInv, [Next]_vars
  PROVE  CoreInv' /\ ReferenceInv'
<1>1. ReferenceInv'
  <2>1. UNCHANGED <<cfg, reference>>
    BY DEF Next, Step, StartGrowing, GrowRound, Submit, Verify, VerifyFails, Replay, Predict,
           ForestRound, PlaceBets, Reconcile, ReorderRaises, Terminated, vars
  <2>2. phase = "failed" => phase' = "failed"
    BY DEF Next, Step, StartGrowing, GrowRound, Submit, Verify, VerifyFails, Replay, Predict,
           ForestRound, PlaceBets, Reconcile, ReorderRaises, Terminated, vars
  <2> QED
    BY <2>1, <2>2 DEF ReferenceInv, check_prompt
<1>2. CASE UNCHANGED vars
  <2>1. UNCHANGED <<cfg, phase, tree, prefixLen, end, forest, bets, selection, output, goal>>
    BY <1>2 DEF vars, treeVars, betVars
  <2>2. \A root : Bet(root)' = Bet(root)
    BY <2>1 DEF Bet, Branch, Planted
  <2>3. Planted' = Planted /\ Top' = Top /\ Submitted' = Submitted
    BY <2>1 DEF Planted, Top, Submitted
  <2>4. TreeInv'
    BY <2>1, <2>2, <2>3 DEF CoreInv, TreeInv
  <2>5. SelectionInv' /\ TextInv'
    BY <2>1, <2>3 DEF CoreInv, SelectionInv, TextInv
  <2> QED
    BY <1>1, <2>4, <2>5 DEF CoreInv
<1>3. CASE Step
  BY <1>1, <1>3, CoreStartGrowing, CoreGrowRound, CoreSubmit, CoreServerStep, CorePredict,
     CoreForestRound, CorePlaceBets, CoreReconcile DEF Step
<1> QED
  BY <1>2, <1>3 DEF Next, Terminated

\* Tree, bets, submitted request and text fit together in all states, whatever
\* is added, trimmed, planted, spliced or re-opened; the trace is of the prompt.
THEOREM TextInTree == Spec => [](CoreInv /\ ReferenceInv)
<1>1. Init => CoreInv /\ ReferenceInv
  <2>1. Init => ReferenceInv
    BY DEF Init, ReferenceInv, check_prompt
  <2> QED
    BY <2>1, CoreInit
<1>2. CoreInv /\ ReferenceInv /\ [Next]_vars => (CoreInv /\ ReferenceInv)'
  BY CoreStep
<1> QED
  BY <1>1, <1>2, PTL DEF Spec

\* The confirmed part of the tree is the text.
THEOREM TreeTextCorrect == Spec => []TreeHoldsText
<1>1. CoreInv => TreeHoldsText
  <2> SUFFICES ASSUME CoreInv PROVE TreeHoldsText
    OBVIOUS
  <2>1. \A n \in 0 .. prefixLen - 1 : tree[n].pos = n
    BY CoreTreeFacts, TextPlaces DEF CoreInv
  <2> QED
    BY <2>1 DEF CoreInv, TextInv, TreeHoldsText
<1> QED
  BY <1>1, TextInTree, PTL

\* The mask of every drafted and planted node is its ancestry.
THEOREM MasksCorrect == Spec => []MasksAreAncestry
<1>1. CoreInv => MasksAreAncestry
  <2> SUFFICES ASSUME CoreInv PROVE MasksAreAncestry
    OBVIOUS
  <2>1. /\ prefixLen \in Nat /\ end \in Nat /\ Top \in Nat /\ MaxLen \in Nat
        /\ 1 <= prefixLen /\ prefixLen <= end /\ end <= Top /\ Top <= MaxLen
        /\ TextTree(tree, prefixLen, end, Top) /\ IsTree(tree, Top)
        /\ forest \in [end : 0 .. MaxLen, roots : SUBSET Slots]
    BY CoreTreeFacts DEF CoreInv, TreeInv, TextTree
  <2>2. ASSUME NEW n \in 0 .. Top - 1, tree[n].par \in 0 .. n - 1,
               tree[n].row = tree[tree[n].par].row \cup {n}
        PROVE  WellFormed(n)
    <3>1. Top \in 0 .. MaxLen
      BY <2>1
    <3>2. tree[n].pos = tree[tree[n].par].pos + 1
      BY <2>1, <2>2, <3>1, ParentOnPath
    <3> QED
      BY <2>2, <3>2 DEF WellFormed
  <2>3. \A n \in Drafted : tree[n].par >= prefixLen - 1 /\ WellFormed(n)
    <3> TAKE n \in Drafted
    <3>1. DraftNode(tree, prefixLen, n) /\ n \in 0 .. Top - 1 /\ n \in Nat
      BY <2>1 DEF TextTree, Drafted
    <3>2. /\ tree[n].par \in prefixLen - 1 .. n - 1
          /\ tree[n].row = tree[tree[n].par].row \cup {n}
      BY <3>1 DEF DraftNode
    <3>3. tree[n].par \in 0 .. n - 1 /\ tree[n].par >= prefixLen - 1
      BY <2>1, <3>1, <3>2
    <3> QED
      BY <2>2, <3>1, <3>2, <3>3
  <2>4. \A n \in Planted : WellFormed(n)
    <3> TAKE n \in Planted
    <3>1. n \in end .. Top - 1
      BY <2>1 DEF Planted, Top
    <3>2. n \in 0 .. Top - 1
      BY <2>1, <3>1
    <3>3. tree[n].par \in 0 .. n - 1 /\ tree[n].row = tree[tree[n].par].row \cup {n}
      BY <2>1, <3>1 DEF TextTree
    <3> QED
      BY <2>2, <3>2, <3>3
  <2>5. tree[prefixLen - 1].row = 0 .. prefixLen - 1
    BY <2>1 DEF TextTree
  <2> QED
    BY <2>3, <2>4, <2>5 DEF MasksAreAncestry
<1> QED
  BY <1>1, TextInTree, PTL

(***************************************************************************)
(* The caches hold texts.                                                  *)
(***************************************************************************)

KVs == [Slots -> Seq(Tokens)]

LEMMA NoCacheIsKV == NoKV \in Seq(Tokens) /\ NoCache \in KVs
<1>1. NoKV \in Seq(Tokens)
  BY DEF NoKV
<1> QED
  BY <1>1 DEF NoCache, KVs

LEMMA ForwardIsKV ==
  ASSUME NEW tr, NEW top \in 0 .. MaxLen, IsTree(tr, top), NEW batch \in SUBSET (0 .. top - 1),
         NEW kv \in KVs, NEW state
  PROVE  ForwardKV(tr, kv, batch) \in KVs /\ HybridForwardKV(tr, kv, state, batch) \in KVs
<1>1. \A n \in batch : Computed(tr, kv, batch, n) \in Seq(Tokens)
  <2> TAKE n \in batch
  <2>1. Along(tr, tr[n].row) \in Seq(Tokens)
    BY ContextIsText DEF Context
  <2>2. Computed(tr, kv, batch, n) \in {Along(tr, tr[n].row), NoKV}
    BY DEF Computed
  <2> QED
    BY <2>1, <2>2, NoCacheIsKV
<1>2. \A n \in Slots : kv[n] \in Seq(Tokens)
  BY DEF KVs
<1>3. ForwardKV(tr, kv, batch) \in KVs
  BY <1>1, <1>2 DEF ForwardKV, KVs
<1> DEFINE attended == ForwardKV(tr, kv, batch)
<1>4. \A n \in Slots : attended[n] \in Seq(Tokens)
  BY <1>3 DEF KVs
<1> HIDE DEF attended
<1>5. HybridForwardKV(tr, kv, state, batch) =
        [n \in Slots |->
           IF n \in batch /\ Recurrent(tr, kv, state, batch, n) # Along(tr, tr[n].row)
           THEN NoKV ELSE attended[n]]
  BY DEF HybridForwardKV, attended
<1>6. HybridForwardKV(tr, kv, state, batch) \in KVs
  BY <1>4, <1>5, NoCacheIsKV DEF KVs
<1> QED
  BY <1>3, <1>6

LEMMA GatherIsKV ==
  ASSUME NEW kv \in KVs, NEW src \in SUBSET Slots
  PROVE  /\ IsFiniteSet(src) /\ Cardinality(src) \in Nat /\ Cardinality(src) <= MaxLen
         /\ src \in SUBSET Int /\ MaxLen \in Nat
         /\ GatherKV(kv, src) \in KVs
<1>1. MaxLen \in Nat /\ 0 \in Int /\ MaxLen - 1 \in Int
  BY SizesAssumption
<1>2. IsFiniteSet(Slots) /\ Cardinality(Slots) = MaxLen
  BY <1>1, NthOfInterval, SizesAssumption DEF Slots
<1>3. IsFiniteSet(src) /\ Cardinality(src) \in Nat /\ Cardinality(src) <= MaxLen
  BY <1>2, FS_Subset, FS_CardinalityType
<1>4. src \in SUBSET Int
  BY DEF Slots
<1>5. \A n \in Slots : n < Cardinality(src) => kv[Nth(src, n)] \in Seq(Tokens)
  <2> TAKE n \in Slots
  <2> HAVE n < Cardinality(src)
  <2>1. n \in 0 .. Cardinality(src) - 1
    BY <1>3 DEF Slots
  <2>2. Nth(src, n) \in src
    BY <1>3, <1>4, <2>1, NthIsMember
  <2> QED
    BY <2>2 DEF KVs
<1>6. GatherKV(kv, src) \in KVs
  BY <1>5, NoCacheIsKV DEF GatherKV, KVs
<1> QED
  BY <1>1, <1>3, <1>4, <1>6

LEMMA MoveIsKV ==
  ASSUME NEW kv \in KVs, NEW kept \in SUBSET Slots, NEW dest, NEW newEnd
  PROVE  MoveKV(kv, kept, dest, newEnd) \in KVs
<1>1. \A n \in Slots : kv[n] \in Seq(Tokens)
  BY DEF KVs
<1>2. \A n \in Slots : (\E s \in kept : dest[s] = n) =>
        kv[CHOOSE s \in kept : dest[s] = n] \in Seq(Tokens)
  BY <1>1
<1> QED
  BY <1>1, <1>2, NoCacheIsKV DEF MoveKV, KVs

LEMMA FoldedIsText ==
  ASSUME NEW kv \in KVs, NEW S
  PROVE  FoldedTokens(kv, S \cap Slots) \in Seq(Tokens)
<1> DEFINE filled == {j \in S \cap Slots : kv[j] # NoKV}
           c      == Cardinality(filled)
<1>1. filled \in SUBSET Slots
  OBVIOUS
<1>2. FoldedTokens(kv, S \cap Slots) =
        [k \in 1 .. c |-> kv[Nth(filled, k - 1)][Len(kv[Nth(filled, k - 1)])]]
  BY DEF FoldedTokens
<1>3. \A j \in filled : kv[j][Len(kv[j])] \in Tokens
  <2> TAKE j \in filled
  <2>1. kv[j] \in Seq(Tokens) /\ kv[j] # << >>
    BY DEF KVs, NoKV
  <2>2. Len(kv[j]) \in 1 .. Len(kv[j])
    BY <2>1, EmptySeq, LenProperties
  <2> QED
    BY <2>1, <2>2
<1> HIDE DEF filled
<1>4. IsFiniteSet(filled) /\ c \in Nat /\ filled \in SUBSET Int
  BY <1>1, GatherIsKV
<1> HIDE DEF c
<1>5. \A k \in 1 .. c : Nth(filled, k - 1) \in filled
  <2> TAKE k \in 1 .. c
  <2>1. k - 1 \in 0 .. Cardinality(filled) - 1
    BY <1>4 DEF c
  <2> QED
    BY <1>4, <2>1, NthIsMember
<1>6. \A k \in 1 .. c : kv[Nth(filled, k - 1)][Len(kv[Nth(filled, k - 1)])] \in Tokens
  BY <1>3, <1>5
<1> QED
  BY <1>2, <1>4, <1>6

LEMMA GatherIsState ==
  ASSUME NEW kv \in KVs, NEW state \in States, NEW src \in SUBSET Slots
  PROVE  /\ HybridGather(kv, state, src) \in States
         /\ HybridGather(kv, state, src).commit_len = Cardinality(src)
<1> DEFINE newLen   == Cardinality(src)
           gathered == GatherKV(kv, src)
           S        == state.commit_len .. newLen - 1
<1>1. newLen \in 0 .. MaxLen /\ gathered \in KVs
  BY GatherIsKV
<1>2. state.commit_len \in 0 .. MaxLen /\ state.text \in Seq(Tokens)
  BY DEF States
<1>3. S \cap Slots = S
  BY <1>1, <1>2, SizesAssumption DEF Slots
<1> HIDE DEF newLen, gathered, S
<1>4. FoldedTokens(gathered, S) \in Seq(Tokens)
  BY <1>1, <1>3, FoldedIsText
<1>5. state.text \o FoldedTokens(gathered, S) \in Seq(Tokens)
  BY <1>2, <1>4, ConcatProperties
<1>6. HybridGather(kv, state, src) =
        IF newLen = state.commit_len THEN state
        ELSE [commit_len |-> newLen, text |-> state.text \o FoldedTokens(gathered, S)]
  BY DEF HybridGather, Commit, newLen, gathered, S
<1> QED
  BY <1>1, <1>5, <1>6 DEF States, newLen

LEMMA SnapshotIsKV ==
  ASSUME NEW kv \in KVs, NEW state
  PROVE  Snapshot(kv, state) \in KVs
BY NoCacheIsKV DEF Snapshot, KVs

LEMMA PrefilledIsState ==
  ASSUME NEW text \in Seq(Tokens), NEW n \in 0 .. Len(text), n <= MaxLen
  PROVE  PrefilledState(text, n) \in States
<1>1. SubSeq(text, 1, n) \in Seq(Tokens)
  BY SubSeqProperties
<1> QED
  BY <1>1, SizesAssumption DEF PrefilledState, States

LEMMA PrefilledTypes ==
  ASSUME cfg \in Configs
  PROVE  /\ PrefilledKV \in KVs
         /\ PrefilledState(Prompt, Len(Prompt) - 1) \in States
<1>1. Prompt \in Seq(Tokens) /\ Len(Prompt) \in 2 .. MaxLen /\ MaxLen \in Nat
  BY ConfigFacts
<1>2. \A n \in Slots : n < Len(Prompt) - 1 => SubSeq(Prompt, 1, n + 1) \in Seq(Tokens)
  BY <1>1, SubSeqProperties DEF Slots
<1>3. PrefilledKV \in KVs
  BY <1>2, NoCacheIsKV DEF PrefilledKV, KVs
<1> DEFINE n == Len(Prompt) - 1
<1>4. n \in 0 .. Len(Prompt) /\ n <= MaxLen
  BY <1>1
<1> HIDE DEF n
<1>5. PrefilledState(Prompt, n) \in States
  BY <1>1, <1>4, PrefilledIsState
<1> QED
  BY <1>3, <1>5 DEF n

\* The server finds a longest accepted path too.
LEMMA LastAcceptedIsLongest ==
  ASSUME TreeInv, NEW sel
  PROVE  LastAccepted(sel) \in Submitted /\ LongestPath(LastAccepted(sel), sel)
<1> DEFINE Chosen(j)   == sel[tree[j].par] = tree[j].tok
           Depth(j)    == tree[j].pos - (prefixLen - 1)
           Accepted(j) == Cardinality({k \in tree[j].row \cap Drafted : Chosen(k)}) = Depth(j)
           accepted    == {j \in Drafted : Accepted(j)}
           last        == LastAccepted(sel)
<1>1. last = IF accepted = {} THEN prefixLen - 1
             ELSE CHOOSE j \in accepted : \A k \in accepted : Depth(k) <= Depth(j)
  BY DEF LastAccepted
<1> HIDE DEF last
<1>2. /\ prefixLen \in Nat /\ end \in Nat /\ 1 <= prefixLen /\ prefixLen <= end
      /\ TextTree(tree, prefixLen, end, Top)
  BY TextTreeBounds DEF TreeInv
<1>3. \A j \in Submitted : j \in prefixLen - 1 .. end - 1 /\ (j = prefixLen - 1 \/ j \in Drafted)
  BY <1>2 DEF Submitted, Drafted
<1>4. \A j \in Drafted : j \in Submitted /\ j \in prefixLen - 1 .. end - 1
  BY <1>2 DEF Submitted, Drafted
<1>5. ASSUME NEW j \in Drafted
      PROVE  /\ Accepted(j) <=> WholePath(j, sel)
             /\ Depth(j) \in Nat /\ tree[j].pos \in Nat /\ Depth(j) <= end
             /\ prefixLen - 1 < tree[j].pos
  <2> DEFINE F == PathFrom(tree, j, prefixLen)
             C == {k \in F : Chosen(k)}
  <2>1. /\ tree[j].row \subseteq 0 .. j /\ j \in tree[j].row /\ j \in Nat
        /\ Cardinality(tree[j].row) = tree[j].pos + 1 /\ tree[j].pos \in Nat
        /\ Cardinality(tree[j].row) <= end
    BY <1>2, <1>4, PathFacts
  <2>2. /\ IsFiniteSet(F) /\ Cardinality(F) \in Nat
        /\ Cardinality(tree[j].row) = prefixLen + Cardinality(F)
    BY <1>2, <1>4, FreshPart
  <2>3. F = tree[j].row \cap Drafted
    <3>1. \A k \in tree[j].row : k \in Int /\ k <= end - 1
      BY <1>2, <1>4, <2>1
    <3>2. \A k \in tree[j].row : k >= prefixLen <=> k \in Drafted
      BY <1>2, <3>1 DEF Drafted
    <3> QED
      BY <3>2 DEF PathFrom
  <2>4. C = {k \in tree[j].row \cap Drafted : Chosen(k)}
    BY <2>3
  <2>5. WholePath(j, sel) <=> \A k \in F : Chosen(k)
    BY <1>4 DEF WholePath, PathFrom
  <2>6. j \in F
    BY <1>2, <2>1 DEF PathFrom, Drafted
  <2>7. Cardinality(F) # 0
    BY <2>2, <2>6, FS_EmptySet
  <2>8. C \subseteq F /\ (C = F <=> \A k \in F : Chosen(k))
    OBVIOUS
  <2> HIDE DEF F, C
  <2>9. Cardinality(C) = Cardinality(F) <=> C = F
    BY <2>2, <2>8, FS_Subset
  <2>10. Depth(j) = Cardinality(F)
    BY <1>2, <2>1, <2>2
  <2>11. Accepted(j) <=> Cardinality(C) = Cardinality(F)
    BY <2>4, <2>10
  <2>12. Depth(j) \in Nat /\ Depth(j) <= end /\ prefixLen - 1 < tree[j].pos
    BY <1>2, <2>1, <2>2, <2>7, <2>10
  <2> QED
    BY <2>1, <2>5, <2>8, <2>9, <2>11, <2>12
<1>6. prefixLen - 1 \in Submitted /\ WholePath(prefixLen - 1, sel) /\ tree[prefixLen - 1].pos = prefixLen - 1
  <2>1. prefixLen - 1 \in Submitted /\ prefixLen - 1 \in 0 .. prefixLen - 1
    BY <1>2 DEF Submitted
  <2>2. tree[prefixLen - 1].row = 0 .. prefixLen - 1 /\ tree[prefixLen - 1].pos = prefixLen - 1
    BY <1>2, <2>1, TextPlaces
  <2>3. \A j \in 0 .. prefixLen - 1 : ~(j >= prefixLen)
    BY <1>2
  <2> QED
    BY <2>1, <2>2, <2>3 DEF WholePath
<1>7. \A j : j \in accepted <=> j \in Drafted /\ WholePath(j, sel)
  BY <1>5
<1> HIDE DEF accepted, Accepted
<1>8. CASE accepted = {}
  <2>1. last = prefixLen - 1
    BY <1>1, <1>8
  <2>2. \A y \in Submitted : WholePath(y, sel) => y = prefixLen - 1
    BY <1>3, <1>7, <1>8
  <2>3. \A y \in Submitted : WholePath(y, sel) => tree[y].pos <= tree[prefixLen - 1].pos
    BY <1>2, <1>6, <2>2
  <2> QED
    BY <1>6, <2>1, <2>3 DEF LongestPath, last
<1>9. CASE accepted # {}
  <2> DEFINE depths == {Depth(j) : j \in accepted}
  <2>1. depths \subseteq 0 .. end
    BY <1>2, <1>5, <1>7
  <2>2. IsFiniteSet(0 .. end) /\ \A n \in 0 .. end : n \in Int
    BY <1>2, FS_Interval
  <2>3. depths # {} /\ \A j \in accepted : Depth(j) \in depths
    BY <1>9
  <2>4. \A d \in depths : \E j \in accepted : d = Depth(j)
    OBVIOUS
  <2> HIDE DEF depths
  <2>5. IsFiniteSet(depths) /\ depths \in SUBSET Int
    BY <2>1, <2>2, FS_Subset
  <2>6. PICK m \in depths : \A y \in depths : y <= m
    BY <2>3, <2>5, GreatestExists
  <2>7. \E j \in accepted : \A k \in accepted : Depth(k) <= Depth(j)
    BY <2>3, <2>4, <2>6
  <2>8. last \in accepted /\ \A k \in accepted : Depth(k) <= Depth(last)
    <3> HIDE DEF Depth
    <3> QED
      BY <1>1, <1>9, <2>7
  <2>9. last \in Drafted /\ last \in Submitted /\ WholePath(last, sel)
    BY <1>4, <1>7, <2>8
  <2>10. ASSUME NEW y \in Submitted, WholePath(y, sel)
         PROVE  tree[y].pos <= tree[last].pos
    <3>1. CASE y = prefixLen - 1
      BY <1>2, <1>5, <1>6, <2>9, <3>1
    <3>2. CASE y \in Drafted
      <4>1. Depth(y) <= Depth(last)
        BY <1>7, <2>8, <2>10, <3>2
      <4>2. tree[y].pos \in Nat /\ tree[last].pos \in Nat
        BY <1>5, <2>9, <3>2
      <4> QED
        BY <1>2, <4>1, <4>2
    <3> QED
      BY <1>3, <3>1, <3>2
  <2> QED
    BY <2>9, <2>10 DEF LongestPath, last
<1> QED
  BY <1>8, <1>9

CacheInv ==
  /\ draftKV \in KVs /\ targetKV \in KVs
  /\ draftState \in States /\ targetState \in States
  /\ round \in Nat /\ ceiling \in Nat /\ spliced \in BOOLEAN

LEMMA CacheInit ==
  ASSUME Init
  PROVE  CacheInv
<1>1. NoState \in States
  BY SizesAssumption DEF NoState, States
<1> QED
  BY <1>1, NoCacheIsKV DEF Init, CacheInv

LEMMA DraftForwardIsKV ==
  ASSUME TreeInv, NEW kv \in KVs, NEW state, NEW batch \in SUBSET (0 .. Top - 1)
  PROVE  DraftForward(kv, state, batch) \in KVs
<1>1. IsTree(tree, Top) /\ Top \in 0 .. MaxLen
  BY TextTreeBounds DEF TreeInv
<1> QED
  BY <1>1, ForwardIsKV DEF DraftForward

LEMMA CacheGrowRound ==
  ASSUME CoreInv, CacheInv, GrowRound
  PROVE  CacheInv'
<1>1. /\ RowTree(tree, prefixLen, end) /\ TreeInv /\ cfg \in Configs /\ forest = NoForest
      /\ Top = end
  BY DEF CoreInv, TreeInv, GrowRound, Top, NoForest
<1>2. prefixLen \in Nat /\ end \in Nat /\ 1 <= prefixLen
  BY <1>1, CoreTreeFacts
<1>3. PICK beams \in Topk(Frontier, cfg.beams) :
        /\ draftKV' = DraftForward(IF prefill /\ round = 0 THEN PrefilledKV ELSE draftKV,
                                   IF prefill /\ round = 0 THEN DraftPrefilled ELSE draftState, beams)
        /\ draftState' = IF prefill /\ round = 0 THEN DraftPrefilled ELSE draftState
  BY DEF GrowRound
<1>4. round' = ceiling \/ round' = round + 1 \/ round' = round
  BY DEF GrowRound
<1>5. UNCHANGED <<targetKV, targetState, ceiling, spliced>>
  BY DEF GrowRound
<1>6. beams \in SUBSET (0 .. Top - 1)
  <2>1. beams \in SUBSET WithStatus(tree, CANDIDATE)
    BY ChosenOnes DEF Frontier
  <2>2. beams \subseteq prefixLen - 1 .. end - 1
    BY <1>1, <2>1, MarkedRowTree
  <2>3. \A n \in prefixLen - 1 .. end - 1 : n \in 0 .. end - 1
    BY <1>2
  <2> QED
    BY <1>1, <2>2, <2>3
<1>7. PrefilledKV \in KVs /\ DraftPrefilled \in States
  BY <1>1, PrefilledTypes DEF DraftPrefilled, CacheInv
<1>8. draftKV' \in KVs
  BY <1>1, <1>3, <1>6, <1>7, DraftForwardIsKV DEF CacheInv
<1> QED
  BY <1>3, <1>4, <1>5, <1>7, <1>8 DEF CacheInv

LEMMA CacheSubmit ==
  ASSUME CoreInv, CacheInv, Submit
  PROVE  CacheInv'
<1>1. UNCHANGED <<targetKV, draftState, targetState, round, ceiling, spliced>>
  BY DEF Submit, growVars
<1>2. draftKV' = draftKV \/ \E kept, dest, newEnd : kept \in SUBSET Drafted
                                                   /\ draftKV' = MoveKV(draftKV, kept, dest, newEnd)
  BY DEF Submit, kSubset
<1>3. Drafted \subseteq Slots
  <2>1. \A n \in Drafted : n \in 0 .. Top - 1
    BY CoreTreeFacts DEF CoreInv, Drafted
  <2> QED
    BY <2>1, CoreTreeFacts DEF CoreInv
<1>4. draftKV' \in KVs
  BY <1>2, <1>3, MoveIsKV DEF CacheInv
<1> QED
  BY <1>1, <1>4 DEF CacheInv

LEMMA CachePredict ==
  ASSUME CoreInv, CacheInv, Predict
  PROVE  CacheInv'
<1>1. UNCHANGED <<targetKV, draftState, targetState, ceiling, spliced>> /\ round' = 0
  BY DEF Predict
<1>2. PICK exits \in IF cfg.strategy = "proactive" THEN ProactiveExits ELSE SaguaroExits :
        draftKV' = DraftForward(draftKV, draftState, exits)
  BY DEF Predict
<1>3. exits \in SUBSET (0 .. end - 1)
  BY ExitsInTree DEF CoreInv
<1>4. exits \in SUBSET (0 .. Top - 1)
  <2>1. \A n \in 0 .. end - 1 : n \in 0 .. Top - 1
    BY CoreTreeFacts DEF CoreInv
  <2> QED
    BY <1>3, <2>1
<1>5. draftKV' \in KVs
  BY <1>2, <1>4, DraftForwardIsKV DEF CoreInv, CacheInv
<1> QED
  BY <1>1, <1>5 DEF CacheInv

LEMMA CacheForestRound ==
  ASSUME CoreInv, CacheInv, ForestRound
  PROVE  CacheInv'
<1>1. /\ TreeInv /\ phase = "forest" /\ cfg \in Configs
      /\ forest.end # 0 /\ \A n \in Slots : tree[n].st = POST_CANDIDATE => n \in Planted
  BY DEF CoreInv, TreeInv, ForestRound
<1>2. UNCHANGED <<targetKV, draftState, targetState, ceiling, spliced>>
  BY DEF ForestRound
<1>3. PICK beams \in Topk(WithStatus(tree, POST_CANDIDATE), cfg.pBeams) :
        draftKV' = DraftForward(draftKV, draftState, beams)
  BY DEF ForestRound
<1>4. beams \in SUBSET (0 .. Top - 1)
  <2>1. beams \in SUBSET Planted
    BY <1>1, ChosenOnes DEF WithStatus
  <2>2. Planted \subseteq 0 .. Top - 1
    BY <1>1, CoreTreeFacts DEF Planted, Top
  <2> QED
    BY <2>1, <2>2
<1>5. draftKV' \in KVs
  BY <1>1, <1>3, <1>4, DraftForwardIsKV DEF CacheInv
<1>6. round' = ForestLen \/ round' = round + 1 \/ round' = round
  BY DEF ForestRound
<1>7. ForestLen \in Nat
  BY <1>1, ConfigFacts DEF ForestLen
<1> QED
  BY <1>2, <1>5, <1>6, <1>7 DEF CacheInv

LEMMA CacheVerify ==
  ASSUME CoreInv, CacheInv, Verify
  PROVE  CacheInv'
<1>1. UNCHANGED <<draftKV, draftState, round, ceiling, spliced>>
  BY DEF Verify, growVars
<1> DEFINE stored == IF prefill THEN PrefilledKV ELSE targetKV
           state  == IF prefill THEN PrefilledState(Prompt, Len(Prompt) - 1) ELSE targetState
           run    == IF cfg.hybrid THEN HybridForwardKV(tree, stored, state, Submitted)
                     ELSE ForwardKV(tree, stored, Submitted)
<1>2. PICK sel \in Answers(run) :
        /\ targetKV' = IF cfg.hybrid
                       THEN Snapshot(GatherKV(run, VerifiedRow(sel)), HybridGather(run, state, VerifiedRow(sel)))
                       ELSE GatherKV(run, VerifiedRow(sel))
        /\ targetState' = IF cfg.hybrid THEN HybridGather(run, state, VerifiedRow(sel)) ELSE targetState
  BY DEF Verify
<1>3. TreeInv /\ cfg \in Configs
  BY DEF CoreInv, TreeInv
<1>4. stored \in KVs /\ state \in States
  BY <1>3, PrefilledTypes DEF CacheInv
<1>5. /\ Submitted \in SUBSET (0 .. Top - 1) /\ IsTree(tree, Top) /\ Top \in 0 .. MaxLen
      /\ tree \in [Slots -> Nodes]
  BY <1>3, CoreTreeFacts, TextTreeBounds DEF Submitted, TreeInv
<1> HIDE DEF stored, state
<1>6. run \in KVs
  BY <1>4, <1>5, ForwardIsKV
<1> HIDE DEF run
<1>7. VerifiedRow(sel) \in SUBSET Slots
  <2>1. LastAccepted(sel) \in Submitted
    BY <1>3, LastAcceptedIsLongest
  <2>2. LastAccepted(sel) \in Slots
    BY <1>3, <1>5, <2>1, CoreTreeFacts
  <2> QED
    BY <1>5, <2>2 DEF VerifiedRow, Nodes
<1>8. /\ GatherKV(run, VerifiedRow(sel)) \in KVs
      /\ HybridGather(run, state, VerifiedRow(sel)) \in States
  BY <1>4, <1>6, <1>7, GatherIsKV, GatherIsState
<1> QED
  BY <1>1, <1>2, <1>8, SnapshotIsKV DEF CacheInv

\* The draft cache of a cycle's end is compacted to the verified path, or to
\* that and the branch that is spliced in.
LEMMA DraftCompaction ==
  ASSUME CoreInv, Reconcile
  PROVE  /\ \E src \in SUBSET Slots :
              /\ draftKV' = GatherKV(draftKV, src)
              /\ draftState' = IF cfg.hybrid THEN HybridGather(draftKV, draftState, src)
                               ELSE draftState
              /\ spliced' = TRUE \/ (spliced' = FALSE /\ Cardinality(src) = prefixLen' - 1)
         /\ UNCHANGED <<cfg, targetKV, targetState, round, ceiling>>
         /\ goal' # 0
<1>1. PICK x \in Submitted : Taken(x)
  BY ReconcileTakes
<1>2. Path = tree[x].row /\ prefixLen' = Cardinality(Path) + 1
  BY <1>1 DEF Taken
<1>3. TreeInv /\ Reconciled /\ UNCHANGED <<cfg, targetKV, targetState, round, ceiling>>
  BY DEF CoreInv, Reconcile, growVars
<1>4. Path \in SUBSET Slots /\ Cardinality(Path) \in Nat
  <2>1. /\ TextTree(tree, prefixLen, end, Top) /\ x \in prefixLen - 1 .. end - 1
    BY <1>3, CoreTreeFacts DEF Submitted
  <2> QED
    BY <1>2, <2>1, PathFacts
<1>5. \E src \in SUBSET Slots :
        /\ draftKV' = GatherKV(draftKV, src)
        /\ draftState' = DraftCommit(src)
        /\ spliced' = TRUE \/ (spliced' = FALSE /\ Cardinality(src) = prefixLen' - 1)
  <2>1. CASE PlainReorder(Path, Bonus)
    <3>1. draftKV' = GatherKV(draftKV, Path) /\ draftState' = DraftCommit(Path) /\ spliced' = FALSE
      BY <2>1 DEF PlainReorder
    <3>2. Cardinality(Path) = prefixLen' - 1
      BY <1>2, <1>4
    <3> QED
      BY <1>4, <3>1, <3>2
  <2>2. CASE \E bet \in Hits : SpliceBet(Path, bet)
    <3>1. PICK bet \in Hits : SpliceBet(Path, bet)
      BY <2>2
    <3>2. PICK root \in forest.roots : bet = Bet(root)
      BY <1>3 DEF Hits, TreeInv
    <3>3. bet.branch \subseteq Planted
      BY <3>2 DEF Bet, Branch
    <3>4. Planted \subseteq Slots
      <4>1. forest.end \in 0 .. MaxLen /\ end \in Nat /\ MaxLen \in Nat
        BY <1>3, CoreTreeFacts DEF TreeInv
      <4> QED
        BY <4>1 DEF Planted, Slots
    <3>5. Path \cup bet.branch \in SUBSET Slots
      BY <1>4, <3>3, <3>4
    <3>6. /\ draftKV' = GatherKV(draftKV, Path \cup bet.branch)
          /\ draftState' = DraftCommit(Path \cup bet.branch) /\ spliced' = TRUE
      BY <3>1 DEF SpliceBet
    <3> QED
      BY <3>5, <3>6
  <2> QED
    BY <1>3, <2>1, <2>2 DEF Reconciled
<1>6. goal' # 0
  <2>1. goal' = IF prefill THEN MaxNew + Len(Prompt) + Len(FreshTokens(Path, Bonus)) ELSE goal
    BY <1>3 DEF Reconciled, Advance
  <2>2. FreshTokens(Path, Bonus) \in Seq(Tokens)
    BY <1>1 DEF Taken
  <2>3. /\ Len(FreshTokens(Path, Bonus)) \in Nat /\ MaxNew \in Nat
        /\ Len(Prompt) \in Nat /\ Len(Prompt) > 1
    BY <2>2, MaxNewAssumption, PromptAssumption
  <2>4. MaxNew + Len(Prompt) + Len(FreshTokens(Path, Bonus)) # 0
    BY <2>3
  <2> QED
    BY <2>1, <2>4 DEF prefill
<1> QED
  BY <1>3, <1>5, <1>6 DEF DraftCommit

LEMMA CacheReconcile ==
  ASSUME CoreInv, CacheInv, Reconcile
  PROVE  CacheInv'
<1>1. PICK src \in SUBSET Slots :
        /\ draftKV' = GatherKV(draftKV, src)
        /\ draftState' = IF cfg.hybrid THEN HybridGather(draftKV, draftState, src) ELSE draftState
        /\ spliced' \in BOOLEAN
  BY DraftCompaction
<1>2. UNCHANGED <<targetKV, targetState, round, ceiling>>
  BY DraftCompaction
<1>3. draftKV' \in KVs /\ draftState' \in States
  BY <1>1, GatherIsKV, GatherIsState DEF CacheInv
<1> QED
  BY <1>1, <1>2, <1>3 DEF CacheInv

LEMMA CacheStep ==
  ASSUME CoreInv, CacheInv, [Next]_vars
  PROVE  CacheInv'
<1>1. CASE UNCHANGED vars
  BY <1>1 DEF vars, growVars, CacheInv
<1>2. CASE StartGrowing
  <2>1. /\ UNCHANGED <<draftKV, targetKV, draftState, targetState, spliced>> /\ round' = 0
        /\ ceiling' = 0 \/ ceiling' = cfg.beamLen
    BY <1>2 DEF StartGrowing
  <2>2. cfg.beamLen \in Nat
    BY ConfigFacts DEF CoreInv, TreeInv
  <2> QED
    BY <2>1, <2>2 DEF CacheInv
<1>3. CASE VerifyFails \/ Replay \/ PlaceBets \/ ReorderRaises
  BY <1>3 DEF VerifyFails, Replay, PlaceBets, ReorderRaises, growVars, CacheInv
<1> QED
  BY <1>1, <1>2, <1>3, CacheGrowRound, CacheSubmit, CacheVerify, CachePredict, CacheForestRound,
     CacheReconcile DEF Next, Step, Terminated

\* A cache slot and a recurrent state, of client or server, only ever hold tokens
\* of the vocabulary in order, whatever a gather or a splice moves.
THEOREM CachesHoldTexts == Spec => []CacheInv
<1>1. Init => CacheInv
  BY CacheInit
<1>2. CoreInv /\ CacheInv /\ [Next]_vars => CacheInv'
  BY CacheStep
<1> QED
  BY <1>1, <1>2, TextInTree, PTL DEF Spec

\* Everything has its type.
THEOREM TypeCorrect == Spec => []TypeOK
<1>1. CoreInv /\ ReferenceInv /\ CacheInv => TypeOK
  <2> SUFFICES ASSUME CoreInv, ReferenceInv, CacheInv PROVE TypeOK
    OBVIOUS
  <2>1. cfg \in Configs /\ (reference = NoTrace \/ reference \in Recordings)
    BY DEF CoreInv, TreeInv, ReferenceInv
  <2>2. phase \in {"draft", "grow", "predict", "forest", "wait", "done", "failed"}
    BY DEF CoreInv, TreeInv, Phases
  <2>3. /\ tree \in [Slots -> Nodes]
        /\ prefixLen \in 1 .. MaxLen /\ end \in prefixLen .. MaxLen
    BY CoreTreeFacts DEF CoreInv
  <2>4. forest.end \in 0 .. MaxLen /\ forest.roots \subseteq Slots
    BY DEF CoreInv, TreeInv
  <2>5. draftKV \in [Slots -> Seq(Tokens)] /\ targetKV \in [Slots -> Seq(Tokens)]
    BY DEF CacheInv, KVs
  <2>6. selection = NoSelection \/ selection \in [Submitted -> Tokens]
    BY DEF CoreInv, SelectionInv
  <2>7. output \in Seq(Tokens) /\ goal \in Nat
    BY DEF CoreInv, TextInv
  <2> QED
    BY <2>1, <2>2, <2>3, <2>4, <2>5, <2>6, <2>7 DEF CacheInv, TypeOK
<1> QED
  BY <1>1, TextInTree, CachesHoldTexts, PTL

(***************************************************************************)
(* What the target makes of the tree.                                      *)
(***************************************************************************)

\* A cache that holds a text as far as its first n tokens.
HoldsText(text, n) == [m \in Slots |-> IF m < n THEN SubSeq(text, 1, m + 1) ELSE NoKV]

\* A text is its beginning and the rest.
LEMMA Rejoined ==
  ASSUME NEW text \in Seq(Tokens), NEW m \in Nat, NEW c \in Nat, Len(text) = m + c,
         NEW rest \in Seq(Tokens), Len(rest) = c, \A k \in 1 .. c : rest[k] = text[m + k]
  PROVE  SubSeq(text, 1, m) \o rest = text
<1> DEFINE front == SubSeq(text, 1, m)
           whole == front \o rest
<1>3. m <= Len(text)
  OBVIOUS
<1>4. front \in Seq(Tokens) /\ Len(front) = m /\ \A k \in 1 .. m : front[k] = text[k]
  BY <1>3, SubSeqProperties
<1> HIDE DEF front
<1>5. /\ whole \in Seq(Tokens) /\ Len(whole) = m + c
      /\ \A k \in 1 .. m + c : whole[k] = IF k <= m THEN front[k] ELSE rest[k - m]
  <2>1. /\ whole \in Seq(Tokens) /\ Len(whole) = Len(front) + Len(rest)
        /\ \A k \in 1 .. Len(whole) : whole[k] = IF k <= Len(front) THEN front[k]
                                               ELSE rest[k - Len(front)]
    BY <1>4, ConcatProperties
  <2> HIDE DEF whole
  <2> QED
    BY <1>4, <2>1
<1> HIDE DEF whole
<1>6. \A k \in 1 .. m + c : whole[k] = text[k]
  <2> TAKE k \in 1 .. m + c
  <2>1. CASE k <= m
    <3>1. k \in 1 .. m
      BY <2>1
    <3> QED
      BY <1>4, <1>5, <2>1, <3>1
  <2>2. CASE ~(k <= m)
    <3>1. k - m \in 1 .. c /\ m + (k - m) = k
      BY <2>2
    <3> QED
      BY <1>5, <2>2, <3>1
  <2> QED
    BY <2>1, <2>2
<1>7. whole = [k \in 1 .. m + c |-> whole[k]] /\ text = [k \in 1 .. m + c |-> text[k]]
  BY <1>5
<1>8. whole = text
  BY <1>6, <1>7
<1> QED
  BY <1>8 DEF whole, front

\* The confirmed part of every submitted node's context is the text.
LEMMA ConfirmedContext ==
  ASSUME CoreInv
  PROVE  /\ \A n \in 0 .. prefixLen - 1 : Context(tree, n) = SubSeq(output, 1, n + 1)
         /\ \A x \in Submitted :
              /\ Context(tree, x) \in Seq(Tokens) /\ Len(Context(tree, x)) = tree[x].pos + 1
              /\ tree[x].pos \in Nat /\ tree[x].pos + 1 >= prefixLen
              /\ \A i \in 1 .. prefixLen : Context(tree, x)[i] = output[i]
<1>1. /\ prefixLen \in Nat /\ end \in Nat /\ 1 <= prefixLen /\ prefixLen <= end
      /\ TextTree(tree, prefixLen, end, Top) /\ end \in 0 .. MaxLen /\ IsTree(tree, end)
      /\ output \in Seq(Tokens) /\ Len(output) = prefixLen
      /\ \A n \in 0 .. prefixLen - 1 : tree[n].tok = output[n + 1]
  BY CoreTreeFacts DEF CoreInv, TextInv
<1>2. ASSUME NEW n \in 0 .. prefixLen - 1
      PROVE  Context(tree, n) = SubSeq(output, 1, n + 1)
  <2>1. Context(tree, n) = [k \in 1 .. n + 1 |-> tree[k - 1].tok] /\ n \in Nat
    BY <1>1, TextPlaces
  <2>2. \A k \in 1 .. n + 1 : k - 1 \in 0 .. prefixLen - 1 /\ (k - 1) + 1 = k
    BY <1>1, <2>1
  <2>3. \A k \in 1 .. n + 1 : tree[k - 1].tok = output[k]
    <3> TAKE k \in 1 .. n + 1
    <3>1. tree[k - 1].tok = output[(k - 1) + 1]
      BY <1>1, <2>2
    <3> QED
      BY <2>2, <3>1
  <2>4. SubSeq(output, 1, n + 1) = [k \in 1 .. n + 1 |-> output[k]]
    <3>1. n + 1 \in Nat /\ n + 1 <= Len(output)
      BY <1>1, <2>1
    <3> QED
      BY <1>1, <3>1
  <2> QED
    BY <2>1, <2>3, <2>4
<1>3. ASSUME NEW x \in Submitted
      PROVE  /\ Context(tree, x) \in Seq(Tokens) /\ Len(Context(tree, x)) = tree[x].pos + 1
             /\ tree[x].pos \in Nat /\ tree[x].pos + 1 >= prefixLen
             /\ \A i \in 1 .. prefixLen : Context(tree, x)[i] = output[i]
  <2>1. x \in prefixLen - 1 .. end - 1
    BY DEF Submitted
  <2>2. /\ x \in 0 .. end - 1 /\ 0 .. prefixLen - 1 \subseteq tree[x].row
        /\ Cardinality(tree[x].row) = tree[x].pos + 1 /\ Cardinality(tree[x].row) >= prefixLen
    <3>1. TextTree(tree, prefixLen, end, Top)
      BY <1>1
    <3>2. x \in 0 .. end - 1 /\ 0 .. prefixLen - 1 \subseteq tree[x].row
      BY <2>1, <3>1, PathFacts
    <3> QED
      BY <2>1, <3>1, <3>2, PathFacts
  <2>3. /\ Context(tree, x) \in Seq(Tokens) /\ Len(Context(tree, x)) = tree[x].pos + 1
        /\ tree[x].pos \in Nat
        /\ \A j \in tree[x].row : Context(tree, x)[tree[j].pos + 1] = tree[j].tok
    BY <1>1, <2>2, ContextIsText
  <2>4. ASSUME NEW i \in 1 .. prefixLen
        PROVE  Context(tree, x)[i] = output[i]
    <3> DEFINE j == i - 1
    <3>1. j \in 0 .. prefixLen - 1 /\ j + 1 = i
      BY <1>1
    <3> HIDE DEF j
    <3>2. j \in tree[x].row /\ tree[j].pos = j
      BY <1>1, <2>2, <3>1, TextPlaces
    <3>3. Context(tree, x)[j + 1] = tree[j].tok /\ tree[j].tok = output[j + 1]
      BY <1>1, <2>3, <3>1, <3>2
    <3> QED
      BY <3>1, <3>3
  <2> QED
    BY <2>2, <2>3, <2>4
<1> QED
  BY <1>2, <1>3

\* A pass over the submitted nodes computes their contexts if the cache holds
\* the text but its last token.
LEMMA PassComputesContexts ==
  ASSUME CoreInv, NEW stored, stored = HoldsText(output, prefixLen - 1), NEW n \in 0 .. end - 1
  PROVE  ForwardKV(tree, stored, Submitted)[n] = Context(tree, n)
<1>1. /\ prefixLen \in Nat /\ end \in Nat /\ 1 <= prefixLen /\ prefixLen <= end
      /\ end \in 0 .. MaxLen /\ IsTree(tree, end) /\ end <= Top /\ Top \in Nat
      /\ \A m \in 0 .. Top - 1 : m \in Slots
  BY CoreTreeFacts DEF CoreInv
<1>2. \A m \in 0 .. end - 1 : m \in Slots /\ m \in Nat /\ (m \notin Submitted => m < prefixLen - 1)
  BY <1>1 DEF Submitted
<1>3. ASSUME NEW m \in 0 .. end - 1, m \notin Submitted
      PROVE  stored[m] = Context(tree, m)
  <2>1. m \in Slots /\ m < prefixLen - 1 /\ m \in 0 .. prefixLen - 1
    BY <1>1, <1>2, <1>3
  <2>2. stored[m] = SubSeq(output, 1, m + 1)
    BY <2>1 DEF HoldsText
  <2> QED
    BY <2>1, <2>2, ConfirmedContext
<1>4. CASE n \in Submitted
  <2>1. tree[n].row \subseteq 0 .. end - 1
    <3>1. tree[n].row \subseteq 0 .. n /\ \A m \in 0 .. n : m \in 0 .. end - 1
      BY <1>1 DEF IsTree
    <3> QED
      BY <3>1
  <2>2. \A j \in tree[n].row \ Submitted : stored[j] = Context(tree, j)
    BY <1>3, <2>1
  <2>3. Computed(tree, stored, Submitted, n) = Context(tree, n)
    BY <1>1, <2>2, ForwardComputesContexts
  <2> QED
    BY <1>2, <1>4, <2>3 DEF ForwardKV
<1>5. CASE n \notin Submitted
  BY <1>2, <1>3, <1>5 DEF ForwardKV
<1> QED
  BY <1>4, <1>5

\* A context begins with the text.
LEMMA SameBeginning ==
  ASSUME CoreInv, NEW x \in Submitted, NEW m \in 0 .. prefixLen
  PROVE  SubSeq(output, 1, m) = SubSeq(Context(tree, x), 1, m)
<1> DEFINE text == Context(tree, x)
<1>1. /\ text \in Seq(Tokens) /\ Len(text) \in Nat /\ Len(text) >= prefixLen
      /\ \A i \in 1 .. prefixLen : text[i] = output[i]
  BY ConfirmedContext
<1>2. output \in Seq(Tokens) /\ Len(output) = prefixLen /\ prefixLen \in Nat
  BY CoreTreeFacts DEF CoreInv, TextInv
<1> HIDE DEF text
<1>3. m \in Nat /\ m <= prefixLen
  BY <1>2
<1>4. /\ SubSeq(output, 1, m) = [i \in 1 .. m |-> output[i]]
      /\ SubSeq(text, 1, m) = [i \in 1 .. m |-> text[i]]
  BY <1>1, <1>2, <1>3
<1>5. \A i \in 1 .. m : text[i] = output[i]
  BY <1>1, <1>2, <1>3
<1> QED
  BY <1>4, <1>5 DEF text

\* A state that has folded the text but its last token sees the rest of every
\* submitted node's context in the slots.
LEMMA StateSeesContexts ==
  ASSUME CoreInv, NEW kv, NEW state, state = PrefilledState(output, prefixLen - 1),
         NEW n \in Submitted
  PROVE  Recurrent(tree, kv, state, Submitted, n) = Context(tree, n)
<1> DEFINE m    == prefixLen - 1
           row  == tree[n].row
           W    == Window(row, state)
           c    == Cardinality(W)
           seen == Seen(tree, kv, Submitted)
           rest == FoldedTokens(seen, W)
<1>1. /\ prefixLen \in Nat /\ end \in Nat /\ 1 <= prefixLen /\ prefixLen <= end
      /\ TextTree(tree, prefixLen, end, Top) /\ end \in 0 .. MaxLen /\ IsTree(tree, end)
      /\ tree \in [Slots -> Nodes] /\ n \in prefixLen - 1 .. end - 1
      /\ end <= Top /\ Top \in Nat /\ \A j \in 0 .. Top - 1 : j \in Slots
  BY CoreTreeFacts DEF CoreInv, Submitted
<1>2. /\ n \in 0 .. end - 1 /\ row \subseteq 0 .. n
      /\ Cardinality(row) = tree[n].pos + 1 /\ tree[n].pos \in Nat
  <2>1. TextTree(tree, prefixLen, end, Top) /\ n \in prefixLen - 1 .. end - 1
    BY <1>1
  <2> QED
    BY <2>1, PathFacts
<1>3. state.commit_len = m /\ state.text = SubSeq(output, 1, m)
  BY DEF PrefilledState
<1>4. W = PathFrom(tree, n, m)
  BY <1>3 DEF Window, PathFrom
<1>5. m \in 0 .. prefixLen /\ m \in Nat
  BY <1>1
<1> HIDE DEF m
<1>6. /\ IsFiniteSet(W) /\ c \in Nat /\ W \in SUBSET Int
      /\ Cardinality(row) = m + c
      /\ \A k \in 0 .. c - 1 : Nth(row, m + k) = Nth(W, k)
  <2> DEFINE fresh == PathFrom(tree, n, m)
  <2>1. /\ IsFiniteSet(fresh) /\ Cardinality(fresh) \in Nat /\ fresh \in SUBSET Int
        /\ Cardinality(tree[n].row) = m + Cardinality(fresh)
    BY <1>1, <1>5, PartBehind
  <2>2. \A k \in 0 .. Cardinality(fresh) - 1 : Nth(tree[n].row, m + k) = Nth(fresh, k)
    BY <1>1, <1>5, PartBehind
  <2> QED
    BY <1>4, <2>1, <2>2
<1>7. \A j \in W : j \in Submitted /\ j \in Slots
  <2> TAKE j \in W
  <2>1. j \in row /\ j >= m
    BY <1>4 DEF PathFrom
  <2> QED
    BY <1>1, <1>2, <2>1 DEF Submitted, m
<1>8. \A j \in W : seen[j] = << tree[j].tok >> /\ seen[j] # NoKV
  BY <1>7 DEF Seen, NoKV
<1>9. {j \in W : seen[j] # NoKV} = W
  BY <1>8
<1>10. rest = [k \in 1 .. c |-> seen[Nth(W, k - 1)][Len(seen[Nth(W, k - 1)])]]
  BY <1>9 DEF FoldedTokens
<1> HIDE DEF W, seen, rest
<1>11. ASSUME NEW k \in 1 .. c
       PROVE  rest[k] \in Tokens /\ rest[k] = Context(tree, n)[m + k]
  <2> DEFINE j == Nth(W, k - 1)
             p == m + (k - 1)
  <2>1. k - 1 \in 0 .. c - 1 /\ p \in 0 .. tree[n].pos /\ p + 1 = m + k
    BY <1>2, <1>5, <1>6
  <2>2. j \in W /\ Nth(row, p) = j
    BY <1>6, <2>1, NthIsMember
  <2>3. seen[j] = << tree[j].tok >> /\ j \in Slots
    BY <1>7, <1>8, <2>2
  <2>4. rest[k] = seen[j][Len(seen[j])]
    BY <1>10
  <2> HIDE DEF p, j
  <2>5. rest[k] = tree[j].tok
    BY <2>3, <2>4
  <2>6. Context(tree, n)[p + 1] = tree[Nth(row, p)].tok
    BY <1>1, <1>2, <2>1, PlaceOnPath
  <2>7. tree[j].tok \in Tokens
    BY <1>1, <2>3 DEF Nodes
  <2> QED
    BY <2>1, <2>2, <2>5, <2>6, <2>7
<1>12. rest \in Seq(Tokens) /\ Len(rest) = c
  <2>1. rest \in [1 .. c -> Tokens]
    BY <1>10, <1>11
  <2> QED
    BY <1>6, <2>1
<1>13. Context(tree, n) \in Seq(Tokens) /\ Len(Context(tree, n)) = m + c
  BY <1>2, <1>6, ConfirmedContext
<1>14. SubSeq(Context(tree, n), 1, m) \o rest = Context(tree, n)
  BY <1>5, <1>6, <1>11, <1>12, <1>13, Rejoined
<1>15. Recurrent(tree, kv, state, Submitted, n) = state.text \o rest
  BY DEF Recurrent, rest, seen, W
<1> QED
  BY <1>3, <1>5, <1>14, <1>15, SameBeginning

\* What the server keeps of a pass that computed the contexts: the context of
\* the last node of the row it keeps.
LEMMA KeptText ==
  ASSUME CoreInv, NEW y \in Submitted,
         NEW run, \A n \in 0 .. end - 1 : run[n] = Context(tree, n)
  PROVE  GatherKV(run, tree[y].row) = HoldsText(Context(tree, y), tree[y].pos + 1)
<1>1. /\ TextTree(tree, prefixLen, end, Top) /\ end \in 0 .. MaxLen /\ IsTree(tree, end)
      /\ y \in prefixLen - 1 .. end - 1 /\ MaxLen \in Nat
  BY CoreTreeFacts DEF CoreInv, Submitted
<1>2. /\ y \in 0 .. end - 1 /\ tree[y].pos \in Nat /\ Cardinality(tree[y].row) = tree[y].pos + 1
  BY <1>1, PathFacts
<1>3. ASSUME NEW n \in Slots, n < tree[y].pos + 1
      PROVE  run[Nth(tree[y].row, n)] = SubSeq(Context(tree, y), 1, n + 1)
  <2> DEFINE j == Nth(tree[y].row, n)
  <2>1. n \in 0 .. tree[y].pos
    BY <1>1, <1>2, <1>3 DEF Slots
  <2>2. j \in 0 .. end - 1 /\ Context(tree, j) = SubSeq(Context(tree, y), 1, n + 1)
    BY <1>1, <1>2, <2>1, PlaceOnPath
  <2> QED
    BY <2>2
<1> QED
  BY <1>2, <1>3 DEF GatherKV, HoldsText

\* Committing a cache that holds a text folds the rest of it into a state that
\* has its beginning.
LEMMA KeptState ==
  ASSUME NEW text \in Seq(Tokens), NEW m \in Nat, m < Len(text), Len(text) <= MaxLen,
         NEW kv, kv = HoldsText(text, Len(text))
  PROVE  /\ Commit(PrefilledState(text, m), kv, Len(text)) = PrefilledState(text, Len(text))
         /\ Snapshot(kv, PrefilledState(text, Len(text))) = kv
<1> DEFINE l    == Len(text)
           S    == m .. l - 1
           rest == FoldedTokens(kv, S)
           c    == l - m
<1>1. l \in Nat /\ m \in Nat /\ m < l /\ l <= MaxLen /\ MaxLen \in Nat
  BY SizesAssumption
<1>2. \A j \in S : j \in Slots /\ j < l /\ j + 1 \in 1 .. l
  BY <1>1 DEF Slots
<1>3. ASSUME NEW j \in S
      PROVE  /\ kv[j] = SubSeq(text, 1, j + 1) /\ kv[j] # NoKV
             /\ Len(kv[j]) = j + 1 /\ kv[j][j + 1] = text[j + 1]
  <2>1. kv[j] = SubSeq(text, 1, j + 1)
    BY <1>2 DEF HoldsText
  <2>2. j + 1 \in Nat /\ j + 1 <= Len(text) /\ j + 1 \in 1 .. j + 1 /\ j + 1 # 0
    BY <1>1, <1>2
  <2>3. Len(SubSeq(text, 1, j + 1)) = j + 1 /\ SubSeq(text, 1, j + 1)[j + 1] = text[j + 1]
    BY <2>2, SubSeqProperties
  <2>4. Len(NoKV) = 0
    BY DEF NoKV
  <2> QED
    BY <2>1, <2>2, <2>3, <2>4
<1>4. {j \in S : kv[j] # NoKV} = S
  BY <1>3
<1>5. /\ IsFiniteSet(S) /\ Cardinality(S) = c /\ c \in Nat
      /\ \A k \in 0 .. c - 1 : Nth(S, k) = m + k
  <2>1. m \in Int /\ l \in Int /\ m <= l
    BY <1>1
  <2> HIDE DEF l
  <2>2. c \in Nat
    BY <1>1
  <2> QED
    BY <1>1, <2>1, <2>2, NthOfInterval
<1>6. rest = [k \in 1 .. c |-> kv[Nth(S, k - 1)][Len(kv[Nth(S, k - 1)])]]
  BY <1>4, <1>5 DEF FoldedTokens
<1> HIDE DEF S, rest, c
<1>7. ASSUME NEW k \in 1 .. c
      PROVE  rest[k] = text[m + k] /\ rest[k] \in Tokens
  <2> DEFINE j == Nth(S, k - 1)
  <2>1. k - 1 \in 0 .. c - 1 /\ m + (k - 1) \in S /\ (m + (k - 1)) + 1 = m + k /\ m + k \in 1 .. l
    BY <1>1, <1>5 DEF S, c
  <2>2. j = m + (k - 1)
    BY <1>5, <2>1
  <2>3. rest[k] = kv[j][Len(kv[j])]
    BY <1>6
  <2> HIDE DEF j
  <2>4. rest[k] = text[m + k]
    BY <1>3, <2>1, <2>2, <2>3
  <2> QED
    BY <2>1, <2>4
<1>8. rest \in Seq(Tokens) /\ Len(rest) = c
  <2>1. rest \in [1 .. c -> Tokens]
    BY <1>6, <1>7
  <2> QED
    BY <1>5, <2>1
<1>9. SubSeq(text, 1, m) \o rest = text
  <2>1. Len(text) = m + c
    BY <1>1 DEF c
  <2> QED
    BY <1>5, <1>7, <1>8, <2>1, Rejoined
<1>10. SubSeq(text, 1, l) = text
  BY <1>1
<1>11. Commit(PrefilledState(text, m), kv, l) = [commit_len |-> l, text |-> SubSeq(text, 1, m) \o rest]
  BY <1>1 DEF Commit, PrefilledState, rest, S
<1>12. Snapshot(kv, PrefilledState(text, l)) = kv
  BY DEF Snapshot, PrefilledState, HoldsText
<1> QED
  BY <1>9, <1>10, <1>11, <1>12 DEF PrefilledState

(***************************************************************************)
(* The text, and what the server knows of it.                              *)
(***************************************************************************)

\* The text begins with the prompt and goes on as the target, or the trace
\* that is replayed, has it; without a trace of the prompt it never goes on.
OutputInv ==
  /\ goal = 0 => output = Prompt
  /\ Len(output) >= Len(Prompt) /\ \A k \in 1 .. Len(Prompt) : output[k] = Prompt[k]
  /\ check_prompt(reference) \/ output = Prompt
  /\ \A k \in Len(Prompt) + 1 .. Len(output) :
       output[k] = IF cfg.replay THEN Recorded(reference, k - 2)
                   ELSE Target(SubSeq(output, 1, k - 1))

\* The server's cache and state hold a text.
ServerHolds(text, n) ==
  targetKV = HoldsText(text, n) /\ (cfg.hybrid => targetState = PrefilledState(text, n))

\* Before the answer the server has the text but its last token; with the
\* answer, a longest path that it accepts.
AnswerInv ==
  IF selection = NoSelection
  THEN ~cfg.replay /\ ~prefill => ServerHolds(output, prefixLen - 1)
  ELSE IF cfg.replay
  THEN \A n \in Submitted : selection[n] = Recorded(reference, tree[n].pos)
  ELSE /\ \A n \in Submitted : selection[n] = Target(Context(tree, n))
       /\ \E y \in Submitted : /\ LongestPath(y, selection)
                               /\ ServerHolds(Context(tree, y), tree[y].pos + 1)

\* What a hybrid draft cache has committed.
DraftStateInv == cfg.hybrid /\ ~prefill => draftState.commit_len = prefixLen - 1 \/ spliced

ServerInv == OutputInv /\ AnswerInv /\ DraftStateInv

LEMMA ServerInit ==
  ASSUME Init
  PROVE  ServerInv
<1>1. output = Prompt /\ goal = 0 /\ selection = NoSelection
  BY DEF Init
<1>2. Len(Prompt) \in Nat
  BY PromptAssumption
<1>3. OutputInv
  <2>1. Len(Prompt) + 1 .. Len(Prompt) = {}
    BY <1>2
  <2> QED
    BY <1>1, <1>2, <2>1 DEF OutputInv
<1>4. AnswerInv /\ DraftStateInv
  BY <1>1 DEF AnswerInv, DraftStateInv, prefill
<1> QED
  BY <1>3, <1>4 DEF ServerInv

\* The submitted part of the tree as it was.
SubmittedStays ==
  /\ UNCHANGED <<prefixLen, end>>
  /\ \A n \in 0 .. end - 1 : /\ tree'[n].tok = tree[n].tok /\ tree'[n].par = tree[n].par
                             /\ tree'[n].pos = tree[n].pos /\ tree'[n].row = tree[n].row

\* Then the contexts stay what they are, and with them what the server knows.
LEMMA AnswerStays ==
  ASSUME CoreInv, CoreInv', ServerInv, SubmittedStays,
         UNCHANGED <<cfg, reference, selection, output, goal, targetKV, targetState, draftState, spliced>>
  PROVE  ServerInv'
<1>1. /\ end \in 0 .. MaxLen /\ IsTree(tree, end) /\ end \in Nat /\ prefixLen \in Nat /\ 1 <= prefixLen
  BY CoreTreeFacts DEF CoreInv
<1>2. IsTree(tree', end)
  <2>1. TextTree(tree', prefixLen', end', Top')
    BY DEF CoreInv, TreeInv
  <2>2. IsTree(tree', end')
    BY <2>1, TextTreeBounds
  <2> QED
    BY <2>2 DEF SubmittedStays
<1>3. Submitted' = Submitted /\ \A n \in Submitted : n \in 0 .. end - 1
  BY <1>1 DEF SubmittedStays, Submitted
<1>4. /\ prefixLen' = prefixLen /\ end' = end
      /\ \A n \in 0 .. end - 1 : /\ tree'[n].tok = tree[n].tok /\ tree'[n].par = tree[n].par
                                 /\ tree'[n].pos = tree[n].pos /\ tree'[n].row = tree[n].row
  BY DEF SubmittedStays
<1>5. ASSUME NEW n \in 0 .. end - 1
      PROVE  Context(tree', n) = Context(tree, n) /\ tree[n].row \subseteq 0 .. end - 1
  <2>1. tree[n].row \subseteq 0 .. end - 1
    <3>1. tree[n].row \subseteq 0 .. n /\ \A j \in 0 .. n : j \in 0 .. end - 1
      BY <1>1 DEF IsTree
    <3> QED
      BY <3>1
  <2>2. \A j \in tree'[n].row : \E i \in tree[n].row : tree[i].pos = tree'[j].pos /\ tree[i].tok = tree'[j].tok
    BY <1>4, <2>1
  <2>3. Context(tree', n) = SubSeq(Context(tree, n), 1, tree'[n].pos + 1)
    <3>1. tree'[n].pos <= tree[n].pos
      <4>1. tree[n].pos \in Nat
        BY <1>1, ContextIsText
      <4> QED
        BY <1>4, <4>1
    <3> QED
      BY <1>1, <1>2, <2>2, <3>1, ContextsMatch
  <2>4. Context(tree, n) \in Seq(Tokens) /\ Len(Context(tree, n)) = tree[n].pos + 1
    BY <1>1, ContextIsText
  <2>5. SubSeq(Context(tree, n), 1, Len(Context(tree, n))) = Context(tree, n)
    BY <2>4
  <2>6. tree'[n].pos = tree[n].pos
    BY <1>4
  <2> QED
    BY <2>1, <2>3, <2>4, <2>5, <2>6
<1>6. ASSUME NEW x \in Submitted
      PROVE  WholePath(x, selection)' <=> WholePath(x, selection)
  <2>1. tree'[x].row = tree[x].row /\ tree[x].row \subseteq 0 .. end - 1
    BY <1>3, <1>4, <1>5
  <2>2. \A j \in tree[x].row : tree'[j].tok = tree[j].tok /\ tree'[j].par = tree[j].par
    BY <1>4, <2>1
  <2> QED
    BY <1>3, <1>4, <2>1, <2>2 DEF WholePath
<1>7. ASSUME NEW x \in Submitted, LongestPath(x, selection)
      PROVE  LongestPath(x, selection)'
  <2>1. \A y \in Submitted : tree'[y].pos = tree[y].pos
    BY <1>3, <1>4
  <2> QED
    BY <1>3, <1>6, <1>7, <2>1 DEF LongestPath
<1>8. OutputInv' /\ DraftStateInv'
  BY <1>4 DEF ServerInv, OutputInv, DraftStateInv, check_prompt, prefill
<1>9. AnswerInv'
  <2>1. CASE selection = NoSelection
    BY <1>4, <2>1 DEF ServerInv, AnswerInv, ServerHolds, prefill
  <2>2. CASE selection # NoSelection /\ cfg.replay
    BY <1>3, <1>4, <2>2 DEF ServerInv, AnswerInv
  <2>3. CASE selection # NoSelection /\ ~cfg.replay
    <3>1. \A n \in Submitted : selection[n] = Target(Context(tree, n))
      BY <2>3 DEF ServerInv, AnswerInv
    <3>2. \A n \in Submitted : selection[n] = Target(Context(tree', n))
      BY <1>3, <1>5, <3>1
    <3>3. PICK y \in Submitted : LongestPath(y, selection) /\ ServerHolds(Context(tree, y), tree[y].pos + 1)
      BY <2>3 DEF ServerInv, AnswerInv
    <3>4. ServerHolds(Context(tree, y), tree[y].pos + 1)'
      BY <1>3, <1>4, <1>5, <3>3 DEF ServerHolds
    <3> QED
      BY <1>3, <1>7, <2>3, <3>2, <3>3, <3>4 DEF AnswerInv
  <2> QED
    BY <2>1, <2>2, <2>3
<1> QED
  BY <1>8, <1>9 DEF ServerInv

\* Drafting leaves what was submitted alone.
LEMMA DraftingKeepsSubmitted ==
  ASSUME CoreInv, Predict \/ ForestRound
  PROVE  SubmittedStays
<1>1. /\ tree \in [Slots -> Nodes] /\ end \in Nat /\ end <= Top /\ Top \in Nat /\ Top <= MaxLen
      /\ \A n \in 0 .. end - 1 : n \in Slots /\ n < end /\ n < Top
  BY CoreTreeFacts DEF CoreInv, Slots
<1>2. ASSUME NEW from, from \in Int, from >= end, NEW tr, NEW keys, NEW st,
             NEW n \in 0 .. end - 1
      PROVE  Add(tr, from, keys, st)[n] = tr[n]
  BY <1>1, <1>2 DEF Add
<1>3. CASE Predict
  <2>1. UNCHANGED <<prefixLen, end>> /\ (tree' = tree \/ \E keys : tree' = Add(tree, end, keys, POST_CANDIDATE))
    BY <1>3 DEF Predict
  <2> QED
    BY <1>1, <1>2, <2>1 DEF SubmittedStays
<1>4. CASE ForestRound
  <2>1. forest.end = Top
    BY <1>4 DEF CoreInv, TreeInv, ForestRound, Top
  <2>2. UNCHANGED <<prefixLen, end>> /\
        (tree' = tree \/
         \E beams, keys :
            tree' = Add([n \in Slots |-> IF n \in beams THEN [tree[n] EXCEPT !.st = POST_PROCESSED]
                                         ELSE tree[n]], forest.end, keys, POST_CANDIDATE))
    BY <1>4 DEF ForestRound
  <2>3. ASSUME NEW beams, NEW n \in Slots
        PROVE  LET run == [m \in Slots |-> IF m \in beams THEN [tree[m] EXCEPT !.st = POST_PROCESSED]
                                           ELSE tree[m]]
               IN  /\ run[n].tok = tree[n].tok /\ run[n].par = tree[n].par
                   /\ run[n].pos = tree[n].pos /\ run[n].row = tree[n].row
    <3>1. tree[n] \in Nodes
      BY <1>1
    <3> QED
      BY <3>1 DEF Nodes
  <2>4. CASE tree' = tree
    BY <2>2, <2>4 DEF SubmittedStays
  <2>5. ASSUME NEW beams, NEW keys,
               tree' = Add([n \in Slots |-> IF n \in beams THEN [tree[n] EXCEPT !.st = POST_PROCESSED]
                                            ELSE tree[n]], forest.end, keys, POST_CANDIDATE)
        PROVE  SubmittedStays
    <3> DEFINE run == [n \in Slots |-> IF n \in beams THEN [tree[n] EXCEPT !.st = POST_PROCESSED]
                                       ELSE tree[n]]
    <3>1. \A n \in Slots : /\ run[n].tok = tree[n].tok /\ run[n].par = tree[n].par
                            /\ run[n].pos = tree[n].pos /\ run[n].row = tree[n].row
      BY <2>3
    <3>2. tree' = Add(run, Top, keys, POST_CANDIDATE)
      BY <2>1, <2>5
    <3> HIDE DEF run
    <3>3. Top \in Int /\ Top >= end
      BY <1>1
    <3>4. \A n \in 0 .. end - 1 : tree'[n] = run[n]
      BY <1>2, <3>2, <3>3
    <3> QED
      BY <1>1, <2>2, <3>1, <3>4 DEF SubmittedStays
  <2> QED
    BY <2>2, <2>4, <2>5
<1> QED
  BY <1>3, <1>4

\* Steps before the request is sent, when the server has answered nothing.
LEMMA ServerBeforeSubmit ==
  ASSUME CoreInv, ServerInv, StartGrowing \/ GrowRound \/ Submit
  PROVE  ServerInv'
<1>1. selection = NoSelection /\ selection' = NoSelection
  BY DEF CoreInv, SelectionInv, StartGrowing, GrowRound, Submit
<1>2. /\ UNCHANGED <<cfg, reference, prefixLen, output, goal, targetKV, targetState, spliced>>
      /\ ~prefill => draftState' = draftState
  BY DEF StartGrowing, GrowRound, Submit, treeVars, prefill
<1> QED
  BY <1>1, <1>2 DEF ServerInv, OutputInv, AnswerInv, ServerHolds, DraftStateInv, check_prompt, prefill

\* Steps that touch neither the tree nor what the server knows.
LEMMA ServerIdles ==
  ASSUME CoreInv, CoreInv', ServerInv,
         VerifyFails \/ PlaceBets \/ ReorderRaises \/ UNCHANGED vars
  PROVE  ServerInv'
<1>1. UNCHANGED <<cfg, reference, tree, prefixLen, end, selection, output, goal, targetKV,
                  targetState, draftState, spliced>>
  BY DEF VerifyFails, PlaceBets, ReorderRaises, vars, treeVars
<1>2. SubmittedStays
  BY <1>1 DEF SubmittedStays
<1> QED
  BY <1>1, <1>2, AnswerStays

LEMMA ServerOverlap ==
  ASSUME CoreInv, CoreInv', ServerInv, Predict \/ ForestRound
  PROVE  ServerInv'
<1>1. UNCHANGED <<cfg, reference, selection, output, goal, targetKV, targetState, draftState, spliced>>
  BY DEF Predict, ForestRound
<1> QED
  BY <1>1, DraftingKeepsSubmitted, AnswerStays

LEMMA ServerReplay ==
  ASSUME CoreInv, ServerInv, Replay
  PROVE  ServerInv'
<1>1. /\ UNCHANGED <<cfg, reference, tree, prefixLen, end, output, goal, draftState, spliced>>
      /\ cfg.replay
      /\ selection' = [n \in Submitted |-> Recorded(reference, tree[n].pos)]
  BY DEF Replay, treeVars
<1>2. Submitted' = Submitted
  BY <1>1 DEF Submitted
<1>3. AnswerInv'
  BY <1>1, <1>2 DEF AnswerInv
<1> QED
  BY <1>1, <1>3 DEF ServerInv, OutputInv, DraftStateInv, check_prompt, prefill

\* The server's answer is the target's, and it keeps a longest accepted path.
LEMMA ServerVerify ==
  ASSUME CoreInv, ServerInv, Verify
  PROVE  ServerInv'
<1>1. /\ UNCHANGED <<cfg, reference, tree, prefixLen, end, output, goal, draftState, spliced>>
      /\ ~cfg.replay /\ selection = NoSelection
  BY DEF Verify, treeVars
<1> DEFINE m      == prefixLen - 1
           stored == IF prefill THEN PrefilledKV ELSE targetKV
           state  == IF prefill THEN PrefilledState(Prompt, Len(Prompt) - 1) ELSE targetState
           run    == IF cfg.hybrid THEN HybridForwardKV(tree, stored, state, Submitted)
                     ELSE ForwardKV(tree, stored, Submitted)
<1>2. PICK sel \in Answers(run) :
        /\ selection' = sel
        /\ targetKV' = IF cfg.hybrid
                       THEN Snapshot(GatherKV(run, VerifiedRow(sel)), HybridGather(run, state, VerifiedRow(sel)))
                       ELSE GatherKV(run, VerifiedRow(sel))
        /\ targetState' = IF cfg.hybrid THEN HybridGather(run, state, VerifiedRow(sel)) ELSE targetState
  BY DEF Verify
<1>3. /\ prefixLen \in Nat /\ end \in Nat /\ 1 <= prefixLen /\ prefixLen <= end
      /\ TextTree(tree, prefixLen, end, Top) /\ end <= MaxLen /\ MaxLen \in Nat
      /\ end \in 0 .. MaxLen /\ IsTree(tree, end)
      /\ Len(output) = prefixLen /\ TreeInv
      /\ \A n \in 0 .. end - 1 : n \in Slots
  BY CoreTreeFacts DEF CoreInv, TextInv, Slots
<1>4. stored = HoldsText(output, m) /\ (cfg.hybrid => state = PrefilledState(output, m))
  <2>1. CASE prefill
    <3>1. output = Prompt /\ m = Len(Prompt) - 1
      BY <1>3, <2>1 DEF ServerInv, OutputInv, prefill
    <3> QED
      BY <2>1, <3>1 DEF PrefilledKV, HoldsText
  <2>2. CASE ~prefill
    BY <1>1, <2>2 DEF ServerInv, AnswerInv, ServerHolds
  <2> QED
    BY <2>1, <2>2
<1> HIDE DEF stored, state
<1>5. \A n \in 0 .. end - 1 : run[n] = Context(tree, n)
  <2> TAKE n \in 0 .. end - 1
  <2>1. ForwardKV(tree, stored, Submitted)[n] = Context(tree, n)
    BY <1>4, PassComputesContexts
  <2>2. CASE cfg.hybrid
    <3>1. HybridForwardKV(tree, stored, state, Submitted)[n] =
            IF n \in Submitted /\ Recurrent(tree, stored, state, Submitted, n) # Along(tree, tree[n].row)
            THEN NoKV ELSE ForwardKV(tree, stored, Submitted)[n]
      BY <1>3 DEF HybridForwardKV
    <3>2. n \in Submitted => Recurrent(tree, stored, state, Submitted, n) = Along(tree, tree[n].row)
      BY <1>4, <2>2, StateSeesContexts DEF Context
    <3> QED
      BY <2>1, <2>2, <3>1, <3>2
  <2> QED
    BY <2>1, <2>2
<1> HIDE DEF run
<1>6. \A n \in Submitted : /\ n \in 0 .. end - 1 /\ n \in prefixLen - 1 .. end - 1
  BY <1>3 DEF Submitted
<1>7. /\ sel \in [Submitted -> Tokens] /\ sel # NoSelection
      /\ \A n \in Submitted : sel[n] = Target(Context(tree, n))
  <2>1. sel \in [Submitted -> Tokens] /\ \A n \in Submitted : run[n] # NoKV => sel[n] = Target(run[n])
    BY <1>2 DEF Answers
  <2>2. \A n \in Submitted : run[n] # NoKV /\ run[n] = Context(tree, n)
    <3> TAKE n \in Submitted
    <3>1. /\ Len(Context(tree, n)) = tree[n].pos + 1 /\ tree[n].pos \in Nat
          /\ Context(tree, n) \in Seq(Tokens)
      BY ConfirmedContext
    <3>2. Context(tree, n) # NoKV
      BY <3>1 DEF NoKV
    <3> QED
      BY <1>5, <1>6, <3>2
  <2>3. sel # NoSelection
    <3>1. prefixLen - 1 \in DOMAIN sel
      BY <1>3, <2>1 DEF Submitted
    <3>2. DOMAIN NoSelection = {}
      BY DEF NoSelection
    <3> QED
      BY <3>1, <3>2
  <2> QED
    BY <2>1, <2>2, <2>3
<1>8. PICK y \in Submitted : LongestPath(y, sel) /\ VerifiedRow(sel) = tree[y].row
  BY <1>3, LastAcceptedIsLongest DEF VerifiedRow
<1>9. VerifiedRow(sel) = tree[y].row
  BY <1>8
<1> DEFINE text == Context(tree, y)
           l    == tree[y].pos + 1
<1>10. GatherKV(run, VerifiedRow(sel)) = HoldsText(text, l)
  BY <1>5, <1>8, <1>9, KeptText
<1>11. /\ text \in Seq(Tokens) /\ Len(text) = l /\ l \in Nat /\ m \in Nat /\ m < l /\ l <= MaxLen
       /\ Cardinality(tree[y].row) = l
  <2>1. text \in Seq(Tokens) /\ Len(text) = l /\ tree[y].pos \in Nat /\ l >= prefixLen
    BY <1>8, ConfirmedContext
  <2>2. Cardinality(tree[y].row) = l /\ Cardinality(tree[y].row) <= end
    BY <1>3, <1>6, <1>8, PathFacts
  <2> QED
    BY <1>3, <2>1, <2>2
<1>12. ASSUME cfg.hybrid
       PROVE  /\ HybridGather(run, state, VerifiedRow(sel)) = PrefilledState(text, l)
              /\ Snapshot(HoldsText(text, l), PrefilledState(text, l)) = HoldsText(text, l)
  <2>1. state = PrefilledState(text, m)
    <3>1. m \in 0 .. prefixLen
      BY <1>3
    <3>2. SubSeq(output, 1, m) = SubSeq(Context(tree, y), 1, m)
      BY <1>8, <3>1, SameBeginning
    <3> QED
      BY <1>4, <1>12, <3>2 DEF PrefilledState
  <2>2. HybridGather(run, state, VerifiedRow(sel)) = Commit(state, HoldsText(text, l), l)
    BY <1>9, <1>10, <1>11 DEF HybridGather
  <2> HIDE DEF text, l, m
  <2>3. /\ Commit(PrefilledState(text, m), HoldsText(text, l), l) = PrefilledState(text, l)
        /\ Snapshot(HoldsText(text, l), PrefilledState(text, l)) = HoldsText(text, l)
    BY <1>11, KeptState
  <2> QED
    BY <2>1, <2>2, <2>3
<1>13. /\ targetKV' = HoldsText(text, l)
       /\ cfg.hybrid => targetState' = PrefilledState(text, l)
  BY <1>2, <1>10, <1>12
<1>14. ServerHolds(Context(tree, y), tree[y].pos + 1)'
  BY <1>1, <1>13 DEF ServerHolds
<1>15. LongestPath(y, selection)' /\ Submitted' = Submitted
  <2>1. Submitted' = Submitted /\ \A x : WholePath(x, selection)' <=> WholePath(x, sel)
    BY <1>1, <1>2 DEF Submitted, WholePath
  <2> QED
    BY <1>1, <1>8, <2>1 DEF LongestPath
<1>16. AnswerInv'
  BY <1>1, <1>2, <1>7, <1>14, <1>15 DEF AnswerInv
<1> QED
  BY <1>1, <1>16 DEF ServerInv, OutputInv, DraftStateInv, check_prompt, prefill

\* At the end of a cycle the text has grown by what the target decodes next,
\* and the server keeps what the client keeps.
LEMMA ServerReconcile ==
  ASSUME CoreInv, ReferenceInv, CacheInv, ServerInv, Reconcile
  PROVE  ServerInv'
<1>1. PICK x \in Submitted : Taken(x)
  BY ReconcileTakes
<1> DEFINE C   == Context(tree, x)
           k   == tree[x].pos + 1
           new == output'
<1>2. /\ prefixLen \in Nat /\ end \in Nat /\ 1 <= prefixLen /\ prefixLen <= end
      /\ TextTree(tree, prefixLen, end, Top)
      /\ output \in Seq(Tokens) /\ Len(output) = prefixLen
  BY CoreTreeFacts DEF CoreInv, TextInv
<1>3. \A n \in Submitted : n \in prefixLen - 1 .. end - 1
  BY DEF Submitted
<1>4. /\ C \in Seq(Tokens) /\ Len(C) = k /\ k \in Nat /\ k >= prefixLen
      /\ \A i \in 1 .. prefixLen : C[i] = output[i]
  BY ConfirmedContext
<1>5. Cardinality(tree[x].row) = k
  BY <1>2, <1>3, PathFacts
<1>6. /\ LongestPath(x, selection) /\ Bonus = selection[x] /\ prefixLen' = k + 1
      /\ new \in Seq(Tokens) /\ Len(new) = k + 1
      /\ \A n \in 0 .. k - 1 : new[n + 1] = C[n + 1]
      /\ new[k + 1] = selection[x]
  BY <1>1, <1>5 DEF Taken, Extends
<1>7. /\ UNCHANGED <<cfg, reference, targetKV, targetState>>
      /\ selection # NoSelection /\ selection' = NoSelection
      /\ goal' # 0 /\ check_prompt(reference)
  BY DraftCompaction DEF Reconcile, ReferenceInv
<1>8. \A n \in Submitted : selection[n] = IF cfg.replay THEN Recorded(reference, tree[n].pos)
                                          ELSE Target(Context(tree, n))
  BY <1>7 DEF ServerInv, AnswerInv
<1>9. \A j \in tree[x].row : j >= prefixLen => tree[j].tok = selection[tree[j].par]
  BY <1>6 DEF LongestPath, WholePath
<1> HIDE DEF C, k
<1>n. k \in Nat /\ k >= prefixLen /\ prefixLen \in Nat
  BY <1>2, <1>4
<1> HIDE DEF new
<1>10. \A i \in 1 .. k : new[i] = C[i]
  <2> TAKE i \in 1 .. k
  <2>1. i - 1 \in 0 .. k - 1 /\ (i - 1) + 1 = i
    BY <1>n
  <2>2. new[(i - 1) + 1] = C[(i - 1) + 1]
    BY <1>6, <2>1
  <2> QED
    BY <2>1, <2>2
<1>11. \A m \in 0 .. k : SubSeq(new, 1, m) = SubSeq(C, 1, m)
  <2> TAKE m \in 0 .. k
  <2>1. m \in Nat /\ m <= k
    BY <1>n
  <2>2. /\ SubSeq(new, 1, m) = [i \in 1 .. m |-> new[i]]
        /\ SubSeq(C, 1, m) = [i \in 1 .. m |-> C[i]]
    BY <1>4, <1>6, <2>1
  <2>3. \A i \in 1 .. m : new[i] = C[i]
    BY <1>n, <1>10, <2>1
  <2> QED
    BY <2>2, <2>3
<1>12. ASSUME NEW i \in Len(Prompt) + 1 .. k + 1
       PROVE  new[i] = IF cfg.replay THEN Recorded(reference, i - 2)
                       ELSE Target(SubSeq(new, 1, i - 1))
  <2>1. Len(Prompt) \in Nat /\ i \in Nat /\ i >= 1 /\ i <= k + 1 /\ i >= Len(Prompt) + 1
    BY <1>n, PromptAssumption
  <2>2. CASE i <= prefixLen
    <3>1. i \in 1 .. k /\ i \in 1 .. prefixLen /\ i - 1 \in 0 .. prefixLen /\ i - 1 \in 0 .. k
          /\ i \in Len(Prompt) + 1 .. Len(output)
      BY <1>2, <1>n, <2>1, <2>2
    <3>2. new[i] = output[i]
      BY <1>4, <1>10, <3>1
    <3>3. SubSeq(new, 1, i - 1) = SubSeq(output, 1, i - 1)
      BY <1>11, <3>1, SameBeginning DEF C
    <3>4. output[i] = IF cfg.replay THEN Recorded(reference, i - 2)
                      ELSE Target(SubSeq(output, 1, i - 1))
      BY <3>1 DEF ServerInv, OutputInv
    <3> QED
      BY <3>2, <3>3, <3>4
  <2>3. CASE prefixLen < i /\ i <= k
    <3>1. i \in prefixLen + 1 .. tree[x].pos + 1 /\ i \in 1 .. k /\ i - 1 \in 0 .. k
      BY <1>n, <2>1, <2>3 DEF k
    <3>2. PICK p \in prefixLen - 1 .. end - 1 :
            /\ tree[p].pos = i - 2
            /\ Context(tree, p) = SubSeq(Context(tree, x), 1, i - 1)
            /\ Context(tree, x)[i] = selection[p]
      <4>1. TextTree(tree, prefixLen, end, Top) /\ x \in prefixLen - 1 .. end - 1
        BY <1>2, <1>3
      <4>2. i \in prefixLen + 1 .. tree[x].pos + 1
        BY <3>1
      <4> QED
        BY <1>9, <4>1, <4>2, AcceptedPath
    <3>3. selection[p] = IF cfg.replay THEN Recorded(reference, tree[p].pos)
                         ELSE Target(Context(tree, p))
      BY <1>8 DEF Submitted
    <3>4. new[i] = selection[p] /\ SubSeq(new, 1, i - 1) = Context(tree, p)
      BY <1>10, <1>11, <3>1, <3>2 DEF C
    <3> QED
      BY <3>2, <3>3, <3>4
  <2>4. CASE i = k + 1
    <3>1. tree[x].pos = i - 2 /\ k \in 0 .. k /\ i - 1 = k
      BY <1>4, <1>n, <2>4, ConfirmedContext DEF k
    <3>2. SubSeq(new, 1, i - 1) = C
      <4>1. SubSeq(C, 1, Len(C)) = C
        BY <1>4
      <4> QED
        BY <1>4, <1>11, <3>1, <4>1
    <3>3. selection[x] = IF cfg.replay THEN Recorded(reference, tree[x].pos) ELSE Target(C)
      BY <1>8 DEF C
    <3> QED
      BY <1>6, <2>4, <3>1, <3>2, <3>3
  <2> QED
    BY <1>n, <2>1, <2>2, <2>3, <2>4
<1>13. OutputInv'
  <2>1. Len(Prompt) \in Nat /\ Len(Prompt) <= prefixLen
        /\ \A i \in 1 .. Len(Prompt) : output[i] = Prompt[i]
    BY <1>2, PromptAssumption DEF ServerInv, OutputInv
  <2>2. \A i \in 1 .. Len(Prompt) : i \in 1 .. k /\ i \in 1 .. prefixLen
    BY <1>n, <2>1
  <2>3. \A i \in 1 .. Len(Prompt) : new[i] = Prompt[i]
    BY <1>4, <1>10, <2>1, <2>2
  <2>4. Len(new) >= Len(Prompt)
    BY <1>6, <1>n, <2>1
  <2>5. check_prompt(reference)'
    BY <1>7 DEF check_prompt
  <2>6. \A i \in Len(Prompt) + 1 .. Len(new) :
          new[i] = IF cfg.replay THEN Recorded(reference, i - 2) ELSE Target(SubSeq(new, 1, i - 1))
    BY <1>6, <1>12
  <2> QED
    BY <1>7, <2>3, <2>4, <2>5, <2>6 DEF OutputInv, new
<1>14. ASSUME ~cfg.replay
       PROVE  ServerHolds(output, prefixLen - 1)'
  <2>1. PICK y \in Submitted : /\ LongestPath(y, selection)
                               /\ ServerHolds(Context(tree, y), tree[y].pos + 1)
    BY <1>7, <1>14 DEF ServerInv, AnswerInv
  <2>2. tree[y].pos = tree[x].pos
    <3>1. tree[y].pos \in Nat /\ tree[x].pos \in Nat
      BY ConfirmedContext
    <3> QED
      BY <1>6, <2>1, <3>1 DEF LongestPath
  <2>3. \A j \in tree[y].row : j >= prefixLen => tree[j].tok = selection[tree[j].par]
    BY <2>1 DEF LongestPath, WholePath
  <2>4. \A n \in prefixLen - 1 .. end - 1 : selection[n] = Target(Context(tree, n))
    BY <1>8, <1>14 DEF Submitted
  <2>5. Context(tree, y) = C
    BY <1>2, <1>3, <1>9, <2>2, <2>3, <2>4, AcceptedTextIsUnique DEF C
  <2>6. targetKV = HoldsText(C, k) /\ (cfg.hybrid => targetState = PrefilledState(C, k))
    BY <2>1, <2>2, <2>5 DEF ServerHolds, k
  <2>7. HoldsText(C, k) = HoldsText(new, k)
    <3>1. \A n \in Slots : n < k => SubSeq(C, 1, n + 1) = SubSeq(new, 1, n + 1)
      <4> TAKE n \in Slots
      <4> HAVE n < k
      <4>1. n + 1 \in 0 .. k
        BY <1>n DEF Slots
      <4> QED
        BY <1>11, <4>1
    <3> QED
      BY <3>1 DEF HoldsText
  <2>8. PrefilledState(C, k) = PrefilledState(new, k)
    <3>1. k \in 0 .. k
      BY <1>n
    <3> QED
      BY <1>11, <3>1 DEF PrefilledState
  <2>9. prefixLen' - 1 = k
    BY <1>6, <1>n
  <2> QED
    BY <1>7, <2>6, <2>7, <2>8, <2>9 DEF ServerHolds, new
<1>15. AnswerInv'
  BY <1>7, <1>14 DEF AnswerInv
<1>16. DraftStateInv'
  <2>1. PICK src \in SUBSET Slots :
          /\ draftState' = IF cfg.hybrid THEN HybridGather(draftKV, draftState, src) ELSE draftState
          /\ spliced' = TRUE \/ (spliced' = FALSE /\ Cardinality(src) = prefixLen' - 1)
    BY DraftCompaction
  <2>2. HybridGather(draftKV, draftState, src).commit_len = Cardinality(src)
    BY GatherIsState DEF CacheInv
  <2> QED
    BY <1>7, <2>1, <2>2 DEF DraftStateInv
<1> QED
  BY <1>13, <1>15, <1>16 DEF ServerInv

LEMMA ServerStep ==
  ASSUME CoreInv, CoreInv', ReferenceInv, CacheInv, ServerInv, [Next]_vars
  PROVE  ServerInv'
BY ServerBeforeSubmit, ServerIdles, ServerOverlap, ServerReplay, ServerVerify, ServerReconcile
   DEF Next, Step, Terminated

\* Whatever the server computes on the tree of a request, its choices are the
\* target's after each node, and what it keeps is the text the client keeps.
THEOREM ServerKnowsText == Spec => []ServerInv
<1>1. Init => ServerInv
  BY ServerInit
<1>2. CoreInv /\ CoreInv' /\ ReferenceInv /\ CacheInv /\ ServerInv /\ [Next]_vars => ServerInv'
  BY ServerStep
<1> QED
  BY <1>1, <1>2, TextInTree, CachesHoldTexts, PTL DEF Spec

\* The text is what the target decodes greedily on its own, or the trace.
THEOREM LosslessCorrect == Spec => []Lossless
<1>1. CoreInv /\ ReferenceInv /\ ServerInv => Lossless
  <2> SUFFICES ASSUME CoreInv, ReferenceInv, ServerInv,
                      NEW k \in Len(Prompt) + 1 .. Len(output)
               PROVE  output[k] = IF cfg.replay /\ k > Len(reference) THEN Eos
                                  ELSE Target(SubSeq(output, 1, k - 1))
    BY DEF Lossless
  <2>1. CASE ~cfg.replay
    BY <2>1 DEF ServerInv, OutputInv
  <2>2. CASE cfg.replay
    <3> DEFINE l == Len(Prompt)
               r == reference
    <3>1. /\ output \in Seq(Tokens) /\ Len(output) \in Nat
          /\ l \in Nat /\ l > 1 /\ Prompt \in Seq(Tokens)
      BY PromptAssumption DEF CoreInv, TextInv
    <3>2. k \in Nat /\ k > l /\ k <= Len(output)
      BY <3>1
    <3>3. /\ r \in Seq(Tokens) /\ Len(r) \in Nat /\ Len(r) > l
          /\ \A i \in l + 1 .. Len(r) : r[i] = Target(SubSeq(r, 1, i - 1))
      <4>1. r \in Recordings
        BY <2>2 DEF ReferenceInv
      <4> QED
        BY <4>1, RecordingsAssumption
    <3>4. SubSeq(r, 1, l) = Prompt
      <4>1. output # Prompt
        BY <3>2
      <4>2. r # NoTrace
        <5>1. Len(NoTrace) = 0
          BY DEF NoTrace
        <5> QED
          BY <3>1, <3>3, <5>1
      <4>3. check_prompt(reference)
        BY <4>1 DEF ServerInv, OutputInv
      <4> QED
        BY <4>2, <4>3 DEF check_prompt
    <3>5. /\ \A i \in 1 .. l : output[i] = Prompt[i]
          /\ \A i \in l + 1 .. Len(output) : output[i] = Recorded(r, i - 2)
      BY <2>2 DEF ServerInv, OutputInv
    <3> HIDE DEF l, r
    <3>6. ASSUME NEW i \in l + 1 .. Len(output)
          PROVE  output[i] = IF i <= Len(r) THEN r[i] ELSE Eos
      <4>1. (i - 2) + 2 = i
        BY <3>1
      <4> QED
        BY <3>5, <4>1 DEF Recorded
    <3>7. CASE k > Len(r)
      <4>1. k \in l + 1 .. Len(output) /\ ~(k <= Len(r))
        BY <3>1, <3>2, <3>3, <3>7
      <4> QED
        BY <2>2, <3>6, <3>7, <4>1 DEF r
    <3>8. CASE k <= Len(r)
      <4>1. k \in l + 1 .. Len(output) /\ k \in l + 1 .. Len(r)
        BY <3>1, <3>2, <3>3, <3>8
      <4>2. output[k] = r[k] /\ r[k] = Target(SubSeq(r, 1, k - 1))
        BY <3>3, <3>6, <3>8, <4>1
      <4>3. ASSUME NEW i \in 1 .. k - 1
            PROVE  output[i] = r[i]
        <5>1. CASE i <= l
          <6>1. i \in 1 .. l
            BY <3>1, <5>1
          <6>2. SubSeq(r, 1, l)[i] = r[i]
            <7>1. l <= Len(r)
              BY <3>1, <3>3
            <7> QED
              BY <3>1, <3>3, <6>1, <7>1, SubSeqProperties
          <6> QED
            BY <3>4, <3>5, <6>1, <6>2
        <5>2. CASE ~(i <= l)
          <6>1. i \in l + 1 .. Len(output) /\ i <= Len(r)
            BY <3>1, <3>2, <3>3, <3>8, <5>2
          <6> QED
            BY <3>6, <6>1
        <5> QED
          BY <5>1, <5>2
      <4>4. /\ SubSeq(output, 1, k - 1) = [i \in 1 .. k - 1 |-> output[i]]
            /\ SubSeq(r, 1, k - 1) = [i \in 1 .. k - 1 |-> r[i]]
        <5>1. k - 1 \in Nat /\ k - 1 <= Len(output) /\ k - 1 <= Len(r)
          BY <3>1, <3>2, <3>3, <3>8
        <5> QED
          BY <3>1, <3>3, <5>1
      <4>5. SubSeq(output, 1, k - 1) = SubSeq(r, 1, k - 1)
        BY <4>3, <4>4
      <4>6. ~(k > Len(r))
        BY <3>2, <3>3, <3>8
      <4> QED
        BY <4>2, <4>5, <4>6 DEF r
    <3> QED
      BY <3>2, <3>3, <3>7, <3>8
  <2> QED
    BY <2>1, <2>2
<1> QED
  BY <1>1, TextInTree, ServerKnowsText, PTL

\* Between two requests the server's cache holds the text but its last token.
THEOREM ServerCacheCorrect == Spec => []ServerCacheFollowsTree
<1>1. ServerInv => ServerCacheFollowsTree
  BY DEF ServerInv, AnswerInv, ServerHolds, HoldsText, ServerCacheFollowsTree
<1> QED
  BY <1>1, ServerKnowsText, PTL

\* So does the recurrent state of a hybrid server, and the draft model's has
\* folded as many tokens.
THEOREM RecurrentStateCorrect == Spec => []RecurrentStateFollowsText
<1>1. ServerInv => RecurrentStateFollowsText
  BY DEF ServerInv, AnswerInv, ServerHolds, DraftStateInv, RecurrentStateFollowsText
<1> QED
  BY <1>1, ServerKnowsText, PTL

(***************************************************************************)
(* Client and server together are a greedy decoder.                        *)
(***************************************************************************)

\* A request holds at most the budget, and the prefill cycle confirmed a token.
DecodeInv ==
  /\ phase \in {"predict", "forest", "wait"} => end <= prefixLen + cfg.budget
  /\ goal # 0 => goal > MaxNew + Len(Prompt)

\* Two texts, one behind the other.
LEMMA JoinedText ==
  ASSUME NEW s \in Seq(Tokens), NEW t \in Seq(Tokens)
  PROVE  /\ Len(s) \in Nat /\ Len(t) \in Nat /\ Len(s \o t) = Len(s) + Len(t)
         /\ \A k \in 1 .. Len(s) : (s \o t)[k] = s[k]
         /\ \A k \in 1 .. Len(t) : (s \o t)[Len(s) + k] = t[k]
<1>1. Len(s) \in Nat /\ Len(t) \in Nat
  OBVIOUS
<1>2. /\ Len(s \o t) = Len(s) + Len(t)
      /\ \A i \in 1 .. Len(s) + Len(t) :
           (s \o t)[i] = IF i <= Len(s) THEN s[i] ELSE t[i - Len(s)]
  BY ConcatProperties
<1>3. ASSUME NEW k \in 1 .. Len(t) PROVE (s \o t)[Len(s) + k] = t[k]
  <2>1. /\ Len(s) + k \in 1 .. Len(s) + Len(t) /\ ~(Len(s) + k <= Len(s))
        /\ (Len(s) + k) - Len(s) = k
    BY <1>1
  <2> QED
    BY <1>2, <2>1
<1>4. ASSUME NEW k \in 1 .. Len(s) PROVE (s \o t)[k] = s[k]
  <2>1. k \in 1 .. Len(s) + Len(t) /\ k <= Len(s)
    BY <1>1
  <2> QED
    BY <1>2, <2>1
<1> QED
  BY <1>1, <1>2, <1>3, <1>4

\* What a cycle does to the text.
LEMMA TextGrows ==
  ASSUME CoreInv, Reconcile
  PROVE  LET F == FreshTokens(Path, Bonus) IN
         /\ F \in Seq(Tokens) /\ Len(F) \in Nat /\ output \in Seq(Tokens) /\ Len(output) \in Nat
         /\ output' = output \o F /\ Len(output') = Len(output) + Len(F)
         /\ \A k \in 1 .. Len(output) : output'[k] = output[k]
         /\ \A k \in 1 .. Len(F) : output'[Len(output) + k] = F[k]
         /\ Len(F) >= 1 /\ Len(F) <= end - prefixLen + 1
         /\ end \in Nat /\ prefixLen \in Nat
<1> DEFINE F == FreshTokens(Path, Bonus)
<1>1. PICK x \in Submitted : Taken(x)
  BY ReconcileTakes
<1>2. /\ prefixLen \in Nat /\ end \in Nat /\ TextTree(tree, prefixLen, end, Top)
      /\ output \in Seq(Tokens) /\ Len(output) = prefixLen
      /\ x \in prefixLen - 1 .. end - 1
  BY CoreTreeFacts DEF CoreInv, TextInv, Submitted
<1>3. /\ F \in Seq(Tokens) /\ Len(output') = Cardinality(tree[x].row) + 1
      /\ output' = output \o F
  BY <1>1 DEF Taken, Extends, Reconcile, Reconciled, Advance
<1>4. /\ Cardinality(tree[x].row) \in Nat
      /\ Cardinality(tree[x].row) >= prefixLen /\ Cardinality(tree[x].row) <= end
  <2>1. Cardinality(tree[x].row) = tree[x].pos + 1 /\ tree[x].pos \in Nat
    BY <1>2, PathFacts
  <2> QED
    BY <1>2, <2>1, PathFacts
<1> HIDE DEF F
<1>6. /\ Len(F) \in Nat /\ Len(output \o F) = Len(output) + Len(F)
      /\ \A k \in 1 .. Len(output) : (output \o F)[k] = output[k]
      /\ \A k \in 1 .. Len(F) : (output \o F)[Len(output) + k] = F[k]
  BY <1>2, <1>3, JoinedText
<1>7. Len(F) >= 1 /\ Len(F) <= end - prefixLen + 1
  BY <1>2, <1>3, <1>4, <1>6
<1> QED
  BY <1>2, <1>3, <1>6, <1>7 DEF F

LEMMA DecodeStep ==
  ASSUME CoreInv, DecodeInv, [Next]_vars
  PROVE  DecodeInv'
<1>1. /\ prefixLen \in Nat /\ end \in Nat /\ prefixLen <= end /\ cfg.budget \in Nat
      /\ MaxNew \in Nat /\ Len(Prompt) \in Nat
  BY CoreTreeFacts, ConfigFacts, MaxNewAssumption DEF CoreInv, TreeInv
<1>2. CASE Submit
  <2>1. Cardinality(Drafted) = end - prefixLen
    <3>1. prefixLen \in Int /\ end - 1 \in Int
      BY <1>1
    <3>2. Cardinality(Drafted) = IF prefixLen > end - 1 THEN 0 ELSE (end - 1) - prefixLen + 1
      BY <3>1, FS_Interval DEF Drafted
    <3> QED
      BY <1>1, <3>2
  <2>2. /\ prefixLen' = prefixLen /\ cfg' = cfg /\ goal' = goal
        /\ \/ end' = end /\ ~BudgetMet
           \/ end' = prefixLen + cfg.budget
    BY <1>2 DEF Submit, treeVars
  <2> QED
    BY <1>1, <2>1, <2>2 DEF DecodeInv, BudgetMet
<1>3. CASE Reconcile
  <2>1. /\ phase' \in {"draft", "done"}
        /\ goal' = IF prefill THEN MaxNew + Len(Prompt) + Len(FreshTokens(Path, Bonus)) ELSE goal
    BY <1>3 DEF Reconcile, Reconciled, Advance
  <2>2. Len(FreshTokens(Path, Bonus)) \in Nat /\ Len(FreshTokens(Path, Bonus)) >= 1
    BY <1>3, TextGrows
  <2> QED
    BY <1>1, <2>1, <2>2 DEF DecodeInv, prefill
<1>4. CASE ~Submit /\ ~Reconcile
  <2>1. /\ goal' = goal
        /\ phase' \in {"predict", "forest", "wait"} =>
             phase \in {"predict", "forest", "wait"} /\ UNCHANGED <<end, prefixLen, cfg>>
    BY <1>4 DEF Next, Step, StartGrowing, GrowRound, Verify, VerifyFails, Replay, Predict,
                ForestRound, PlaceBets, ReorderRaises, Terminated, vars, treeVars
  <2> QED
    BY <2>1 DEF DecodeInv
<1> QED
  BY <1>2, <1>3, <1>4

\* The end of a cycle is a step of the greedy decoder.
LEMMA ReconcileDecodes ==
  ASSUME CoreInv, ReferenceInv, DecodeInv, ServerInv, ServerInv', Reconcile
  PROVE  Decoder!Verify
<1> DEFINE F == FreshTokens(Path, Bonus)
           n == Len(F)
           L == Len(output)
           P == Len(Prompt)
<1>1. /\ F \in Seq(Tokens) /\ n \in Nat /\ L \in Nat /\ Len(output') = L + n
      /\ \A k \in 1 .. L : output'[k] = output[k]
      /\ \A k \in 1 .. n : output'[L + k] = F[k]
      /\ n >= 1 /\ n <= end - prefixLen + 1 /\ end \in Nat /\ prefixLen \in Nat
      /\ output' \in Seq(Tokens)
  <2>1. \A s, t \in Seq(Tokens) : s \o t \in Seq(Tokens)
    OBVIOUS
  <2> QED
    BY <2>1, TextGrows
<1>2. /\ phase = "wait" /\ UNCHANGED <<cfg, reference>>
      /\ goal' = IF prefill THEN MaxNew + P + n ELSE goal
      /\ phase' = IF Len(output') < goal' /\ ~(~prefill /\ \E k \in DOMAIN F : F[k] = Eos)
                  THEN "draft" ELSE "done"
  BY DEF Reconcile, Reconciled, Advance
<1>3. /\ cfg.budget \in Nat /\ MaxNew \in Nat /\ P \in Nat /\ P > 1 /\ goal \in Nat
      /\ end <= prefixLen + cfg.budget /\ (goal # 0 => goal > MaxNew + P)
  <2>1. cfg.budget \in Nat /\ P \in Nat /\ P > 1
    BY ConfigFacts DEF CoreInv, TreeInv
  <2> QED
    BY <1>2, <2>1, MaxNewAssumption DEF CoreInv, TextInv, DecodeInv
<1>4. /\ L >= P
      /\ \A k \in P + 1 .. L + n :
           output'[k] = IF cfg.replay THEN Recorded(reference, k - 2)
                        ELSE Target(SubSeq(output', 1, k - 1))
  BY <1>1, <1>2 DEF ServerInv, OutputInv
<1>5. (reference = << >>) <=> ~cfg.replay
  <2>1. CASE cfg.replay
    <3>1. reference \in Recordings
      BY <2>1 DEF ReferenceInv
    <3>2. reference \in Seq(Tokens) /\ Len(reference) > P
      BY <3>1, RecordingsAssumption
    <3>3. Len(<< >>) = 0
      OBVIOUS
    <3> QED
      BY <1>3, <2>1, <3>2, <3>3
  <2>2. CASE ~cfg.replay
    BY <2>2 DEF ReferenceInv, NoTrace
  <2> QED
    BY <2>1, <2>2
<1>6. DOMAIN F = 1 .. n
  BY <1>1
<1> HIDE DEF F, n, L, P
<1>7. ASSUME NEW k \in L + 1 .. L + n
      PROVE  output'[k] = Decoder!NextToken(SubSeq(output', 1, k - 1))
  <2>1. /\ k \in Nat /\ k \in P + 1 .. L + n /\ k - 1 \in Nat /\ k - 1 <= Len(output')
        /\ (k - 2) + 2 = k /\ (k - 1) + 1 = k
    BY <1>1, <1>3, <1>4
  <2>2. Len(SubSeq(output', 1, k - 1)) = k - 1
    BY <1>1, <2>1, SubSeqProperties
  <2>3. CASE ~cfg.replay
    BY <1>4, <1>5, <2>1, <2>3 DEF Decoder!NextToken
  <2>4. CASE cfg.replay
    <3>1. Len(reference) \in Nat
      BY <2>4, RecordingsAssumption DEF ReferenceInv
    <3>2. k <= Len(reference) <=> k - 1 < Len(reference)
      BY <2>1, <3>1
    <3>3. output'[k] = IF k <= Len(reference) THEN reference[k] ELSE Eos
      BY <1>4, <2>1, <2>4 DEF Recorded
    <3> QED
      BY <1>5, <2>1, <2>2, <2>4, <3>2, <3>3 DEF Decoder!NextToken
  <2> QED
    BY <2>3, <2>4
<1>8. Decoder!Decodes(n)
  BY <1>1, <1>7 DEF Decoder!Decodes, L
<1> DEFINE W  == IF prefill THEN 0 ELSE goal - MaxNew - P
           W2 == IF goal' = 0 THEN 0 ELSE goal' - MaxNew - P
<1>9. /\ W2 = IF W = 0 THEN n ELSE W
      /\ W # 0 <=> ~prefill
      /\ goal' = P + W2 + MaxNew
  BY <1>1, <1>2, <1>3 DEF prefill
<1>10. (\E k \in DOMAIN F : F[k] = Eos) <=> \E k \in L + 1 .. L + n : output'[k] = Eos
  <2>1. ASSUME NEW k \in DOMAIN F, F[k] = Eos
        PROVE  \E i \in L + 1 .. L + n : output'[i] = Eos
    <3>1. k \in 1 .. n /\ L + k \in L + 1 .. L + n
      BY <1>1, <1>6, <2>1
    <3> QED
      BY <1>1, <2>1, <3>1
  <2>2. ASSUME NEW k \in L + 1 .. L + n, output'[k] = Eos
        PROVE  \E i \in DOMAIN F : F[i] = Eos
    <3>1. k - L \in 1 .. n /\ L + (k - L) = k
      BY <1>1
    <3>2. output'[L + (k - L)] = F[k - L]
      BY <1>1, <3>1
    <3> QED
      BY <1>6, <2>2, <3>1, <3>2
  <2> QED
    BY <2>1, <2>2
<1>11. phase' = "done" <=> \/ L + n >= P + W2 + MaxNew
                           \/ W # 0 /\ \E k \in L + 1 .. L + n : output'[k] = Eos
  <2>1. goal' \in Nat
    BY <1>1, <1>2, <1>3
  <2>2. Len(output') < goal' <=> ~(L + n >= goal')
    BY <1>1, <2>1
  <2> QED
    BY <1>2, <1>9, <1>10, <2>2
<1>12. (phase' = "done") = Decoder!Ends(n)
  BY <1>11 DEF Decoder!Ends, L, P, W, W2, prefill
<1>13. n \in 1 .. cfg.budget + 1
  BY <1>1, <1>3
<1>14. /\ UNCHANGED <<cfg.budget + 1, reference>> /\ phase # "done"
       /\ W2 = IF W = 0 THEN n ELSE W
  BY <1>2, <1>9
<1> QED
  BY <1>8, <1>12, <1>13, <1>14 DEF Decoder!Verify, W, W2, prefill, P

\* The safety part of ImplementsGreedyDecode: the text grows as the target, or
\* the trace, has it, a verification confirms at most the budget and one token,
\* and decoding is over exactly when it must be.
THEOREM SpecDecodeIsAGreedyDecoder == Spec => Decoder!Spec
<1>1. Init => Decoder!Init /\ DecodeInv
  <2> SUFFICES ASSUME Init PROVE Decoder!Init /\ DecodeInv
    OBVIOUS
  <2>1. cfg.budget \in Nat
    BY ConfigFacts DEF Init
  <2>2. cfg.budget + 1 \in Nat \ {0}
    BY <2>1
  <2>3. output = Prompt /\ prefill /\ phase \in {"draft", "failed"} /\ goal = 0
    BY DEF Init, prefill
  <2>4. reference \in Recordings \cup {<< >>}
    BY DEF Init, NoTrace
  <2> QED
    BY <2>2, <2>3, <2>4 DEF Decoder!Init, DecodeInv
<1>2. ASSUME CoreInv, ReferenceInv, DecodeInv, ServerInv, ServerInv', [Next]_vars
      PROVE  [Decoder!Verify]_(Decoder!vars)
  <2>1. CASE Reconcile
    BY <1>2, <2>1, ReconcileDecodes
  <2>2. CASE ~Reconcile
    <3>1. /\ UNCHANGED <<cfg, reference, output, goal>>
          /\ (phase' = "done") = (phase = "done")
      BY <1>2, <2>2 DEF Next, Step, StartGrowing, GrowRound, Submit, Verify, VerifyFails, Replay,
                        Predict, ForestRound, PlaceBets, ReorderRaises, Terminated, vars
    <3> QED
      BY <3>1 DEF Decoder!vars, prefill
  <2> QED
    BY <2>1, <2>2
<1>3. CoreInv /\ DecodeInv /\ [Next]_vars => DecodeInv'
  BY DecodeStep
<1> QED
  BY <1>1, <1>2, <1>3, TextInTree, ServerKnowsText, PTL DEF Spec, Decoder!Spec
=============================================================================
