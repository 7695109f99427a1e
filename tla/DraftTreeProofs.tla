-------------------------- MODULE DraftTreeProofs --------------------------
(***************************************************************************)
(* What the operators of DraftTree do, for every tree, cache and set of    *)
(* slots: the facts that the proofs about the programs that draft into     *)
(* such a tree rest on.                                                    *)
(***************************************************************************)
EXTENDS DraftTree, FiniteSetTheorems, TLAPS

(***************************************************************************)
(* Finite sets of numbers in ascending order: Rank and Nth.                *)
(***************************************************************************)

\* The elements of a set below a bound are finitely many.
LEMMA RankBounds ==
  ASSUME NEW S \in SUBSET Int, IsFiniteSet(S), NEW x \in Int
  PROVE  /\ Rank(S, x) \in Nat
         /\ Rank(S, x) <= Cardinality(S)
         /\ Cardinality(S) \in Nat
         /\ x \in S => Rank(S, x) < Cardinality(S)
<1> DEFINE B == {y \in S : y < x}
<1>1. B \in SUBSET S
  OBVIOUS
<1>2. /\ IsFiniteSet(B)
      /\ Cardinality(B) <= Cardinality(S)
      /\ Cardinality(S) = Cardinality(B) => S = B
  BY <1>1, FS_Subset
<1>3. Cardinality(B) \in Nat /\ Cardinality(S) \in Nat
  BY <1>2, FS_CardinalityType
<1>4. x \in S => S # B
  OBVIOUS
<1> QED
  BY <1>2, <1>3, <1>4 DEF Rank

\* Rank grows with its argument, strictly where it passes an element.
LEMMA RankGrows ==
  ASSUME NEW S \in SUBSET Int, IsFiniteSet(S), NEW x \in Int, NEW y \in Int, x <= y
  PROVE  /\ Rank(S, x) <= Rank(S, y)
         /\ x \in S /\ x < y => Rank(S, x) < Rank(S, y)
<1> DEFINE A == {z \in S : z < x}
           B == {z \in S : z < y}
<1>1. A \in SUBSET B /\ B \in SUBSET S
  <2>1. \A z \in S : z \in Int /\ (z < x => z < y)
    OBVIOUS
  <2> QED
    BY <2>1
<1>2. IsFiniteSet(B)
  BY <1>1, FS_Subset
<1>3. /\ IsFiniteSet(A)
      /\ Cardinality(A) <= Cardinality(B)
      /\ Cardinality(B) = Cardinality(A) => B = A
  BY <1>1, <1>2, FS_Subset
<1>4. Cardinality(A) \in Nat /\ Cardinality(B) \in Nat
  BY <1>2, <1>3, FS_CardinalityType
<1>5. x \in S /\ x < y => x \in B /\ x \notin A
  OBVIOUS
<1> QED
  BY <1>3, <1>4, <1>5 DEF Rank

\* Two elements of a set with the same place are the same element.
LEMMA RankIsInjective ==
  ASSUME NEW S \in SUBSET Int, IsFiniteSet(S), NEW x \in S, NEW y \in S,
         Rank(S, x) = Rank(S, y)
  PROVE  x = y
<1>1. ~(x < y)
  BY RankGrows, RankBounds
<1>2. ~(y < x)
  BY RankGrows, RankBounds
<1> QED
  BY <1>1, <1>2

\* Every place of a set, from 0 on, has its element, and Nth is that element.
LEMMA NthIsMember ==
  ASSUME NEW S \in SUBSET Int, IsFiniteSet(S), NEW n \in 0 .. Cardinality(S) - 1
  PROVE  Nth(S, n) \in S /\ Rank(S, Nth(S, n)) = n
<1> DEFINE c == Cardinality(S)
           f == [x \in S |-> Rank(S, x)]
<1>1. c \in Nat /\ \A x \in S : Rank(S, x) \in 0 .. c - 1
  BY RankBounds, FS_CardinalityType
<1>2. IsFiniteSet(0 .. c - 1) /\ Cardinality(0 .. c - 1) = c
  BY <1>1, FS_Interval
<1>3. f \in [S -> 0 .. c - 1]
  BY <1>1
<1>4. f \in Injection(S, 0 .. c - 1)
  BY <1>3, RankIsInjective DEF Injection, IsInjective
<1>5. f \in Surjection(S, 0 .. c - 1)
  BY <1>2, <1>4, FS_Injection
<1>6. \E x \in S : f[x] = n
  BY <1>5 DEF Surjection
<1>7. \E x \in S : Rank(S, x) = n
  BY <1>6
<1> QED
  BY <1>7 DEF Nth

\* An element is the one at its own place.
LEMMA NthOfRank ==
  ASSUME NEW S \in SUBSET Int, IsFiniteSet(S), NEW x \in S
  PROVE  Rank(S, x) \in 0 .. Cardinality(S) - 1 /\ Nth(S, Rank(S, x)) = x
<1>1. Rank(S, x) \in 0 .. Cardinality(S) - 1
  BY RankBounds
<1>2. Nth(S, Rank(S, x)) \in S /\ Rank(S, Nth(S, Rank(S, x))) = Rank(S, x)
  BY <1>1, NthIsMember
<1>3. \A y \in S : Rank(S, y) = Rank(S, x) => y = x
  BY RankIsInjective
<1> QED
  BY <1>1, <1>2, <1>3

\* Nth lists a set in ascending order.
LEMMA NthGrows ==
  ASSUME NEW S \in SUBSET Int, IsFiniteSet(S),
         NEW m \in 0 .. Cardinality(S) - 1, NEW n \in 0 .. Cardinality(S) - 1, m < n
  PROVE  Nth(S, m) < Nth(S, n)
<1>1. /\ Nth(S, m) \in S /\ Rank(S, Nth(S, m)) = m
      /\ Nth(S, n) \in S /\ Rank(S, Nth(S, n)) = n
  BY NthIsMember
<1>2. CASE Nth(S, n) <= Nth(S, m)
  <2>1. Rank(S, Nth(S, n)) <= Rank(S, Nth(S, m))
    BY <1>1, <1>2, RankGrows
  <2> QED
    BY <2>1, <1>1
<1>3. Nth(S, m) \in Int /\ Nth(S, n) \in Int
  BY <1>1
<1> QED
  BY <1>2, <1>3

\* The least element of a set.
LEMMA MinIsLeast ==
  ASSUME NEW S \in SUBSET Int, IsFiniteSet(S), S # {}
  PROVE  Min(S) \in S /\ \A y \in S : Min(S) <= y
<1> DEFINE x == Nth(S, 0)
<1>1. Cardinality(S) \in Nat /\ Cardinality(S) # 0
  BY FS_CardinalityType, FS_EmptySet
<1>2. x \in S /\ Rank(S, x) = 0
  BY <1>1, NthIsMember
<1> HIDE DEF x
<1>3. {y \in S : y < x} = {}
  <2>1. IsFiniteSet({y \in S : y < x})
    BY FS_Subset
  <2> QED
    BY <1>2, <2>1, FS_EmptySet DEF Rank
<1>4. x \in S /\ \A y \in S : x <= y
  BY <1>2, <1>3
<1> QED
  BY <1>4 DEF Min

\* The greatest element of a set.
LEMMA GreatestExists ==
  ASSUME NEW S \in SUBSET Int, IsFiniteSet(S), S # {}
  PROVE  \E x \in S : \A y \in S : y <= x
<1> DEFINE c == Cardinality(S)
           x == Nth(S, c - 1)
<1>1. c \in Nat /\ c # 0
  BY FS_CardinalityType, FS_EmptySet
<1>2. x \in S /\ x \in Int /\ Rank(S, x) = c - 1
  <2>1. x \in S /\ Rank(S, x) = c - 1
    BY <1>1, NthIsMember
  <2> QED
    BY <2>1
<1>3. ASSUME NEW y \in S
      PROVE  y <= x
  <2>1. y \in Int /\ Rank(S, y) \in Nat /\ Rank(S, y) < c
    BY RankBounds
  <2>2. x < y => Rank(S, x) < Rank(S, y)
    BY <1>2, <2>1, RankGrows
  <2> HIDE DEF x, c
  <2> QED
    BY <1>1, <1>2, <2>1, <2>2
<1> QED
  BY <1>2, <1>3

(***************************************************************************)
(* Trees.  In the slots below `end' every node attends to a path: to       *)
(* itself, to nothing behind it, and to what each of the nodes it attends  *)
(* to attends to.  Its position is its place on that path.                 *)
(***************************************************************************)
IsTree(tr, end) ==
  /\ tr \in [Slots -> Nodes]
  /\ \A n \in 0 .. end - 1 :
       /\ n \in tr[n].row /\ tr[n].row \subseteq 0 .. n
       /\ tr[n].pos = Cardinality(tr[n].row) - 1
       /\ \A j \in tr[n].row : tr[j].row = tr[n].row \cap 0 .. j

\* The rows of a tree are finite.
LEMMA RowIsFinite ==
  ASSUME NEW n \in Nat, NEW row \in SUBSET (0 .. n)
  PROVE  IsFiniteSet(row) /\ Cardinality(row) \in Nat /\ row \in SUBSET Int
<1>1. IsFiniteSet(0 .. n)
  BY FS_Interval
<1>2. IsFiniteSet(row)
  BY <1>1, FS_Subset
<1>3. row \in SUBSET Int
  OBVIOUS
<1> QED
  BY <1>2, <1>3, FS_CardinalityType

\* On the path of a node the position of a slot is its rank: the slots of a
\* path are in the order of their positions, and these are 0, 1, 2 and so on.
LEMMA PathInOrder ==
  ASSUME NEW tr, NEW end \in 0 .. MaxLen, IsTree(tr, end), NEW n \in 0 .. end - 1
  PROVE  /\ IsFiniteSet(tr[n].row) /\ Cardinality(tr[n].row) \in Nat
         /\ tr[n].row \in SUBSET Int
         /\ tr[n].pos \in Nat /\ Cardinality(tr[n].row) = tr[n].pos + 1
         /\ \A j \in tr[n].row : tr[j].pos = Rank(tr[n].row, j)
<1> DEFINE row == tr[n].row
<1>1. /\ n \in Nat /\ row \in SUBSET (0 .. n)
      /\ \A j \in row : tr[j].row = row \cap 0 .. j
  BY SizesAssumption DEF IsTree, Slots
<1>2. IsFiniteSet(row) /\ Cardinality(row) \in Nat /\ row \in SUBSET Int
  BY <1>1, RowIsFinite
<1>3. ASSUME NEW j \in row
      PROVE  tr[j].pos = Rank(row, j)
  <2> DEFINE B == {y \in row : y < j}
  <2>1. j \in 0 .. n /\ j \in 0 .. end - 1
    BY <1>1, SizesAssumption
  <2>2. tr[j].pos = Cardinality(row \cap 0 .. j) - 1
    BY <1>1, <2>1 DEF IsTree
  <2>3. row \cap 0 .. j = B \cup {j} /\ j \notin B
    BY <1>1, <2>1
  <2>4. IsFiniteSet(B) /\ Cardinality(B) \in Nat
    BY <1>2, FS_Subset, FS_CardinalityType
  <2>5. Cardinality(B \cup {j}) = Cardinality(B) + 1
    BY <2>3, <2>4, FS_AddElement
  <2>6. Rank(row, j) = Cardinality(B)
    BY DEF Rank
  <2>7. Cardinality(row \cap 0 .. j) = Cardinality(B \cup {j})
    BY <2>3
  <2> HIDE DEF B, row
  <2> QED
    BY <2>2, <2>4, <2>5, <2>6, <2>7
<1>4. tr[n].pos = Cardinality(row) - 1 /\ Cardinality(row) # 0
  <2>1. n \in row /\ tr[n].pos = Cardinality(row) - 1
    BY DEF IsTree
  <2> QED
    BY <2>1, <1>2, FS_EmptySet
<1> HIDE DEF row
<1>5. tr[n].pos \in Nat /\ Cardinality(row) = tr[n].pos + 1
  BY <1>2, <1>4
<1> QED
  BY <1>2, <1>3, <1>5 DEF row

\* The part of a set up to one of its elements has the same elements at the
\* same places.
LEMMA RankInPrefix ==
  ASSUME NEW S \in SUBSET Nat, IsFiniteSet(S), NEW j \in S, NEW i \in S \cap 0 .. j
  PROVE  Rank(S \cap 0 .. j, i) = Rank(S, i)
<1>1. i \in Nat /\ j \in Nat /\ i <= j
  OBVIOUS
<1>2. ASSUME NEW y \in S, y < i
      PROVE  y \in 0 .. j
  <2>1. y \in Nat
    OBVIOUS
  <2> QED
    BY <1>1, <1>2, <2>1
<1>3. {y \in S \cap 0 .. j : y < i} = {y \in S : y < i}
  BY <1>2
<1> QED
  BY <1>3 DEF Rank

\* At every place of a node's path there is one slot, with that position: its
\* context, the tokens along the path, is well defined.
LEMMA PathHasPositions ==
  ASSUME NEW tr, NEW end \in 0 .. MaxLen, IsTree(tr, end), NEW n \in 0 .. end - 1
  PROVE  /\ {tr[j].pos : j \in tr[n].row} = 0 .. Cardinality(tr[n].row) - 1
         /\ \A i, j \in tr[n].row : tr[i].pos = tr[j].pos => i = j
         /\ \A i, j \in tr[n].row : tr[i].pos <= tr[j].pos <=> i <= j
<1> DEFINE row == tr[n].row
<1>1. /\ IsFiniteSet(row) /\ Cardinality(row) \in Nat /\ row \in SUBSET Int
      /\ \A j \in row : tr[j].pos = Rank(row, j)
  BY PathInOrder
<1> HIDE DEF row
<1>2. \A j \in row : tr[j].pos \in 0 .. Cardinality(row) - 1
  BY <1>1, RankBounds
<1>3. ASSUME NEW p \in 0 .. Cardinality(row) - 1
      PROVE  \E j \in row : tr[j].pos = p
  BY <1>1, NthIsMember
<1>4. \A i, j \in row : tr[i].pos = tr[j].pos => i = j
  BY <1>1, RankIsInjective
<1>5. ASSUME NEW i \in row, NEW j \in row
      PROVE  tr[i].pos <= tr[j].pos <=> i <= j
  <2>1. i \in Int /\ j \in Int /\ tr[i].pos \in Int /\ tr[j].pos \in Int
    BY <1>1, <1>2
  <2>2. i <= j => tr[i].pos <= tr[j].pos
    BY <1>1, <2>1, RankGrows
  <2>3. j < i => tr[j].pos < tr[i].pos
    BY <1>1, <2>1, RankGrows
  <2> QED
    BY <2>1, <2>2, <2>3
<1>6. {tr[j].pos : j \in row} = 0 .. Cardinality(row) - 1
  BY <1>2, <1>3
<1> QED
  BY <1>4, <1>5, <1>6 DEF row

\* The context of a node: what the models are asked about when they are asked
\* what comes after it.
Context(tr, n) == Along(tr, tr[n].row)

\* The slot on the path of n that has position p.
OnPath(tr, n, p) == CHOOSE j \in tr[n].row : tr[j].pos = p

LEMMA OnPathIsThere ==
  ASSUME NEW tr, NEW end \in 0 .. MaxLen, IsTree(tr, end), NEW n \in 0 .. end - 1,
         NEW p \in 0 .. Cardinality(tr[n].row) - 1
  PROVE  /\ OnPath(tr, n, p) \in tr[n].row /\ tr[OnPath(tr, n, p)].pos = p
         /\ \A j \in tr[n].row : tr[j].pos = p => j = OnPath(tr, n, p)
<1>1. \E j \in tr[n].row : tr[j].pos = p
  <2>1. {tr[j].pos : j \in tr[n].row} = 0 .. Cardinality(tr[n].row) - 1
    BY PathHasPositions
  <2> QED
    BY <2>1
<1>2. \A i, j \in tr[n].row : tr[i].pos = tr[j].pos => i = j
  BY PathHasPositions
<1> QED
  BY <1>1, <1>2 DEF OnPath

\* A context is a text as long as the path, with the token of each of its
\* nodes at the place of its position.
LEMMA ContextIsText ==
  ASSUME NEW tr, NEW end \in 0 .. MaxLen, IsTree(tr, end), NEW n \in 0 .. end - 1
  PROVE  /\ Context(tr, n) \in Seq(Tokens)
         /\ Len(Context(tr, n)) = tr[n].pos + 1
         /\ tr[n].pos \in Nat
         /\ \A j \in tr[n].row : /\ tr[j].pos \in 0 .. tr[n].pos
                                 /\ Context(tr, n)[tr[j].pos + 1] = tr[j].tok
<1> DEFINE c == Cardinality(tr[n].row)
<1>1. c \in Nat /\ n \in tr[n].row /\ c = tr[n].pos + 1
  BY PathInOrder, SizesAssumption DEF IsTree
<1>2. ASSUME NEW p \in 1 .. c
      PROVE  /\ OnPath(tr, n, p - 1) \in tr[n].row
             /\ tr[OnPath(tr, n, p - 1)].tok \in Tokens
  <2>1. OnPath(tr, n, p - 1) \in tr[n].row
    BY <1>1, OnPathIsThere
  <2>2. OnPath(tr, n, p - 1) \in Slots
    BY <2>1, SizesAssumption DEF IsTree, Slots
  <2> QED
    BY <2>1, <2>2 DEF IsTree, Nodes
<1>3. Context(tr, n) = [p \in 1 .. c |-> tr[OnPath(tr, n, p - 1)].tok]
  BY DEF Context, Along, OnPath
<1>4. Context(tr, n) \in Seq(Tokens) /\ Len(Context(tr, n)) = c
  BY <1>1, <1>2, <1>3
<1>5. ASSUME NEW j \in tr[n].row
      PROVE  tr[j].pos \in 0 .. c - 1 /\ Context(tr, n)[tr[j].pos + 1] = tr[j].tok
  <2>1. tr[j].pos \in 0 .. c - 1
    BY PathHasPositions
  <2>2. j = OnPath(tr, n, tr[j].pos)
    BY <2>1, OnPathIsThere
  <2> QED
    BY <1>1, <1>3, <2>1, <2>2
<1> HIDE DEF c
<1> QED
  BY <1>1, <1>4, <1>5

\* Two nodes, of one tree or of two, have the same context as far as one of
\* them goes if what lies on its path also lies on the path of the other.
LEMMA ContextsMatch ==
  ASSUME NEW tr, NEW end \in 0 .. MaxLen, IsTree(tr, end), NEW n \in 0 .. end - 1,
         NEW tr2, NEW end2 \in 0 .. MaxLen, IsTree(tr2, end2), NEW m \in 0 .. end2 - 1,
         tr[n].pos <= tr2[m].pos,
         \A j \in tr[n].row : \E i \in tr2[m].row : tr2[i].pos = tr[j].pos /\ tr2[i].tok = tr[j].tok
  PROVE  Context(tr, n) = SubSeq(Context(tr2, m), 1, tr[n].pos + 1)
<1> DEFINE s == Context(tr, n)
           t == Context(tr2, m)
           c == tr[n].pos + 1
<1>1. /\ s \in Seq(Tokens) /\ Len(s) = c
      /\ t \in Seq(Tokens) /\ Len(t) = tr2[m].pos + 1
      /\ tr[n].pos \in Nat /\ tr2[m].pos \in Nat
  BY ContextIsText
<1>2. ASSUME NEW k \in 1 .. c
      PROVE  s[k] = t[k]
  <2>1. Cardinality(tr[n].row) = c /\ c \in Nat
    BY PathInOrder
  <2>2. PICK j \in tr[n].row : tr[j].pos = k - 1
    <3>1. k - 1 \in 0 .. Cardinality(tr[n].row) - 1
      BY <2>1
    <3> QED
      BY <3>1, OnPathIsThere
  <2>3. s[tr[j].pos + 1] = tr[j].tok
    BY ContextIsText
  <2>4. PICK i \in tr2[m].row : tr2[i].pos = tr[j].pos /\ tr2[i].tok = tr[j].tok
    OBVIOUS
  <2>5. t[tr2[i].pos + 1] = tr2[i].tok
    BY ContextIsText
  <2> QED
    BY <1>1, <2>2, <2>3, <2>4, <2>5
<1> HIDE DEF s, t
<1>3. c \in Nat /\ c <= Len(t)
  <2>1. tr[n].pos \in Nat /\ tr2[m].pos \in Nat /\ Len(t) = tr2[m].pos + 1
    BY <1>1
  <2>2. \A a, b \in Nat : a <= b => a + 1 \in Nat /\ a + 1 <= b + 1
    OBVIOUS
  <2> QED
    BY <2>1, <2>2
<1> HIDE DEF c
<1>4. SubSeq(t, 1, c) = [k \in 1 .. c |-> t[k]]
  BY <1>1, <1>3
<1>5. s = [k \in 1 .. c |-> s[k]]
  BY <1>1, <1>3
<1>6. s = SubSeq(t, 1, c)
  BY <1>2, <1>4, <1>5
<1> QED
  BY <1>6 DEF s, t, c

\* What is before a node on its path is the context of a node on the path.
LEMMA ContextOfAncestor ==
  ASSUME NEW tr, NEW end \in 0 .. MaxLen, IsTree(tr, end), NEW n \in 0 .. end - 1,
         NEW j \in tr[n].row
  PROVE  /\ j \in 0 .. end - 1
         /\ Context(tr, j) = SubSeq(Context(tr, n), 1, tr[j].pos + 1)
<1>1. j \in 0 .. end - 1 /\ tr[j].row \subseteq tr[n].row
  BY SizesAssumption DEF IsTree
<1>2. tr[j].pos <= tr[n].pos
  BY ContextIsText
<1> QED
  BY <1>1, <1>2, ContextsMatch

\* A node that attends to everything up to itself has all of it as context.
LEMMA ContextOfPrefix ==
  ASSUME NEW tr, NEW end \in 0 .. MaxLen, IsTree(tr, end), NEW n \in 0 .. end - 1,
         tr[n].row = 0 .. n
  PROVE  /\ tr[n].pos = n
         /\ Context(tr, n) = [k \in 1 .. n + 1 |-> tr[k - 1].tok]
<1>1. n \in Nat /\ Cardinality(0 .. n) = n + 1
  BY FS_Interval, SizesAssumption
<1>2. tr[n].pos = n
  BY <1>1 DEF IsTree
<1>3. ASSUME NEW j \in 0 .. n
      PROVE  tr[j].pos = j
  <2>1. Cardinality(0 .. j) = j + 1
    BY FS_Interval
  <2>2. j \in 0 .. end - 1 /\ j \in Nat
    BY SizesAssumption
  <2>3. tr[j].row = (0 .. n) \cap 0 .. j
    BY DEF IsTree
  <2>4. tr[j].row = 0 .. j
    BY <2>3, <1>1
  <2> QED
    BY <2>1, <2>2, <2>4 DEF IsTree
<1>4. /\ Context(tr, n) \in Seq(Tokens)
      /\ Len(Context(tr, n)) = n + 1
      /\ \A j \in 0 .. n : Context(tr, n)[j + 1] = tr[j].tok
  <2>1. /\ Context(tr, n) \in Seq(Tokens) /\ Len(Context(tr, n)) = tr[n].pos + 1
        /\ \A j \in tr[n].row : /\ tr[j].pos \in 0 .. tr[n].pos
                                /\ Context(tr, n)[tr[j].pos + 1] = tr[j].tok
    BY ContextIsText
  <2> QED
    BY <1>2, <1>3, <2>1
<1>5. \A k \in 1 .. n + 1 : Context(tr, n)[k] = tr[k - 1].tok
  <2> TAKE k \in 1 .. n + 1
  <2>1. k - 1 \in 0 .. n /\ (k - 1) + 1 = k
    BY <1>1
  <2> QED
    BY <1>4, <2>1
<1> QED
  BY <1>1, <1>2, <1>4, <1>5

\* A key stands for one parent and one token.
LEMMA KeyParts ==
  ASSUME NEW p \in Nat, NEW t \in Tokens
  PROVE  Key(p, t) \in Nat /\ ParentOf(Key(p, t)) = p /\ TokenOf(Key(p, t)) = t
<1> DEFINE N == NTokens
           k == p * N + t
           q == k \div N
           r == k % N
<1>1. N \in Nat /\ N > 0 /\ t \in 0 .. N - 1
  BY SizesAssumption DEF Tokens
<1>2. p * N \in Nat
  BY <1>1
<1>3. k \in Nat
  BY <1>1, <1>2
<1>4. q \in Int /\ r \in 0 .. N - 1 /\ k = N * q + r
  BY <1>1, <1>3
<1> HIDE DEF q, r, N
<1>5. \A a, b \in Int : a < b => N * a + N <= N * b
  BY <1>1
<1>6. q = p
  <2>1. N * q + r = N * p + t
    BY <1>1, <1>4
  <2>2. N * q \in Int /\ N * p \in Int
    BY <1>1, <1>4
  <2>3. ~(q < p)
    BY <2>1, <2>2, <1>1, <1>4, <1>5
  <2>4. ~(p < q)
    BY <2>1, <2>2, <1>1, <1>4, <1>5
  <2> QED
    BY <2>3, <2>4, <1>4
<1>7. r = t
  BY <1>1, <1>4, <1>6
<1> QED
  BY <1>3, <1>6, <1>7 DEF Key, ParentOf, TokenOf, q, r, N

\* Add leaves the slots below end as they are, gives each child its parent's
\* path and itself, and what it makes is a tree up to the new end.
LEMMA AddMakesTree ==
  ASSUME NEW tr, NEW end \in 0 .. MaxLen, IsTree(tr, end),
         NEW keys \in SUBSET Nat, IsFiniteSet(keys), NEW st \in Status,
         end + Cardinality(keys) <= MaxLen,
         \A k \in keys : ParentOf(k) \in 0 .. end - 1 /\ TokenOf(k) \in Tokens
  PROVE  /\ IsTree(Add(tr, end, keys, st), end + Cardinality(keys))
         /\ \A n \in Slots \ (end .. (end + Cardinality(keys)) - 1) :
              Add(tr, end, keys, st)[n] = tr[n]
         /\ \A n \in end .. (end + Cardinality(keys)) - 1 :
              \E k \in keys :
                /\ k = Nth(keys, n - end)
                /\ Add(tr, end, keys, st)[n] =
                     [tok |-> TokenOf(k), par |-> ParentOf(k), pos |-> tr[ParentOf(k)].pos + 1,
                      st |-> st, row |-> tr[ParentOf(k)].row \cup {n}]
<1> DEFINE c   == Cardinality(keys)
           new == Add(tr, end, keys, st)
           Child(n, k) ==
             [tok |-> TokenOf(k), par |-> ParentOf(k), pos |-> tr[ParentOf(k)].pos + 1,
              st |-> st, row |-> tr[ParentOf(k)].row \cup {n}]
<1>1. c \in Nat /\ end \in Nat /\ MaxLen \in Nat /\ end + c <= MaxLen
  BY FS_CardinalityType, SizesAssumption
<1>2. new = [n \in Slots |->
               IF n \in end .. end + c - 1
               THEN LET key == Nth(keys, n - end)
                        par == ParentOf(key)
                    IN  [tok |-> TokenOf(key), par |-> par, pos |-> tr[par].pos + 1,
                         st |-> st, row |-> (tr[par].row \cap 0 .. end - 1) \cup {n}]
               ELSE tr[n]]
  BY DEF Add
<1> HIDE DEF new, c
<1>3. \A n \in Slots \ (end .. end + c - 1) : new[n] = tr[n]
  BY <1>2
<1>4. ASSUME NEW n \in end .. end + c - 1
      PROVE  Nth(keys, n - end) \in keys /\ new[n] = Child(n, Nth(keys, n - end))
  <2>1. n - end \in 0 .. c - 1 /\ n \in Slots
    BY <1>1 DEF Slots
  <2>2. Nth(keys, n - end) \in keys
    BY <2>1, NthIsMember DEF c
  <2>3. ParentOf(Nth(keys, n - end)) \in 0 .. end - 1
    BY <2>2
  <2>4. tr[ParentOf(Nth(keys, n - end))].row \subseteq 0 .. end - 1
    BY <2>3, <1>1 DEF IsTree
  <2>5. tr[ParentOf(Nth(keys, n - end))].row \cap 0 .. end - 1
          = tr[ParentOf(Nth(keys, n - end))].row
    BY <2>4
  <2> QED
    BY <1>2, <2>1, <2>2, <2>5
<1>5. \A k \in keys : /\ ParentOf(k) \in 0 .. end - 1 /\ ParentOf(k) \in Slots
                      /\ tr[ParentOf(k)].pos \in Nat /\ tr[ParentOf(k)].row \subseteq 0 .. end - 1
                      /\ IsFiniteSet(tr[ParentOf(k)].row)
                      /\ Cardinality(tr[ParentOf(k)].row) = tr[ParentOf(k)].pos + 1
  <2> TAKE k \in keys
  <2>1. ParentOf(k) \in 0 .. end - 1
    OBVIOUS
  <2>2. ParentOf(k) \in Slots
    BY <2>1, <1>1 DEF Slots
  <2>3. tr[ParentOf(k)].row \subseteq 0 .. end - 1
    BY <2>1, <1>1 DEF IsTree
  <2> QED
    BY <2>1, <2>2, <2>3, PathInOrder
<1>6. new \in [Slots -> Nodes]
  <2>1. ASSUME NEW n \in Slots
        PROVE  new[n] \in Nodes
    <3>1. CASE n \in end .. end + c - 1
      <4> DEFINE k == Nth(keys, n - end)
      <4>1. k \in keys /\ new[n] = Child(n, k)
        BY <1>4, <3>1
      <4> HIDE DEF k
      <4>2. TokenOf(k) \in Tokens /\ ParentOf(k) \in Slots /\ tr[ParentOf(k)].pos + 1 \in Nat
        BY <4>1, <1>5
      <4>3. tr[ParentOf(k)].row \cup {n} \in SUBSET Slots
        BY <4>1, <1>5, <1>1 DEF Slots
      <4> QED
        BY <4>1, <4>2, <4>3 DEF Nodes
    <3>2. CASE n \notin end .. end + c - 1
      BY <3>2, <1>3 DEF IsTree
    <3> QED
      BY <3>1, <3>2
  <2> QED
    BY <2>1, <1>2
<1> DEFINE e == end + c
           Good(n) == /\ n \in new[n].row /\ new[n].row \subseteq 0 .. n
                      /\ new[n].pos = Cardinality(new[n].row) - 1
                      /\ \A j \in new[n].row : new[j].row = new[n].row \cap 0 .. j
<1>7. ASSUME NEW n \in 0 .. e - 1
      PROVE  Good(n)
  <2>1. \A m \in 0 .. end - 1 : new[m] = tr[m] /\ tr[m].row \subseteq 0 .. m
    BY <1>3, <1>1 DEF IsTree, Slots
  <2>2. CASE n \in 0 .. end - 1
    <3>1. /\ n \in tr[n].row
          /\ tr[n].pos = Cardinality(tr[n].row) - 1
          /\ \A j \in tr[n].row : tr[j].row = tr[n].row \cap 0 .. j
      BY <2>2 DEF IsTree
    <3>2. \A j \in tr[n].row : j \in 0 .. end - 1
      BY <2>1, <2>2, <1>1
    <3> QED
      BY <2>1, <2>2, <3>1, <3>2
  <2>3. CASE n \in end .. end + c - 1
    <3> DEFINE k   == Nth(keys, n - end)
               par == ParentOf(k)
    <3>1. k \in keys /\ new[n] = Child(n, k)
      BY <1>4, <2>3
    <3>2. /\ par \in 0 .. end - 1 /\ tr[par].row \subseteq 0 .. end - 1
          /\ IsFiniteSet(tr[par].row) /\ Cardinality(tr[par].row) = tr[par].pos + 1
          /\ tr[par].pos \in Nat
      BY <3>1, <1>5
    <3>3. new[n].row = tr[par].row \cup {n} /\ new[n].pos = tr[par].pos + 1
      BY <3>1
    <3> HIDE DEF k, par
    <3>4. n \notin tr[par].row /\ new[n].row \subseteq 0 .. n
      BY <2>3, <3>2, <3>3, <1>1
    <3>5. Cardinality(new[n].row) = tr[par].pos + 2
      <4>1. Cardinality(tr[par].row \cup {n}) = Cardinality(tr[par].row) + 1
        BY <3>2, <3>4, FS_AddElement
      <4> QED
        BY <4>1, <3>2, <3>3
    <3>6. ASSUME NEW j \in new[n].row
          PROVE  new[j].row = new[n].row \cap 0 .. j
      <4>1. CASE j = n
        BY <4>1, <3>4
      <4>2. CASE j \in tr[par].row
        <5>1. tr[j].row = tr[par].row \cap 0 .. j
          BY <4>2, <3>2 DEF IsTree
        <5>2. j \in 0 .. end - 1 /\ n \notin 0 .. j
          BY <4>2, <3>2, <2>3, <1>1
        <5> QED
          BY <5>1, <5>2, <2>1, <3>3
      <4> QED
        BY <4>1, <4>2, <3>3
    <3> QED
      BY <3>2, <3>3, <3>4, <3>5, <3>6
  <2> QED
    BY <2>2, <2>3, <1>1
<1>8. IsTree(new, e)
  <2> HIDE DEF e
  <2>1. \A n \in 0 .. e - 1 : Good(n)
    BY <1>7
  <2> QED
    BY <1>6, <2>1 DEF IsTree
<1>9. end + c - 1 = (end + c) - 1
  BY <1>1
<1>10. /\ \A n \in Slots \ (end .. (end + c) - 1) : new[n] = tr[n]
       /\ \A n \in end .. (end + c) - 1 :
            \E k \in keys : k = Nth(keys, n - end) /\ new[n] = Child(n, k)
  BY <1>3, <1>4, <1>9
<1> QED
  BY <1>8, <1>10 DEF new, c

\* The nodes to keep come with everything they attend to from a base slot on;
\* each gets one of the slots from there on, behind what it attends to.
Places(tr, kept, dest, base) ==
  /\ dest \in [kept -> base .. (base + Cardinality(kept)) - 1]
  /\ \A s, t \in kept : dest[s] = dest[t] => s = t
  /\ \A s \in kept : \A c \in tr[s].row :
       c >= base => c \in kept /\ (c # s => dest[c] < dest[s])

\* What a kept node becomes.
MovedNode(tr, kept, dest, base, s) ==
  [tr[s] EXCEPT
     !.par = IF tr[s].par \in kept THEN dest[tr[s].par] ELSE tr[s].par,
     !.row = (tr[s].row \cap 0 .. base - 1) \cup {dest[c] : c \in tr[s].row \cap kept}]

\* GatherTree then makes a tree of what is below the base and of the kept
\* nodes, which keep their tokens, their positions and their paths.
LEMMA GatherMakesTree ==
  ASSUME NEW tr, NEW end \in 0 .. MaxLen, IsTree(tr, end),
         NEW base \in 0 .. end, NEW kept \in SUBSET (base .. end - 1),
         NEW dest, Places(tr, kept, dest, base)
  PROVE  LET newEnd == base + Cardinality(kept)
             new    == GatherTree(tr, kept, dest, newEnd)
         IN  /\ newEnd \in 0 .. end
             /\ IsTree(new, newEnd)
             /\ \A n \in 0 .. base - 1 : new[n] = tr[n]
             /\ \A n \in base .. newEnd - 1 : \E s \in kept : dest[s] = n
             /\ \A s \in kept : new[dest[s]] = MovedNode(tr, kept, dest, base, s)
<1> DEFINE k      == Cardinality(kept)
           newEnd == base + k
           new    == GatherTree(tr, kept, dest, newEnd)
           Par(s) == IF tr[s].par \in kept THEN dest[tr[s].par] ELSE tr[s].par
           Row(s) == (tr[s].row \cap 0 .. base - 1) \cup {dest[c] : c \in tr[s].row \cap kept}
<1>p. /\ dest \in [kept -> base .. newEnd - 1]
      /\ \A s, t \in kept : dest[s] = dest[t] => s = t
  BY DEF Places
<1>q. \A s \in kept : \A c \in tr[s].row :
        c >= base => c \in kept /\ (c # s => dest[c] < dest[s])
  BY DEF Places
<1>1. /\ IsFiniteSet(kept) /\ k \in Nat /\ k <= end - base /\ base \in Nat /\ end \in Nat
      /\ MaxLen \in Nat /\ end <= MaxLen
  <2>1. base \in Nat /\ end \in Nat /\ MaxLen \in Nat /\ base <= end /\ end <= MaxLen
    BY SizesAssumption
  <2>2. /\ IsFiniteSet(base .. end - 1)
        /\ Cardinality(base .. end - 1) = IF base > end - 1 THEN 0 ELSE (end - 1) - base + 1
    BY <2>1, FS_Interval
  <2>3. IsFiniteSet(kept) /\ k <= Cardinality(base .. end - 1)
    BY <2>2, FS_Subset
  <2>4. k \in Nat
    BY <2>3, FS_CardinalityType
  <2> HIDE DEF k
  <2> QED
    BY <2>1, <2>2, <2>3, <2>4
<1>2. newEnd \in 0 .. end
  BY <1>1
<1>3. \A n \in base .. newEnd - 1 : \E s \in kept : dest[s] = n
  <2>0. base \in Int /\ newEnd - 1 \in Int
    BY <1>1
  <2>1. /\ IsFiniteSet(base .. newEnd - 1)
        /\ Cardinality(base .. newEnd - 1) =
             IF base > newEnd - 1 THEN 0 ELSE (newEnd - 1) - base + 1
    BY <2>0, FS_Interval
  <2>2. Cardinality(base .. newEnd - 1) = k
    BY <1>1, <2>1
  <2>4. dest \in Injection(kept, base .. newEnd - 1)
    BY <1>p DEF Injection, IsInjective
  <2>3. dest \in Surjection(kept, base .. newEnd - 1)
    BY <2>1, <2>2, <2>4, FS_Injection
  <2> QED
    BY <2>3 DEF Surjection
<1>a. \A s \in kept : /\ dest[s] \in base .. newEnd - 1 /\ dest[s] \in Nat
                      /\ dest[s] >= base /\ dest[s] < newEnd
  <2> HIDE DEF k
  <2>1. \A s \in kept : dest[s] \in base .. newEnd - 1
    BY <1>p
  <2> QED
    BY <2>1, <1>1
<1> HIDE DEF k
<1>4. {dest[s] : s \in kept} = base .. newEnd - 1
  <2>1. \A s \in kept : dest[s] \in base .. newEnd - 1
    BY <1>a
  <2> QED
    BY <2>1, <1>3
<1> DEFINE Parent(s) == IF s \in kept THEN Par(s) ELSE tr[s].par
           Moved(s) ==
             [tr[s] EXCEPT !.par = Parent(s),
                           !.row = {c \in {dest[c] : c \in tr[s].row \cap kept} \cup
                                            (tr[s].row \ (base .. newEnd - 1)) : c < newEnd}]
<1>5. new = [n \in Slots |->
               IF n \in base .. newEnd - 1 THEN Moved(CHOOSE x \in kept : dest[x] = n)
               ELSE IF n < newEnd THEN tr[n]
               ELSE [tr[n] EXCEPT !.par = Parent(n), !.row = {}]]
  <2> DEFINE After(n) == IF n < newEnd THEN tr[n]
                         ELSE [tr[n] EXCEPT !.par = Parent(n), !.row = {}]
             D == {dest[s] : s \in kept}
             Kept(s) ==
               [tr[s] EXCEPT !.par = Parent(s),
                             !.row = {c \in {dest[c] : c \in tr[s].row \cap kept} \cup
                                              (tr[s].row \ D) : c < newEnd}]
  <2>1. new = [n \in Slots |->
                 IF n \in D THEN Kept(CHOOSE x \in kept : dest[x] = n) ELSE After(n)]
    BY DEF GatherTree
  <2>2. D = base .. newEnd - 1
    BY <1>4
  <2> HIDE DEF D
  <2>3. \A s : Kept(s) = Moved(s)
    BY <2>2
  <2> HIDE DEF new, Moved, After, Kept
  <2>4. new = [n \in Slots |-> IF n \in base .. newEnd - 1
                              THEN Moved(CHOOSE x \in kept : dest[x] = n) ELSE After(n)]
    BY <2>1, <2>2, <2>3
  <2> QED
    BY <2>4 DEF After
<1>6. tr \in [Slots -> Nodes] /\ \A s \in kept : s \in Slots /\ s \in 0 .. end - 1
  BY <1>1 DEF IsTree, Slots
<1>7. \A s \in kept : Row(s) \subseteq 0 .. newEnd - 1
  <2> TAKE s \in kept
  <2>1. \A c \in kept : dest[c] \in 0 .. newEnd - 1
    BY <1>a, <1>1
  <2>2. \A c \in 0 .. base - 1 : c \in 0 .. newEnd - 1
    BY <1>1
  <2> QED
    BY <2>1, <2>2
<1>8. ASSUME NEW s \in kept
      PROVE  new[dest[s]] = [tr[s] EXCEPT !.par = Par(s), !.row = Row(s)]
  <2>1. dest[s] \in base .. newEnd - 1 /\ dest[s] \in Slots
    BY <1>1, <1>2, <1>a DEF Slots
  <2>2. (CHOOSE x \in kept : dest[x] = dest[s]) = s
    BY <1>p
  <2>3. {c \in {dest[c] : c \in tr[s].row \cap kept} \cup (tr[s].row \ (base .. newEnd - 1)) :
           c < newEnd} = Row(s)
    <3>1. tr[s].row \subseteq 0 .. s /\ s \in 0 .. end - 1
      BY <1>6 DEF IsTree
    <3>2. \A c \in tr[s].row : c \in Nat /\ (c >= base => c \in kept)
      BY <3>1, <1>1, <1>q
    <3>3. \A c \in kept : dest[c] \in base .. newEnd - 1
      BY <1>a
    <3>4. \A c \in tr[s].row \ (base .. newEnd - 1) : c < newEnd => c \in 0 .. base - 1
      BY <3>2, <1>1
    <3>5. \A c \in tr[s].row \cap 0 .. base - 1 : c \notin base .. newEnd - 1 /\ c < newEnd
      BY <1>1
    <3>6. \A c \in kept : dest[c] < newEnd
      BY <3>3, <1>1
    <3> QED
      BY <3>4, <3>5, <3>6
  <2>4. Moved(s) = [tr[s] EXCEPT !.par = Par(s), !.row = Row(s)]
    BY <2>3
  <2> HIDE DEF Moved
  <2>5. new[dest[s]] = Moved(CHOOSE x \in kept : dest[x] = dest[s])
    BY <1>5, <2>1
  <2> QED
    BY <2>2, <2>4, <2>5
<1>9. \A n \in 0 .. base - 1 : new[n] = tr[n]
  <2> TAKE n \in 0 .. base - 1
  <2>1. n \in Slots /\ n \notin base .. newEnd - 1 /\ n < newEnd
    BY <1>1 DEF Slots
  <2> QED
    BY <1>5, <2>1
<1> HIDE DEF Moved
<1>10. new \in [Slots -> Nodes]
  <2>1. \A s \in Slots : tr[s] \in Nodes /\ tr[s].par \in Slots \cup {-1}
    BY <1>6 DEF Nodes
  <2>2. \A c \in kept : dest[c] \in Slots
    BY <1>1, <1>2, <1>a DEF Slots
  <2>3. \A s \in Slots : Par(s) \in Slots \cup {-1}
    BY <2>1, <2>2
  <2>4. ASSUME NEW n \in Slots
        PROVE  new[n] \in Nodes
    <3>1. CASE n \in base .. newEnd - 1
      <4>1. PICK s \in kept : dest[s] = n
        BY <1>3, <3>1
      <4>2. new[n] = [tr[s] EXCEPT !.par = Par(s), !.row = Row(s)]
        BY <1>8, <4>1
      <4>3. Row(s) \in SUBSET Slots /\ s \in Slots
        BY <1>1, <1>2, <1>6, <1>7 DEF Slots
      <4> HIDE DEF Row, Par
      <4>4. tr[s] \in Nodes /\ Par(s) \in Slots \cup {-1}
        BY <2>1, <2>3, <4>3
      <4> QED
        BY <4>2, <4>3, <4>4 DEF Nodes
    <3>2. CASE n \notin base .. newEnd - 1 /\ n < newEnd
      BY <1>5, <2>1, <3>2
    <3>3. CASE n \notin base .. newEnd - 1 /\ ~(n < newEnd)
      <4>1. new[n] = [tr[n] EXCEPT !.par = Parent(n), !.row = {}]
        BY <1>5, <3>3
      <4>2. Parent(n) \in Slots \cup {-1}
        BY <2>1, <2>3
      <4> HIDE DEF Parent
      <4> QED
        BY <2>1, <4>1, <4>2 DEF Nodes
    <3> QED
      BY <3>1, <3>2, <3>3
  <2> QED
    BY <1>5, <2>4
<1> DEFINE Good(n) == /\ n \in new[n].row /\ new[n].row \subseteq 0 .. n
                      /\ new[n].pos = Cardinality(new[n].row) - 1
                      /\ \A j \in new[n].row : new[j].row = new[n].row \cap 0 .. j
<1>11. ASSUME NEW n \in 0 .. base - 1
       PROVE  Good(n)
  <2>1. n \in 0 .. end - 1 /\ n \in Nat
    BY <1>1
  <2>2. /\ n \in tr[n].row /\ tr[n].row \subseteq 0 .. n
        /\ tr[n].pos = Cardinality(tr[n].row) - 1
        /\ \A j \in tr[n].row : tr[j].row = tr[n].row \cap 0 .. j
    BY <2>1 DEF IsTree
  <2>3. \A j \in tr[n].row : j \in 0 .. base - 1
    BY <2>1, <2>2, <1>1
  <2> HIDE DEF new
  <2> QED
    BY <2>2, <2>3, <1>9
<1>12. ASSUME NEW s \in kept
       PROVE  Good(dest[s])
  <2> DEFINE R  == tr[s].row
             R2 == new[dest[s]].row
  <2>1. /\ s \in R /\ R \subseteq 0 .. s /\ s \in Nat
        /\ tr[s].pos = Cardinality(R) - 1
        /\ \A j \in R : tr[j].row = R \cap 0 .. j
    BY <1>1, <1>6 DEF IsTree
  <2>2. R2 = Row(s) /\ new[dest[s]].pos = tr[s].pos
    <3>1. tr[s] \in Nodes
      BY <1>6
    <3> HIDE DEF Row, Par, new
    <3> QED
      BY <1>8, <3>1 DEF Nodes
  <2>3. \A c \in kept : dest[c] \in base .. newEnd - 1 /\ dest[c] \in Nat /\ dest[c] >= base
    BY <1>a
  <2>4. \A c \in R : c \in Nat /\ (c \in 0 .. base - 1 \/ c \in kept)
    BY <2>1, <1>1, <1>q
  <2>5. dest[s] \in R2 /\ R2 \subseteq 0 .. dest[s]
    <3>1. \A c \in R \cap kept : dest[c] <= dest[s]
      BY <2>3, <2>4, <1>1, <1>q
    <3>2. \A c \in 0 .. base - 1 : c \in 0 .. dest[s]
      BY <1>1, <2>3
    <3> QED
      BY <2>1, <2>2, <2>3, <3>1, <3>2
  <2>6. Cardinality(R2) = Cardinality(R)
    <3> DEFINE g == [c \in R |-> IF c \in kept THEN dest[c] ELSE c]
    <3>1. \A c \in kept : c \notin 0 .. base - 1
      BY <1>1
    <3>2. g \in Surjection(R, R2)
      <4>1. \A c \in R : g[c] \in R2
        BY <2>2, <2>4
      <4>2. \A x \in R2 : \E c \in R : g[c] = x
        BY <2>2, <3>1
      <4> QED
        BY <4>1, <4>2 DEF Surjection
    <3>3. \A c, d \in R : g[c] = g[d] => c = d
      BY <2>3, <2>4, <1>1, <1>p
    <3>4. g \in Injection(R, R2)
      BY <3>2, <3>3 DEF Injection, IsInjective, Surjection
    <3>5. IsFiniteSet(R)
      BY <2>1, RowIsFinite
    <3> HIDE DEF g, R, R2
    <3> QED
      BY <3>2, <3>4, <3>5, FS_Surjection
  <2>7. ASSUME NEW j \in R2
        PROVE  new[j].row = R2 \cap 0 .. j
    <3>1. CASE j \in 0 .. base - 1
      <4>0. \A c \in kept : dest[c] # j
        BY <2>3, <3>1, <1>1
      <4>1. new[j] = tr[j] /\ j \in R
        BY <1>9, <3>1, <2>2, <4>0
      <4>2. new[j].row = R \cap 0 .. j
        BY <4>1, <2>1
      <4>3. R2 \cap 0 .. j = R \cap 0 .. j
        <5>1. \A i \in 0 .. j : i \in 0 .. base - 1 /\ \A c \in kept : dest[c] # i
          BY <2>3, <3>1, <1>1
        <5> QED
          BY <5>1, <2>2
      <4> QED
        BY <4>2, <4>3
    <3>2. CASE j \notin 0 .. base - 1
      <4>1. PICK c \in R \cap kept : dest[c] = j
        BY <3>2, <2>2
      <4>2. new[j].row = Row(c)
        <5>1. tr[c] \in Nodes
          BY <1>6
        <5> HIDE DEF Row, Par, new
        <5> QED
          BY <1>8, <4>1, <5>1 DEF Nodes
      <4>3. tr[c].row = R \cap 0 .. c
        BY <2>1
      <4>4. \A d \in R \cap kept : d \in tr[c].row <=> dest[d] <= dest[c]
        <5> TAKE d \in R \cap kept
        <5>1. d \in Nat /\ c \in Nat /\ dest[d] \in Nat /\ dest[c] \in Nat
          BY <2>3, <2>4
        <5>2. d \in tr[c].row <=> d <= c
          BY <4>3, <5>1
        <5>3. d \in tr[c].row => dest[d] <= dest[c]
          BY <5>1, <2>3, <1>q
        <5>4. tr[d].row = R \cap 0 .. d
          BY <2>1
        <5>5. c < d => dest[c] < dest[d]
          BY <5>1, <5>4, <2>3, <1>q
        <5> QED
          BY <5>1, <5>2, <5>3, <5>5
      <4>5. \A i \in 0 .. base - 1 : i \in R <=> i \in tr[c].row
        <5>0. c \in base .. end - 1
          BY <4>1
        <5>1. c \in Nat /\ base <= c
          BY <5>0, <1>1
        <5>2. \A i \in 0 .. base - 1 : i \in 0 .. c
          BY <5>1, <1>1
        <5> QED
          BY <4>3, <5>2
      <4>6. \A i \in 0 .. base - 1 : i \in 0 .. j
        <5>1. j \in Nat /\ base <= j
          BY <4>1, <2>3
        <5> QED
          BY <5>1, <1>1
      <4>7. \A d \in R \cap kept : dest[d] \in 0 .. j <=> dest[d] <= dest[c]
        <5>1. j \in Nat /\ dest[c] = j
          BY <4>1, <2>3
        <5>2. \A d \in R \cap kept : dest[d] \in Nat
          BY <2>3
        <5> QED
          BY <5>1, <5>2
      <4>8. \A d \in tr[c].row : d \in R
        BY <4>3
      <4> QED
        BY <2>2, <4>2, <4>4, <4>5, <4>6, <4>7, <4>8
    <3> QED
      BY <3>1, <3>2
  <2> HIDE DEF R, R2
  <2>8. R2 = new[dest[s]].row
    BY DEF R2
  <2> QED
    BY <2>1, <2>2, <2>5, <2>6, <2>7, <2>8
<1>13. IsTree(new, newEnd)
  <2>1. \A n \in 0 .. newEnd - 1 : n \in 0 .. base - 1 \/ n \in base .. newEnd - 1
    BY <1>1
  <2> HIDE DEF Good
  <2>2. \A n \in 0 .. newEnd - 1 : Good(n)
    BY <1>3, <1>11, <1>12, <2>1
  <2> HIDE DEF new, newEnd
  <2> QED
    BY <1>10, <2>2 DEF IsTree, Good
<1>14. \A s \in kept : new[dest[s]] = MovedNode(tr, kept, dest, base, s)
  <2> HIDE DEF new
  <2> QED
    BY <1>8 DEF MovedNode
<1> QED
  BY <1>2, <1>3, <1>9, <1>13, <1>14 DEF k

\* A path that is moved to the front keeps its order.
LEMMA PathPlaces ==
  ASSUME NEW tr, NEW end \in 0 .. MaxLen, IsTree(tr, end), NEW e \in 0 .. end - 1
  PROVE  /\ tr[e].row \in SUBSET (0 .. end - 1)
         /\ Places(tr, tr[e].row, [s \in tr[e].row |-> Rank(tr[e].row, s)], 0)
<1> DEFINE R == tr[e].row
           k == Cardinality(R)
           dest == [s \in R |-> Rank(R, s)]
<1>1. IsFiniteSet(R) /\ k \in Nat /\ R \in SUBSET Int
  BY PathInOrder
<1>2. R \in SUBSET (0 .. end - 1) /\ \A s \in R : tr[s].row = R \cap 0 .. s
  BY SizesAssumption DEF IsTree
<1> HIDE DEF R
<1>3. \A s \in R : Rank(R, s) \in 0 .. (0 + k) - 1
  BY <1>1, RankBounds
<1>4. dest \in [R -> 0 .. (0 + k) - 1]
  BY <1>3
<1>5. \A s, t \in R : dest[s] = dest[t] => s = t
  BY <1>1, RankIsInjective
<1>6. ASSUME NEW s \in R, NEW c \in tr[s].row, c # s
      PROVE  c \in R /\ dest[c] < dest[s]
  <2>1. c \in R /\ c \in 0 .. s /\ s \in Nat
    BY <1>2, <1>6
  <2>2. c \in Int /\ s \in Int /\ c < s
    BY <1>6, <2>1
  <2>3. Rank(R, c) < Rank(R, s)
    BY <1>1, <2>1, <2>2, RankGrows
  <2> QED
    BY <2>1, <2>3
<1>7. \A s \in R : \A c \in tr[s].row : c \in R
  BY <1>2
<1> HIDE DEF dest, k
<1>8. Places(tr, R, dest, 0)
  BY <1>4, <1>5, <1>6, <1>7 DEF Places, k
<1> QED
  BY <1>2, <1>8 DEF R, dest

\* So does what torch.topk keeps: what comes last, the lowest score, is no
\* ancestor of anything kept.
LEMMA TopkPlaces ==
  ASSUME NEW tr, NEW end \in 0 .. MaxLen, IsTree(tr, end),
         NEW base \in 0 .. end, NEW kept \in SUBSET (base .. end - 1),
         \A s \in kept : tr[s].row \cap base .. end - 1 \subseteq kept,
         NEW lowest \in kept, \A m \in kept \ {lowest} : lowest \notin tr[m].row
  PROVE  Places(tr, kept, TopkOrder(kept, lowest, base), base)
<1> DEFINE T == kept \ {lowest}
           k == Cardinality(kept)
           dest == TopkOrder(kept, lowest, base)
<1>1. /\ IsFiniteSet(kept) /\ k \in Nat /\ base \in Nat /\ end \in Nat
      /\ kept \in SUBSET Nat /\ end <= MaxLen /\ MaxLen \in Nat
  <2>1. IsFiniteSet(base .. end - 1)
    BY FS_Interval, SizesAssumption
  <2>2. IsFiniteSet(kept)
    BY <2>1, FS_Subset
  <2> QED
    BY <2>2, FS_CardinalityType, SizesAssumption
<1>2. /\ T \in SUBSET Int /\ IsFiniteSet(T) /\ Cardinality(T) = k - 1
      /\ T \subseteq kept /\ lowest \notin T /\ kept = T \cup {lowest}
  <2>1. IsFiniteSet(T) /\ Cardinality(T) = k - 1
    BY <1>1, FS_RemoveElement
  <2> QED
    BY <1>1, <2>1
<1>3. dest = [s \in kept |-> base + (IF s = lowest THEN k - 1 ELSE Rank(T, s))]
  BY DEF TopkOrder
<1>r. /\ \A s \in kept : tr[s].row \cap base .. end - 1 \subseteq kept
      /\ \A m \in T : lowest \notin tr[m].row
  OBVIOUS
<1> HIDE DEF T, k, dest
<1>4. \A s \in T : Rank(T, s) \in 0 .. k - 2
  <2> TAKE s \in T
  <2>1. Rank(T, s) \in Nat /\ Rank(T, s) < Cardinality(T)
    BY <1>2, RankBounds
  <2> QED
    BY <1>1, <1>2, <2>1
<1>5. /\ dest[lowest] = base + (k - 1)
      /\ \A s \in T : dest[s] = base + Rank(T, s)
  BY <1>2, <1>3
<1>6. k >= 1
  BY <1>1, FS_EmptySet DEF k
<1>7. \A s \in kept : dest[s] \in base .. (base + k) - 1
  <2>1. dest[lowest] \in base .. (base + k) - 1
    BY <1>1, <1>5, <1>6
  <2>2. \A s \in T : dest[s] \in base .. (base + k) - 1
    BY <1>1, <1>4, <1>5
  <2> QED
    BY <1>2, <2>1, <2>2
<1>8. \A s, t \in kept : dest[s] = dest[t] => s = t
  <2>1. \A s, t \in T : dest[s] = dest[t] => s = t
    <3>1. \A s, t \in T : Rank(T, s) = Rank(T, t) => s = t
      BY <1>2, RankIsInjective
    <3> QED
      BY <3>1, <1>1, <1>4, <1>5
  <2>2. \A s \in T : dest[s] # dest[lowest]
    BY <1>1, <1>4, <1>5
  <2> QED
    BY <1>2, <2>1, <2>2
<1>9. ASSUME NEW s \in kept, NEW c \in tr[s].row, c >= base
      PROVE  c \in kept /\ (c # s => dest[c] < dest[s])
  <2>1. s \in 0 .. end - 1 /\ tr[s].row \subseteq 0 .. s /\ s \in Nat
    BY <1>1 DEF IsTree
  <2>2. c \in kept /\ c \in Nat /\ c <= s
    <3>1. c \in base .. end - 1 /\ c \in Nat /\ c <= s
      BY <1>1, <1>9, <2>1
    <3> QED
      BY <3>1, <1>r
  <2>3. CASE c # s /\ s = lowest
    <3>1. c \in T
      BY <1>2, <2>2, <2>3
    <3> QED
      BY <1>1, <1>4, <1>5, <2>2, <2>3, <3>1
  <2>4. CASE c # s /\ s # lowest
    <3>1. s \in T /\ c # lowest /\ c \in T
      BY <1>2, <1>r, <2>2, <2>4
    <3>2. c \in Int /\ s \in Int /\ c < s
      BY <2>1, <2>2, <2>4
    <3>3. Rank(T, c) < Rank(T, s)
      BY <1>2, <3>1, <3>2, RankGrows
    <3> QED
      BY <1>1, <1>4, <1>5, <2>2, <3>1, <3>3
  <2> QED
    BY <2>2, <2>3, <2>4
<1>10. dest \in [kept -> base .. (base + k) - 1]
  BY <1>3, <1>7
<1> QED
  BY <1>8, <1>9, <1>10 DEF Places, k, dest

(***************************************************************************)
(* Caches.                                                                 *)
(***************************************************************************)

\* A forward pass over some nodes of a tree computes a node's context if the
\* cache holds the contexts of those of its ancestors that are not in the pass.
LEMMA ForwardComputesContexts ==
  ASSUME NEW tr, NEW end \in 0 .. MaxLen, IsTree(tr, end), NEW kv, NEW batch,
         NEW i \in 0 .. end - 1,
         \A j \in tr[i].row \ batch : kv[j] = Context(tr, j)
  PROVE  Computed(tr, kv, batch, i) = Context(tr, i)
<1> DEFINE row == tr[i].row
<1>1. /\ {tr[j].pos : j \in row} = 0 .. Cardinality(row) - 1
      /\ \A j, k \in row : tr[j].pos <= tr[k].pos <=> j <= k
  BY PathHasPositions
<1>2. tr[i].pos = Cardinality(row) - 1 /\ row \subseteq 0 .. i /\ i \in Nat
  BY SizesAssumption DEF IsTree
<1>3. \A j \in row \cap batch : tr[j].row = {k \in row : tr[k].pos <= tr[j].pos}
  <2> TAKE j \in row \cap batch
  <2>1. tr[j].row = row \cap 0 .. j
    BY DEF IsTree
  <2>2. \A k \in row : k \in 0 .. j <=> tr[k].pos <= tr[j].pos
    BY <1>1, <1>2
  <2> HIDE DEF row
  <2> QED
    BY <2>1, <2>2
<1>4. \A j \in row \ batch : kv[j] = SubSeq(Context(tr, i), 1, tr[j].pos + 1)
  BY ContextOfAncestor
<1> QED
  BY <1>1, <1>2, <1>3, <1>4 DEF Computed, Context

(***************************************************************************)
(* A tree with a text.  The first `len' slots hold the text, one path; every *)
(* draft node behind them attends to all of the text and to its parent's   *)
(* path; behind the end there is nothing; candidates are draft nodes or    *)
(* the last of the text.                                                   *)
(***************************************************************************)
DraftNode(tr, len, n) ==
  /\ 0 .. len - 1 \subseteq tr[n].row
  /\ tr[n].par \in len - 1 .. n - 1
  /\ tr[n].row = tr[tr[n].par].row \cup {n}

RowTree(tr, len, e) ==
  /\ len \in 0 .. MaxLen /\ e \in len .. MaxLen /\ (len = 0 => e = 0)
  /\ IsTree(tr, e)
  /\ \A n \in 0 .. len - 1 : tr[n].row = 0 .. n
  /\ \A n \in len .. e - 1 : DraftNode(tr, len, n)
  /\ \A n \in Slots : n >= e => tr[n] = Blank
  /\ \A n \in Slots : tr[n].st = CANDIDATE => n >= len - 1

\* A row that was never filled.
LEMMA EmptyRowTree ==
  RowTree([n \in Slots |-> Blank], 0, 0)
<1>1. Blank \in Nodes /\ Blank.st # CANDIDATE
  BY SizesAssumption DEF Blank, Nodes, Status, PROMPT, CANDIDATE, Tokens, Slots
<1>2. IsTree([n \in Slots |-> Blank], 0)
  BY <1>1 DEF IsTree
<1> QED
  BY <1>1, <1>2, SizesAssumption DEF RowTree

\* A row that is filled holds its prompt.
LEMMA PromptRowTree ==
  ASSUME NEW prompt \in Seq(Tokens), Len(prompt) \in 2 .. MaxLen
  PROVE  /\ RowTree(PromptTree(prompt), Len(prompt), Len(prompt))
         /\ \A k \in 1 .. Len(prompt) : PromptTree(prompt)[k - 1].tok = prompt[k]
<1> DEFINE l  == Len(prompt)
           tr == PromptTree(prompt)
<1>1. l \in Nat /\ l >= 2 /\ l <= MaxLen /\ MaxLen \in Nat
  BY SizesAssumption
<1> DEFINE Par(n) == IF n = 0 THEN 0 ELSE n - 1
           St(n)  == IF n = l - 1 THEN CANDIDATE ELSE PROMPT
<1>2. /\ tr = [n \in Slots |-> tr[n]]
      /\ \A n \in Slots : n < l =>
           tr[n] = [tok |-> prompt[n + 1], par |-> Par(n), pos |-> n, st |-> St(n),
                    row |-> 0 .. n]
      /\ \A n \in Slots : ~(n < l) => tr[n] = Blank
  BY DEF PromptTree
<1> HIDE DEF tr
<1>3. Blank \in Nodes /\ Blank.st # CANDIDATE
  BY SizesAssumption DEF Blank, Nodes, Status, PROMPT, CANDIDATE, Tokens, Slots
<1>4. ASSUME NEW n \in Slots, n < l
      PROVE  tr[n] \in Nodes
  <2>1. n \in Nat /\ n + 1 \in 1 .. l /\ n < MaxLen
    BY <1>4, <1>1 DEF Slots
  <2>2. prompt[n + 1] \in Tokens
    BY <2>1
  <2>3. Par(n) \in Slots \cup {-1} /\ 0 .. n \in SUBSET Slots
    BY <1>1, <2>1 DEF Slots
  <2>4. St(n) \in Status
    BY DEF Status
  <2> HIDE DEF Par, St
  <2> QED
    BY <1>2, <1>4, <2>1, <2>2, <2>3, <2>4 DEF Nodes
<1>5. tr \in [Slots -> Nodes]
  BY <1>2, <1>3, <1>4
<1>6. \A n \in 0 .. l - 1 : n \in Slots /\ n < l /\ n \in Nat /\ tr[n].row = 0 .. n /\ tr[n].pos = n
  BY <1>1, <1>2 DEF Slots
<1>7. ASSUME NEW n \in 0 .. l - 1
      PROVE  /\ n \in tr[n].row /\ tr[n].row \subseteq 0 .. n
             /\ tr[n].pos = Cardinality(tr[n].row) - 1
             /\ \A j \in tr[n].row : tr[j].row = tr[n].row \cap 0 .. j
  <2>1. n \in Nat /\ Cardinality(0 .. n) = n + 1
    BY <1>6, FS_Interval
  <2>2. \A j \in 0 .. n : j \in 0 .. l - 1
    BY <1>1, <2>1
  <2>3. \A j \in 0 .. n : 0 .. j = (0 .. n) \cap 0 .. j
    BY <2>1
  <2>4. tr[n].row = 0 .. n /\ tr[n].pos = n /\ \A j \in 0 .. n : tr[j].row = 0 .. j
    BY <1>6, <2>2
  <2> QED
    BY <2>1, <2>3, <2>4
<1>8. IsTree(tr, l)
  BY <1>5, <1>7 DEF IsTree
<1>9. \A n \in Slots : (n >= l => tr[n] = Blank) /\ (tr[n].st = CANDIDATE => n >= l - 1)
  <2> TAKE n \in Slots
  <2>1. n \in Int
    BY DEF Slots
  <2>2. CASE n < l
    BY <1>1, <1>2, <2>1, <2>2 DEF PROMPT, CANDIDATE
  <2>3. CASE ~(n < l)
    BY <1>1, <1>2, <1>3, <2>1, <2>3
  <2> QED
    BY <2>2, <2>3
<1>10. \A k \in 1 .. l : k - 1 \in 0 .. l - 1 /\ tr[k - 1].tok = prompt[k]
  <2> TAKE k \in 1 .. l
  <2>1. k - 1 \in 0 .. l - 1 /\ (k - 1) + 1 = k
    BY <1>1
  <2> QED
    BY <1>2, <1>6, <2>1
<1> QED
  BY <1>1, <1>6, <1>8, <1>9, <1>10 DEF RowTree, tr

\* The context of a slot of the text is the text up to it.
LEMMA TextOfRowTree ==
  ASSUME NEW tr, NEW len, NEW e, RowTree(tr, len, e), NEW n \in 0 .. len - 1
  PROVE  /\ n \in 0 .. e - 1 /\ n \in Slots /\ e \in 0 .. MaxLen /\ IsTree(tr, e)
         /\ tr[n].row = 0 .. n /\ tr[n].pos = n
         /\ Context(tr, n) = [k \in 1 .. n + 1 |-> tr[k - 1].tok]
<1>1. /\ n \in 0 .. e - 1 /\ n \in Slots /\ e \in 0 .. MaxLen /\ IsTree(tr, e)
      /\ tr[n].row = 0 .. n
  BY SizesAssumption DEF RowTree, Slots
<1> QED
  BY <1>1, ContextOfPrefix

\* A text whose slots are left as they are keeps its contexts.
LEMMA TextStays ==
  ASSUME NEW tr, NEW e, NEW len, RowTree(tr, len, e),
         NEW tr2, NEW e2, RowTree(tr2, len, e2),
         \A n \in 0 .. len - 1 : tr2[n].tok = tr[n].tok,
         NEW n \in 0 .. len - 1
  PROVE  Context(tr2, n) = Context(tr, n)
<1>1. /\ Context(tr, n) = [k \in 1 .. n + 1 |-> tr[k - 1].tok]
      /\ Context(tr2, n) = [k \in 1 .. n + 1 |-> tr2[k - 1].tok]
  BY TextOfRowTree
<1>2. \A k \in 1 .. n + 1 : k - 1 \in 0 .. len - 1
  BY DEF RowTree
<1> QED
  BY <1>1, <1>2

\* A change of statuses is no change of the tree.
LEMMA RestatedRowTree ==
  ASSUME NEW tr, NEW len, NEW e, RowTree(tr, len, e), NEW new \in [Slots -> Nodes],
         \A n \in Slots : /\ new[n].tok = tr[n].tok /\ new[n].par = tr[n].par
                          /\ new[n].pos = tr[n].pos /\ new[n].row = tr[n].row
                          /\ n >= e => new[n] = Blank
                          /\ new[n].st = CANDIDATE => n >= len - 1
  PROVE  RowTree(new, len, e)
<1>1. /\ len \in 0 .. MaxLen /\ e \in len .. MaxLen /\ e \in Nat /\ MaxLen \in Nat
      /\ (len = 0 => e = 0) /\ IsTree(tr, e) /\ tr \in [Slots -> Nodes]
      /\ \A n \in 0 .. e - 1 : n \in Slots
  BY SizesAssumption DEF RowTree, IsTree, Slots
<1>2. IsTree(new, e)
  <2>1. ASSUME NEW n \in 0 .. e - 1
        PROVE  /\ n \in new[n].row /\ new[n].row \subseteq 0 .. n
               /\ new[n].pos = Cardinality(new[n].row) - 1
               /\ \A j \in new[n].row : new[j].row = new[n].row \cap 0 .. j
    <3>1. /\ n \in tr[n].row /\ tr[n].row \subseteq 0 .. n /\ n \in Nat
          /\ tr[n].pos = Cardinality(tr[n].row) - 1
          /\ \A j \in tr[n].row : tr[j].row = tr[n].row \cap 0 .. j
      BY <1>1 DEF IsTree
    <3>2. \A j \in tr[n].row : j \in Slots
      BY <3>1, <1>1
    <3>3. n \in Slots
      BY <1>1
    <3> QED
      BY <3>1, <3>2, <3>3
  <2> QED
    BY <2>1 DEF IsTree
<1>3. \A n \in 0 .. len - 1 : new[n].row = 0 .. n
  <2>1. \A n \in 0 .. len - 1 : n \in Slots /\ tr[n].row = 0 .. n
    BY <1>1 DEF RowTree
  <2> QED
    BY <2>1
<1>4. \A n \in len .. e - 1 : DraftNode(new, len, n)
  <2> TAKE n \in len .. e - 1
  <2>1. DraftNode(tr, len, n) /\ n \in Slots /\ len >= 1
    BY <1>1 DEF RowTree
  <2>2. tr[n].par \in Slots
    BY <1>1, <2>1 DEF DraftNode
  <2> QED
    BY <2>1, <2>2 DEF DraftNode
<1> QED
  BY <1>1, <1>2, <1>3, <1>4 DEF RowTree

\* _process_candidates changes the statuses of candidates, nothing else.
Marked(tr, beams) ==
  [n \in Slots |-> IF n \in beams THEN [tr[n] EXCEPT !.st = PROCESSED] ELSE tr[n]]

LEMMA MarkedRowTree ==
  ASSUME NEW tr, NEW len, NEW e, RowTree(tr, len, e),
         NEW beams \in SUBSET WithStatus(tr, CANDIDATE)
  PROVE  /\ RowTree(Marked(tr, beams), len, e)
         /\ \A n \in Slots : Marked(tr, beams)[n].tok = tr[n].tok
         /\ beams \subseteq len - 1 .. e - 1 /\ beams \subseteq Slots
<1> DEFINE new == Marked(tr, beams)
<1>1. /\ len \in 0 .. MaxLen /\ e \in len .. MaxLen /\ e \in Nat /\ MaxLen \in Nat
      /\ (len = 0 => e = 0) /\ IsTree(tr, e) /\ tr \in [Slots -> Nodes]
      /\ \A n \in 0 .. e - 1 : n \in Slots
  BY SizesAssumption DEF RowTree, IsTree, Slots
<1>2. \A n \in beams : n \in Slots /\ tr[n].st = CANDIDATE
  BY DEF WithStatus
<1>3. \A n \in beams : n \in len - 1 .. e - 1
  <2> TAKE n \in beams
  <2>1. n \in Slots /\ n \in Int /\ tr[n].st = CANDIDATE
    BY <1>2 DEF Slots
  <2>2. ~(n >= e)
    BY <2>1 DEF RowTree, Blank, PROMPT, CANDIDATE
  <2>3. n >= len - 1
    BY <2>1 DEF RowTree
  <2> QED
    BY <1>1, <2>1, <2>2, <2>3
<1>4. \A n \in Slots : /\ new[n] \in Nodes
                       /\ new[n].tok = tr[n].tok /\ new[n].par = tr[n].par
                       /\ new[n].pos = tr[n].pos /\ new[n].row = tr[n].row
                       /\ (n \notin beams => new[n] = tr[n])
                       /\ (n \in beams => new[n].st = PROCESSED)
  BY <1>1 DEF Marked, Nodes, Status
<1>5. new \in [Slots -> Nodes]
  BY <1>4 DEF Marked
<1> HIDE DEF new
<1>6. \A n \in Slots : (n >= e => new[n] = Blank) /\ (new[n].st = CANDIDATE => n >= len - 1)
  <2> TAKE n \in Slots
  <2>1. /\ n >= e => tr[n] = Blank
        /\ tr[n].st = CANDIDATE => n >= len - 1
    BY DEF RowTree
  <2>2. n >= e => n \notin beams
    BY <1>1, <1>3 DEF Slots
  <2>3. PROCESSED # CANDIDATE
    BY DEF PROCESSED, CANDIDATE
  <2> QED
    BY <1>4, <2>1, <2>2, <2>3
<1>7. RowTree(new, len, e)
  BY <1>4, <1>5, <1>6, RestatedRowTree
<1> QED
  BY <1>1, <1>2, <1>3, <1>4, <1>5, <1>6, <1>7 DEF new

\* What is added are children of candidates, and there is room for them.
Fits(keys, len, e) ==
  /\ len > 0 /\ keys \in SUBSET Nat /\ IsFiniteSet(keys) /\ e + Cardinality(keys) <= MaxLen
  /\ \A k \in keys : ParentOf(k) \in len - 1 .. e - 1 /\ TokenOf(k) \in Tokens

\* They become draft nodes.
LEMMA GrownRowTree ==
  ASSUME NEW tr, NEW len, NEW e, RowTree(tr, len, e), NEW keys, Fits(keys, len, e)
  PROVE  /\ RowTree(Add(tr, e, keys, CANDIDATE), len, e + Cardinality(keys))
         /\ \A n \in 0 .. e - 1 : Add(tr, e, keys, CANDIDATE)[n] = tr[n]
         /\ \A n \in e .. (e + Cardinality(keys)) - 1 :
              \E k \in keys : Add(tr, e, keys, CANDIDATE)[n].tok = TokenOf(k)
<1> DEFINE new == Add(tr, e, keys, CANDIDATE)
           c   == Cardinality(keys)
           e2  == e + c
<1>f. /\ len > 0 /\ keys \in SUBSET Nat /\ IsFiniteSet(keys) /\ e2 <= MaxLen
      /\ \A k \in keys : ParentOf(k) \in len - 1 .. e - 1 /\ TokenOf(k) \in Tokens
  BY DEF Fits
<1>1. /\ len \in 0 .. MaxLen /\ len \in Nat /\ e \in len .. MaxLen /\ e \in 0 .. MaxLen
      /\ e \in Nat /\ MaxLen \in Nat /\ IsTree(tr, e) /\ tr \in [Slots -> Nodes]
      /\ \A n \in 0 .. e - 1 : n \in Slots
  BY SizesAssumption DEF RowTree, IsTree, Slots
<1>2. c \in Nat
  BY <1>f, FS_CardinalityType
<1>3. \A k \in keys : ParentOf(k) \in 0 .. e - 1
  BY <1>1, <1>f
<1>4. CANDIDATE \in Status
  BY DEF Status
<1>5. /\ IsTree(new, e2)
      /\ \A n \in Slots \ (e .. e2 - 1) : new[n] = tr[n]
      /\ \A n \in e .. e2 - 1 : \E k \in keys :
           /\ new[n].par = ParentOf(k) /\ new[n].row = tr[ParentOf(k)].row \cup {n}
           /\ new[n].tok = TokenOf(k)
  <2>1. /\ IsTree(new, e2)
        /\ \A n \in Slots \ (e .. e2 - 1) : new[n] = tr[n]
        /\ \A n \in e .. e2 - 1 :
             \E k \in keys :
                /\ k = Nth(keys, n - e)
                /\ new[n] =
                     [tok |-> TokenOf(k), par |-> ParentOf(k), pos |-> tr[ParentOf(k)].pos + 1,
                      st |-> CANDIDATE, row |-> tr[ParentOf(k)].row \cup {n}]
    <3>1. /\ keys \in SUBSET Nat /\ IsFiniteSet(keys) /\ e + Cardinality(keys) <= MaxLen
          /\ \A k \in keys : ParentOf(k) \in 0 .. e - 1 /\ TokenOf(k) \in Tokens
      BY <1>f, <1>3
    <3> HIDE DEF new
    <3>2. new = Add(tr, e, keys, CANDIDATE)
      BY DEF new
    <3> QED
      BY <1>1, <1>4, <3>1, <3>2, AddMakesTree
  <2> HIDE DEF new, e2
  <2>2. ASSUME NEW n \in e .. e2 - 1
        PROVE  \E k \in keys :
                 /\ new[n].par = ParentOf(k) /\ new[n].row = tr[ParentOf(k)].row \cup {n}
                 /\ new[n].tok = TokenOf(k)
    <3>1. PICK k \in keys :
            new[n] = [tok |-> TokenOf(k), par |-> ParentOf(k), pos |-> tr[ParentOf(k)].pos + 1,
                      st |-> CANDIDATE, row |-> tr[ParentOf(k)].row \cup {n}]
      BY <2>1
    <3>2. new[n].par = ParentOf(k) /\ new[n].tok = TokenOf(k)
      BY <3>1
    <3>3. new[n].row = tr[ParentOf(k)].row \cup {n}
      BY <3>1
    <3> QED
      BY <3>2, <3>3
  <2> QED
    BY <2>1, <2>2
<1> HIDE DEF new, c
<1>6. \A n \in Slots : n < e => new[n] = tr[n]
  BY <1>1, <1>2, <1>5 DEF Slots
<1>7. \A n \in 0 .. e - 1 : new[n] = tr[n]
  BY <1>1, <1>6
<1>8. ASSUME NEW n \in len .. e2 - 1
      PROVE  DraftNode(new, len, n)
  <2>1. CASE n < e
    <3>1. DraftNode(tr, len, n) /\ n \in 0 .. e - 1
      BY <1>1, <2>1 DEF RowTree
    <3>2. tr[n].par \in 0 .. e - 1
      BY <1>1, <1>f, <3>1 DEF DraftNode
    <3> QED
      BY <1>7, <3>1, <3>2 DEF DraftNode
  <2>2. CASE n \in e .. e2 - 1
    <3>1. PICK k \in keys : new[n].par = ParentOf(k) /\ new[n].row = tr[ParentOf(k)].row \cup {n}
      BY <1>5, <2>2
    <3> DEFINE par == ParentOf(k)
    <3>2. par \in len - 1 .. e - 1 /\ par \in 0 .. e - 1
      BY <1>3, <1>f
    <3> HIDE DEF par
    <3>3. 0 .. len - 1 \subseteq tr[par].row
      <4>1. CASE par = len - 1
        <5>1. tr[par].row = 0 .. par
          BY <1>1, <1>f, <4>1 DEF RowTree
        <5> QED
          BY <4>1, <5>1
      <4>2. CASE par # len - 1
        <5>1. DraftNode(tr, len, par)
          BY <1>1, <3>2, <4>2 DEF RowTree
        <5> QED
          BY <5>1 DEF DraftNode
      <4> QED
        BY <4>1, <4>2
    <3>4. new[par] = tr[par] /\ par \in len - 1 .. n - 1
      BY <1>1, <1>2, <1>7, <2>2, <3>2
    <3>5. new[n].par = par /\ new[n].row = tr[par].row \cup {n}
      BY <3>1 DEF par
    <3> QED
      BY <3>3, <3>4, <3>5 DEF DraftNode
  <2> QED
    BY <1>1, <1>2, <2>1, <2>2
<1>9. \A n \in 0 .. len - 1 : new[n].row = 0 .. n
  BY <1>1, <1>7 DEF RowTree
<1>10. \A n \in Slots : (n >= e2 => new[n] = Blank) /\ (new[n].st = CANDIDATE => n >= len - 1)
  <2> TAKE n \in Slots
  <2>1. n \in Int
    BY DEF Slots
  <2>2. CASE n \in e .. e2 - 1
    BY <1>1, <1>2, <2>1, <2>2
  <2>3. CASE n \notin e .. e2 - 1
    <3>1. new[n] = tr[n]
      BY <1>5, <2>3
    <3>2. n >= e2 => n >= e
      BY <1>1, <1>2, <2>1
    <3> QED
      BY <3>1, <3>2 DEF RowTree
  <2> QED
    BY <2>2, <2>3
<1>11. e2 \in len .. MaxLen /\ len # 0
  BY <1>1, <1>2, <1>f DEF c
<1> HIDE DEF e2
<1>12. RowTree(new, len, e2)
  BY <1>1, <1>5, <1>8, <1>9, <1>10, <1>11 DEF RowTree
<1>13. \A n \in e .. e2 - 1 : \E k \in keys : new[n].tok = TokenOf(k)
  BY <1>5
<1> QED
  BY <1>7, <1>12, <1>13 DEF new, c, e2

\* One path from the first slot on, with nothing behind it.
LEMMA StraightRowTree ==
  ASSUME NEW tr \in [Slots -> Nodes], NEW k \in 1 .. MaxLen,
         \A n \in 0 .. k - 1 : tr[n].row = 0 .. n /\ tr[n].pos = n /\ tr[n].st # CANDIDATE,
         \A n \in Slots : n >= k => tr[n] = Blank
  PROVE  RowTree(tr, k, k)
<1>1. k \in Nat /\ MaxLen \in Nat /\ k >= 1 /\ k <= MaxLen
  BY SizesAssumption
<1>2. ASSUME NEW n \in 0 .. k - 1
      PROVE  /\ n \in tr[n].row /\ tr[n].row \subseteq 0 .. n
             /\ tr[n].pos = Cardinality(tr[n].row) - 1
             /\ \A j \in tr[n].row : tr[j].row = tr[n].row \cap 0 .. j
  <2>0. n \in Nat /\ \A j \in 0 .. n : j \in 0 .. k - 1
    BY <1>1
  <2>1. Cardinality(0 .. n) = n + 1
    BY <2>0, FS_Interval
  <2>2. tr[n].row = 0 .. n /\ tr[n].pos = n /\ \A j \in 0 .. n : tr[j].row = 0 .. j
    BY <2>0
  <2>3. \A j \in 0 .. n : 0 .. j = (0 .. n) \cap 0 .. j
    BY <2>0
  <2> QED
    BY <2>0, <2>1, <2>2, <2>3
<1>3. IsTree(tr, k)
  BY <1>2 DEF IsTree
<1>4. \A n \in Slots : tr[n].st = CANDIDATE => n >= k - 1
  <2> TAKE n \in Slots
  <2>1. n \in 0 .. k - 1 \/ n >= k - 1
    BY <1>1 DEF Slots
  <2> QED
    BY <2>1
<1>5. k \in k .. MaxLen /\ k \in 0 .. MaxLen /\ k # 0 /\ k .. k - 1 = {}
  BY <1>1
<1> QED
  BY <1>3, <1>4, <1>5 DEF RowTree

\* A token behind it is the next root, part of the path and candidate.
LEMMA BonusRowTree ==
  ASSUME NEW tr, NEW k, RowTree(tr, k, k), k > 0, k < MaxLen, NEW token \in Tokens,
         \A n \in 0 .. k - 1 : tr[n].st # CANDIDATE
  PROVE  LET new == Add(tr, k, {Key(k - 1, token)}, CANDIDATE)
         IN  /\ RowTree(new, k + 1, k + 1)
             /\ \A n \in 0 .. k - 1 : new[n] = tr[n]
             /\ new[k].tok = token
             /\ \A n \in Slots : new[n].st \in {tr[n].st, CANDIDATE}
<1> DEFINE key == Key(k - 1, token)
           new == Add(tr, k, {key}, CANDIDATE)
<1>1. k \in Nat /\ MaxLen \in Nat /\ k >= 1 /\ k + 1 <= MaxLen /\ k \in 0 .. MaxLen /\ k # 0
  BY SizesAssumption DEF RowTree
<1>2. key \in Nat /\ ParentOf(key) = k - 1 /\ TokenOf(key) = token
  <2>1. k - 1 \in Nat
    BY <1>1
  <2> QED
    BY <2>1, KeyParts
<1> HIDE DEF key
<1>3. IsFiniteSet({key}) /\ Cardinality({key}) = 1
  BY FS_Singleton
<1>4. Fits({key}, k, k)
  <2>1. k - 1 \in k - 1 .. k - 1
    BY <1>1
  <2> QED
    BY <1>1, <1>2, <1>3, <2>1 DEF Fits
<1>5. /\ RowTree(new, k, k + Cardinality({key}))
      /\ \A n \in 0 .. k - 1 : new[n] = tr[n]
      /\ \A n \in k .. (k + Cardinality({key})) - 1 : \E y \in {key} : new[n].tok = TokenOf(y)
  <2> HIDE DEF new
  <2>1. new = Add(tr, k, {key}, CANDIDATE)
    BY DEF new
  <2> QED
    BY <1>4, <2>1, GrownRowTree
<1>6. \A n \in Slots : new[n].st \in {tr[n].st, CANDIDATE}
  BY DEF Add
<1> HIDE DEF new
<1>7. RowTree(new, k, k + 1) /\ k \in k .. (k + 1) - 1
  BY <1>1, <1>3, <1>5
<1>8. new[k].tok = token
  BY <1>2, <1>3, <1>5, <1>7
<1>9. new[k].row = 0 .. k
  <2>1. DraftNode(new, k, k)
    BY <1>7 DEF RowTree
  <2>2. new[k].par = k - 1 /\ new[k].row = new[k - 1].row \cup {k}
    BY <1>1, <2>1 DEF DraftNode
  <2>3. new[k - 1].row = 0 .. k - 1
    <3>1. \A n \in 0 .. k - 1 : new[n].row = 0 .. n
      BY <1>7 DEF RowTree
    <3>2. k - 1 \in 0 .. k - 1
      BY <1>1
    <3> QED
      BY <3>1, <3>2
  <2> QED
    BY <2>2, <2>3, <1>1
<1>10. \A n \in 0 .. (k + 1) - 1 : new[n].row = 0 .. n
  <2>1. \A n \in 0 .. (k + 1) - 1 : n \in 0 .. k - 1 \/ n = k
    BY <1>1
  <2>2. \A n \in 0 .. k - 1 : new[n].row = 0 .. n
    BY <1>7 DEF RowTree
  <2> QED
    BY <1>9, <2>1, <2>2
<1>11. \A n \in Slots : new[n].st = CANDIDATE => n >= (k + 1) - 1
  <2> TAKE n \in Slots
  <2>1. n \in 0 .. k - 1 \/ n >= (k + 1) - 1
    BY <1>1 DEF Slots
  <2> QED
    BY <1>5, <2>1
<1>12. /\ k + 1 \in 0 .. MaxLen /\ k + 1 \in k + 1 .. MaxLen /\ k + 1 # 0
       /\ k + 1 .. (k + 1) - 1 = {}
  BY <1>1
<1>13. RowTree(new, k + 1, k + 1)
  BY <1>7, <1>10, <1>11, <1>12 DEF RowTree
<1> QED
  BY <1>5, <1>6, <1>8, <1>13 DEF new, key

\* A draft that is trimmed: the nodes that are kept keep their statuses, and
\* are draft nodes where they are moved to.
LEMMA TrimmedDraft ==
  ASSUME NEW tr, NEW len, NEW e, RowTree(tr, len, e), len > 0,
         NEW kept \in SUBSET (len .. e - 1), NEW dest, Places(tr, kept, dest, len),
         NEW e2, e2 = len + Cardinality(kept), e2 \in 0 .. e, NEW new,
         \A n \in 0 .. len - 1 : new[n] = tr[n],
         \A n \in len .. e2 - 1 : \E s \in kept : dest[s] = n,
         \A s \in kept : new[dest[s]] = MovedNode(tr, kept, dest, len, s)
  PROVE  /\ e2 \in len .. MaxLen /\ e2 <= e
         /\ \A n \in len .. e2 - 1 : DraftNode(new, len, n)
         /\ \A s \in kept : new[dest[s]].st = tr[s].st
<1> DEFINE Par(s) == IF tr[s].par \in kept THEN dest[tr[s].par] ELSE tr[s].par
           Row(s) == (tr[s].row \cap 0 .. len - 1) \cup {dest[c] : c \in tr[s].row \cap kept}
<1>1. /\ len \in 0 .. MaxLen /\ len \in Nat /\ e \in len .. MaxLen /\ e \in 0 .. MaxLen
      /\ e \in Nat /\ MaxLen \in Nat /\ IsTree(tr, e) /\ tr \in [Slots -> Nodes]
      /\ len \in 0 .. e /\ \A n \in 0 .. e - 1 : n \in Slots
  BY SizesAssumption DEF RowTree, IsTree, Slots
<1>2. /\ \A n \in 0 .. len - 1 : new[n] = tr[n]
      /\ \A n \in len .. e2 - 1 : \E s \in kept : dest[s] = n
      /\ \A s \in kept : new[dest[s]] = MovedNode(tr, kept, dest, len, s)
  OBVIOUS
<1>3. \A s \in kept : dest[s] \in len .. e2 - 1
  BY DEF Places
<1>4. /\ \A s, t \in kept : dest[s] = dest[t] => s = t
      /\ \A s \in kept : \A c \in tr[s].row : c >= len => c \in kept /\ (c # s => dest[c] < dest[s])
  BY DEF Places
<1>5. e2 \in len .. MaxLen /\ len # 0 /\ e2 \in Nat /\ e2 <= e
  <2>1. IsFiniteSet(kept)
    <3>1. IsFiniteSet(len .. e - 1)
      BY <1>1, FS_Interval
    <3> QED
      BY <3>1, FS_Subset
  <2>2. Cardinality(kept) \in Nat
    BY <2>1, FS_CardinalityType
  <2> QED
    BY <1>1, <2>2
<1>6. ASSUME NEW s \in kept
      PROVE  /\ new[dest[s]].par = Par(s) /\ new[dest[s]].row = Row(s)
             /\ new[dest[s]].st = tr[s].st
  <2>1. tr[s] \in Nodes
    BY <1>1
  <2>2. MovedNode(tr, kept, dest, len, s) = [tr[s] EXCEPT !.par = Par(s), !.row = Row(s)]
    BY DEF MovedNode
  <2>3. new[dest[s]] = MovedNode(tr, kept, dest, len, s)
    BY <1>2
  <2> HIDE DEF Par, Row
  <2> QED
    BY <2>1, <2>2, <2>3 DEF Nodes
<1>7. ASSUME NEW s \in kept
      PROVE  DraftNode(new, len, dest[s])
  <2>1. DraftNode(tr, len, s) /\ s \in Nat /\ s >= len
    BY <1>1 DEF RowTree
  <2> DEFINE par == tr[s].par
  <2>2. /\ 0 .. len - 1 \subseteq tr[s].row /\ par \in len - 1 .. s - 1
        /\ tr[s].row = tr[par].row \cup {s} /\ par \in 0 .. e - 1
    BY <1>1, <2>1 DEF DraftNode
  <2>3. par \in tr[par].row /\ tr[par].row \subseteq 0 .. par /\ s \notin tr[par].row
    <3>1. par \in tr[par].row /\ tr[par].row \subseteq 0 .. par
      BY <1>1, <2>2 DEF IsTree
    <3> QED
      BY <3>1, <2>2, <2>1
  <2>4. dest[s] \in len .. e2 - 1 /\ dest[s] \in Nat
    BY <1>1, <1>3
  <2>5. 0 .. len - 1 \subseteq Row(s)
    BY <2>2
  <2> HIDE DEF par
  <2>6. CASE par = len - 1
    <3>1. par \notin kept /\ Par(s) = par
      BY <1>1, <2>6 DEF par
    <3>2. tr[par].row = 0 .. len - 1 /\ par \in 0 .. len - 1
      BY <1>1, <1>5, <2>6 DEF RowTree
    <3>3. new[par].row = 0 .. len - 1
      BY <1>2, <3>2
    <3>4. tr[s].row \cap kept = {s}
      <4>1. \A c \in 0 .. len - 1 : c \notin kept
        BY <1>1
      <4> QED
        BY <2>2, <3>2, <4>1
    <3>5. Row(s) = 0 .. len - 1 \cup {dest[s]}
      <4>1. tr[s].row \cap 0 .. len - 1 = 0 .. len - 1
        BY <2>2
      <4> HIDE DEF Par
      <4> QED
        BY <3>4, <4>1
    <3>6. par \in len - 1 .. dest[s] - 1
      BY <1>1, <2>4, <2>6
    <3> HIDE DEF Row, Par
    <3> QED
      BY <1>6, <2>5, <3>1, <3>3, <3>5, <3>6 DEF DraftNode
  <2>7. CASE par # len - 1
    <3>1. par \in kept /\ dest[par] < dest[s] /\ par # s
      <4>1. par \in tr[s].row /\ par >= len /\ par # s
        BY <1>1, <2>1, <2>2, <2>3, <2>7
      <4> QED
        BY <1>4, <4>1
    <3>2. Par(s) = dest[par]
      BY <3>1 DEF par
    <3>3. new[dest[par]].row = Row(par)
      BY <1>6, <3>1
    <3>4. Row(s) = Row(par) \cup {dest[s]}
      <4>1. s \notin 0 .. len - 1
        BY <2>1, <1>1
      <4> QED
        BY <2>2, <4>1
    <3>5. dest[par] \in len - 1 .. dest[s] - 1
      BY <1>1, <1>3, <2>4, <3>1
    <3> HIDE DEF Row, Par
    <3> QED
      BY <1>6, <2>5, <3>2, <3>3, <3>4, <3>5 DEF DraftNode
  <2> QED
    BY <2>6, <2>7
<1>8. \A n \in len .. e2 - 1 : DraftNode(new, len, n)
  BY <1>2, <1>7
<1> HIDE DEF Par, Row
<1> QED
  BY <1>5, <1>6, <1>8

\* The children a set of nodes may have, as Add takes them.
ChildKeys(parents) == {Key(b, t) : b \in parents, t \in Tokens}

\* There are finitely many.
LEMMA KeysOfChildren ==
  ASSUME NEW parents \in SUBSET Slots, NEW keys \in SUBSET ChildKeys(parents)
  PROVE  /\ keys \in SUBSET Nat /\ IsFiniteSet(keys)
         /\ \A k \in keys : ParentOf(k) \in parents /\ TokenOf(k) \in Tokens
<1>2. \A k \in keys : \E b \in parents, t \in Tokens : k = Key(b, t)
  BY DEF ChildKeys
<1>3. \A b \in parents : b \in Nat
  BY DEF Slots
<1>4. \A k \in keys : /\ ParentOf(k) \in parents
                      /\ TokenOf(k) \in Tokens /\ k \in Nat
  <2> TAKE k \in keys
  <2>1. PICK b \in parents, t \in Tokens : k = Key(b, t)
    BY <1>2
  <2> QED
    BY <1>3, <2>1, KeyParts
<1>6. IsFiniteSet(keys)
  <2> DEFINE pairs == parents \X Tokens
             f     == [q \in pairs |-> Key(q[1], q[2])]
  <2>1. IsFiniteSet(parents)
    <3>1. 0 \in Int /\ MaxLen - 1 \in Int
      BY SizesAssumption
    <3>2. IsFiniteSet(Slots)
      BY <3>1, FS_Interval DEF Slots
    <3> QED
      BY <3>2, FS_Subset
  <2>2. IsFiniteSet(Tokens)
    <3>1. 0 \in Int /\ NTokens - 1 \in Int
      BY SizesAssumption
    <3> QED
      BY <3>1, FS_Interval DEF Tokens
  <2>3. IsFiniteSet(pairs)
    BY <2>1, <2>2, FS_Product
  <2>4. keys \subseteq {f[q] : q \in pairs}
    <3> SUFFICES ASSUME NEW k \in keys PROVE k \in {f[q] : q \in pairs}
      OBVIOUS
    <3>1. PICK b \in parents, t \in Tokens : k = Key(b, t)
      BY <1>2
    <3>2. <<b, t>> \in pairs /\ f[<<b, t>>] = Key(b, t)
      OBVIOUS
    <3> QED
      BY <3>1, <3>2
  <2>5. f \in [pairs -> {f[q] : q \in pairs}]
    OBVIOUS
  <2> HIDE DEF f, pairs
  <2>6. IsFiniteSet({f[q] : q \in pairs})
    <3> DEFINE T == {f[q] : q \in pairs}
    <3>1. f \in Surjection(pairs, T)
      BY <2>5 DEF Surjection
    <3> QED
      BY <2>3, <3>1, FS_Surjection
  <2> QED
    BY <2>4, <2>6, FS_Subset
<1> QED
  BY <1>4, <1>6

\* What is proposed for the beams are children of theirs.
LEMMA ProposedKeys ==
  ASSUME NEW beams \in SUBSET Slots, NEW width,
         NEW children \in Proposals(beams, width), NEW best \in SUBSET children
  PROVE  /\ best \in SUBSET Nat /\ IsFiniteSet(best)
         /\ \A k \in best : ParentOf(k) \in beams /\ TokenOf(k) \in Tokens
<1>1. best \in SUBSET ChildKeys(beams)
  BY DEF Proposals, ChildKeys
<1> QED
  BY <1>1, KeysOfChildren

LEMMA ProposalsFit ==
  ASSUME NEW tr, NEW len, NEW e, RowTree(tr, len, e),
         NEW beams \in SUBSET (len - 1 .. e - 1), beams \subseteq Slots, NEW width,
         NEW children \in Proposals(beams, width), NEW best \in SUBSET children
  PROVE  /\ IsFiniteSet(best)
         /\ best # {} /\ e + Cardinality(best) <= MaxLen => Fits(best, len, e)
<1>1. len \in Nat /\ e \in Nat /\ e <= MaxLen /\ MaxLen \in Nat /\ (len = 0 => e = 0)
  BY SizesAssumption DEF RowTree
<1>2. /\ best \in SUBSET Nat /\ IsFiniteSet(best)
      /\ \A k \in best : ParentOf(k) \in beams /\ TokenOf(k) \in Tokens
  BY ProposedKeys
<1>3. best # {} => len > 0
  <2> SUFFICES ASSUME best # {} PROVE len > 0
    OBVIOUS
  <2>1. PICK k \in best : TRUE
    OBVIOUS
  <2>2. ParentOf(k) \in beams
    BY <1>2
  <2>3. \A b \in beams : b \in len - 1 .. e - 1 /\ b \in Slots
    OBVIOUS
  <2>4. \A b \in beams : len - 1 <= b /\ b <= e - 1 /\ b \in Nat
    BY <1>1, <2>3 DEF Slots
  <2>5. \A b \in beams : len > 0
    BY <1>1, <2>4
  <2> QED
    BY <2>2, <2>5
<1>4. \A k \in best : ParentOf(k) \in len - 1 .. e - 1 /\ TokenOf(k) \in Tokens
  BY <1>2
<1> QED
  BY <1>2, <1>3, <1>4 DEF Fits
=============================================================================
