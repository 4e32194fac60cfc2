----------------------------- MODULE MerkleProofs -----------------------------
(***************************************************************************)
(* createMerkleProof returns a path exactly when the rows are the leaves   *)
(* of the root, the path verifies against that root, and only rows that    *)
(* are missing make it fail before its loop, for every depth of the tree   *)
(* and every number of leaves.  MerkleInv of MerkleProof is the inductive  *)
(* invariant.                                                              *)
(***************************************************************************)
EXTENDS MerkleProof, SequenceTheorems, FiniteSetTheorems, WellFoundedInduction, TLAPS

-----------------------------------------------------------------------------
(* Numbers. *)

\* A set of numbers with 0 and the successors of its members has them all.
LEMMA Induction ==
  ASSUME NEW S, 0 \in S, \A n \in Nat : n \in S => n + 1 \in S
  PROVE  Nat \subseteq S
<1> DEFINE Less == {ss \in Nat \X Nat : ss[1] < ss[2]}
           Missing == Nat \ S
<1>1. IsWellFoundedOn(Less, Nat)
  BY NatLessThanWellFounded DEF OpToRel
<1>2. ASSUME Missing # {} PROVE FALSE
  <2> HIDE DEF Less
  <2>1. PICK x \in Missing : \A y \in Missing : ~(<<y, x>> \in Less)
    BY <1>1, <1>2, WFMin
  <2>2. \A y \in Missing : ~(y < x)
    BY <2>1 DEF Less
  <2>3. x - 1 \in Nat /\ x - 1 \in S
    BY <2>2
  <2> QED
    BY <2>3
<1> QED
  BY <1>2

\* A set of 1..n has 2^n subsets, half of the subsets of 1..n + 1.
LEMMA PowerDoubles ==
  \A n \in Nat : 2^n \in Nat \ {0} /\ 2^(n + 1) = 2 * 2^n
<1> SUFFICES ASSUME NEW n \in Nat PROVE 2^n \in Nat \ {0} /\ 2^(n + 1) = 2 * 2^n
  OBVIOUS
<1> DEFINE A == SUBSET (1..n)
           B == {t \cup {n + 1} : t \in A}
           f == [t \in A |-> t \cup {n + 1}]
<1>1. IsFiniteSet(1..n) /\ Cardinality(1..n) = n
      /\ IsFiniteSet(1..n + 1) /\ Cardinality(1..n + 1) = n + 1
  <2>1. n + 1 \in Int /\ ~(1 > n + 1) /\ (1 > n => n = 0) /\ (n + 1) - 1 + 1 = n + 1
    OBVIOUS
  <2> QED
    BY <2>1, FS_Interval
<1>2. /\ IsFiniteSet(A) /\ Cardinality(A) = 2^n /\ Cardinality(A) \in Nat
      /\ Cardinality(SUBSET (1..n + 1)) = 2^(n + 1)
  BY <1>1, FS_SUBSET, FS_CardinalityType
<1>3. f \in Bijection(A, B)
  <2>1. \A t \in A : n + 1 \notin t
    OBVIOUS
  <2>2. \A s, t \in A : f[s] = f[t] => s = t
    BY <2>1
  <2>3. f \in [A -> B] /\ \A b \in B : \E t \in A : f[t] = b
    OBVIOUS
  <2> QED
    BY <2>2, <2>3 DEF Bijection, Injection, Surjection, IsInjective
<1>4. IsFiniteSet(B) /\ Cardinality(B) = Cardinality(A)
  BY <1>2, <1>3, FS_Bijection DEF ExistsBijection
<1>5. A \cap B = {}
  OBVIOUS
<1>6. SUBSET (1..n + 1) = A \cup B
  <2>1. ASSUME NEW s \in SUBSET (1..n + 1), s \notin A PROVE s \in B
    <3>1. n + 1 \in s /\ s \ {n + 1} \in A
      BY <2>1
    <3>2. s = (s \ {n + 1}) \cup {n + 1}
      BY <3>1
    <3> QED
      BY <3>1, <3>2
  <2>2. A \subseteq SUBSET (1..n + 1) /\ B \subseteq SUBSET (1..n + 1)
    <3>1. 1..n \subseteq 1..n + 1 /\ n + 1 \in 1..n + 1
      OBVIOUS
    <3> QED
      BY <3>1
  <2> QED
    BY <2>1, <2>2
<1>7. Cardinality(A \cup B) = Cardinality(A) + Cardinality(B)
  <2> HIDE DEF A, B
  <2>1. Cardinality(A \cup B) = Cardinality(A) + Cardinality(B) - Cardinality(A \cap B)
    BY <1>2, <1>4, FS_Union
  <2>2. Cardinality(A \cap B) = 0
    BY <1>5, FS_EmptySet
  <2> QED
    BY <1>2, <1>4, <2>1, <2>2
<1>8. Cardinality(A) # 0
  <2>1. {} \in A
    OBVIOUS
  <2> QED
    BY <1>2, <2>1, FS_EmptySet
<1> HIDE DEF A, B
<1>9. Cardinality(A) \in Nat \ {0} /\ Cardinality(A \cup B) = 2 * Cardinality(A)
  BY <1>2, <1>4, <1>7, <1>8
<1>10. 2^(n + 1) = Cardinality(A \cup B)
  BY <1>2, <1>6, Zenon
<1> QED
  BY <1>2, <1>9, <1>10, Zenon

-----------------------------------------------------------------------------
(* The recursive functions. *)

\* The empty subtrees.
LEMMA ZeroHashFacts ==
  ZeroHashes = [level \in 0..Depth |->
    IF level = 0 THEN << >> ELSE Hash(ZeroHashes[level - 1], ZeroHashes[level - 1])]
<1> DEFINE Rec(g, m) == g = [level \in 0..m |->
                               IF level = 0 THEN << >> ELSE Hash(g[level - 1], g[level - 1])]
           Done == {m \in Nat : \E g : Rec(g, m)}
<1>1. 0 \in Done
  <2>1. Rec([level \in 0..0 |-> << >>], 0)
    OBVIOUS
  <2> QED
    BY <2>1
<1>2. ASSUME NEW m \in Nat, m \in Done PROVE m + 1 \in Done
  <2>1. PICK g : Rec(g, m)
    BY <1>2
  <2> DEFINE h == [level \in 0..m + 1 |-> IF level <= m THEN g[level] ELSE Hash(g[m], g[m])]
  <2>2. \A level \in 0..m + 1 :
          h[level] = IF level = 0 THEN << >> ELSE Hash(h[level - 1], h[level - 1])
    BY <2>1
  <2>3. Rec(h, m + 1)
    BY <2>2
  <2> HIDE DEF h, Rec
  <2> QED
    BY <2>3
<1>3. Depth \in Done
  <2> HIDE DEF Done
  <2> QED
    BY <1>1, <1>2, Induction, MerkleProofAssumption
<1>4. PICK g : Rec(g, Depth)
  BY <1>3
<1> QED
  BY <1>4 DEF ZeroHashes

\* What a level of a tree is, given the level below.
LevelOver(leaves, level, below) ==
  [k \in 0 .. 2^(Depth - level) - 1 |->
    IF level = 0 THEN IF k < Len(leaves) THEN Commitment(leaves[k + 1]) ELSE ZeroHashes[0]
    ELSE Hash(below[2*k], below[2*k + 1])]

\* The levels of a tree.
LEMMA TreeFacts ==
  ASSUME NEW leaves
  PROVE  Tree(leaves) =
           [level \in 0..Depth |-> LevelOver(leaves, level, Tree(leaves)[level - 1])]
<1> DEFINE Rec(g, m) == g = [level \in 0..m |-> LevelOver(leaves, level, g[level - 1])]
           Done == {m \in Nat : \E g : Rec(g, m)}
<1>1. 0 \in Done
  <2> DEFINE g == [level \in 0..0 |-> LevelOver(leaves, 0, << >>)]
  <2>1. \A below, other : LevelOver(leaves, 0, below) = LevelOver(leaves, 0, other)
    BY DEF LevelOver
  <2>2. Rec(g, 0)
    BY <2>1
  <2> QED
    BY <2>2
<1>2. ASSUME NEW m \in Nat, m \in Done PROVE m + 1 \in Done
  <2>1. PICK g : Rec(g, m)
    BY <1>2
  <2> DEFINE h == [level \in 0..m + 1 |->
                     IF level <= m THEN g[level] ELSE LevelOver(leaves, m + 1, g[m])]
  <2>2. \A level \in 0..m + 1 : h[level] = LevelOver(leaves, level, h[level - 1])
    <3>1. \A below, other : LevelOver(leaves, 0, below) = LevelOver(leaves, 0, other)
      BY DEF LevelOver
    <3> QED
      BY <2>1, <3>1
  <2>3. Rec(h, m + 1)
    BY <2>2
  <2> HIDE DEF h, Rec
  <2> QED
    BY <2>3
<1>3. Depth \in Done
  <2> HIDE DEF Done
  <2> QED
    BY <1>1, <1>2, Induction, MerkleProofAssumption
<1>4. PICK g : Rec(g, Depth)
  BY <1>3
<1> QED
  BY <1>4 DEF Tree, LevelOver

\* The nodes of a level.
Width(level) == 2^(Depth - level)

LEMMA WidthFacts ==
  /\ \A level \in 0..Depth : Width(level) \in Nat \ {0}
  /\ \A level \in 0 .. Depth - 1 : Width(level) = 2 * Width(level + 1)
  /\ Width(0) = 2^Depth /\ Width(Depth) = 1
<1>1. Depth \in Nat \ {0}
  BY MerkleProofAssumption
<1>2. ASSUME NEW level \in 0..Depth PROVE Width(level) \in Nat \ {0}
  <2>1. Depth - level \in Nat
    BY <1>1
  <2> QED
    BY <2>1, PowerDoubles, Zenon DEF Width
<1>3. ASSUME NEW level \in 0 .. Depth - 1 PROVE Width(level) = 2 * Width(level + 1)
  <2>1. Depth - (level + 1) \in Nat /\ Depth - level = (Depth - (level + 1)) + 1
    BY <1>1
  <2> QED
    BY <2>1, PowerDoubles, Zenon DEF Width
<1>4. Depth - 0 = Depth /\ Depth - Depth = 0
  BY <1>1
<1>5. Width(0) = 2^Depth
  BY <1>4, Zenon DEF Width
<1>6. Width(Depth) = 1
  <2>1. 2^0 = 1
    OBVIOUS
  <2> QED
    BY <1>4, <2>1, Zenon DEF Width
<1> QED
  BY <1>2, <1>3, <1>5, <1>6

\* The nodes of a tree: the leaves and empty leaves, and the parents of two nodes.
LEMMA TreeNodes ==
  ASSUME NEW leaves
  PROVE  /\ \A k \in 0 .. Width(0) - 1 : Tree(leaves)[0][k] =
              IF k < Len(leaves) THEN Commitment(leaves[k + 1]) ELSE ZeroHashes[0]
         /\ \A level \in 0 .. Depth - 1 : \A k \in 0 .. Width(level + 1) - 1 :
              /\ 2*k \in 0 .. Width(level) - 1 /\ 2*k + 1 \in 0 .. Width(level) - 1
              /\ Tree(leaves)[level + 1][k] =
                   Hash(Tree(leaves)[level][2*k], Tree(leaves)[level][2*k + 1])
<1>1. Depth \in Nat \ {0}
  BY MerkleProofAssumption
<1>2. \A level \in 0..Depth :
        Tree(leaves)[level] = LevelOver(leaves, level, Tree(leaves)[level - 1])
  BY TreeFacts
<1>3. ASSUME NEW k \in 0 .. Width(0) - 1
      PROVE  Tree(leaves)[0][k] =
               IF k < Len(leaves) THEN Commitment(leaves[k + 1]) ELSE ZeroHashes[0]
  <2>1. Tree(leaves)[0] = LevelOver(leaves, 0, Tree(leaves)[0 - 1])
    BY <1>1, <1>2
  <2> QED
    BY <2>1 DEF LevelOver, Width
<1>4. ASSUME NEW level \in 0 .. Depth - 1, NEW k \in 0 .. Width(level + 1) - 1
      PROVE  /\ 2*k \in 0 .. Width(level) - 1 /\ 2*k + 1 \in 0 .. Width(level) - 1
             /\ Tree(leaves)[level + 1][k] =
                  Hash(Tree(leaves)[level][2*k], Tree(leaves)[level][2*k + 1])
  <2>1. level + 1 \in 0..Depth /\ level + 1 # 0 /\ (level + 1) - 1 = level
    BY <1>1
  <2>2. Tree(leaves)[level + 1] = LevelOver(leaves, level + 1, Tree(leaves)[level])
    BY <1>2, <2>1
  <2>3. Tree(leaves)[level + 1][k] =
          Hash(Tree(leaves)[level][2*k], Tree(leaves)[level][2*k + 1])
    BY <2>1, <2>2 DEF LevelOver, Width
  <2>4. Width(level) = 2 * Width(level + 1) /\ Width(level + 1) \in Nat
    BY <2>1, WidthFacts
  <2> QED
    BY <2>3, <2>4
<1> QED
  BY <1>3, <1>4

\* Two trees with the same root have the same leaves.
LEMMA SameRoot ==
  ASSUME NEW s, NEW t, Tree(s)[Depth][0] = Tree(t)[Depth][0]
  PROVE  \A k \in 0 .. Width(0) - 1 : Tree(s)[0][k] = Tree(t)[0][k]
<1> DEFINE Same(level) ==
             \A k \in 0 .. Width(level) - 1 : Tree(s)[level][k] = Tree(t)[level][k]
           Done == {n \in Nat : n <= Depth => Same(Depth - n)}
<1>1. Depth \in Nat \ {0}
  BY MerkleProofAssumption
<1>2. 0 \in Done
  <2>1. Width(Depth) = 1 /\ Depth - 0 = Depth
    BY <1>1, WidthFacts
  <2>2. \A k \in 0 .. Width(Depth) - 1 : k = 0
    BY <2>1
  <2>3. Same(Depth)
    BY <2>2
  <2> QED
    BY <2>1, <2>3
<1>3. ASSUME NEW n \in Nat, n \in Done PROVE n + 1 \in Done
  <2> SUFFICES ASSUME n + 1 <= Depth PROVE Same(Depth - (n + 1))
    OBVIOUS
  <2> DEFINE level == Depth - (n + 1)
  <2>1. level \in 0 .. Depth - 1 /\ Depth - n = level + 1
    BY <1>1
  <2>2. Same(level + 1)
    BY <1>1, <1>3, <2>1
  <2> HIDE DEF level
  <2>3. ASSUME NEW k \in 0 .. Width(level) - 1 PROVE Tree(s)[level][k] = Tree(t)[level][k]
    <3>1. Width(level) = 2 * Width(level + 1) /\ Width(level + 1) \in Nat
      BY <1>1, <2>1, WidthFacts
    <3>2. k \div 2 \in 0 .. Width(level + 1) - 1
          /\ (k = 2 * (k \div 2) \/ k = 2 * (k \div 2) + 1)
      BY <3>1
    <3>3. Hash(Tree(s)[level][2 * (k \div 2)], Tree(s)[level][2 * (k \div 2) + 1])
          = Hash(Tree(t)[level][2 * (k \div 2)], Tree(t)[level][2 * (k \div 2) + 1])
      BY <2>1, <2>2, <3>2, TreeNodes
    <3>4. /\ Tree(s)[level][2 * (k \div 2)] = Tree(t)[level][2 * (k \div 2)]
          /\ Tree(s)[level][2 * (k \div 2) + 1] = Tree(t)[level][2 * (k \div 2) + 1]
      BY <3>3 DEF Hash
    <3> QED
      BY <3>2, <3>4
  <2> QED
    BY <2>3 DEF level
<1>4. Depth \in Done
  <2> HIDE DEF Done
  <2> QED
    BY <1>1, <1>2, <1>3, Induction
<1>5. Depth - Depth = 0 /\ Depth <= Depth
  BY <1>1
<1> QED
  BY <1>4, <1>5

-----------------------------------------------------------------------------
(* The rows in ascending order. *)

\* In a finite set of numbers there is one with so many below it.
LEMMA RankExists ==
  \A bound \in Nat : \A s \in SUBSET (0 .. bound - 1) :
    \A n \in 1 .. Cardinality(s) : \E l \in s : Cardinality({k \in s : k < l}) = n - 1
<1> DEFINE Ranked(s) == \A n \in 1 .. Cardinality(s) :
                          \E l \in s : Cardinality({k \in s : k < l}) = n - 1
           Done == {bound \in Nat : \A s \in SUBSET (0 .. bound - 1) : Ranked(s)}
<1>1. 0 \in Done
  <2>1. \A s \in SUBSET (0 .. 0 - 1) : s = {}
    OBVIOUS
  <2>2. Ranked({})
    BY FS_EmptySet
  <2> HIDE DEF Ranked
  <2> QED
    BY <2>1, <2>2
<1>2. ASSUME NEW bound \in Nat, bound \in Done PROVE bound + 1 \in Done
  <2> SUFFICES ASSUME NEW s \in SUBSET (0 .. (bound + 1) - 1) PROVE Ranked(s)
    OBVIOUS
  <2> DEFINE rest == s \ {bound}
  <2>1. rest \in SUBSET (0 .. bound - 1) /\ \A k \in rest : k < bound
    OBVIOUS
  <2>2. Ranked(rest)
    BY <1>2, <2>1
  <2>3. CASE bound \notin s
    <3>1. s = rest
      BY <2>3
    <3> HIDE DEF rest, Ranked
    <3> QED
      BY <2>2, <3>1
  <2>4. CASE bound \in s
    <3>1. IsFiniteSet(rest) /\ Cardinality(rest) \in Nat
      <4>1. bound - 1 \in Int
        OBVIOUS
      <4>2. IsFiniteSet(0 .. bound - 1)
        BY <4>1, FS_Interval
      <4> HIDE DEF rest
      <4> QED
        BY <2>1, <4>2, FS_Subset, FS_CardinalityType
    <3>2. Cardinality(s) = Cardinality(rest) + 1
      <4>1. s = rest \cup {bound} /\ bound \notin rest
        BY <2>4
      <4> HIDE DEF rest
      <4> QED
        BY <3>1, <4>1, FS_AddElement
    <3> SUFFICES ASSUME NEW n \in 1 .. Cardinality(s)
                 PROVE  \E l \in s : Cardinality({k \in s : k < l}) = n - 1
      OBVIOUS
    <3>3. CASE n = Cardinality(s)
      <4>1. {k \in s : k < bound} = rest
        <5>1. \A k \in s : k < bound <=> k # bound
          OBVIOUS
        <5> QED
          BY <5>1
      <4> HIDE DEF rest
      <4>2. Cardinality(rest) = n - 1
        BY <3>1, <3>2, <3>3
      <4> QED
        BY <2>4, <4>1, <4>2
    <3>4. CASE n # Cardinality(s)
      <4>1. n \in 1 .. Cardinality(rest)
        BY <3>1, <3>2, <3>4
      <4>2. PICK l \in rest : Cardinality({k \in rest : k < l}) = n - 1
        BY <2>2, <4>1
      <4>3. {k \in s : k < l} = {k \in rest : k < l} /\ l \in s
        BY <2>1
      <4> QED
        BY <4>2, <4>3
    <3> QED
      BY <3>3, <3>4
  <2> QED
    BY <2>3, <2>4
<1>3. Nat \subseteq Done
  <2> HIDE DEF Done
  <2> QED
    BY <1>1, <1>2, Induction
<1> QED
  BY <1>3

\* ORDER BY leaf_index ASC gives the number with n - 1 below it the place n.
LEMMA AscendingFacts ==
  ASSUME NEW bound \in Nat, NEW s \in SUBSET (0 .. bound - 1)
  PROVE  /\ IsFiniteSet(s) /\ Cardinality(s) \in Nat /\ Cardinality(s) <= bound
         /\ Ascending(s) \in Seq(s) /\ Len(Ascending(s)) = Cardinality(s)
         /\ \A n \in 1 .. Cardinality(s) :
              Cardinality({k \in s : k < Ascending(s)[n]}) = n - 1
<1>1. IsFiniteSet(0 .. bound - 1) /\ Cardinality(0 .. bound - 1) = bound
  <2>1. 0 > bound - 1 => bound = 0
    OBVIOUS
  <2> QED
    BY <2>1, FS_Interval
<1>2. IsFiniteSet(s) /\ Cardinality(s) \in Nat /\ Cardinality(s) <= bound
  BY <1>1, FS_Subset, FS_CardinalityType
<1>3. \A n \in 1 .. Cardinality(s) :
        Ascending(s)[n] \in s /\ Cardinality({k \in s : k < Ascending(s)[n]}) = n - 1
  BY RankExists DEF Ascending
<1>4. Ascending(s) \in [1 .. Cardinality(s) -> s]
  BY <1>3 DEF Ascending
<1>5. Ascending(s) \in Seq(s) /\ Len(Ascending(s)) = Cardinality(s)
  BY <1>2, <1>4
<1> QED
  BY <1>2, <1>3, <1>5

\* A leaf with no leaf missing below it is in its place.
LEMMA InPlace ==
  ASSUME NEW bound \in Nat, NEW s \in SUBSET (0 .. bound - 1),
         NEW l \in Nat, 0 .. l \subseteq s
  PROVE  l < Len(Ascending(s)) /\ Ascending(s)[l + 1] = l
<1>1. /\ IsFiniteSet(s) /\ Cardinality(s) \in Nat
      /\ Ascending(s) \in Seq(s) /\ Len(Ascending(s)) = Cardinality(s)
      /\ \A n \in 1 .. Cardinality(s) :
           Cardinality({k \in s : k < Ascending(s)[n]}) = n - 1
  BY AscendingFacts
<1>2. \A m \in Nat : Cardinality(0..m) = m + 1 /\ Cardinality(0 .. m - 1) = m
  <2>1. \A m \in Nat : m \in Int /\ m - 1 \in Int /\ ~(0 > m) /\ (0 > m - 1 => m = 0)
    OBVIOUS
  <2> QED
    BY <2>1, FS_Interval
<1>3. l + 1 <= Cardinality(s)
  BY <1>1, <1>2, FS_Subset
<1> DEFINE found == Ascending(s)[l + 1]
           below == {k \in s : k < found}
<1>4. found \in s /\ found \in Nat /\ Cardinality(below) = l
  <2>1. l + 1 \in 1 .. Cardinality(s) /\ (l + 1) - 1 = l
    BY <1>1, <1>3
  <2>2. found \in s
    BY <1>1, <2>1, ElementOfSeq
  <2>3. Cardinality(below) = (l + 1) - 1
    BY <1>1, <2>1
  <2> HIDE DEF found, below
  <2> QED
    BY <2>1, <2>2, <2>3
<1>5. IsFiniteSet(below)
  BY <1>1, FS_Subset
<1>6. ~(found < l)
  <2> SUFFICES ASSUME found < l PROVE FALSE
    OBVIOUS
  <2> HIDE DEF found
  <2>1. below = 0 .. found - 1
    <3>1. \A k \in s : k \in Nat
      OBVIOUS
    <3>2. \A k \in below : k \in 0 .. found - 1
      BY <1>4, <3>1
    <3>3. \A k \in 0 .. found - 1 : k \in 0..l /\ k < found
      BY <1>4
    <3>4. \A k \in 0 .. found - 1 : k \in below
      BY <3>3
    <3> HIDE DEF below
    <3> QED
      BY <3>2, <3>4
  <2> HIDE DEF below
  <2> QED
    BY <1>2, <1>4, <2>1
<1>7. ~(l < found)
  <2> SUFFICES ASSUME l < found PROVE FALSE
    OBVIOUS
  <2> HIDE DEF found
  <2>1. 0..l \subseteq below
    BY <1>4
  <2> HIDE DEF below
  <2>2. Cardinality(0..l) <= Cardinality(below)
    BY <1>5, <2>1, FS_Subset
  <2> QED
    BY <1>2, <1>4, <2>2
<1>8. found = l
  <2> HIDE DEF found
  <2> QED
    BY <1>4, <1>6, <1>7
<1> QED
  BY <1>1, <1>3, <1>8

-----------------------------------------------------------------------------
(* Slices and the path. *)

\* A padded level has an even number of nodes.
LEMMA PaddedFacts ==
  ASSUME NEW S, NEW level \in Seq(S), NEW zero \in S
  PROVE  /\ Padded(level, zero) \in Seq(S)
         /\ Len(Padded(level, zero)) % 2 = 0
         /\ Len(Padded(level, zero)) \in {Len(level), Len(level) + 1}
         /\ \A k \in 1 .. Len(Padded(level, zero)) : Padded(level, zero)[k] =
              IF k <= Len(level) THEN level[k] ELSE zero
<1>1. Len(level) \in Nat
  OBVIOUS
<1>2. CASE Len(level) % 2 = 1
  <2>1. Padded(level, zero) = Append(level, zero)
    BY <1>2 DEF Padded
  <2>2. /\ Append(level, zero) \in Seq(S) /\ Len(Append(level, zero)) = Len(level) + 1
        /\ \A k \in 1 .. Len(level) : Append(level, zero)[k] = level[k]
        /\ Append(level, zero)[Len(level) + 1] = zero
    BY AppendProperties
  <2> QED
    BY <1>1, <1>2, <2>1, <2>2
<1>3. CASE Len(level) % 2 # 1
  <2>1. Padded(level, zero) = level
    BY <1>3 DEF Padded
  <2> QED
    BY <1>1, <1>3, <2>1
<1> QED
  BY <1>2, <1>3

\* The sibling of a node is a node of its level.
LEMMA SiblingFacts ==
  ASSUME NEW level, NEW index \in Nat, Len(level) \in Nat, Len(level) % 2 = 0,
         index < Len(level)
  PROVE  /\ SiblingIndex(index) \in 0 .. Len(level) - 1
         /\ Sibling(level, index) = level[SiblingIndex(index) + 1]
<1>1. SiblingIndex(index) \in 0 .. Len(level) - 1
  BY DEF SiblingIndex
<1>2. index % 2 = 0 => SiblingIndex(index) + 1 = index + 2
  BY DEF SiblingIndex
<1>3. index % 2 # 0 => SiblingIndex(index) + 1 = index
  BY DEF SiblingIndex
<1> QED
  BY <1>1, <1>2, <1>3 DEF Sibling

\* The path grows by a sibling at a time.
LEMMA PathFacts ==
  ASSUME NEW level \in Nat, NEW index, NEW tree
  PROVE  /\ Len(PathUpTo(level, index, tree)) = level + 1
         /\ Append(PathUpTo(level, index, tree),
                   tree[level][SiblingIndex(index \div 2^level)])
              = PathUpTo(level + 1, index, tree)
<1> DEFINE path == PathUpTo(level, index, tree)
           longer == PathUpTo(level + 1, index, tree)
           last == tree[level][SiblingIndex(index \div 2^level)]
           S == {path[n] : n \in 1 .. level + 1} \cup {last}
<1>1. path \in [1 .. level + 1 -> S]
  BY DEF PathUpTo
<1>2. path \in Seq(S) /\ Len(path) = level + 1 /\ last \in S
  BY <1>1
<1>3. \A n \in 1 .. level + 1 : path[n] = longer[n]
  BY DEF PathUpTo
<1>4. longer[level + 2] = last
  <2>1. level + 2 \in 1 .. (level + 1) + 1 /\ level + 2 # 1 /\ (level + 2) - 2 = level
    OBVIOUS
  <2> QED
    BY <2>1 DEF PathUpTo
<1>5. DOMAIN longer = 1 .. level + 2
  <2>1. (level + 1) + 1 = level + 2
    OBVIOUS
  <2> QED
    BY <2>1 DEF PathUpTo
<1>6. longer = [n \in 1 .. level + 2 |-> longer[n]]
  BY <1>5 DEF PathUpTo
<1> HIDE DEF path, longer, last, S
<1>7. /\ Append(path, last) \in Seq(S) /\ Len(Append(path, last)) = level + 2
      /\ \A n \in 1 .. level + 1 : Append(path, last)[n] = path[n]
      /\ Append(path, last)[level + 2] = last
  <2>1. /\ Append(path, last) \in Seq(S) /\ Len(Append(path, last)) = Len(path) + 1
        /\ \A n \in 1 .. Len(path) : Append(path, last)[n] = path[n]
        /\ Append(path, last)[Len(path) + 1] = last
    BY <1>2, AppendProperties
  <2> QED
    BY <1>2, <2>1
<1>8. Append(path, last) = [n \in 1 .. level + 2 |-> longer[n]]
  <2> DEFINE whole == Append(path, last)
  <2>1. whole \in [1 .. level + 2 -> S]
    <3>1. whole \in Seq(S) /\ Len(whole) = level + 2
      BY <1>7
    <3> HIDE DEF whole
    <3> QED
      BY <3>1, LenProperties
  <2>2. \A n \in 1 .. level + 2 : n \in 1 .. level + 1 \/ n = level + 2
    OBVIOUS
  <2>3. \A n \in 1 .. level + 2 : whole[n] = longer[n]
    BY <1>3, <1>4, <1>7, <2>2
  <2> HIDE DEF whole
  <2>4. whole = [n \in 1 .. level + 2 |-> longer[n]]
    BY <2>1, <2>3
  <2> QED
    BY <2>4 DEF whole
<1> QED
  BY <1>2, <1>6, <1>8 DEF path, longer, last

\* What a slice may hold.
LEMMA NodesFacts ==
  /\ \A level \in 0..Depth : ZeroHashes[level] \in Nodes
  /\ << >> \in Nodes
  /\ \A level \in 0..Depth : \A k \in 0 .. Width(level) - 1 : Tree(rows)[level][k] \in Nodes
<1>1. ZeroHashes[0] = << >> /\ 0 \in 0..Depth
  BY ZeroHashFacts, MerkleProofAssumption
<1>2. \A level \in 0..Depth : ZeroHashes[level] \in Nodes
  BY DEF Nodes
<1>3. \A level \in 0..Depth : \A k \in 0 .. Width(level) - 1 : Tree(rows)[level][k] \in Nodes
  BY DEF Nodes, Width
<1> QED
  BY <1>1, <1>2, <1>3

-----------------------------------------------------------------------------
(* The inductive invariant. *)

\* The numbers are numbers.
LEMMA ConstantFacts ==
  Depth \in Nat \ {0} /\ MaxLeaves \in Nat \ {0} /\ MaxLeaves <= Width(0) /\ Width(0) \in Nat
<1>1. Depth \in Nat \ {0} /\ 0 \in 0..Depth
  BY MerkleProofAssumption
<1>2. Width(0) \in Nat /\ MaxLeaves \in 1 .. Width(0)
  BY <1>1, WidthFacts, MerkleProofAssumption
<1> QED
  BY <1>1, <1>2

LEMMA TypeFacts ==
  ASSUME TypeOK
  PROVE  /\ leaf \in Nat /\ leafCount \in Nat /\ leafIndex \in Nat /\ i \in Nat /\ j \in Nat
         /\ Len(rows) \in Nat /\ Len(currentLevel) \in Nat /\ Len(nextLevel) \in Nat
<1>1. leaf \in Nat /\ leafCount \in Nat /\ leafIndex \in Nat /\ i \in Nat /\ j \in Nat
  <2>1. leaf \in 0 .. MaxLeaves - 1 /\ leafCount \in 1 .. MaxLeaves /\ i \in 0..Depth
        /\ leafIndex \in Nat /\ j \in Nat
    BY DEF TypeOK
  <2> QED
    BY <2>1, ConstantFacts
<1>2. Len(rows) \in Nat /\ Len(currentLevel) \in Nat /\ Len(nextLevel) \in Nat
  BY LenProperties DEF TypeOK
<1> QED
  BY <1>1, <1>2

\* The first state satisfies the invariant.
LEMMA MerkleInit == Init => MerkleInv
<1> SUFFICES ASSUME Init PROVE MerkleInv
  OBVIOUS
<1>1. PICK saved \in SUBSET (0 .. MaxLeaves - 1) :
        /\ leaf \in saved
        /\ leafCount \in {l + 1 : l \in saved}
        /\ leaf < leafCount
        /\ rows = Ascending(saved)
        /\ leafIndex = leaf /\ i = 0 /\ j = 0
        /\ currentLevel = << >> /\ nextLevel = << >> /\ proof = << >> /\ result = "none"
  BY DEF Init
<1>2. MaxLeaves \in Nat /\ Depth \in Nat
  BY ConstantFacts
<1>3. /\ rows \in Seq(saved) /\ Len(rows) <= MaxLeaves
  BY <1>1, <1>2, AscendingFacts
<1>4. TypeOK
  <2>1. rows \in Seq(0 .. MaxLeaves - 1)
    BY <1>3, SeqMonotonic
  <2>2. leafCount \in 1 .. MaxLeaves /\ leaf \in 0 .. MaxLeaves - 1
    BY <1>1, <1>2
  <2>3. currentLevel \in Seq(Nodes) /\ nextLevel \in Seq(Nodes)
    BY <1>1, EmptySeq
  <2> QED
    BY <1>1, <1>2, <2>1, <2>2, <2>3 DEF TypeOK
<1>5. InputsInv
  <2>1. ASSUME 0..leaf \subseteq ToSet(rows) PROVE leaf < Len(rows) /\ rows[leaf + 1] = leaf
    <3>1. \A n \in DOMAIN rows : rows[n] \in saved
      BY <1>3
    <3>2. 0..leaf \subseteq saved
      BY <2>1, <3>1 DEF ToSet
    <3>3. leaf \in Nat
      BY <1>1
    <3> QED
      BY <1>1, <1>2, <3>2, <3>3, InPlace
  <2> QED
    BY <1>1, <1>3, <2>1 DEF InputsInv
<1>6. LoopInv /\ OutcomeInv
  BY <1>1 DEF LoopInv, OutcomeInv
<1> QED
  BY <1>4, <1>5, <1>6 DEF MerkleInv

\* The tree and the path are of the inputs alone.
LEMMA InputsStay ==
  ASSUME UNCHANGED inputs
  PROVE  /\ UNCHANGED <<leaf, leafCount, rows>>
         /\ Tree(rows)' = Tree(rows)
         /\ Root(leafCount)' = Root(leafCount)
         /\ Nodes' = Nodes
<1>1. UNCHANGED <<leaf, leafCount, rows>>
  BY DEF inputs
<1>2. Tree(rows)' = Tree(rows)
  BY <1>1
<1>3. Root(leafCount)' = Root(leafCount)
  BY <1>1
<1>4. Nodes' = Nodes
  BY <1>1, <1>2 DEF Nodes
<1> QED
  BY <1>1, <1>2, <1>3, <1>4

\* A step that fails before the loop, or that ends it.
LEMMA StopStep ==
  ASSUME MerkleInv, IndexPanics \/ LeafMismatch \/ RootCheck
  PROVE  MerkleInv'
<1>1. /\ UNCHANGED <<leaf, leafCount, rows, leafIndex, i, j, currentLevel, nextLevel, proof>>
      /\ result' \in {"proof", "panic", "leaf commitment mismatch", "root mismatch"}
  BY DEF IndexPanics, LeafMismatch, RootCheck, Stop, inputs
<1>0. UNCHANGED inputs
  BY <1>1 DEF inputs
<1>2. TypeOK' /\ InputsInv' /\ LoopInv'
  <2>1. TypeOK'
    BY <1>0, <1>1, InputsStay DEF MerkleInv, TypeOK
  <2>2. InputsInv'
    BY <1>1 DEF MerkleInv, InputsInv
  <2>3. LevelsOfTree' = LevelsOfTree
    BY <1>0, <1>1, InputsStay DEF LevelsOfTree
  <2>4. LoopInv'
    BY <1>0, <1>1, <2>3, InputsStay DEF MerkleInv, LoopInv
  <2> QED
    BY <2>1, <2>2, <2>4
<1>3. OutcomeInv'
  <2>1. CASE IndexPanics
    <3>1. leaf >= Len(rows) /\ result' = "panic"
      BY <2>1 DEF IndexPanics, MerkleInv, LoopInv, Stop
    <3>2. leaf \in Int /\ Len(rows) \in Nat
      BY TypeFacts DEF MerkleInv
    <3> QED
      BY <1>1, <3>1, <3>2 DEF OutcomeInv
  <2>2. CASE LeafMismatch
    <3>1. rows[leaf + 1] # leaf /\ result' = "leaf commitment mismatch"
      BY <2>2 DEF LeafMismatch, MerkleInv, LoopInv, Stop
    <3> QED
      BY <1>1, <3>1 DEF OutcomeInv
  <2>3. CASE RootCheck
    <3>1. i = Depth /\ Depth # 0
      BY <2>3, MerkleProofAssumption DEF RootCheck
    <3>2. Len(nextLevel) = 1 /\ nextLevel[1] = Tree(rows)[Depth][0]
      BY <3>1, MerkleProofAssumption DEF MerkleInv, LoopInv
    <3>3. result' = IF Tree(rows)[Depth][0] = Root(leafCount) THEN "proof" ELSE "root mismatch"
      BY <2>3, <3>2 DEF RootCheck, Stop
    <3>4. Root(leafCount)' = Root(leafCount) /\ Tree(rows)' = Tree(rows)
      BY <1>0, InputsStay
    <3> QED
      BY <1>1, <3>1, <3>3, <3>4 DEF OutcomeInv
  <2> QED
    BY <2>1, <2>2, <2>3
<1> QED
  BY <1>2, <1>3 DEF MerkleInv

\* The loop is entered with the first level of the tree.
LEMMA EnterStep ==
  ASSUME MerkleInv, Enter PROVE MerkleInv'
<1> DEFINE commitments == [n \in 1 .. Len(rows) |-> Commitment(rows[n])]
           first == Padded(commitments, ZeroHashes[0])
<1>1. TypeOK /\ InputsInv /\ LoopInv /\ OutcomeInv
  BY DEF MerkleInv
<1>2. /\ UNCHANGED inputs /\ UNCHANGED <<leafIndex, i, j, result>>
      /\ proof = << >> /\ leafIndex < Len(rows) /\ rows[leafIndex + 1] = leaf
      /\ currentLevel' = first
      /\ nextLevel' = [n \in 1 .. (Len(first) + 1) \div 2 |-> << >>]
      /\ proof' = <<leaf, Sibling(first, leafIndex)>>
  BY DEF Enter
<1>3. i = 0 /\ j = 0 /\ leafIndex = leaf /\ leaf < Len(rows) /\ rows[leaf + 1] = leaf
  BY <1>1, <1>2 DEF LoopInv
<1>4. /\ Depth \in Nat \ {0} /\ leaf \in Nat /\ Len(rows) \in Nat \ {0}
      /\ Width(0) \in Nat /\ Width(1) \in Nat
      /\ Len(rows) <= Width(0) /\ Width(0) = 2 * Width(1)
  <2>1. Depth \in Nat \ {0} /\ leaf \in Nat /\ Len(rows) \in Nat \ {0}
    BY <1>1, <1>3, ConstantFacts, TypeFacts
  <2>2. 0 \in 0 .. Depth - 1 /\ 1 \in 0..Depth /\ 0 + 1 = 1
    BY <2>1
  <2>3. Width(1) \in Nat /\ Width(0) = 2 * Width(1)
    BY <2>2, WidthFacts
  <2>4. Len(rows) <= Width(0)
    BY <1>1, <2>1, ConstantFacts DEF InputsInv
  <2> QED
    BY <2>1, <2>3, <2>4, ConstantFacts
<1>5. \A k \in 0 .. Width(0) - 1 : Tree(rows)[0][k] =
        IF k < Len(rows) THEN Commitment(rows[k + 1]) ELSE ZeroHashes[0]
  BY TreeNodes
<1>6. commitments \in Seq(Nodes) /\ Len(commitments) = Len(rows)
  <2>1. ASSUME NEW n \in 1 .. Len(rows) PROVE Commitment(rows[n]) \in Nodes
    <3>1. n - 1 \in 0 .. Width(0) - 1 /\ n - 1 < Len(rows) /\ (n - 1) + 1 = n
      BY <1>4
    <3>2. Tree(rows)[0][n - 1] = Commitment(rows[n])
      BY <1>5, <3>1
    <3>3. 0 \in 0..Depth
      BY <1>4
    <3> QED
      BY <3>1, <3>2, <3>3, NodesFacts
  <2> QED
    BY <1>4, <2>1
<1>7. ZeroHashes[0] \in Nodes /\ << >> \in Nodes
  BY <1>4, NodesFacts
<1>8. /\ first \in Seq(Nodes) /\ Len(first) \in Nat /\ Len(first) % 2 = 0
      /\ Len(first) \in {Len(rows), Len(rows) + 1}
      /\ \A k \in 1 .. Len(first) :
           first[k] = IF k <= Len(rows) THEN commitments[k] ELSE ZeroHashes[0]
  <2> HIDE DEF commitments
  <2> QED
    BY <1>6, <1>7, PaddedFacts, LenProperties
<1> HIDE DEF first
<1>9. /\ Len(first) <= Width(0) /\ leaf < Len(first) /\ 0 < (Len(first) + 1) \div 2
      /\ Len(first) = 2 * ((Len(first) + 1) \div 2)
      /\ (Len(first) + 1) \div 2 \in Nat
  <2>1. Len(first) = 2 * ((Len(first) + 1) \div 2)
    BY <1>8
  <2>2. Len(first) <= Width(0)
    <3>1. Len(first) = Len(rows) \/ Len(first) = Len(rows) + 1
      BY <1>8
    <3> DEFINE half == (Len(first) + 1) \div 2
    <3>2. half \in Int
      BY <1>8
    <3> HIDE DEF half
    <3> QED
      BY <1>4, <2>1, <3>1, <3>2 DEF half
  <2>3. (Len(first) + 1) \div 2 \in Nat
    BY <1>8
  <2> QED
    BY <1>3, <1>4, <1>8, <2>1, <2>2, <2>3
<1>10. nextLevel' \in Seq(Nodes) /\ Len(nextLevel') = (Len(first) + 1) \div 2
  BY <1>2, <1>7, <1>9
<1>11. \A k \in 0 .. Len(first) - 1 : first[k + 1] = Tree(rows)[0][k]
  <2> SUFFICES ASSUME NEW k \in 0 .. Len(first) - 1 PROVE first[k + 1] = Tree(rows)[0][k]
    OBVIOUS
  <2>1. k \in 0 .. Width(0) - 1 /\ k + 1 \in 1 .. Len(first)
        /\ (k < Len(rows) <=> k + 1 <= Len(rows))
    BY <1>4, <1>8, <1>9
  <2>2. k < Len(rows) => k + 1 \in 1 .. Len(rows)
    BY <1>4
  <2>3. k < Len(rows) => commitments[k + 1] = Commitment(rows[k + 1])
    BY <2>2
  <2> HIDE DEF commitments
  <2> QED
    BY <1>5, <1>8, <2>1, <2>3
<1> HIDE DEF commitments
<1>12. \A k \in Len(first) .. Width(0) - 1 : Tree(rows)[0][k] = ZeroHashes[0]
  <2>1. \A k \in Len(first) .. Width(0) - 1 : k \in 0 .. Width(0) - 1 /\ ~(k < Len(rows))
    BY <1>4, <1>8
  <2> QED
    BY <1>5, <2>1
<1>13. proof' = PathUpTo(1, leaf, Tree(rows)) /\ proof' # << >>
  <2>1. SiblingIndex(leaf) \in 0 .. Len(first) - 1
        /\ Sibling(first, leaf) = first[SiblingIndex(leaf) + 1]
    BY <1>4, <1>8, <1>9, SiblingFacts
  <2>2. Sibling(first, leaf) = Tree(rows)[0][SiblingIndex(leaf)]
    BY <1>11, <2>1
  <2>3. leaf \div 2^0 = leaf /\ 2 - 2 = 0
    <3>1. 2^0 = 1
      OBVIOUS
    <3> QED
      BY <1>4, <3>1
  <2>4. PathUpTo(1, leaf, Tree(rows)) = <<leaf, Tree(rows)[0][SiblingIndex(leaf)]>>
    <3>1. PathUpTo(1, leaf, Tree(rows)) = [n \in 1..2 |->
             IF n = 1 THEN leaf ELSE Tree(rows)[n - 2][SiblingIndex(leaf \div 2^(n - 2))]]
      BY DEF PathUpTo
    <3>2. \A n \in 1..2 : n = 1 \/ n = 2
      OBVIOUS
    <3> QED
      BY <2>3, <3>1, <3>2
  <2> QED
    BY <1>2, <1>3, <2>2, <2>4
<1>14. TypeOK'
  BY <1>1, <1>2, <1>8, <1>10, InputsStay DEF TypeOK
<1>15. InputsInv'
  BY <1>1, <1>2, InputsStay DEF InputsInv
<1>16. LevelsOfTree'
  <2>1. \A k \in 0 .. j' \div 2 - 1 : FALSE
    BY <1>2, <1>3
  <2>2. Width(0) = 2^(Depth - i')
    BY <1>2, <1>3 DEF Width
  <2> HIDE DEF Width
  <2> QED
    BY <1>2, <1>3, <1>4, <1>8, <1>9, <1>11, <1>12, <2>1, <2>2, InputsStay DEF LevelsOfTree
<1>17. LoopInv'
  <2>1. leaf \div 2^0 = leaf
    <3>1. 2^0 = 1
      OBVIOUS
    <3> QED
      BY <1>4, <3>1
  <2>2. (IF i' < Depth THEN i' + 1 ELSE Depth) = 1 /\ i' < Depth
    BY <1>2, <1>3, <1>4
  <2>3. UNCHANGED <<leaf, rows>> /\ Tree(rows)' = Tree(rows)
    BY <1>2, InputsStay
  <2> QED
    BY <1>2, <1>3, <1>9, <1>10, <1>13, <1>16, <2>1, <2>2, <2>3 DEF LoopInv
<1>18. OutcomeInv'
  <2>1. UNCHANGED <<leaf, rows, result, i>> /\ UNCHANGED Tree(rows) /\ UNCHANGED Root(leafCount)
    BY <1>2, InputsStay
  <2> QED
    BY <1>1, <2>1 DEF OutcomeInv
<1> QED
  BY <1>14, <1>15, <1>17, <1>18 DEF MerkleInv

\* What holds in the loop, with the widths of the two levels.
LEMMA LoopFacts ==
  ASSUME MerkleInv, proof # << >>, i < Depth
  PROVE  /\ leaf < Len(rows) /\ rows[leaf + 1] = leaf
         /\ leafIndex = leaf \div 2^i /\ proof = PathUpTo(i + 1, leaf, Tree(rows))
         /\ LevelsOfTree
         /\ i \in 0 .. Depth - 1
         /\ Width(i) \in Nat /\ Width(i + 1) \in Nat \ {0} /\ Width(i) = 2 * Width(i + 1)
         /\ Len(nextLevel) \in Nat \ {0} /\ Len(nextLevel) <= Width(i + 1)
         /\ Len(currentLevel) \in Nat /\ Len(currentLevel) = 2 * Len(nextLevel)
         /\ j \in Nat /\ j % 2 = 0
<1>1. TypeOK /\ LoopInv
  BY DEF MerkleInv
<1>2. /\ leaf < Len(rows) /\ rows[leaf + 1] = leaf
      /\ leafIndex = leaf \div 2^i /\ proof = PathUpTo(i + 1, leaf, Tree(rows))
      /\ LevelsOfTree
      /\ Len(nextLevel) > 0 /\ Len(currentLevel) = 2 * Len(nextLevel)
  BY <1>1 DEF LoopInv
<1>3. /\ i \in 0 .. Depth - 1 /\ i \in 0..Depth /\ i + 1 \in 0..Depth
      /\ Len(nextLevel) \in Nat \ {0} /\ Len(currentLevel) \in Nat /\ j \in Nat
  <2>1. i \in Nat /\ Depth \in Nat /\ j \in Nat
        /\ Len(nextLevel) \in Nat /\ Len(currentLevel) \in Nat
    BY <1>1, ConstantFacts, TypeFacts
  <2> QED
    BY <1>2, <2>1
<1>4. Width(i) \in Nat /\ Width(i + 1) \in Nat \ {0} /\ Width(i) = 2 * Width(i + 1)
  BY <1>3, WidthFacts
<1>5. Len(currentLevel) <= Width(i) /\ j % 2 = 0
  BY <1>2 DEF LevelsOfTree, Width
<1>6. Len(nextLevel) <= Width(i + 1)
  BY <1>2, <1>3, <1>4, <1>5
<1> QED
  BY <1>2, <1>3, <1>4, <1>5, <1>6

\* A pair is hashed: the place it is written to has been read.
LEMMA HashPairStep ==
  ASSUME MerkleInv, HashPair PROVE MerkleInv'
<1> DEFINE m == j \div 2
           hash == Hash(currentLevel[j + 1], currentLevel[j + 2])
<1>1. TypeOK /\ InputsInv /\ LoopInv /\ OutcomeInv
  BY DEF MerkleInv
<1>2. /\ UNCHANGED inputs /\ UNCHANGED <<leafIndex, i, proof, result>>
      /\ proof # << >> /\ i < Depth /\ j < Len(currentLevel) /\ j' = j + 2
      /\ nextLevel' = [nextLevel EXCEPT ![m + 1] = hash]
      /\ currentLevel' = IF i = 0 THEN currentLevel
                         ELSE [currentLevel EXCEPT ![m + 1] = hash]
  BY DEF HashPair
<1>3. /\ leaf < Len(rows) /\ rows[leaf + 1] = leaf
      /\ leafIndex = leaf \div 2^i /\ proof = PathUpTo(i + 1, leaf, Tree(rows))
      /\ LevelsOfTree
      /\ i \in 0 .. Depth - 1
      /\ Width(i) \in Nat /\ Width(i + 1) \in Nat \ {0} /\ Width(i) = 2 * Width(i + 1)
      /\ Len(nextLevel) \in Nat \ {0} /\ Len(nextLevel) <= Width(i + 1)
      /\ Len(currentLevel) \in Nat /\ Len(currentLevel) = 2 * Len(nextLevel)
      /\ j \in Nat /\ j % 2 = 0
  BY <1>2, LoopFacts
<1>4. /\ m \in Nat /\ j = 2 * m /\ m < Len(nextLevel) /\ j + 1 < Len(currentLevel)
      /\ m \in 0 .. Width(i + 1) - 1
      /\ m + 1 \in 1 .. Len(nextLevel) /\ m + 1 \in 1 .. Len(currentLevel)
  <2>1. m \in Nat /\ j = 2 * m
    BY <1>3
  <2> HIDE DEF m
  <2>2. m < Len(nextLevel) /\ j + 1 < Len(currentLevel)
    BY <1>2, <1>3, <2>1
  <2> QED
    BY <1>3, <2>1, <2>2
<1> HIDE DEF m
<1>5. /\ leafIndex < Len(currentLevel) /\ Len(currentLevel) <= Width(i)
      /\ \A k \in j .. Len(currentLevel) - 1 : currentLevel[k + 1] = Tree(rows)[i][k]
      /\ \A k \in 0 .. m - 1 : nextLevel[k + 1] = Tree(rows)[i + 1][k]
      /\ \A k \in Len(currentLevel) .. Width(i) - 1 : Tree(rows)[i][k] = ZeroHashes[i]
  BY <1>3 DEF LevelsOfTree, Width, m
<1>6. hash = Tree(rows)[i + 1][m]
  <2>1. currentLevel[j + 1] = Tree(rows)[i][j]
    <3>1. j \in j .. Len(currentLevel) - 1
      BY <1>3, <1>4
    <3> QED
      BY <1>5, <3>1
  <2>2. currentLevel[j + 2] = Tree(rows)[i][j + 1]
    <3>1. j + 1 \in j .. Len(currentLevel) - 1 /\ (j + 1) + 1 = j + 2
      BY <1>3, <1>4
    <3> QED
      BY <1>5, <3>1
  <2>3. Tree(rows)[i + 1][m] = Hash(Tree(rows)[i][2 * m], Tree(rows)[i][2 * m + 1])
    BY <1>3, <1>4, TreeNodes
  <2> QED
    BY <1>4, <2>1, <2>2, <2>3
<1> HIDE DEF hash
<1>7. hash \in Nodes
  <2>1. i + 1 \in 0..Depth
    BY <1>3, ConstantFacts
  <2> QED
    BY <1>4, <1>6, <2>1, NodesFacts
<1>8. currentLevel \in Seq(Nodes) /\ nextLevel \in Seq(Nodes)
  BY <1>1 DEF TypeOK
<1>9. /\ nextLevel' \in Seq(Nodes) /\ Len(nextLevel') = Len(nextLevel)
      /\ \A k \in 1 .. Len(nextLevel) :
           nextLevel'[k] = IF k = m + 1 THEN hash ELSE nextLevel[k]
  BY <1>2, <1>4, <1>7, <1>8, ExceptSeq
<1>10. /\ currentLevel' \in Seq(Nodes) /\ Len(currentLevel') = Len(currentLevel)
       /\ \A k \in 1 .. Len(currentLevel) :
            k # m + 1 => currentLevel'[k] = currentLevel[k]
  <2>1. /\ [currentLevel EXCEPT ![m + 1] = hash] \in Seq(Nodes)
        /\ Len([currentLevel EXCEPT ![m + 1] = hash]) = Len(currentLevel)
        /\ \A k \in 1 .. Len(currentLevel) : [currentLevel EXCEPT ![m + 1] = hash][k]
             = IF k = m + 1 THEN hash ELSE currentLevel[k]
    BY <1>4, <1>7, <1>8, ExceptSeq
  <2> QED
    BY <1>2, <1>8, <2>1
<1>11. \A k \in j + 2 .. Len(currentLevel) - 1 : currentLevel'[k + 1] = Tree(rows)[i][k]
  <2>1. \A k \in j + 2 .. Len(currentLevel) - 1 :
          k \in j .. Len(currentLevel) - 1 /\ k + 1 \in 1 .. Len(currentLevel)
          /\ k + 1 # m + 1
    BY <1>3, <1>4
  <2> QED
    BY <1>5, <1>10, <2>1
<1>12. \A k \in 0 .. (j + 2) \div 2 - 1 : nextLevel'[k + 1] = Tree(rows)[i + 1][k]
  <2>1. (j + 2) \div 2 - 1 = m
    BY <1>4
  <2>2. \A k \in 0 .. m : k + 1 \in 1 .. Len(nextLevel)
                        /\ (k = m \/ (k \in 0 .. m - 1 /\ k + 1 # m + 1))
    BY <1>3, <1>4
  <2> QED
    BY <1>5, <1>6, <1>9, <2>1, <2>2
<1>13. TypeOK'
  <2>1. j' \in Nat
    BY <1>2, <1>3
  <2> QED
    BY <1>1, <1>2, <1>9, <1>10, <2>1, InputsStay DEF TypeOK
<1>14. InputsInv'
  BY <1>1, <1>2, InputsStay DEF InputsInv
<1>15. LevelsOfTree'
  <2>1. j' % 2 = 0 /\ j' <= Len(currentLevel')
    BY <1>2, <1>3, <1>4, <1>10
  <2>2. Width(i) = 2^(Depth - i')
    BY <1>2 DEF Width
  <2>3. Tree(rows)' = Tree(rows)
    BY <1>2, InputsStay
  <2> QED
    BY <1>2, <1>5, <1>10, <1>11, <1>12, <2>1, <2>2, <2>3 DEF LevelsOfTree
<1>16. LoopInv'
  <2>1. UNCHANGED <<leaf, rows>> /\ Tree(rows)' = Tree(rows)
    BY <1>2, InputsStay
  <2> QED
    BY <1>2, <1>3, <1>9, <1>10, <1>15, <2>1 DEF LoopInv
<1>17. OutcomeInv'
  <2>1. UNCHANGED <<leaf, rows, result, i>> /\ UNCHANGED Tree(rows) /\ UNCHANGED Root(leafCount)
    BY <1>2, InputsStay
  <2> QED
    BY <1>1, <2>1 DEF OutcomeInv
<1> QED
  BY <1>13, <1>14, <1>16, <1>17 DEF MerkleInv

\* The leaf index is shifted as the level goes up.
LEMMA Shift ==
  ASSUME NEW index \in Nat, NEW level \in Nat
  PROVE  /\ index \div 2^level \in Nat
         /\ (index \div 2^level) \div 2 = index \div 2^(level + 1)
<1> DEFINE p == 2^level
<1>1. p \in Nat \ {0} /\ 2^(level + 1) = 2 * p
  BY PowerDoubles
<1> HIDE DEF p
<1>2. index \div p \in Nat /\ (index \div p) \div 2 = index \div (2 * p)
  BY <1>1
<1> QED
  BY <1>1, <1>2, Zenon DEF p

\* The next level is that of the tree, padded with an empty subtree.
LEMMA NextLevelStep ==
  ASSUME MerkleInv, NextLevel PROVE MerkleInv'
<1> DEFINE padded == Padded(nextLevel, ZeroHashes[i + 1])
           next == leafIndex \div 2
<1>1. TypeOK /\ InputsInv /\ LoopInv /\ OutcomeInv
  BY DEF MerkleInv
<1>2. /\ UNCHANGED inputs /\ UNCHANGED result
      /\ proof # << >> /\ i < Depth /\ j >= Len(currentLevel)
      /\ i' = i + 1 /\ j' = 0 /\ leafIndex' = next
      /\ currentLevel' = padded /\ nextLevel' = SubSeq(padded, 1, Len(padded) \div 2)
      /\ proof' = IF i + 1 < Depth THEN Append(proof, Sibling(padded, next)) ELSE proof
  BY DEF NextLevel
<1>3. /\ leaf < Len(rows) /\ rows[leaf + 1] = leaf
      /\ leafIndex = leaf \div 2^i /\ proof = PathUpTo(i + 1, leaf, Tree(rows))
      /\ LevelsOfTree
      /\ i \in 0 .. Depth - 1
      /\ Width(i) \in Nat /\ Width(i + 1) \in Nat \ {0} /\ Width(i) = 2 * Width(i + 1)
      /\ Len(nextLevel) \in Nat \ {0} /\ Len(nextLevel) <= Width(i + 1)
      /\ Len(currentLevel) \in Nat /\ Len(currentLevel) = 2 * Len(nextLevel)
      /\ j \in Nat /\ j % 2 = 0
  BY <1>2, LoopFacts
<1>4. /\ Depth \in Nat /\ i \in Nat /\ i + 1 \in Nat /\ i + 1 \in 0..Depth /\ i \in 0..Depth
      /\ leaf \in Nat
  BY <1>1, <1>3, ConstantFacts, TypeFacts
<1>5. /\ leafIndex < Len(currentLevel) /\ j <= Len(currentLevel)
      /\ \A k \in 0 .. j \div 2 - 1 : nextLevel[k + 1] = Tree(rows)[i + 1][k]
      /\ \A k \in Len(currentLevel) .. Width(i) - 1 : Tree(rows)[i][k] = ZeroHashes[i]
  BY <1>3 DEF LevelsOfTree, Width
<1>6. next \in Nat /\ next = leaf \div 2^(i + 1) /\ next < Len(nextLevel)
  <2>1. leafIndex \in Nat /\ next = leaf \div 2^(i + 1)
    BY <1>3, <1>4, Shift
  <2>2. next \in Nat /\ next < Len(nextLevel)
    BY <1>3, <1>5, <2>1
  <2> QED
    BY <2>1, <2>2
<1> HIDE DEF next
<1>7. \A k \in 0 .. Len(nextLevel) - 1 : nextLevel[k + 1] = Tree(rows)[i + 1][k]
  <2>1. j \div 2 = Len(nextLevel)
    BY <1>2, <1>3, <1>5
  <2> QED
    BY <1>5, <2>1
<1>8. \A k \in Len(nextLevel) .. Width(i + 1) - 1 : Tree(rows)[i + 1][k] = ZeroHashes[i + 1]
  <2> SUFFICES ASSUME NEW k \in Len(nextLevel) .. Width(i + 1) - 1
               PROVE  Tree(rows)[i + 1][k] = ZeroHashes[i + 1]
    OBVIOUS
  <2>1. /\ k \in 0 .. Width(i + 1) - 1
        /\ 2*k \in Len(currentLevel) .. Width(i) - 1
        /\ 2*k + 1 \in Len(currentLevel) .. Width(i) - 1
    BY <1>3
  <2>2. Tree(rows)[i + 1][k] = Hash(Tree(rows)[i][2*k], Tree(rows)[i][2*k + 1])
    BY <1>3, <2>1, TreeNodes
  <2>3. ZeroHashes[i + 1] = Hash(ZeroHashes[i], ZeroHashes[i])
    <3>1. i + 1 # 0 /\ (i + 1) - 1 = i
      BY <1>4
    <3> QED
      BY <1>4, <3>1, ZeroHashFacts
  <2> QED
    BY <1>5, <2>1, <2>2, <2>3
<1>9. /\ padded \in Seq(Nodes) /\ Len(padded) \in Nat /\ Len(padded) % 2 = 0
      /\ Len(padded) \in {Len(nextLevel), Len(nextLevel) + 1}
      /\ \A k \in 1 .. Len(padded) :
           padded[k] = IF k <= Len(nextLevel) THEN nextLevel[k] ELSE ZeroHashes[i + 1]
  <2>1. nextLevel \in Seq(Nodes) /\ ZeroHashes[i + 1] \in Nodes
    BY <1>1, <1>4, NodesFacts DEF TypeOK
  <2> QED
    BY <2>1, PaddedFacts, LenProperties
<1> HIDE DEF padded
<1>19. /\ Width(i + 1) \in Nat \ {0} /\ Len(nextLevel) \in Nat \ {0}
          /\ Len(nextLevel) <= Width(i + 1) /\ Len(padded) \in Nat
          /\ Len(nextLevel) <= Len(padded)
  <2>1. Len(padded) = Len(nextLevel) \/ Len(padded) = Len(nextLevel) + 1
    BY <1>9
  <2> QED
    BY <1>3, <1>9, <2>1
<1>10. /\ Len(padded) \div 2 \in Nat \ {0} /\ Len(padded) = 2 * (Len(padded) \div 2)
  BY <1>3, <1>9
<1>11. /\ nextLevel' \in Seq(Nodes) /\ Len(nextLevel') = Len(padded) \div 2
       /\ nextLevel'[1] = padded[1]
  <2> DEFINE half == Len(padded) \div 2
  <2>1. half \in Nat \ {0} /\ half <= Len(padded)
    BY <1>10
  <2> HIDE DEF half
  <2>2. \A k \in 1 .. half : padded[k] \in Nodes
    <3>1. \A k \in 1 .. half : k \in 1 .. Len(padded)
      BY <1>9, <2>1
    <3> QED
      BY <1>9, <3>1, ElementOfSeq
  <2>3. /\ SubSeq(padded, 1, half) \in Seq(Nodes)
        /\ Len(SubSeq(padded, 1, half)) = IF 1 <= half THEN half - 1 + 1 ELSE 0
        /\ \A k \in 1 .. half - 1 + 1 : SubSeq(padded, 1, half)[k] = padded[1 + k - 1]
    BY <2>1, <2>2, SubSeqProperties
  <2>4. 1 <= half /\ half - 1 + 1 = half /\ 1 \in 1 .. half - 1 + 1 /\ 1 + 1 - 1 = 1
    BY <2>1
  <2>5. nextLevel' = SubSeq(padded, 1, half)
    BY <1>2 DEF half
  <2>6. SubSeq(padded, 1, half)[1] = padded[1] /\ Len(SubSeq(padded, 1, half)) = half
    BY <2>3, <2>4
  <2> QED
    BY <2>3, <2>5, <2>6 DEF half
<1>12. TypeOK'
  BY <1>1, <1>2, <1>4, <1>6, <1>9, <1>11, InputsStay DEF TypeOK
<1>13. InputsInv'
  BY <1>1, <1>2, InputsStay DEF InputsInv
<1>14. OutcomeInv'
  <2>1. UNCHANGED <<leaf, rows, result>> /\ UNCHANGED Tree(rows) /\ UNCHANGED Root(leafCount)
    BY <1>2, InputsStay
  <2>2. i # Depth
    BY <1>2, <1>4
  <2> QED
    BY <1>1, <2>1, <2>2 DEF OutcomeInv
<1>15. UNCHANGED <<leaf, rows>> /\ Tree(rows)' = Tree(rows)
  BY <1>2, InputsStay
<1>16. /\ PathUpTo(i + 1, leaf, Tree(rows)) # << >>
       /\ PathUpTo(i + 2, leaf, Tree(rows)) # << >>
  <2>1. ASSUME NEW level \in Nat PROVE PathUpTo(level, leaf, Tree(rows)) # << >>
    <3>1. Len(PathUpTo(level, leaf, Tree(rows))) = level + 1
      BY PathFacts
    <3>2. Len(<< >>) = 0
      OBVIOUS
    <3> QED
      BY <3>1, <3>2
  <2>2. i + 1 \in Nat /\ i + 2 \in Nat
    BY <1>4
  <2> QED
    BY <2>1, <2>2
<1>17. CASE i + 1 < Depth
  <2>1. Width(i + 1) = 2 * Width(i + 2) /\ Width(i + 2) \in Nat
    <3>1. i + 1 \in 0 .. Depth - 1 /\ i + 2 \in 0..Depth /\ (i + 1) + 1 = i + 2
      BY <1>4, <1>17
    <3> QED
      BY <3>1, WidthFacts
  <2>2. Len(padded) <= Width(i + 1)
    <3> DEFINE half == Len(padded) \div 2
    <3>1. half \in Nat /\ Len(padded) = 2 * half
      BY <1>10
    <3>2. Len(padded) = Len(nextLevel) \/ Len(padded) = Len(nextLevel) + 1
      BY <1>9
    <3> HIDE DEF half
    <3> QED
      BY <1>3, <2>1, <3>1, <3>2
  <2>3. \A k \in 0 .. Len(padded) - 1 : padded[k + 1] = Tree(rows)[i + 1][k]
    <3> SUFFICES ASSUME NEW k \in 0 .. Len(padded) - 1
                 PROVE  padded[k + 1] = Tree(rows)[i + 1][k]
      OBVIOUS
    <3>1. k + 1 \in 1 .. Len(padded)
      BY <1>9
    <3>2. CASE k < Len(nextLevel)
      <4>1. k \in 0 .. Len(nextLevel) - 1 /\ k + 1 <= Len(nextLevel)
        BY <1>3, <3>2
      <4> QED
        BY <1>7, <1>9, <3>1, <4>1
    <3>3. CASE ~(k < Len(nextLevel))
      <4>1. k \in Len(nextLevel) .. Width(i + 1) - 1 /\ ~(k + 1 <= Len(nextLevel))
        BY <1>19, <2>2, <3>3
      <4> QED
        BY <1>8, <1>9, <3>1, <4>1
    <3> QED
      BY <3>2, <3>3
  <2>4. \A k \in Len(padded) .. Width(i + 1) - 1 : Tree(rows)[i + 1][k] = ZeroHashes[i + 1]
    <3>1. \A k \in Len(padded) .. Width(i + 1) - 1 : k \in Len(nextLevel) .. Width(i + 1) - 1
      BY <1>19
    <3> QED
      BY <1>8, <3>1
  <2>5. next < Len(padded)
    BY <1>3, <1>6, <1>9
  <2>6. proof' = PathUpTo(i + 2, leaf, Tree(rows))
    <3>1. SiblingIndex(next) \in 0 .. Len(padded) - 1
          /\ Sibling(padded, next) = padded[SiblingIndex(next) + 1]
      BY <1>6, <1>9, <2>5, SiblingFacts
    <3>2. Sibling(padded, next) = Tree(rows)[i + 1][SiblingIndex(leaf \div 2^(i + 1))]
      BY <1>6, <2>3, <3>1
    <3>3. (i + 1) + 1 = i + 2
      BY <1>4
    <3> QED
      <4>1. Append(PathUpTo(i + 1, leaf, Tree(rows)),
                   Tree(rows)[i + 1][SiblingIndex(leaf \div 2^(i + 1))])
              = PathUpTo((i + 1) + 1, leaf, Tree(rows))
        BY <1>4, PathFacts
      <4> QED
        BY <1>2, <1>3, <1>17, <3>2, <3>3, <4>1
  <2>7. LevelsOfTree'
    <3>1. \A k \in 0 .. j' \div 2 - 1 : FALSE
      BY <1>2
    <3>2. Width(i + 1) = 2^(Depth - i')
      BY <1>2 DEF Width
    <3>3. j' % 2 = 0 /\ j' <= Len(padded)
      BY <1>2, <1>9
    <3> QED
      BY <1>2, <1>15, <2>2, <2>3, <2>4, <2>5, <3>1, <3>2, <3>3 DEF LevelsOfTree
  <2>8. (IF i' < Depth THEN i' + 1 ELSE Depth) = i + 2 /\ i' < Depth
    BY <1>2, <1>4, <1>17
  <2>9. LoopInv'
    <3>1. proof' # << >>
      BY <1>16, <2>6
    <3>2. proof' = PathUpTo(IF i' < Depth THEN i' + 1 ELSE Depth, leaf', Tree(rows)')
      BY <1>15, <2>6, <2>8
    <3>3. (leaf < Len(rows) /\ rows[leaf + 1] = leaf)'
      BY <1>3, <1>15
    <3>4. leafIndex' = leaf' \div 2^(i')
      BY <1>2, <1>6, <1>15
    <3>5. Len(nextLevel') > 0 /\ Len(currentLevel') = 2 * Len(nextLevel')
      BY <1>2, <1>10, <1>11
    <3> QED
      BY <2>7, <2>8, <3>1, <3>2, <3>3, <3>4, <3>5 DEF LoopInv
  <2> QED
    BY <1>12, <1>13, <1>14, <2>9 DEF MerkleInv
<1>18. CASE ~(i + 1 < Depth)
  <2>1. i + 1 = Depth
    BY <1>2, <1>4, <1>18
  <2>2. Len(nextLevel) = 1
    <3>1. Width(i + 1) = 1
      BY <2>1, WidthFacts
    <3> QED
      <4>1. \A n \in Nat \ {0} : n <= 1 => n = 1
        OBVIOUS
      <4> QED
        BY <1>19, <3>1, <4>1
  <2>3. Len(padded) = 2
    <3>1. Len(padded) \in {1, 2} /\ Len(padded) % 2 = 0
      <4>1. Len(padded) \in {Len(nextLevel), Len(nextLevel) + 1} /\ Len(padded) % 2 = 0
        BY <1>9
      <4> QED
        BY <2>2, <4>1
    <3>2. 1 % 2 = 1
      OBVIOUS
    <3> QED
      BY <3>1, <3>2
  <2>4. padded[1] = Tree(rows)[Depth][0]
    <3>1. 1 \in 1 .. Len(padded) /\ 0 \in 0 .. Len(nextLevel) - 1 /\ 1 <= Len(nextLevel)
      BY <2>2, <2>3
    <3>2. nextLevel[0 + 1] = Tree(rows)[i + 1][0]
      BY <1>7, <3>1
    <3> QED
      BY <1>9, <2>1, <3>1, <3>2
  <2>5. Len(nextLevel') = 1 /\ Len(currentLevel') = 2 /\ nextLevel'[1] = Tree(rows)[Depth][0]
    BY <1>2, <1>11, <2>3, <2>4
  <2>6. (IF i' < Depth THEN i' + 1 ELSE Depth) = i + 1 /\ ~(i' < Depth)
    BY <1>2, <1>4, <2>1
  <2>7. LoopInv'
    BY <1>2, <1>3, <1>6, <1>15, <1>16, <1>18, <2>5, <2>6 DEF LoopInv
  <2> QED
    BY <1>12, <1>13, <1>14, <2>7 DEF MerkleInv
<1> QED
  BY <1>17, <1>18

LEMMA MerkleStep ==
  ASSUME MerkleInv, [Next]_vars PROVE MerkleInv'
<1>1. CASE IndexPanics \/ LeafMismatch \/ RootCheck
  BY <1>1, StopStep
<1>2. CASE Enter
  BY <1>2, EnterStep
<1>3. CASE HashPair
  BY <1>3, HashPairStep
<1>4. CASE NextLevel
  BY <1>4, NextLevelStep
<1>5. CASE UNCHANGED vars
  <2>1. UNCHANGED inputs /\ UNCHANGED <<leafIndex, i, j, currentLevel, nextLevel, proof, result>>
    BY <1>5 DEF vars
  <2>2. UNCHANGED <<leaf, leafCount, rows>> /\ Tree(rows)' = Tree(rows)
        /\ Root(leafCount)' = Root(leafCount) /\ Nodes' = Nodes
    BY <2>1, InputsStay
  <2>3. TypeOK'
    BY <2>1, <2>2 DEF MerkleInv, TypeOK
  <2>4. InputsInv' /\ OutcomeInv'
    BY <2>1, <2>2 DEF MerkleInv, InputsInv, OutcomeInv
  <2>5. LevelsOfTree' = LevelsOfTree
    BY <2>1, <2>2 DEF LevelsOfTree
  <2>6. LoopInv'
    BY <2>1, <2>2, <2>5 DEF MerkleInv, LoopInv
  <2> QED
    BY <2>3, <2>4, <2>6 DEF MerkleInv
<1> QED
  BY <1>1, <1>2, <1>3, <1>4, <1>5 DEF Next

\* merkle.go:48-65: the levels that are hashed in place are those of the tree
\* over the rows, and the path picks up the siblings of the leaf in that tree.
THEOREM LevelsAreTree == Spec => []MerkleInv
<1>1. MerkleInv /\ [Next]_vars => MerkleInv'
  BY MerkleStep
<1> QED
  BY <1>1, MerkleInit, PTL DEF Spec

-----------------------------------------------------------------------------
(* What the path is good for. *)

\* The values on the way up from a leaf.
WayUp(up, index, path) ==
  /\ PathRoot(index, path) = up[Depth]
  /\ up[0] = Commitment(path[1])
  /\ \A level \in 0 .. Depth - 1 : up[level + 1] =
       IF (index \div 2^level) % 2 = 0 THEN Hash(up[level], path[level + 2])
                                        ELSE Hash(path[level + 2], up[level])

LEMMA PathRootFacts ==
  ASSUME NEW index, NEW path PROVE \E up : WayUp(up, index, path)
<1> DEFINE Value(level, below) ==
             IF level = 0 THEN Commitment(path[1])
             ELSE IF (index \div 2^(level - 1)) % 2 = 0 THEN Hash(below, path[level + 1])
                                                         ELSE Hash(path[level + 1], below)
           Rec(g, m) == g = [level \in 0..m |-> Value(level, g[level - 1])]
           Done == {m \in Nat : \E g : Rec(g, m)}
<1>1. 0 \in Done
  <2>1. Rec([level \in 0..0 |-> Commitment(path[1])], 0)
    OBVIOUS
  <2> QED
    BY <2>1
<1>2. ASSUME NEW m \in Nat, m \in Done PROVE m + 1 \in Done
  <2>1. PICK g : Rec(g, m)
    BY <1>2
  <2> DEFINE h == [level \in 0..m + 1 |-> IF level <= m THEN g[level] ELSE Value(m + 1, g[m])]
  <2>2. \A level \in 0..m + 1 : h[level] = Value(level, h[level - 1])
    <3>1. \A below, other : Value(0, below) = Value(0, other)
      OBVIOUS
    <3> HIDE DEF Value
    <3> QED
      BY <2>1, <3>1
  <2>3. Rec(h, m + 1)
    <3> HIDE DEF Value
    <3> QED
      BY <2>2
  <2> HIDE DEF h, Rec
  <2> QED
    BY <2>3
<1>3. Depth \in Done
  <2> HIDE DEF Done
  <2> QED
    BY <1>1, <1>2, Induction, ConstantFacts
<1> DEFINE up == CHOOSE g : Rec(g, Depth)
<1>4. Rec(up, Depth)
  BY <1>3
<1>5. PathRoot(index, path) = up[Depth]
  BY DEF PathRoot
<1> HIDE DEF up
<1>6. \A level \in 0..Depth : up[level] = Value(level, up[level - 1])
  <2> HIDE DEF Value
  <2> QED
    BY <1>4
<1>7. up[0] = Commitment(path[1])
  BY <1>6, ConstantFacts
<1>8. ASSUME NEW level \in 0 .. Depth - 1
      PROVE  up[level + 1] =
               IF (index \div 2^level) % 2 = 0 THEN Hash(up[level], path[level + 2])
                                                ELSE Hash(path[level + 2], up[level])
  <2>1. level + 1 \in 0..Depth /\ level + 1 # 0 /\ (level + 1) - 1 = level
        /\ (level + 1) + 1 = level + 2
    BY ConstantFacts
  <2>2. up[level + 1] = Value(level + 1, up[level])
    <3> HIDE DEF Value
    <3> QED
      BY <1>6, <2>1
  <2> QED
    BY <2>1, <2>2
<1> QED
  BY <1>5, <1>7, <1>8 DEF WayUp

\* The path of a leaf that is in its place leads to the root of its tree.
LEMMA PathLeadsToRoot ==
  ASSUME NEW leaves, NEW index \in Nat, Len(leaves) \in Nat, index < Len(leaves),
         Len(leaves) <= Width(0), leaves[index + 1] = index
  PROVE  PathRoot(index, PathUpTo(Depth, index, Tree(leaves))) = Tree(leaves)[Depth][0]
<1> DEFINE path == PathUpTo(Depth, index, Tree(leaves))
<1>0. PICK up : WayUp(up, index, path)
  BY PathRootFacts
<1>1. /\ PathRoot(index, path) = up[Depth]
      /\ up[0] = Commitment(path[1])
      /\ \A level \in 0 .. Depth - 1 : up[level + 1] =
           IF (index \div 2^level) % 2 = 0 THEN Hash(up[level], path[level + 2])
                                            ELSE Hash(path[level + 2], up[level])
  BY <1>0 DEF WayUp
<1>2. /\ path[1] = index
      /\ \A level \in 0 .. Depth - 1 :
           path[level + 2] = Tree(leaves)[level][SiblingIndex(index \div 2^level)]
  <2>1. 1 \in 1 .. Depth + 1
    BY ConstantFacts
  <2>2. \A level \in 0 .. Depth - 1 : level + 2 \in 1 .. Depth + 1 /\ level + 2 # 1
                                     /\ (level + 2) - 2 = level
    BY ConstantFacts
  <2> QED
    BY <2>1, <2>2 DEF PathUpTo
<1> HIDE DEF path
<1> DEFINE Done == {n \in Nat : n <= Depth =>
                     /\ index \div 2^n \in 0 .. Width(n) - 1
                     /\ up[n] = Tree(leaves)[n][index \div 2^n]}
<1>3. 0 \in Done
  <2>1. index \div 2^0 = index
    <3>1. 2^0 = 1
      OBVIOUS
    <3> QED
      BY <3>1
  <2>2. index \in 0 .. Width(0) - 1
    BY ConstantFacts
  <2>3. Tree(leaves)[0][index] = Commitment(index)
    BY <2>2, TreeNodes
  <2> QED
    BY <1>1, <1>2, <2>1, <2>2, <2>3
<1>4. ASSUME NEW n \in Nat, n \in Done PROVE n + 1 \in Done
  <2> SUFFICES ASSUME n + 1 <= Depth
               PROVE  /\ index \div 2^(n + 1) \in 0 .. Width(n + 1) - 1
                      /\ up[n + 1] = Tree(leaves)[n + 1][index \div 2^(n + 1)]
    OBVIOUS
  <2> DEFINE x == index \div 2^n
             y == index \div 2^(n + 1)
  <2>1. n \in 0 .. Depth - 1 /\ n <= Depth
    BY ConstantFacts
  <2>2. x \in 0 .. Width(n) - 1 /\ up[n] = Tree(leaves)[n][x]
    BY <1>4, <2>1
  <2>3. y = x \div 2
    BY Shift
  <2>4. up[n + 1] = IF x % 2 = 0 THEN Hash(up[n], Tree(leaves)[n][SiblingIndex(x)])
                                 ELSE Hash(Tree(leaves)[n][SiblingIndex(x)], up[n])
    BY <1>1, <1>2, <2>1
  <2> HIDE DEF x, y
  <2>5. Width(n) = 2 * Width(n + 1) /\ Width(n) \in Nat /\ Width(n + 1) \in Nat
    <3>1. n \in 0..Depth /\ n + 1 \in 0..Depth
      BY <2>1, ConstantFacts
    <3> QED
      BY <2>1, <3>1, WidthFacts
  <2>6. x \in Nat /\ y \in 0 .. Width(n + 1) - 1
    BY <2>2, <2>3, <2>5
  <2>7. Tree(leaves)[n + 1][y] = Hash(Tree(leaves)[n][2*y], Tree(leaves)[n][2*y + 1])
    BY <2>1, <2>6, TreeNodes
  <2>8. CASE x % 2 = 0
    <3>1. x = 2*y /\ SiblingIndex(x) = 2*y + 1
      BY <2>3, <2>6, <2>8 DEF SiblingIndex
    <3> QED
      BY <2>2, <2>4, <2>6, <2>7, <2>8, <3>1 DEF y
  <2>9. CASE x % 2 # 0
    <3>1. x = 2*y + 1
      BY <2>3, <2>6, <2>9
    <3>2. SiblingIndex(x) = 2*y
      BY <2>6, <2>9, <3>1 DEF SiblingIndex
    <3> QED
      BY <2>2, <2>4, <2>6, <2>7, <2>9, <3>1, <3>2 DEF y
  <2> QED
    BY <2>8, <2>9
<1>5. Depth \in Done
  <2> HIDE DEF Done
  <2> QED
    BY <1>3, <1>4, Induction, ConstantFacts
<1>6. index \div 2^Depth = 0
  <2>1. index \div 2^Depth \in 0 .. Width(Depth) - 1 /\ Width(Depth) = 1
    BY <1>5, ConstantFacts, WidthFacts
  <2> QED
    BY <2>1
<1>7. up[Depth] = Tree(leaves)[Depth][index \div 2^Depth]
  BY <1>5, ConstantFacts
<1> QED
  BY <1>1, <1>6, <1>7 DEF path

\* Two sequences of leaves under one root have the same length and leaves.
LEMMA SameLeaves ==
  ASSUME NEW s \in Seq(Int), NEW t \in Seq(Int),
         Len(s) <= Width(0), Len(t) <= Width(0),
         Tree(s)[Depth][0] = Tree(t)[Depth][0]
  PROVE  s = t
<1>1. \A k \in 0 .. Width(0) - 1 :
        (IF k < Len(s) THEN Commitment(s[k + 1]) ELSE ZeroHashes[0])
          = (IF k < Len(t) THEN Commitment(t[k + 1]) ELSE ZeroHashes[0])
  <2>1. \A k \in 0 .. Width(0) - 1 : Tree(s)[0][k] = Tree(t)[0][k]
    BY SameRoot
  <2> QED
    BY <2>1, TreeNodes
<1>2. Len(s) \in Nat /\ Len(t) \in Nat /\ Width(0) \in Nat
  BY ConstantFacts, LenProperties
<1>3. \A l : Commitment(l) # ZeroHashes[0]
  <2>1. ZeroHashes[0] = << >>
    BY ZeroHashFacts, ConstantFacts
  <2>2. \A l : <<l>> # << >>
    OBVIOUS
  <2> QED
    BY <2>1, <2>2 DEF Commitment
<1>4. ~(Len(s) < Len(t))
  <2> SUFFICES ASSUME Len(s) < Len(t) PROVE FALSE
    OBVIOUS
  <2>1. Len(s) \in 0 .. Width(0) - 1 /\ ~(Len(s) < Len(s))
    BY <1>2
  <2>2. ZeroHashes[0] = Commitment(t[Len(s) + 1])
    BY <1>1, <2>1
  <2> QED
    BY <1>3, <2>2
<1>5. ~(Len(t) < Len(s))
  <2> SUFFICES ASSUME Len(t) < Len(s) PROVE FALSE
    OBVIOUS
  <2>1. Len(t) \in 0 .. Width(0) - 1 /\ ~(Len(t) < Len(t))
    BY <1>2
  <2>2. Commitment(s[Len(t) + 1]) = ZeroHashes[0]
    BY <1>1, <2>1
  <2> QED
    BY <1>3, <2>2
<1>6. Len(s) = Len(t)
  BY <1>2, <1>4, <1>5
<1>7. ASSUME NEW n \in 1 .. Len(s) PROVE s[n] = t[n]
  <2>1. /\ n - 1 \in 0 .. Width(0) - 1 /\ n - 1 < Len(s) /\ n - 1 < Len(t)
        /\ (n - 1) + 1 = n
    BY <1>2, <1>6
  <2>2. Commitment(s[n]) = Commitment(t[n])
    BY <1>1, <2>1
  <2> QED
    BY <2>2 DEF Commitment
<1> QED
  BY <1>6, <1>7, SeqEqual

\* merkle.go:24-26: the path that is returned verifies in the circuit against
\* the root, for every depth: the loop picks up the right siblings although it
\* checks the levels only.
THEOREM PathVerifies == Spec => []ProofVerifies
<1>1. ASSUME MerkleInv PROVE ProofVerifies
  <2> SUFFICES ASSUME result = "proof"
               PROVE  Len(proof) = Depth + 1 /\ PathRoot(leaf, proof) = Root(leafCount)
    BY DEF ProofVerifies
  <2>1. TypeOK /\ InputsInv /\ LoopInv /\ OutcomeInv
    BY <1>1 DEF MerkleInv
  <2>2. i = Depth /\ Tree(rows)[Depth][0] = Root(leafCount)
    BY <2>1 DEF OutcomeInv
  <2>3. leaf < Len(rows) /\ rows[leaf + 1] = leaf /\ proof = PathUpTo(Depth, leaf, Tree(rows))
    <3>1. i # 0 /\ ~(i < Depth)
      BY <2>2, ConstantFacts
    <3>2. proof # << >>
      BY <2>1, <3>1 DEF LoopInv
    <3> QED
      BY <2>1, <3>1, <3>2 DEF LoopInv
  <2>4. leaf \in Nat /\ Len(rows) \in Nat /\ Len(rows) <= Width(0)
    <3>1. leaf \in Nat /\ Len(rows) \in Nat /\ Len(rows) <= MaxLeaves
      BY <2>1, TypeFacts DEF InputsInv
    <3> QED
      BY <3>1, ConstantFacts
  <2>5. PathRoot(leaf, PathUpTo(Depth, leaf, Tree(rows))) = Tree(rows)[Depth][0]
    BY <2>3, <2>4, PathLeadsToRoot
  <2>6. Len(PathUpTo(Depth, leaf, Tree(rows))) = Depth + 1
    BY ConstantFacts, PathFacts
  <2> QED
    BY <2>2, <2>3, <2>5, <2>6
<1> QED
  BY <1>1, LevelsAreTree, PTL

\* merkle.go:41-43, :66-69: a path is returned exactly when the rows are the
\* leaves of the root, whatever rows are missing or to come.
THEOREM ProofIffInStep == Spec => []ProofWhenInStep
<1>1. ASSUME MerkleInv PROVE ProofWhenInStep
  <2> SUFFICES ASSUME result # "none" PROVE result = "proof" <=> rows = FirstLeaves(leafCount)
    BY DEF ProofWhenInStep
  <2>1. TypeOK /\ InputsInv /\ LoopInv /\ OutcomeInv
    BY <1>1 DEF MerkleInv
  <2>2. /\ leaf \in Nat /\ leafCount \in Nat /\ Len(rows) \in Nat
        /\ leafCount <= Width(0) /\ Len(rows) <= Width(0) /\ leaf < leafCount
    <3>1. /\ leaf \in Nat /\ leafCount \in Nat /\ Len(rows) \in Nat
          /\ leaf < leafCount /\ Len(rows) <= MaxLeaves
      BY <2>1, TypeFacts DEF InputsInv
    <3>2. leafCount \in 1 .. MaxLeaves
      BY <2>1 DEF TypeOK
    <3> QED
      BY <3>1, <3>2, ConstantFacts
  <2>3. FirstLeaves(leafCount) \in Seq(Int) /\ Len(FirstLeaves(leafCount)) = leafCount
    BY <2>2 DEF FirstLeaves
  <2>4. rows \in Seq(Int)
    <3>1. rows \in Seq(0 .. MaxLeaves - 1)
      BY <2>1 DEF TypeOK
    <3>2. 0 .. MaxLeaves - 1 \subseteq Int
      OBVIOUS
    <3> QED
      BY <3>1, <3>2, SeqMonotonic
  <2>5. ASSUME result = "proof" PROVE rows = FirstLeaves(leafCount)
    <3>1. Tree(rows)[Depth][0] = Tree(FirstLeaves(leafCount))[Depth][0]
      BY <2>1, <2>5 DEF OutcomeInv, Root
    <3> QED
      BY <2>2, <2>3, <2>4, <3>1, SameLeaves
  <2>6. ASSUME rows = FirstLeaves(leafCount) PROVE result = "proof"
    <3>1. leaf < Len(rows) /\ rows[leaf + 1] = leaf
      <4>1. leaf + 1 \in 1 .. leafCount /\ (leaf + 1) - 1 = leaf
        BY <2>2
      <4> QED
        BY <2>2, <2>3, <2>6, <4>1 DEF FirstLeaves
    <3>2. result \in {"proof", "root mismatch"}
      BY <2>1, <3>1 DEF TypeOK, OutcomeInv
    <3>3. Tree(rows)[Depth][0] = Root(leafCount)
      BY <2>6 DEF Root
    <3> QED
      BY <2>1, <3>2, <3>3 DEF OutcomeInv
  <2> QED
    BY <2>5, <2>6
<1> QED
  BY <1>1, LevelsAreTree, PTL

\* merkle.go:41: the leaf index leaves the slice, or meets the commitment of
\* another note, only when a row at or below it is missing.
THEOREM FailsOnHoleOnly == Spec => []PanicOnlyOnHole
<1>1. ASSUME MerkleInv PROVE PanicOnlyOnHole
  <2> SUFFICES ASSUME result \in {"panic", "leaf commitment mismatch"},
                      \A l \in 0..leaf : l \in ToSet(rows)
               PROVE  FALSE
    BY DEF PanicOnlyOnHole
  <2>1. InputsInv /\ OutcomeInv
    BY <1>1 DEF MerkleInv
  <2>2. 0..leaf \subseteq ToSet(rows)
    OBVIOUS
  <2> QED
    BY <2>1, <2>2 DEF InputsInv, OutcomeInv
<1> QED
  BY <1>1, LevelsAreTree, PTL

\* db/db.go:79-102 and withdrawal flow: read in ascending order, the rows of txns
\* are the leaves of a root exactly when the set of them is a prefix of the
\* chain, which is what Withdrawals!Provable asks of txns.db.
THEOREM RowsOfPrefix ==
  ASSUME NEW saved \in SUBSET (0 .. MaxLeaves - 1), NEW count \in Nat
  PROVE  Ascending(saved) = FirstLeaves(count) <=> saved = 0 .. count - 1
<1> MaxLeaves \in Nat
  BY ConstantFacts
<1>1. /\ IsFiniteSet(saved) /\ Cardinality(saved) \in Nat
      /\ Ascending(saved) \in Seq(saved) /\ Len(Ascending(saved)) = Cardinality(saved)
  BY AscendingFacts
<1>2. IsFiniteSet(0 .. count - 1) /\ Cardinality(0 .. count - 1) = count
  <2>1. 0 > count - 1 => count = 0
    OBVIOUS
  <2> QED
    BY <2>1, FS_Interval
<1>3. FirstLeaves(count) \in Seq(Nat) /\ Len(FirstLeaves(count)) = count
  BY DEF FirstLeaves
<1>4. ASSUME Ascending(saved) = FirstLeaves(count) PROVE saved = 0 .. count - 1
  <2>1. ASSUME NEW l \in 0 .. count - 1 PROVE l \in saved
    <3>1. l + 1 \in 1 .. Len(Ascending(saved)) /\ FirstLeaves(count)[l + 1] = l
      BY <1>3, <1>4 DEF FirstLeaves
    <3> QED
      BY <1>1, <1>4, <3>1, ElementOfSeq
  <2>2. Cardinality(saved) = count
    BY <1>1, <1>3, <1>4
  <2>3. 0 .. count - 1 \subseteq saved
    BY <2>1
  <2> QED
    BY <1>1, <1>2, <2>2, <2>3, FS_Subset
<1>5. ASSUME saved = 0 .. count - 1 PROVE Ascending(saved) = FirstLeaves(count)
  <2>1. Len(Ascending(saved)) = count
    BY <1>1, <1>2, <1>5
  <2>2. ASSUME NEW n \in 1 .. count PROVE Ascending(saved)[n] = FirstLeaves(count)[n]
    <3>1. n - 1 \in Nat /\ (n - 1) + 1 = n /\ 0 .. n - 1 \subseteq saved
      BY <1>5
    <3>2. Ascending(saved)[(n - 1) + 1] = n - 1
      BY <3>1, InPlace
    <3> QED
      BY <3>1, <3>2 DEF FirstLeaves
  <2> QED
    BY <1>1, <1>3, <2>1, <2>2, SeqEqual
<1> QED
  BY <1>4, <1>5

=============================================================================
