----------------------------- MODULE MerkleProof -----------------------------
(***************************************************************************)
(* createMerkleProof (avm/merkle.go): the levels of the tree are hashed in *)
(* place, in slices that share their array from the second level on, and   *)
(* the path of a leaf is picked up on the way.                             *)
(*                                                                         *)
(* Hashes are symbolic: the commitment of a leaf is <<leaf>>, the parent   *)
(* of a and b is <<a, b>>, and the empty leaf is << >>.  The rows of txns  *)
(* may have holes, and the root may be that of fewer leaves than txns has, *)
(* or of more: the subscriber may have skipped a note, or save one between *)
(* the two reads.                                                          *)
(***************************************************************************)
EXTENDS Integers, Sequences, FiniteSetsExt, SequencesExt

CONSTANTS
  Depth,    \* MerkleTreeLevels
  MaxLeaves \* bound on the leaf indices

ASSUME MerkleProofAssumption == Depth \in Nat \ {0} /\ MaxLeaves \in 1 .. 2^Depth

VARIABLES
  leaf,      \* the leaf index of the note, as txns.db has it
  leafCount, \* the root is that of so many leaves
  rows,      \* leaf indices of the rows of txns, in ascending order
  leafIndex, \* what is left of the leaf index
  i,         \* the level
  j,         \* the position in the level
  currentLevel, nextLevel,
  proof,
  result     \* "none", "proof", an error, or "panic"

inputs == <<leaf, leafCount, rows>>
vars == <<inputs, leafIndex, i, j, currentLevel, nextLevel, proof, result>>

Commitment(l) == <<l>>
Hash(a, b) == <<a, b>>

ZeroHashes[level \in 0..Depth] ==
  IF level = 0 THEN << >> ELSE Hash(ZeroHashes[level - 1], ZeroHashes[level - 1])

\* The Merkle tree over a sequence of leaves: the node at a position of a level.
Tree(leaves) ==
  LET node[level \in 0..Depth] ==
        [k \in 0 .. 2^(Depth - level) - 1 |->
          IF level = 0
          THEN IF k < Len(leaves) THEN Commitment(leaves[k + 1]) ELSE ZeroHashes[0]
          ELSE Hash(node[level - 1][2*k], node[level - 1][2*k + 1])]
  IN node

FirstLeaves(count) == [n \in 1 .. count |-> n - 1]

\* The root of the contract's tree of so many leaves.
Root(count) == Tree(FirstLeaves(count))[Depth][0]

\* The circuit's MerkleProof: the hash of the leaf, hashed with its siblings
\* from left or right as the bits of the index say.
PathRoot(index, path) ==
  LET up[level \in 0..Depth] ==
        IF level = 0 THEN Commitment(path[1])
        ELSE IF (index \div 2^(level - 1)) % 2 = 0
             THEN Hash(up[level - 1], path[level + 1])
             ELSE Hash(path[level + 1], up[level - 1])
  IN up[Depth]

Padded(level, zero) == IF Len(level) % 2 = 1 THEN Append(level, zero) ELSE level

\* ORDER BY leaf_index ASC.
Ascending(leaves) ==
  [n \in 1 .. Cardinality(leaves) |->
    CHOOSE l \in leaves : Cardinality({k \in leaves : k < l}) = n - 1]

\* getRoot has refused a leaf the root does not cover.  The row of the note
\* and the last leaf of the root were saved before the rows are read.
Init ==
  \E saved \in SUBSET (0 .. MaxLeaves - 1) :
    /\ leaf \in saved
    /\ leafCount \in {l + 1 : l \in saved}
    /\ leaf < leafCount
    /\ rows = Ascending(saved)
    /\ leafIndex = leaf
    /\ i = 0
    /\ j = 0
    /\ currentLevel = << >>
    /\ nextLevel = << >>
    /\ proof = << >>
    /\ result = "none"

Stop(outcome) ==
  /\ result' = outcome
  /\ UNCHANGED <<inputs, leafIndex, i, j, currentLevel, nextLevel, proof>>

\* Mutant: the last leaf has no sibling when its level is not padded.
IndexPanicsAtLast == proof = << >> /\ leafIndex + 1 >= Len(rows) /\ Stop("panic")

\* currentLevel[leafIndex] is out of range.
IndexPanics == proof = << >> /\ leafIndex >= Len(rows) /\ Stop("panic")

LeafMismatch ==
  /\ proof = << >>
  /\ leafIndex < Len(rows)
  /\ rows[leafIndex + 1] # leaf
  /\ Stop("leaf commitment mismatch")

\* Mutant: an odd node is its own sibling.
SiblingOffByOne(level, index) ==
  IF index % 2 = 0 THEN level[index + 2] ELSE level[index + 1]

Sibling(level, index) == IF index % 2 = 0 THEN level[index + 2] ELSE level[index]

\* The loop is entered: the leaf and its sibling are the first of the proof.
Enter ==
  /\ proof = << >>
  /\ leafIndex < Len(rows)
  /\ rows[leafIndex + 1] = leaf
  /\ currentLevel' = Padded([n \in 1 .. Len(rows) |-> Commitment(rows[n])], ZeroHashes[0])
  /\ nextLevel' = [n \in 1 .. (Len(currentLevel') + 1) \div 2 |-> << >>]
  /\ proof' = <<leaf, Sibling(currentLevel', leafIndex)>>
  /\ UNCHANGED <<inputs, leafIndex, i, j, result>>

\* The pair at j is hashed.  From the second level on nextLevel is the front
\* of the array of currentLevel.
HashPair ==
  /\ proof # << >> /\ i < Depth
  /\ j < Len(currentLevel)
  /\ LET hash == Hash(currentLevel[j + 1], currentLevel[j + 2])
     IN /\ nextLevel' = [nextLevel EXCEPT ![j \div 2 + 1] = hash]
        /\ currentLevel' = IF i = 0 THEN currentLevel
                           ELSE [currentLevel EXCEPT ![j \div 2 + 1] = hash]
  /\ j' = j + 2
  /\ UNCHANGED <<inputs, leafIndex, i, proof, result>>

\* Mutant: a level is padded with the empty hash of the level below.
NextLevelOldZero ==
  /\ proof # << >> /\ i < Depth
  /\ j >= Len(currentLevel)
  /\ i' = i + 1
  /\ j' = 0
  /\ currentLevel' = Padded(nextLevel, ZeroHashes[i])
  /\ nextLevel' = SubSeq(currentLevel', 1, Len(currentLevel') \div 2)
  /\ leafIndex' = leafIndex \div 2
  /\ proof' = IF i + 1 < Depth THEN Append(proof, Sibling(currentLevel', leafIndex'))
                              ELSE proof
  /\ UNCHANGED <<inputs, result>>

\* Mutant: nextLevel is cut to half of its length before it is padded.
NextLevelShort ==
  /\ proof # << >> /\ i < Depth
  /\ j >= Len(currentLevel)
  /\ i' = i + 1
  /\ j' = 0
  /\ currentLevel' = Padded(nextLevel, ZeroHashes[i + 1])
  /\ nextLevel' = SubSeq(currentLevel', 1, Len(nextLevel) \div 2)
  /\ leafIndex' = leafIndex \div 2
  /\ proof' = IF i + 1 < Depth THEN Append(proof, Sibling(currentLevel', leafIndex'))
                              ELSE proof
  /\ UNCHANGED <<inputs, result>>

\* The level is done: nextLevel is padded and becomes currentLevel, and the
\* loop picks up the next sibling.
NextLevel ==
  /\ proof # << >> /\ i < Depth
  /\ j >= Len(currentLevel)
  /\ i' = i + 1
  /\ j' = 0
  /\ currentLevel' = Padded(nextLevel, ZeroHashes[i + 1])
  /\ nextLevel' = SubSeq(currentLevel', 1, Len(currentLevel') \div 2)
  /\ leafIndex' = leafIndex \div 2
  /\ proof' = IF i + 1 < Depth THEN Append(proof, Sibling(currentLevel', leafIndex'))
                              ELSE proof
  /\ UNCHANGED <<inputs, result>>

RootCheck ==
  /\ i = Depth
  /\ Stop(IF Len(nextLevel) = 1 /\ nextLevel[1] = Root(leafCount)
          THEN "proof" ELSE "root mismatch")

Next ==
  /\ result = "none"
  /\ IndexPanics \/ LeafMismatch \/ Enter \/ HashPair \/ NextLevel \/ RootCheck

Spec == Init /\ [][Next]_vars

-----------------------------------------------------------------------------

\* merkle.go:24-26: the path verifies in the circuit against the root.  The
\* check of createMerkleProof is of the levels and never reads the path.
ProofVerifies ==
  result = "proof" =>
    Len(proof) = Depth + 1 /\ PathRoot(leaf, proof) = Root(leafCount)

\* A proof is made exactly when the rows are the leaves of the root: neither
\* the padding nor the shared array spoils a good tree, and no other rows pass.
ProofWhenInStep ==
  result # "none" =>
    (result = "proof" <=> rows = FirstLeaves(leafCount))

\* merkle.go:41: only when notes are missing from txns does the leaf index
\* leave the slice or meet the commitment of another note.
PanicOnlyOnHole ==
  result \in {"panic", "leaf commitment mismatch"} =>
    \E l \in 0 .. leaf : l \notin ToSet(rows)

-----------------------------------------------------------------------------
(* The inductive invariant. *)

Nodes ==
  {ZeroHashes[level] : level \in 0..Depth} \cup
  UNION {{Tree(rows)[level][k] : k \in 0 .. 2^(Depth - level) - 1} : level \in 0..Depth}

TypeOK ==
  /\ leaf \in 0 .. MaxLeaves - 1
  /\ leafCount \in 1 .. MaxLeaves
  /\ rows \in Seq(0 .. MaxLeaves - 1)
  /\ leafIndex \in Nat
  /\ i \in 0..Depth
  /\ j \in Nat
  /\ currentLevel \in Seq(Nodes)
  /\ nextLevel \in Seq(Nodes)
  /\ result \in {"none", "proof", "panic", "leaf commitment mismatch", "root mismatch"}

\* The row of the leaf is in its place unless a row before it is missing.
InputsInv ==
  /\ leaf < leafCount
  /\ Len(rows) <= MaxLeaves
  /\ 0 .. leaf \subseteq ToSet(rows) => leaf < Len(rows) /\ rows[leaf + 1] = leaf

SiblingIndex(index) == IF index % 2 = 0 THEN index + 1 ELSE index - 1

\* A leaf and its siblings on the way to a level of the tree.
PathUpTo(level, index, tree) ==
  [n \in 1 .. level + 1 |->
    IF n = 1 THEN index ELSE tree[n - 2][SiblingIndex(index \div 2^(n - 2))]]

\* What is not yet read of currentLevel is a level of the tree over the rows,
\* what is written of nextLevel is the next one, and beyond them there are
\* only empty subtrees.
LevelsOfTree ==
  /\ leafIndex < Len(currentLevel)
  /\ Len(currentLevel) <= 2^(Depth - i)
  /\ j % 2 = 0 /\ j <= Len(currentLevel)
  /\ \A k \in j .. Len(currentLevel) - 1 : currentLevel[k + 1] = Tree(rows)[i][k]
  /\ \A k \in 0 .. j \div 2 - 1 : nextLevel[k + 1] = Tree(rows)[i + 1][k]
  /\ \A k \in Len(currentLevel) .. 2^(Depth - i) - 1 : Tree(rows)[i][k] = ZeroHashes[i]

LoopInv ==
  IF proof = << >> THEN i = 0 /\ leafIndex = leaf /\ j = 0
  ELSE /\ leaf < Len(rows) /\ rows[leaf + 1] = leaf
       /\ leafIndex = leaf \div 2^i
       /\ proof = PathUpTo(IF i < Depth THEN i + 1 ELSE Depth, leaf, Tree(rows))
       /\ Len(nextLevel) > 0 /\ Len(currentLevel) = 2 * Len(nextLevel)
       /\ IF i < Depth THEN LevelsOfTree
          ELSE Len(nextLevel) = 1 /\ nextLevel[1] = Tree(rows)[Depth][0]

OutcomeInv ==
  /\ result \in {"panic", "leaf commitment mismatch"} =>
       ~(leaf < Len(rows) /\ rows[leaf + 1] = leaf)
  /\ result \in {"proof", "root mismatch"} =>
       /\ i = Depth
       /\ result = "proof" <=> Tree(rows)[Depth][0] = Root(leafCount)

\* merkle.go:48-65: a pair of a level is hashed before its places in the shared
\* array are overwritten, and every level that is left in the array is the
\* level of the tree over the rows.
MerkleInv == TypeOK /\ InputsInv /\ LoopInv /\ OutcomeInv

=============================================================================
