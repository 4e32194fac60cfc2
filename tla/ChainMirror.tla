----------------------------- MODULE ChainMirror -----------------------------
(***************************************************************************)
(* What a reader of txns.db may rely on, and no more: a row stays, it is   *)
(* of a leaf of the chain, a leaf has one row at most, and the leaf count  *)
(* is that of the row written last.  Rows may come in any order, so there  *)
(* may be holes, and the root may be one of a smaller tree than the rows.  *)
(***************************************************************************)
EXTENDS Integers

VARIABLES
  leaves,   \* how many leaves the tree has on the chain
  txns,     \* the leaf indices with the row of their note
  spoiled,  \* the leaf indices with the row of a call that appended no leaf
  leafCount \* the leaf count of the root

vars == <<leaves, txns, spoiled, leafCount>>

Init ==
  /\ leaves = 0
  /\ txns = {}
  /\ spoiled = {}
  /\ leafCount = 0

Extend ==
  /\ leaves' > leaves
  /\ UNCHANGED <<txns, spoiled, leafCount>>

Mirror ==
  /\ UNCHANGED leaves
  /\ \E leaf \in (0 .. leaves - 1) \ (txns \cup spoiled) :
       /\ \/ txns' = txns \cup {leaf} /\ UNCHANGED spoiled
          \/ spoiled' = spoiled \cup {leaf} /\ UNCHANGED txns
       /\ leafCount' = leaf + 1

Next == Extend \/ Mirror

Spec == Init /\ [][Next]_vars

\* The rows are the leaves of the root: of the two as they are at one moment,
\* createMerkleProof makes a path.
InStep == txns = 0 .. leafCount - 1 /\ spoiled = {}

=============================================================================
