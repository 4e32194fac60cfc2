SPECIFICATION Spec
CONSTANTS
  Depth = 3
  MaxLeaves = 8
INVARIANTS
  ProofVerifies
  ProofWhenInStep
  PanicOnlyOnHole
  MerkleInv
CHECK_DEADLOCK FALSE
