----------------------------- MODULE MCDeposits -----------------------------
(***************************************************************************)
(* An instance of Deposits for TLC: two decimals, 1 algo at least, a fee   *)
(* of 0.05, a minimum balance of 0.1 with 0.1 for an opt-in.               *)
(***************************************************************************)
EXTENDS Deposits, TLC

\* "1.05", "11" (which is more than a uint64 of microalgos), "1.005".
MCTyped ==
  {[whole |-> 1, digits |-> 2, decimals |-> 5],
   [whole |-> 11, digits |-> 0, decimals |-> 0],
   [whole |-> 1, digits |-> 3, decimals |-> 5]}

FormSymmetry == Permutations(Forms)

=============================================================================
