-------------------------------- MODULE Words --------------------------------
(***************************************************************************)
(* uint64, whose sums and products wrap.                                   *)
(***************************************************************************)
EXTENDS Integers

CONSTANT Word \* number of values of a uint64

ASSUME WordsAssumption == Word \in Nat \ {0}

Uint64 == 0 .. Word - 1

=============================================================================
