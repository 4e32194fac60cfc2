------------------------------- MODULE Inputs -------------------------------
(***************************************************************************)
(* How an amount becomes text and text an amount: models.Input.ToAmount,   *)
(* which reads the forms, MicroAlgosToAlgoString, which writes the pages   *)
(* and the hidden field of the confirm form, and microAlgosToInputAmount,  *)
(* which fills the deposit form.                                           *)
(*                                                                         *)
(* A text is the number before the point, the number of digits after it,   *)
(* and the number these digits are.  Thousand separators are left out:     *)
(* ToAmount drops those that MicroAlgosToAlgoString adds.                  *)
(***************************************************************************)
EXTENDS Words

CONSTANT Decimals \* digits of a microalgo after the point

Unit == 10^Decimals

ASSUME InputsAssumption ==
  /\ Decimals \in Nat
  /\ \A n \in 0 .. Decimals : 10^n \in Nat \ {0}

\* A number below zero stands for what ParseUint does not read: no digit, a
\* sign, an exponent.
Input == [whole : Int, digits : Nat, decimals : Nat]

\* The errors of ToAmount: "invalid integer part", "too many decimal places".
ToAmountFails(input) == input.whole \notin Uint64 \/ input.digits > Decimals

\* The number that was written, in microalgos.
Written(input) ==
  input.whole * Unit + input.decimals * 10^(Decimals - input.digits)

\* integer*1_000_000 + decimal, in uint64.
ToAmount(input) == Written(input) % Word

\* strings.TrimRight(fracStr, "0") leaves so many digits of a fraction.
DigitsLeft(fraction) ==
  CHOOSE n \in 0 .. Decimals :
    /\ fraction % 10^(Decimals - n) = 0
    /\ \A k \in 0 .. n - 1 : fraction % 10^(Decimals - k) # 0

\* Mutant: "%d" instead of "%06d" loses the zeros after the point.
AlgoStringUnpadded(microalgos) ==
  LET fraction == microalgos % Unit
      digits   == CHOOSE n \in 0 .. Decimals :
                    fraction < 10^n /\ \A k \in 0 .. n - 1 : 10^k <= fraction
  IN [whole    |-> microalgos \div Unit,
      digits   |-> digits,
      decimals |-> fraction]

\* MicroAlgosToAlgoString and microAlgosToInputAmount.
MicroAlgosToAlgoString(microalgos) ==
  LET fraction == microalgos % Unit
      digits   == DigitsLeft(fraction)
  IN [whole    |-> microalgos \div Unit,
      digits   |-> digits,
      decimals |-> fraction \div 10^(Decimals - digits)]

=============================================================================
