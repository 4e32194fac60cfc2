------------------------------- MODULE Amounts -------------------------------
(***************************************************************************)
(* The arithmetic of a withdrawal: the fee and the change note the         *)
(* frontend computes in uint64, and the constraints the withdrawal circuit *)
(* puts on them in its field.                                              *)
(***************************************************************************)
EXTENDS Words

CONSTANTS
  Field,   \* number of values of the field of the circuit
  MinFee,  \* WithdrawalMinFee
  Divisor  \* FrontendWithDrawalFeeDivisor

ASSUME AmountsAssumption ==
  /\ Word \in Nat /\ Field \in Nat /\ Word < Field
  /\ MinFee \in 0 .. Word - 1
  /\ Divisor \in Nat

Elements == 0 .. Field - 1

\* The sum of two uint64.
Plus(a, b) == IF a + b < Word THEN a + b ELSE a + b - Word

CalculateWithdrawalFee(amount) ==
  IF Divisor # 0 /\ amount \div Divisor > MinFee THEN amount \div Divisor ELSE MinFee

MaxWithdrawalAmount(amount) ==
  LET fee == CalculateWithdrawalFee(amount)
  IN IF amount <= fee THEN 0 ELSE amount - fee

Deduction(withdrawal) == Plus(withdrawal, CalculateWithdrawalFee(withdrawal))

\* Mutant: no check of the overflow.
AnySum(amount, withdrawal) == amount >= Deduction(withdrawal)

\* Mutant: no check of the amount of the note.
AnyAmount(amount, withdrawal) == Deduction(withdrawal) >= withdrawal

\* GenerateChangeNote makes a note: "overflow in deduction" and "note amount
\* too small" are its errors.
ChangeAllowed(amount, withdrawal) ==
  /\ Deduction(withdrawal) >= withdrawal
  /\ amount >= Deduction(withdrawal)

Change(amount, withdrawal) == amount - Deduction(withdrawal)

\* api.Sub(a, b): subtraction in the field.
Sub(a, b) == IF b <= a THEN a - b ELSE a - b + Field

\* Mutant: the first constraint is left out.
CircuitOfFeeOnly(amount, withdrawal, fee, change) ==
  /\ fee <= Sub(amount, withdrawal)
  /\ change = Sub(Sub(amount, withdrawal), fee)

WithdrawalCircuit(amount, withdrawal, fee, change) ==
  /\ withdrawal <= amount
  /\ fee <= Sub(amount, withdrawal)
  /\ change = Sub(Sub(amount, withdrawal), fee)

=============================================================================
