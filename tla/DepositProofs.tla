---------------------------- MODULE DepositProofs ----------------------------
(***************************************************************************)
(* For every width of the integers and every number of decimals, the text  *)
(* an amount is written as is read as that amount.  With it: the session,  *)
(* the confirm page and the block have the amount that was typed, and the  *)
(* contract gets what the notes are worth as long as nobody pays an        *)
(* account that is being closed.                                           *)
(***************************************************************************)
EXTENDS Deposits, WellFoundedInduction, TLAPS

\* The natural numbers are well ordered.
LEMMA LeastElement ==
  ASSUME NEW S, S \subseteq Nat, S # {}
  PROVE  \E x \in S : \A y \in S : x <= y
<1> DEFINE Less == {ss \in Nat \X Nat : ss[1] < ss[2]}
<1>1. IsWellFoundedOn(Less, Nat)
  BY NatLessThanWellFounded DEF OpToRel
<1> HIDE DEF Less
<1>2. PICK x \in S : \A y \in S : ~(<<y, x>> \in Less)
  BY <1>1, WFMin
<1>3. \A y \in S : ~(y < x)
  BY <1>2 DEF Less
<1> QED
  BY <1>3

LEMMA UnitType == Unit \in Nat \ {0}
BY InputsAssumption DEF Unit

\* TrimRight leaves the significant digits of a fraction.
LEMMA DigitsLeftDef ==
  ASSUME NEW fraction \in Nat
  PROVE  /\ DigitsLeft(fraction) \in 0 .. Decimals
         /\ fraction % 10^(Decimals - DigitsLeft(fraction)) = 0
<1> DEFINE Trimmed(n) == fraction % 10^(Decimals - n) = 0
           S == {n \in 0 .. Decimals : Trimmed(n)}
<1>1. Decimals \in S
  <2>1. Decimals - Decimals = 0 /\ Decimals \in 0 .. Decimals
    BY InputsAssumption
  <2>2. 10^0 = 1
    BY SMT
  <2>3. fraction % 1 = 0
    OBVIOUS
  <2> QED
    BY <2>1, <2>2, <2>3
<1>2. S \subseteq Nat
  BY InputsAssumption
<1>3. PICK n \in S : \A y \in S : n <= y
  <2> HIDE DEF S
  <2> QED
    BY <1>1, <1>2, LeastElement
<1>4. \A k \in 0 .. n - 1 : ~Trimmed(k)
  BY <1>3, InputsAssumption
<1>5. n \in 0 .. Decimals /\ Trimmed(n)
  BY <1>3
<1> HIDE DEF S
<1> QED
  BY <1>4, <1>5 DEF DigitsLeft

\* models/amount.go:43 and max_deposit.go:47: what they write is a number that
\* ToAmount reads, and the amount it was written for.
LEMMA StringOfAmount ==
  ASSUME NEW m \in Uint64
  PROVE  /\ MicroAlgosToAlgoString(m) \in Input
         /\ ~ToAmountFails(MicroAlgosToAlgoString(m))
         /\ Written(MicroAlgosToAlgoString(m)) = m
<1> DEFINE fraction == m % Unit
           n == DigitsLeft(fraction)
           p == 10^(Decimals - n)
           whole == m \div Unit
           decimals == fraction \div p
<1>1. m \in Nat /\ m < Word /\ Word \in Nat
  BY WordsAssumption DEF Uint64
<1>2. fraction \in Nat /\ whole \in Nat /\ m = whole * Unit + fraction
  BY <1>1, UnitType
<1>3. n \in 0 .. Decimals /\ fraction % p = 0
  BY <1>2, DigitsLeftDef
<1>4. p \in Nat \ {0}
  BY <1>3, InputsAssumption
<1>5. decimals \in Nat /\ decimals * p = fraction
  <2> HIDE DEF fraction, p
  <2> QED
    BY <1>2, <1>3, <1>4
<1>6. whole \in Uint64
  <2>1. m \div Unit \in Nat /\ m \div Unit <= m
    BY <1>1, UnitType
  <2> QED
    BY <1>1, <2>1 DEF Uint64
<1>7. MicroAlgosToAlgoString(m) =
        [whole |-> whole, digits |-> n, decimals |-> decimals]
  BY DEF MicroAlgosToAlgoString
<1> HIDE DEF fraction, n, p, whole, decimals
<1>8. MicroAlgosToAlgoString(m) \in Input
  BY <1>2, <1>3, <1>5, <1>7, InputsAssumption DEF Input
<1>9. ~ToAmountFails(MicroAlgosToAlgoString(m))
  BY <1>3, <1>6, <1>7, InputsAssumption DEF ToAmountFails
<1>10. Written(MicroAlgosToAlgoString(m)) = whole * Unit + decimals * p
  BY <1>7 DEF Written, p
<1> QED
  BY <1>2, <1>5, <1>8, <1>9, <1>10

\* models/input.go:20 undoes models/amount.go:43, for every amount.
THEOREM RoundTrip ==
  ASSUME NEW m \in Uint64
  PROVE  ToAmount(MicroAlgosToAlgoString(m)) = m
<1>1. Written(MicroAlgosToAlgoString(m)) = m
  BY StringOfAmount
<1> QED
  BY <1>1, WordsAssumption DEF ToAmount, Uint64

\* What ToAmount reads is what was written, unless that is no uint64.
LEMMA ReadAmount ==
  ASSUME NEW input \in Input, ~ToAmountFails(input)
  PROVE  /\ ToAmount(input) \in Uint64
         /\ ToAmount(input) = Written(input) \/ Word <= Written(input)
<1>1. /\ input.whole \in Nat /\ input.decimals \in Nat
      /\ input.digits \in 0 .. Decimals
  BY InputsAssumption, WordsAssumption DEF Input, ToAmountFails, Uint64
<1>2. 10^(Decimals - input.digits) \in Nat
  BY <1>1, InputsAssumption
<1>3. Written(input) \in Nat
  <2>1. input.whole * Unit \in Nat
    BY <1>1, UnitType
  <2>2. input.decimals * 10^(Decimals - input.digits) \in Nat
    BY <1>1, <1>2
  <2> QED
    BY <2>1, <2>2 DEF Written
<1> QED
  BY <1>3, WordsAssumption DEF ToAmount, Uint64

-----------------------------------------------------------------------------

LEMMA MaxDepositAmountType ==
  ASSUME TypeOK PROVE MaxDepositAmount \in Uint64
<1>1. balance \in Nat /\ balance < Word
  <2>1. MaxBalance \in Nat /\ MaxBalance < Word
    BY DepositsAssumption, WordsAssumption DEF Uint64
  <2> QED
    BY <2>1, WordsAssumption DEF TypeOK
<1>2. Mbr \in Nat /\ Fee \in Nat
  BY DepositsAssumption DEF Mbr
<1> QED
  BY <1>1, <1>2, WordsAssumption DEF MaxDepositAmount, Uint64

LEMMA InitTypeOK == Init => TypeOK
<1> SUFFICES ASSUME Init PROVE TypeOK
  OBVIOUS
<1>1. Blank \in Input
  BY DEF Blank, Input
<1>2. 0 \in Uint64
  BY WordsAssumption DEF Uint64
<1>3. ticker \in now .. now + CleanupInterval
  BY DEF Init
<1> QED
  BY <1>1, <1>2, <1>3, DepositsAssumption DEF Init, TypeOK

\* A closed page has no amount, whatever it had.
LEMMA ForgetType ==
  ASSUME TypeOK, NEW f \in Forms, Forget(f), now' = now
  PROVE  /\ typed' \in [Forms -> Input]
         /\ amount' \in [Forms -> Uint64]
         /\ closes' \in [Forms -> BOOLEAN]
         /\ built' \in [Forms -> 0 .. now']
<1>1. Blank \in Input
  BY DEF Blank, Input
<1>2. 0 \in Uint64
  BY WordsAssumption DEF Uint64
<1>3. now \in Nat
  BY DEF TypeOK
<1> QED
  BY <1>1, <1>2, <1>3 DEF TypeOK, Forget

LEMMA VerdictType ==
  ASSUME NEW f
  PROVE  Verdict(f) \in {"malformed", "lost", "mismatch", "expired", "rejected",
                         "refused", "sent"}
BY DEF Verdict, Answer

LEMMA TypeStep ==
  ASSUME TypeOK, [Next]_vars PROVE TypeOK'
<1>1. ASSUME NEW f \in Forms, NEW input \in Input, Type(f, input) PROVE TypeOK'
  BY <1>1 DEF Type, TypeOK, ledgerVars, timeVars
<1>2. ASSUME NEW f \in Forms, Deposit(f) PROVE TypeOK'
  <2>1. ToAmount(typed[f]) \in Uint64
    BY <1>2, ReadAmount DEF Deposit, TypeOK
  <2>2. PICK told \in BOOLEAN :
          closes' = [closes EXCEPT ![f] = told /\ Closes(ToAmount(typed[f]))]
    BY <1>2 DEF Deposit
  <2>3. closes' \in [Forms -> BOOLEAN]
    BY <2>2 DEF TypeOK, Closes
  <2>4. built' \in [Forms -> 0 .. now']
    BY <1>2 DEF Deposit, TypeOK, timeVars
  <2>5. page' \in [Forms -> {"form", "confirm", "sent", "deposited", "failed",
                             "malformed", "unsigned", "mismatch", "lost",
                             "expired", "rejected", "refused"}]
    BY <1>2 DEF Deposit, Goto, TypeOK
  <2>6. amount' \in [Forms -> Uint64] /\ sessions' \subseteq Forms
    BY <1>2, <2>1 DEF Deposit, TypeOK
  <2> QED
    BY <1>2, <2>3, <2>4, <2>5, <2>6 DEF Deposit, TypeOK, ledgerVars, timeVars
<1>3. ASSUME NEW f \in Forms, DepositFails(f) PROVE TypeOK'
  BY <1>3, ForgetType DEF DepositFails, Goto, TypeOK, ledgerVars, timeVars
<1>4. ASSUME NEW f \in Forms, ConfirmDeposit(f) PROVE TypeOK'
  <2>1. page' \in [Forms -> {"form", "confirm", "sent", "deposited", "failed",
                             "malformed", "unsigned", "mismatch", "lost",
                             "expired", "rejected", "refused"}]
    BY <1>4, VerdictType DEF ConfirmDeposit, Goto, TypeOK
  <2>2. sessions' \subseteq Forms
    BY <1>4 DEF ConfirmDeposit, TypeOK
  <2>3. /\ typed' \in [Forms -> Input] /\ amount' \in [Forms -> Uint64]
        /\ closes' \in [Forms -> BOOLEAN] /\ built' \in [Forms -> 0 .. now']
    BY <1>4, ForgetType DEF ConfirmDeposit, TypeOK, timeVars
  <2> QED
    BY <1>4, <2>1, <2>2, <2>3 DEF ConfirmDeposit, TypeOK, ledgerVars, timeVars
<1>5. ASSUME NEW f \in Forms, Include(f) PROVE TypeOK'
  <2>1. amount[f] \in Nat /\ Fee \in Nat /\ balance \in Nat /\ MaxBalance \in Nat
    BY DepositsAssumption DEF TypeOK, Uint64
  <2>2. amount[f] + Fee <= balance
    BY <1>5, <2>1 DEF Include, Accepted, Overspends
  <2>3. /\ vault' = vault + (IF closes[f] THEN balance - Fee ELSE amount[f])
        /\ balance' = balance - Fee - (IF closes[f] THEN balance - Fee ELSE amount[f])
        /\ worth' = worth + amount[f]
    BY <1>5 DEF Include
  <2>4. vault' \in Nat /\ worth' \in Nat /\ balance' \in 0 .. MaxBalance
    BY <2>1, <2>2, <2>3 DEF TypeOK
  <2>5. page' \in [Forms -> {"form", "confirm", "sent", "deposited", "failed",
                             "malformed", "unsigned", "mismatch", "lost",
                             "expired", "rejected", "refused"}]
    BY <1>5 DEF Include, Goto, TypeOK
  <2> QED
    BY <1>5, <2>4, <2>5, ForgetType DEF Include, TypeOK, timeVars
<1>6. ASSUME NEW f \in Forms, Drop(f) PROVE TypeOK'
  BY <1>6, ForgetType DEF Drop, Goto, TypeOK, ledgerVars, timeVars
<1>7. ASSUME NEW payment \in Payments, BePaid(payment) PROVE TypeOK'
  <2>1. balance' \in 0 .. MaxBalance
    BY <1>7, DepositsAssumption DEF BePaid, TypeOK
  <2> QED
    BY <1>7, <2>1 DEF BePaid, TypeOK, timeVars, formVars
<1>8. ASSUME NEW payment \in Payments, Pay(payment) PROVE TypeOK'
  <2>1. Mbr \in Nat /\ payment \in Nat /\ MaxBalance \in Nat
    BY DepositsAssumption DEF Mbr, Uint64
  <2>2. balance' \in 0 .. MaxBalance
    BY <1>8, <2>1 DEF Pay, TypeOK
  <2> QED
    BY <1>8, <2>2 DEF Pay, TypeOK, timeVars, formVars
<1>9. ASSUME OptIn PROVE TypeOK'
  BY <1>9 DEF OptIn, TypeOK, timeVars, formVars
<1>10. ASSUME Tick PROVE TypeOK'
  <2>1. now' \in Nat /\ started' \in 0 .. now' /\ 0 .. now \subseteq 0 .. now'
    BY <1>10 DEF Tick, TypeOK
  <2>2. ticker' \in now' .. now' + CleanupInterval
    BY <1>10, DepositsAssumption DEF Tick, TypeOK
  <2>3. built' \in [Forms -> 0 .. now']
    BY <1>10, <2>1 DEF Tick, TypeOK, formVars
  <2> QED
    BY <1>10, <2>1, <2>2, <2>3 DEF Tick, TypeOK, ledgerVars, formVars
<1>11. ASSUME Cleanup PROVE TypeOK'
  BY <1>11, DepositsAssumption DEF Cleanup, TypeOK, ledgerVars, formVars
<1>12. ASSUME Restart PROVE TypeOK'
  BY <1>12, DepositsAssumption DEF Restart, TypeOK, ledgerVars, formVars
<1>13. ASSUME UNCHANGED vars PROVE TypeOK'
  BY <1>13 DEF vars, TypeOK, ledgerVars, timeVars, formVars
<1>14. ASSUME NEW f \in Forms, ConfirmUnsigned(f) PROVE TypeOK'
  <2>1. Blank \in Input /\ 0 \in Uint64
    BY WordsAssumption DEF Blank, Input, Uint64
  <2> QED
    BY <1>14, <2>1 DEF ConfirmUnsigned, Goto, TypeOK, ledgerVars, timeVars
<1>15. ASSUME NEW f \in Forms, Handle(f) PROVE TypeOK'
  <2>1. MicroAlgosToAlgoString(MaxDepositAmount) \in Input
    BY MaxDepositAmountType, StringOfAmount
  <2> QED
    BY <1>15, <1>1, <1>2, <1>3, <1>4, <1>5, <1>6, <1>14, <2>1, DepositsAssumption
    DEF Handle, Max
<1> QED
  BY <1>7, <1>8, <1>9, <1>10, <1>11, <1>12, <1>13, <1>15 DEF Next, Account

\* Every variable has its type.
THEOREM TypeCorrect == Spec => []TypeOK
BY InitTypeOK, TypeStep, PTL DEF Spec

-----------------------------------------------------------------------------

\* A step changes no form but one that acts.
LEMMA OtherForm ==
  ASSUME TypeOK, NEW g \in Forms, [Next]_vars, ~Handle(g)
  PROVE  /\ page'[g] = page[g] /\ typed'[g] = typed[g] /\ amount'[g] = amount[g]
         /\ closes'[g] = closes[g] /\ built'[g] = built[g]
<1>1. ASSUME NEW f \in Forms, f # g, Forget(f)
      PROVE  /\ typed'[g] = typed[g] /\ amount'[g] = amount[g]
             /\ closes'[g] = closes[g] /\ built'[g] = built[g]
  BY <1>1 DEF Forget, TypeOK
<1>2. ASSUME NEW f \in Forms, Handle(f)
      PROVE  /\ page'[g] = page[g] /\ typed'[g] = typed[g]
             /\ amount'[g] = amount[g]
             /\ closes'[g] = closes[g] /\ built'[g] = built[g]
  <2>1. f # g
    BY <1>2
  <2>2. ASSUME NEW input, Type(f, input)
        PROVE  /\ page'[g] = page[g] /\ typed'[g] = typed[g]
               /\ amount'[g] = amount[g]
               /\ closes'[g] = closes[g] /\ built'[g] = built[g]
    BY <2>1, <2>2 DEF Type, TypeOK
  <2>3. CASE Deposit(f)
    <3>1. /\ page'[g] = page[g] /\ typed'[g] = typed[g]
          /\ amount'[g] = amount[g] /\ built'[g] = built[g]
      BY <2>1, <2>3 DEF Deposit, Goto, TypeOK
    <3>2. PICK told \in BOOLEAN :
            closes' = [closes EXCEPT ![f] = told /\ Closes(ToAmount(typed[f]))]
      BY <2>3 DEF Deposit
    <3>3. closes'[g] = closes[g]
      BY <2>1, <3>2 DEF TypeOK
    <3> QED
      BY <3>1, <3>3
  <2>4. CASE DepositFails(f)
    BY <1>1, <2>1, <2>4 DEF DepositFails, Goto, TypeOK
  <2>5. CASE ConfirmDeposit(f)
    <3>1. page'[g] = page[g]
      BY <2>1, <2>5 DEF ConfirmDeposit, Goto, TypeOK
    <3> QED
      BY <1>1, <2>1, <2>5, <3>1 DEF ConfirmDeposit
  <2>6. CASE Include(f)
    BY <1>1, <2>1, <2>6 DEF Include, Goto, TypeOK
  <2>7. CASE Drop(f)
    BY <1>1, <2>1, <2>7 DEF Drop, Goto, TypeOK
  <2>8. CASE ConfirmUnsigned(f)
    BY <2>1, <2>8 DEF ConfirmUnsigned, Goto, TypeOK
  <2> QED
    BY <1>2, <2>2, <2>3, <2>4, <2>5, <2>6, <2>7, <2>8 DEF Handle, Max
<1>3. CASE Account
  BY <1>3 DEF Account, BePaid, Pay, OptIn, formVars
<1>4. CASE Tick \/ Cleanup \/ Restart \/ UNCHANGED vars
  BY <1>4 DEF Tick, Cleanup, Restart, vars, formVars
<1> QED
  BY <1>2, <1>3, <1>4 DEF Next

\* What a form becomes when it acts.
LEMMA FormSteps ==
  ASSUME TypeOK, NEW f \in Forms, Handle(f)
  PROVE  \/ page'[f] \in {"form", "failed", "deposited", "unsigned"}
         \/ Deposit(f) /\ page'[f] = "confirm"
         \/ ConfirmDeposit(f) /\ page'[f] = Verdict(f)
<1>1. ASSUME NEW input, Type(f, input) PROVE page'[f] = "form"
  BY <1>1 DEF Type
<1>2. CASE Deposit(f)
  BY <1>2 DEF Deposit, Goto, TypeOK
<1>3. CASE DepositFails(f) \/ Drop(f)
  BY <1>3 DEF DepositFails, Drop, Goto, TypeOK
<1>4. CASE ConfirmDeposit(f)
  BY <1>4 DEF ConfirmDeposit, Goto, TypeOK
<1>5. CASE Include(f)
  BY <1>5 DEF Include, Goto, TypeOK
<1>6. CASE ConfirmUnsigned(f)
  BY <1>6 DEF ConfirmUnsigned, Goto, TypeOK
<1> QED
  BY <1>1, <1>2, <1>3, <1>4, <1>5, <1>6 DEF Handle, Max

\* The hidden field of the confirm page is read as the amount of the session.
LEMMA VerdictOfField ==
  ASSUME TypeOK, NEW f \in Forms
  PROVE  Verdict(f) \notin {"malformed", "mismatch"}
<1>1. amount[f] \in Uint64
  BY DEF TypeOK
<1>2. /\ ~ToAmountFails(MicroAlgosToAlgoString(amount[f]))
      /\ ToAmount(MicroAlgosToAlgoString(amount[f])) = amount[f]
  BY <1>1, StringOfAmount, RoundTrip
<1> QED
  BY <1>2 DEF Verdict, Answer

LEMMA AmountStep ==
  ASSUME TypeOK, WrittenInv, AmountSurvives, [Next]_vars
  PROVE  WrittenInv' /\ AmountSurvives'
<1> SUFFICES ASSUME NEW f \in Forms
             PROVE  /\ page'[f] \in {"confirm", "sent"} =>
                         amount'[f] = Written(typed'[f]) \/ Word <= Written(typed'[f])
                    /\ page'[f] \notin {"malformed", "mismatch"}
  BY DEF WrittenInv, AmountSurvives, Written
<1>1. CASE ~Handle(f)
  BY <1>1, OtherForm DEF WrittenInv, AmountSurvives
<1>2. CASE Deposit(f) /\ page'[f] = "confirm"
  <2>1. /\ amount'[f] = ToAmount(typed[f]) /\ typed'[f] = typed[f]
        /\ ~ToAmountFails(typed[f]) /\ typed[f] \in Input
    BY <1>2 DEF Deposit, TypeOK
  <2> QED
    BY <1>2, <2>1, ReadAmount
<1>3. CASE ConfirmDeposit(f) /\ page'[f] = Verdict(f)
  <2>1. page[f] = "confirm"
    BY <1>3 DEF ConfirmDeposit, Goto
  <2>2. Verdict(f) = "sent" => amount'[f] = amount[f] /\ typed'[f] = typed[f]
    BY <1>3 DEF ConfirmDeposit
  <2>3. Verdict(f) # "confirm"
    BY VerdictType
  <2> QED
    BY <1>3, <2>1, <2>2, <2>3, VerdictOfField DEF WrittenInv
<1>4. CASE page'[f] \in {"form", "failed", "deposited", "unsigned"}
  BY <1>4
<1> QED
  BY <1>1, <1>2, <1>3, <1>4, FormSteps

-----------------------------------------------------------------------------

\* The block that has a group takes no less than its amount, and exactly its
\* amount when the account has no more.
LEMMA IncludeTakes ==
  ASSUME TypeOK, ClosingInv, NEW f \in Forms, Include(f)
  PROVE  /\ balance' = balance - Fee - amount[f]
         /\ vault' = vault + amount[f] /\ worth' = worth + amount[f]
<1>1. amount[f] \in Nat /\ Fee \in Nat /\ balance \in Nat /\ vault \in Nat
  BY DepositsAssumption DEF TypeOK, Uint64
<1>2. amount[f] + Fee <= balance
  BY <1>1 DEF Include, Accepted, Overspends
<1>3. closes[f] => balance - Fee = amount[f]
  BY <1>1, <1>2 DEF Include, Goto, ClosingInv
<1>4. /\ vault' = vault + (IF closes[f] THEN balance - Fee ELSE amount[f])
      /\ balance' = balance - Fee - (IF closes[f] THEN balance - Fee ELSE amount[f])
      /\ worth' = worth + amount[f]
  BY DEF Include
<1> QED
  BY <1>1, <1>3, <1>4

\* The account gets nothing while it is being closed.
LEMMA BalanceFalls ==
  ASSUME TypeOK, ClosingInv, [Next]_vars, ~LatePayments, Closing
  PROVE  balance' <= balance
<1>1. balance \in Nat /\ Fee \in Nat
  BY DepositsAssumption DEF TypeOK
<1>2. ASSUME NEW f \in Forms, Handle(f) PROVE balance' <= balance
  <2>1. ASSUME Include(f) PROVE balance' <= balance
    <3>1. amount[f] \in Nat
      BY DEF TypeOK, Uint64
    <3> QED
      BY <1>1, <2>1, <3>1, IncludeTakes
  <2>2. ASSUME ~Include(f) PROVE balance' = balance
    BY <1>2, <2>2
    DEF Handle, Max, Type, Deposit, DepositFails, ConfirmDeposit, ConfirmUnsigned,
        Drop, ledgerVars
  <2> QED
    BY <1>1, <2>1, <2>2
<1>3. ASSUME NEW payment \in Payments, Pay(payment) PROVE balance' <= balance
  BY <1>1, <1>3, DepositsAssumption DEF Pay
<1>4. ASSUME NEW payment \in Payments, BePaid(payment) PROVE balance' <= balance
  BY <1>4 DEF BePaid
<1>5. CASE OptIn
  BY <1>1, <1>5 DEF OptIn
<1>6. CASE Tick \/ Cleanup \/ Restart \/ UNCHANGED vars
  BY <1>1, <1>6 DEF Tick, Cleanup, Restart, vars, ledgerVars
<1> QED
  BY <1>2, <1>3, <1>4, <1>5, <1>6 DEF Next, Account

LEMMA ClosingStep ==
  ASSUME TypeOK, ClosingInv, [Next]_vars, ~LatePayments
  PROVE  ClosingInv'
<1> SUFFICES ASSUME NEW f \in Forms, page'[f] \in {"confirm", "sent"}, closes'[f]
             PROVE  balance' <= amount'[f] + Fee
  BY DEF ClosingInv
<1>1. /\ balance \in Nat /\ balance' \in Nat /\ Fee \in Nat /\ amount[f] \in Nat
  <2>1. balance' \in Nat
    BY TypeStep DEF TypeOK
  <2>2. amount[f] \in Nat
    BY DEF TypeOK, Uint64
  <2> QED
    BY <2>1, <2>2, DepositsAssumption DEF TypeOK
<1>2. ASSUME page[f] \in {"confirm", "sent"}, closes[f], amount'[f] = amount[f]
      PROVE  balance' <= amount'[f] + Fee
  <2>1. balance <= amount[f] + Fee
    BY <1>2 DEF ClosingInv
  <2>2. balance' <= balance
    BY <1>2, BalanceFalls DEF Closing
  <2> QED
    BY <1>1, <1>2, <2>1, <2>2
<1>3. CASE ~Handle(f)
  BY <1>2, <1>3, OtherForm
<1>4. CASE Deposit(f) /\ page'[f] = "confirm"
  <2>1. PICK told \in BOOLEAN :
          closes' = [closes EXCEPT ![f] = told /\ Closes(ToAmount(typed[f]))]
    BY <1>4 DEF Deposit
  <2>2. Closes(ToAmount(typed[f]))
    BY <2>1 DEF TypeOK
  <2>3. amount'[f] = ToAmount(typed[f]) /\ balance' = balance
    BY <1>4 DEF Deposit, TypeOK, ledgerVars
  <2> QED
    BY <1>1, <2>2, <2>3 DEF Closes
<1>5. CASE ConfirmDeposit(f) /\ page'[f] = Verdict(f)
  <2>1. page[f] = "confirm" /\ Verdict(f) = "sent"
    BY <1>5, VerdictType DEF ConfirmDeposit, Goto
  <2>2. amount'[f] = amount[f] /\ closes'[f] = closes[f]
    BY <1>5, <2>1 DEF ConfirmDeposit
  <2> QED
    BY <1>2, <2>1, <2>2
<1> QED
  BY <1>3, <1>4, <1>5, FormSteps

LEMMA VaultStep ==
  ASSUME TypeOK, ClosingInv, VaultIsNotes, [Next]_vars
  PROVE  VaultIsNotes'
<1>1. ASSUME NEW f \in Forms, Include(f) PROVE VaultIsNotes'
  BY <1>1, IncludeTakes DEF VaultIsNotes
<1>2. ASSUME NEW f \in Forms, Handle(f), ~Include(f) PROVE VaultIsNotes'
  BY <1>2
  DEF Handle, Max, Type, Deposit, DepositFails, ConfirmDeposit, ConfirmUnsigned,
      Drop, ledgerVars, VaultIsNotes
<1>3. CASE Account
  BY <1>3 DEF Account, BePaid, Pay, OptIn, VaultIsNotes
<1>4. CASE Tick \/ Cleanup \/ Restart \/ UNCHANGED vars
  BY <1>4 DEF Tick, Cleanup, Restart, vars, ledgerVars, VaultIsNotes
<1> QED
  BY <1>1, <1>2, <1>3, <1>4 DEF Next

-----------------------------------------------------------------------------

LEMMA SessionStep ==
  ASSUME TypeOK, SessionInv, [Next]_vars PROVE SessionInv'
<1> SUFFICES ASSUME NEW f \in Forms, f \in sessions'
             PROVE  /\ page'[f] \in {"confirm", "unsigned"}
                    /\ ticker' <= built'[f] + SessionTtl + CleanupInterval
  <2>1. sessions' \subseteq Forms
    BY TypeStep DEF TypeOK
  <2> QED
    BY <2>1 DEF SessionInv
<1>1. /\ now \in Nat /\ ticker \in Nat /\ built[f] \in Nat
      /\ SessionTtl \in Nat /\ CleanupInterval \in Nat
      /\ ticker <= now + CleanupInterval
  <2>1. CleanupInterval \in Nat /\ SessionTtl \in Nat
    BY DepositsAssumption
  <2>2. now \in Nat /\ ticker \in now .. now + CleanupInterval /\ built[f] \in 0 .. now
    BY DEF TypeOK
  <2> QED
    BY <2>1, <2>2
<1>2. ASSUME f \in sessions, ticker' = ticker, built'[f] = built[f], page'[f] = page[f]
      PROVE  /\ page'[f] \in {"confirm", "unsigned"}
             /\ ticker' <= built'[f] + SessionTtl + CleanupInterval
  BY <1>2 DEF SessionInv
<1>3. ASSUME NEW g \in Forms, Handle(g)
      PROVE  /\ page'[f] \in {"confirm", "unsigned"}
             /\ ticker' <= built'[f] + SessionTtl + CleanupInterval
  <2>1. ticker' = ticker
    BY <1>3
    DEF Handle, Max, Type, Deposit, DepositFails, ConfirmDeposit, ConfirmUnsigned,
        Include, Drop, timeVars
  <2>2. ASSUME ~Handle(f)
        PROVE  f \in sessions /\ built'[f] = built[f] /\ page'[f] = page[f]
    <3>1. g # f
      BY <1>3, <2>2
    <3>2. f \in sessions
      BY <1>3, <3>1
      DEF Handle, Max, Type, Deposit, DepositFails, ConfirmDeposit, ConfirmUnsigned,
          Include, Drop
    <3> QED
      BY <2>2, <3>2, OtherForm
  <2>3. CASE Deposit(f)
    <3>1. built'[f] = now /\ page'[f] = "confirm"
      BY <2>3 DEF Deposit, Goto, TypeOK
    <3> QED
      BY <1>1, <2>1, <3>1
  <2>4. ~ConfirmDeposit(f)
    BY VerdictOfField DEF ConfirmDeposit
  <2>5. \A input : ~Type(f, input)
    BY DEF Type, SessionInv
  <2>6. ~(DepositFails(f) \/ Include(f) \/ Drop(f))
    BY DEF DepositFails, Include, Drop, Goto, SessionInv
  <2>7. CASE ConfirmUnsigned(f)
    <3>1. f \in sessions /\ built'[f] = built[f] /\ page'[f] = "unsigned"
      BY <2>7 DEF ConfirmUnsigned, Goto, TypeOK
    <3> QED
      BY <1>1, <2>1, <3>1 DEF SessionInv
  <2> QED
    BY <1>2, <2>1, <2>2, <2>3, <2>4, <2>5, <2>6, <2>7 DEF Handle, Max
<1>4. CASE Account
  BY <1>2, <1>4 DEF Account, BePaid, Pay, OptIn, formVars, timeVars
<1>5. CASE Cleanup
  <2>1. f \in sessions /\ now - built[f] <= SessionTtl
    BY <1>1, <1>5 DEF Cleanup, TooOld
  <2>2. /\ ticker' = now + CleanupInterval /\ built'[f] = built[f]
        /\ page'[f] = page[f]
    BY <1>5 DEF Cleanup, formVars
  <2> QED
    BY <1>1, <2>1, <2>2 DEF SessionInv
<1>6. CASE Restart
  BY <1>6 DEF Restart
<1>7. CASE Tick \/ UNCHANGED vars
  BY <1>2, <1>7 DEF Tick, vars, formVars, timeVars
<1> QED
  BY <1>3, <1>4, <1>5, <1>6, <1>7 DEF Next

\* The session of a group that is valid is too young for the cleanup.
LEMMA GroupStep ==
  ASSUME TypeOK, SessionOutlivesGroup, [Next]_vars, WaitRounds <= SessionTtl
  PROVE  SessionOutlivesGroup'
<1> SUFFICES ASSUME NEW f \in Forms, page'[f] = "confirm",
                    now' <= built'[f] + WaitRounds, started' < built'[f]
             PROVE  f \in sessions'
  BY DEF SessionOutlivesGroup, Valid
<1>1. /\ now \in Nat /\ built[f] \in Nat /\ built[f] <= now /\ started \in Nat
      /\ WaitRounds \in Nat /\ SessionTtl \in Nat
  BY DepositsAssumption DEF TypeOK
<1>2. ASSUME page'[f] = page[f], built'[f] = built[f], started' = started,
             now' = now \/ now' = now + 1
      PROVE  f \in sessions
  BY <1>1, <1>2 DEF SessionOutlivesGroup, Valid
<1>3. ASSUME NEW g \in Forms, Handle(g) PROVE f \in sessions'
  <2>1. started' = started /\ now' = now
    BY <1>3
    DEF Handle, Max, Type, Deposit, DepositFails, ConfirmDeposit, ConfirmUnsigned,
        Include, Drop, timeVars
  <2>2. CASE Handle(f)
    <3>1. Verdict(f) # "confirm"
      BY VerdictType
    <3> QED
      BY <2>2, <3>1, FormSteps DEF Deposit
  <2>3. CASE ~Handle(f)
    <3>1. f \in sessions
      BY <1>2, <2>1, <2>3, OtherForm
    <3>2. g # f
      BY <1>3, <2>3
    <3> QED
      BY <1>3, <3>1, <3>2
      DEF Handle, Max, Type, Deposit, DepositFails, ConfirmDeposit, ConfirmUnsigned,
          Include, Drop
  <2> QED
    BY <2>2, <2>3
<1>4. CASE Account
  BY <1>2, <1>4 DEF Account, BePaid, Pay, OptIn, formVars, timeVars
<1>5. CASE Tick \/ UNCHANGED vars
  BY <1>2, <1>5 DEF Tick, vars, formVars, timeVars
<1>6. CASE Cleanup
  <2>1. built'[f] = built[f] /\ now' = now /\ f \in sessions
    BY <1>2, <1>6 DEF Cleanup, formVars
  <2>2. ~(now - built[f] > SessionTtl)
    BY <1>1, <2>1
  <2> QED
    BY <1>6, <2>1, <2>2 DEF Cleanup, TooOld
<1>7. CASE Restart
  BY <1>1, <1>7 DEF Restart, formVars
<1> QED
  BY <1>3, <1>4, <1>5, <1>6, <1>7 DEF Next

-----------------------------------------------------------------------------

LEMMA InitInv == Init => DepositInv
<1> SUFFICES ASSUME Init PROVE DepositInv
  OBVIOUS
<1>1. TypeOK
  BY InitTypeOK
<1>2. \A f \in Forms : page[f] = "form"
  BY DEF Init
<1> QED
  BY <1>1, <1>2
  DEF Init, DepositInv, WrittenInv, ClosingInv, SessionInv, VaultIsNotes,
      AmountSurvives, SessionOutlivesGroup

\* The inductive invariant of Deposits.
THEOREM DepositsAreSafe ==
  ASSUME ~LatePayments, WaitRounds <= SessionTtl PROVE Spec => []DepositInv
<1>1. DepositInv /\ [Next]_vars => DepositInv'
  BY TypeStep, AmountStep, ClosingStep, SessionStep, VaultStep, GroupStep
  DEF DepositInv
<1> QED
  BY <1>1, InitInv, PTL DEF Spec

\* transactions.go:102: as long as nobody pays an account that is being
\* closed, the contract gets what the notes are worth.
THEOREM NothingIsLost ==
  ASSUME ~LatePayments PROVE Spec => []VaultIsNotes
<1>1. Init => TypeOK /\ ClosingInv /\ VaultIsNotes
  BY InitInv DEF DepositInv
<1>2. TypeOK /\ ClosingInv /\ VaultIsNotes /\ [Next]_vars
        => (TypeOK /\ ClosingInv /\ VaultIsNotes)'
  BY TypeStep, ClosingStep, VaultStep
<1> QED
  BY <1>1, <1>2, PTL DEF Spec

\* confirm_deposit.go:109: no confirmation is refused for its amount, and
\* none has another amount than the form.
THEOREM AmountsSurvive == Spec => []AmountSurvives
<1>1. Init => TypeOK /\ WrittenInv /\ AmountSurvives
  BY InitInv DEF DepositInv
<1>2. TypeOK /\ WrittenInv /\ AmountSurvives /\ [Next]_vars
        => (TypeOK /\ WrittenInv /\ AmountSurvives)'
  BY TypeStep, AmountStep
<1> QED
  BY <1>1, <1>2, PTL DEF Spec

\* memstore.go:74: the ttl leaves a session to every group that is valid.
THEOREM SessionsOutlive ==
  ASSUME WaitRounds <= SessionTtl PROVE Spec => []SessionOutlivesGroup
<1>1. Init => TypeOK /\ SessionOutlivesGroup
  BY InitInv DEF DepositInv
<1>2. TypeOK /\ SessionOutlivesGroup /\ [Next]_vars
        => (TypeOK /\ SessionOutlivesGroup)'
  BY TypeStep, GroupStep
<1> QED
  BY <1>1, <1>2, PTL DEF Spec

\* memstore.go:64: the ticker is often enough for what nobody confirms.
THEOREM SessionsAreDropped == Spec => []SessionsLeave
<1>1. Init => TypeOK /\ SessionInv
  BY InitInv DEF DepositInv
<1>2. TypeOK /\ SessionInv /\ [Next]_vars => (TypeOK /\ SessionInv)'
  BY TypeStep, SessionStep
<1>3. ASSUME TypeOK, SessionInv PROVE SessionsLeave
  <2> SUFFICES ASSUME NEW f \in sessions
               PROVE  now <= built[f] + SessionTtl + CleanupInterval
    BY DEF SessionsLeave
  <2>1. now \in Nat /\ ticker \in now .. now + CleanupInterval /\ built[f] \in 0 .. now
    BY <1>3 DEF TypeOK
  <2>2. ticker <= built[f] + SessionTtl + CleanupInterval
    BY <1>3 DEF SessionInv
  <2> QED
    BY <2>1, <2>2, DepositsAssumption
<1> QED
  BY <1>1, <1>2, <1>3, PTL DEF Spec

-----------------------------------------------------------------------------

\* What the maximum leaves of the balance.
LEMMA MaximumDef ==
  ASSUME TypeOK
  PROVE  /\ balance \in Nat /\ Mbr \in Nat /\ Fee \in Nat
         /\ Mbr = MinimumBalance =>
              MaxDepositAmount = IF balance <= Fee THEN 0 ELSE balance - Fee
         /\ Mbr # MinimumBalance =>
              MaxDepositAmount =
                IF balance <= Mbr + Fee THEN 0 ELSE balance - Mbr - Fee
         /\ ~optedIn => Mbr = MinimumBalance
<1>1. balance \in Nat /\ Fee \in Nat
  BY DepositsAssumption DEF TypeOK
<1>2. Mbr \in Nat
  BY DepositsAssumption DEF Mbr
<1>3. ~optedIn => Mbr = MinimumBalance
  BY DEF Mbr
<1> QED
  BY <1>1, <1>2, <1>3 DEF MaxDepositAmount

\* confirm_deposit.go:22: the maximum the pages tell is one.
THEOREM MaximumHolds == Spec => MaximumIsRight
<1>1. ASSUME TypeOK, [Next]_vars, NEW f \in Forms,
             page[f] = "sent", page'[f] = "deposited"
      PROVE  amount[f] <= MaxDepositAmount
  <2>1. Include(f)
    <3>1. Handle(f)
      BY <1>1, OtherForm
    <3> QED
      BY <1>1, <3>1
      DEF Handle, Max, Type, Deposit, DepositFails, ConfirmDeposit, ConfirmUnsigned,
          Drop, Goto, TypeOK
  <2>2. amount[f] \in Nat
    BY <1>1 DEF TypeOK, Uint64
  <2>3. /\ ~(balance < amount[f] + Fee) /\ ~(closes[f] /\ optedIn)
        /\ ~(~closes[f] /\ balance < amount[f] + Fee + Mbr)
    BY <2>1 DEF Include, Accepted, Overspends, ClosesOptIn, BelowMinimum
  <2> QED
    BY <1>1, <2>2, <2>3, MaximumDef DEF TypeOK
<1>2. ASSUME TypeOK, [Next]_vars, NEW f \in Forms,
             page[f] = "confirm", page'[f] = "refused",
             amount[f] = MaxDepositAmount
      PROVE  ~closes[f] /\ Mbr = MinimumBalance
  <2>1. Verdict(f) = "refused"
    <3>1. Handle(f)
      BY <1>2, OtherForm
    <3> QED
      BY <1>2, <3>1, FormSteps
  <2>2. amount[f] \in Nat /\ DepositMinimumAmount \in Nat \ {0}
    BY <1>2, DepositsAssumption DEF TypeOK, Uint64
  <2>3. ~TooSmall(f) /\ (Overspends(f) \/ BelowMinimum(f))
    BY <2>1 DEF Verdict, Answer
  <2>4. amount[f] # 0
    BY <2>2, <2>3 DEF TooSmall
  <2>5. ~Overspends(f)
    BY <1>2, <2>2, <2>4, MaximumDef DEF Overspends
  <2> QED
    BY <1>2, <2>2, <2>3, <2>4, <2>5, MaximumDef DEF BelowMinimum
<1>3. TypeOK /\ [Next]_vars =>
        [\A f \in Forms :
           /\ page[f] = "sent" /\ page'[f] = "deposited" =>
                amount[f] <= MaxDepositAmount
           /\ page[f] = "confirm" /\ page'[f] = "refused"
                 /\ amount[f] = MaxDepositAmount =>
                ~closes[f] /\ Mbr = MinimumBalance]_vars
  BY <1>1, <1>2
<1> QED
  BY <1>3, TypeCorrect, PTL DEF Spec, MaximumIsRight

=============================================================================
