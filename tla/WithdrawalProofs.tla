-------------------------- MODULE WithdrawalProofs --------------------------
(***************************************************************************)
(* For every width of the integers, every fee and every field, what        *)
(* GenerateChangeNote lets through satisfies the circuit; so a withdrawal  *)
(* the form accepted fails for no reason of its own.                       *)
(***************************************************************************)
EXTENDS Withdrawals, SequenceTheorems, FiniteSetTheorems, WellFoundedInduction, TLAPS

\* A fee is a uint64.
LEMMA FeeType ==
  ASSUME NEW w \in Uint64 PROVE CalculateWithdrawalFee(w) \in Uint64
<1> USE AmountsAssumption
<1>1. CASE Divisor = 0
  BY <1>1 DEF CalculateWithdrawalFee, Uint64
<1>2. CASE Divisor # 0
  <2>1. w \div Divisor \in Int /\ w \div Divisor <= w
    BY <1>2 DEF Uint64
  <2> QED
    BY <2>1 DEF CalculateWithdrawalFee, Uint64
<1> QED
  BY <1>1, <1>2

\* Without an overflow the deduction is the amount and its fee.
LEMMA DeductionExact ==
  ASSUME NEW w \in Uint64, Deduction(w) >= w
  PROVE  Deduction(w) = w + CalculateWithdrawalFee(w)
BY FeeType, AmountsAssumption DEF Deduction, Plus, Uint64

\* note.go:73-88 and withdrawal_circuit.go:67-74: the change note of the
\* frontend satisfies the circuit.
THEOREM ChangeIsProvable ==
  ASSUME NEW a \in Uint64, NEW w \in Uint64, ChangeAllowed(a, w)
  PROVE  /\ Change(a, w) \in Uint64
         /\ WithdrawalCircuit(a, w, CalculateWithdrawalFee(w), Change(a, w))
<1>1. CalculateWithdrawalFee(w) \in Uint64
  BY FeeType
<1>2. Deduction(w) = w + CalculateWithdrawalFee(w) /\ a >= Deduction(w)
  BY DeductionExact DEF ChangeAllowed
<1> QED
  BY <1>1, <1>2, AmountsAssumption DEF Change, WithdrawalCircuit, Sub, Uint64

\* A withdrawal the frontend refuses could not be proved with its fee.
THEOREM RefusalIsNeeded ==
  ASSUME NEW a \in Uint64, NEW w \in Uint64, NEW c \in Elements,
         WithdrawalCircuit(a, w, CalculateWithdrawalFee(w), c)
  PROVE  ChangeAllowed(a, w)
<1>1. CalculateWithdrawalFee(w) \in Uint64
  BY FeeType
<1> QED
  BY <1>1, AmountsAssumption
  DEF WithdrawalCircuit, Sub, ChangeAllowed, Deduction, Plus, Uint64

\* withdraw.go:67: without a fee of the frontend "the maximum you can
\* withdraw" is one.
THEOREM MaximumIsMaximal ==
  ASSUME Divisor = 0, NEW a \in Uint64
  PROVE  /\ MaxWithdrawalAmount(a) # 0 => ChangeAllowed(a, MaxWithdrawalAmount(a))
         /\ \A w \in Uint64 : ChangeAllowed(a, w) => w <= MaxWithdrawalAmount(a)
<1>1. \A w : CalculateWithdrawalFee(w) = MinFee
  BY DEF CalculateWithdrawalFee
<1> QED
  BY <1>1, AmountsAssumption
  DEF MaxWithdrawalAmount, ChangeAllowed, Deduction, Plus, Uint64

\* What the circuit lets out of a note leaves a change that is a uint64.
LEMMA CircuitChange ==
  ASSUME NEW a \in Uint64, NEW w \in Uint64, NEW f \in Uint64, NEW c,
         WithdrawalCircuit(a, w, f, c)
  PROVE  c \in Uint64
BY AmountsAssumption DEF WithdrawalCircuit, Sub, Uint64

-----------------------------------------------------------------------------

\* The amount of a leaf is a uint64.
LEMMA AmountType ==
  ASSUME TypeOK PROVE \A leaf \in Leaves : Amount(leaf) \in Uint64
<1> SUFFICES ASSUME NEW leaf \in Leaves PROVE Amount(leaf) \in Uint64
  OBVIOUS
<1>1. insertions \in Seq(Uint64) /\ leaf + 1 \in 1 .. Len(insertions)
  BY DEF TypeOK, Leaves
<1> QED
  BY <1>1, ElementOfSeq DEF Amount

\* The first state satisfies the invariant.
LEMMA WithdrawalInit == Init => WithdrawalInv
<1> SUFFICES ASSUME Init PROVE WithdrawalInv
  OBVIOUS
<1>1. insertions = << >> /\ txns = {} /\ spoiled = {} /\ leafCount = 0 /\ 0 \in Uint64
  BY AmountsAssumption DEF Init, TxnsDb!Init, Uint64
<1>2. TypeOK
  BY <1>1 DEF Init, TypeOK, Leaves
<1>3. RequestInv
  BY DEF Init, RequestInv
<1> QED
  BY <1>2, <1>3 DEF WithdrawalInv

\* An insertion changes nothing of the leaves before it.
LEMMA Appended ==
  ASSUME WithdrawalInv, NEW value \in Uint64, insertions' = Append(insertions, value),
         spent' \subseteq Leaves', vault' \in Int,
         UNCHANGED <<txns, spoiled, leafCount, note, amount, change, root>>,
         pc' \in [Requests -> {"idle", "form", "confirm", "root", "built", "done"}],
         \A r \in Requests : pc'[r] = pc[r] \/ (pc[r] = "built" /\ pc'[r] = "done")
  PROVE  WithdrawalInv'
<1>1. TypeOK /\ RequestInv
  BY DEF WithdrawalInv
<1>2. insertions \in Seq(Uint64) /\ Len(insertions) \in Nat
  BY <1>1 DEF TypeOK
<1>3. /\ insertions' \in Seq(Uint64)
      /\ Len(insertions') = Len(insertions) + 1
      /\ \A k \in 1 .. Len(insertions) : insertions'[k] = insertions[k]
  BY <1>2, AppendProperties
<1>4. Leaves \subseteq Leaves' /\ \A leaf \in Leaves : Amount(leaf)' = Amount(leaf)
  <2>1. Leaves \subseteq Leaves'
    BY <1>2, <1>3 DEF Leaves
  <2>2. ASSUME NEW leaf \in Leaves PROVE Amount(leaf)' = Amount(leaf)
    <3>1. leaf + 1 \in 1 .. Len(insertions)
      BY <1>2 DEF Leaves
    <3> QED
      BY <1>3, <3>1 DEF Amount
  <2> QED
    BY <2>1, <2>2
<1>5. TypeOK'
  <2>1. /\ txns' \subseteq Leaves' /\ spoiled' \subseteq Leaves'
        /\ leafCount' \in 0 .. Len(insertions')
    BY <1>1, <1>2, <1>3, <1>4 DEF TypeOK
  <2>2. root' \in [Requests -> 0 .. Len(insertions')]
    BY <1>1, <1>2, <1>3 DEF TypeOK
  <2> QED
    BY <1>1, <1>3, <2>1, <2>2 DEF TypeOK
<1>6. RequestInv'
  <2> SUFFICES ASSUME NEW r \in Requests
               PROVE  /\ pc'[r] # "idle" => note[r] \in Leaves'
                      /\ pc'[r] \in {"confirm", "root", "built"} =>
                           /\ ChangeAllowed(Amount(note[r])', amount[r])
                           /\ change[r] = Change(Amount(note[r])', amount[r])
    BY DEF RequestInv, Amount, ChangeAllowed, Change, Deduction, Plus,
           CalculateWithdrawalFee
  <2>1. pc[r] # "idle" => note[r] \in Leaves
    BY <1>1 DEF RequestInv
  <2>2. pc[r] # "idle" => Amount(note[r])' = Amount(note[r])
    BY <1>4, <2>1 DEF Amount
  <2> QED
    BY <1>1, <1>4, <2>1, <2>2 DEF RequestInv
<1> QED
  BY <1>5, <1>6 DEF WithdrawalInv

\* The steps of the others.
LEMMA OthersStep == WithdrawalInv /\ Others => WithdrawalInv'
<1> SUFFICES ASSUME WithdrawalInv, Others PROVE WithdrawalInv'
  OBVIOUS
<1>1. TypeOK
  BY DEF WithdrawalInv
<1>2. insertions \in Seq(Uint64) /\ Len(insertions) \in Nat
  BY <1>1 DEF TypeOK
<1>3. /\ UNCHANGED <<txns, spoiled, leafCount, pc, note, amount, change, root>>
      /\ pc \in [Requests -> {"idle", "form", "confirm", "root", "built", "done"}]
  BY <1>1 DEF Others, txnsDbVars, requestVars, TypeOK
<1>4. CASE \E value \in DepositAmounts : Deposit(value)
  <2>1. PICK value \in DepositAmounts : Deposit(value)
    BY <1>4
  <2>2. value \in Uint64 /\ value \in Int
    BY WithdrawalsAssumption, AmountsAssumption DEF Uint64
  <2>3. insertions' = Append(insertions, value) /\ spent' = spent /\ vault' = vault + value
    BY <2>1 DEF Deposit
  <2>4. spent' \subseteq Leaves' /\ vault' \in Int
    BY <1>1, <1>2, <2>2, <2>3, AppendProperties DEF TypeOK, Leaves
  <2> QED
    BY <1>3, <2>2, <2>3, <2>4, Appended
<1>5. CASE \E leaf \in Leaves \ spent, withdrawal \in WithdrawalAmounts, value \in Elements :
             Withdrawal(leaf, withdrawal, MinFee, value)
  <2>1. PICK leaf \in Leaves \ spent :
          \E withdrawal \in WithdrawalAmounts, value \in Elements :
            Withdrawal(leaf, withdrawal, MinFee, value)
    BY <1>5
  <2>2. PICK withdrawal \in WithdrawalAmounts :
          \E value \in Elements : Withdrawal(leaf, withdrawal, MinFee, value)
    BY <2>1
  <2>3. PICK value \in Elements : Withdrawal(leaf, withdrawal, MinFee, value)
    BY <2>2
  <2>4. /\ Amount(leaf) \in Uint64 /\ withdrawal \in Uint64
        /\ MinFee \in Uint64 /\ withdrawal \in Int /\ MinFee \in Int
    BY <1>1, AmountType, WithdrawalsAssumption, AmountsAssumption DEF Uint64
  <2>5. /\ WithdrawalCircuit(Amount(leaf), withdrawal, MinFee, value)
        /\ insertions' = Append(insertions, value)
        /\ spent' = spent \cup {leaf}
        /\ vault' = vault - withdrawal - MinFee
    BY <2>3 DEF Withdrawal
  <2>6. value \in Uint64
    BY <2>4, <2>5, CircuitChange
  <2>7. spent' \subseteq Leaves' /\ vault' \in Int
    BY <1>1, <1>2, <2>4, <2>5, <2>6, AppendProperties DEF TypeOK, Leaves
  <2> QED
    BY <1>3, <2>5, <2>6, <2>7, Appended
<1> QED
  BY <1>4, <1>5 DEF Others

\* The contract takes the group of a request.
LEMMA AcceptedStep ==
  ASSUME NEW r \in Requests, WithdrawalInv, Accepted(r) PROVE WithdrawalInv'
<1>1. TypeOK /\ RequestInv /\ pc[r] = "built"
  BY DEF WithdrawalInv, Accepted
<1>2. insertions \in Seq(Uint64) /\ Len(insertions) \in Nat
  BY <1>1 DEF TypeOK
<1>3. note[r] \in Leaves /\ amount[r] \in Uint64
  BY <1>1 DEF RequestInv, TypeOK
<1>4. CalculateWithdrawalFee(amount[r]) \in Uint64 /\ Amount(note[r]) \in Uint64
  BY <1>1, <1>3, AmountType, FeeType
<1>5. /\ insertions' = Append(insertions, change[r])
      /\ spent' = spent \cup {note[r]}
      /\ vault' = vault - amount[r] - CalculateWithdrawalFee(amount[r])
      /\ pc' = [pc EXCEPT ![r] = "done"]
      /\ UNCHANGED <<txns, spoiled, leafCount, note, amount, change, root>>
  BY DEF Accepted, Withdrawal, Goto, txnsDbVars
<1>6. change[r] \in Uint64
  BY <1>1 DEF TypeOK
<1>7. spent' \subseteq Leaves' /\ vault' \in Int
  <2>1. amount[r] \in Int /\ CalculateWithdrawalFee(amount[r]) \in Int
    BY <1>3, <1>4, AmountsAssumption DEF Uint64
  <2>2. Len(insertions') = Len(insertions) + 1
    BY <1>2, <1>5, <1>6, AppendProperties
  <2>3. spent' \subseteq Leaves'
    <3>1. Leaves \subseteq Leaves'
      BY <1>2, <2>2 DEF Leaves
    <3>2. spent \subseteq Leaves
      BY <1>1 DEF TypeOK
    <3> QED
      BY <1>3, <1>5, <3>1, <3>2
  <2>4. vault \in Int
    BY <1>1 DEF TypeOK
  <2>5. vault' \in Int
    BY <1>5, <2>1, <2>4
  <2> QED
    BY <2>3, <2>5
<1>8. /\ pc' \in [Requests -> {"idle", "form", "confirm", "root", "built", "done"}]
      /\ \A q \in Requests : pc'[q] = pc[q] \/ (pc[q] = "built" /\ pc'[q] = "done")
  BY <1>1, <1>5 DEF TypeOK
<1> QED
  BY <1>5, <1>6, <1>7, <1>8, Appended

\* A step that leaves the contract alone keeps the invariant when it keeps it
\* for the request that takes it.
LEMMA RequestStep ==
  ASSUME NEW r \in Requests, WithdrawalInv, TypeOK', UNCHANGED insertions,
         \A q \in Requests \ {r} :
           /\ pc'[q] = pc[q] /\ note'[q] = note[q]
           /\ amount'[q] = amount[q] /\ change'[q] = change[q],
         pc'[r] # "idle" => note'[r] \in Leaves,
         pc'[r] \in {"confirm", "root", "built"} =>
           /\ ChangeAllowed(Amount(note'[r]), amount'[r])
           /\ change'[r] = Change(Amount(note'[r]), amount'[r])
  PROVE  WithdrawalInv'
<1>1. RequestInv
  BY DEF WithdrawalInv
<1>2. Leaves' = Leaves
  BY DEF Leaves
<1>3. RequestInv'
  <2> SUFFICES ASSUME NEW q \in Requests
               PROVE  /\ pc'[q] # "idle" => note'[q] \in Leaves
                      /\ pc'[q] \in {"confirm", "root", "built"} =>
                           /\ ChangeAllowed(Amount(note'[q]), amount'[q])
                           /\ change'[q] = Change(Amount(note'[q]), amount'[q])
    BY <1>2 DEF RequestInv, Amount, ChangeAllowed, Change, Deduction, Plus,
                CalculateWithdrawalFee
  <2>1. CASE q = r
    BY <2>1
  <2>2. CASE q # r
    BY <1>1, <2>2 DEF RequestInv
  <2> QED
    BY <2>1, <2>2
<1> QED
  BY <1>3 DEF WithdrawalInv

\* Every step keeps the invariant.
LEMMA WithdrawalStep == WithdrawalInv /\ [Next]_vars => WithdrawalInv'
<1> SUFFICES ASSUME WithdrawalInv, [Next]_vars PROVE WithdrawalInv'
  OBVIOUS
<1>1. TypeOK /\ RequestInv
  BY DEF WithdrawalInv
<1>2. CASE Subscriber
  <2>1. /\ Len(insertions) \in Nat
        /\ UNCHANGED <<insertions, spent, vault, pc, note, amount, change, root>>
        /\ \E leaf \in Leaves :
             /\ txns' \in {txns, txns \cup {leaf}}
             /\ spoiled' \in {spoiled, spoiled \cup {leaf}}
             /\ leafCount' = leaf + 1
    BY <1>1, <1>2 DEF Subscriber, TxnsDb!Mirror, contractVars, requestVars, TypeOK, Leaves
  <2>2. /\ Leaves' = Leaves /\ leafCount' \in 0 .. Len(insertions)
        /\ txns' \subseteq Leaves /\ spoiled' \subseteq Leaves
    BY <1>1, <2>1 DEF Leaves, TypeOK
  <2>3. TypeOK'
    BY <1>1, <2>1, <2>2 DEF TypeOK
  <2>4. RequestInv'
    BY <1>1, <2>1, <2>2 DEF RequestInv, Amount, ChangeAllowed, Change, Deduction, Plus,
                           CalculateWithdrawalFee
  <2> QED
    BY <2>3, <2>4 DEF WithdrawalInv
<1>3. ASSUME NEW r \in Requests, NEW leaf \in Leaves, NEW withdrawal \in WithdrawalAmounts,
             Ask(r, leaf, withdrawal)
      PROVE  WithdrawalInv'
  <2>1. /\ pc' = [pc EXCEPT ![r] = "form"] /\ note' = [note EXCEPT ![r] = leaf]
        /\ amount' = [amount EXCEPT ![r] = withdrawal]
        /\ UNCHANGED <<change, root, insertions, spent, vault, txns, spoiled, leafCount>>
    BY <1>3 DEF Ask, Goto, contractVars, txnsDbVars
  <2>2. leaf \in Nat /\ withdrawal \in Uint64
    BY WithdrawalsAssumption DEF Leaves
  <2>3. TypeOK'
    BY <1>1, <2>1, <2>2 DEF TypeOK, Leaves
  <2>4. pc'[r] = "form" /\ note'[r] = leaf
    BY <1>1, <2>1 DEF TypeOK
  <2> QED
    BY <1>1, <2>1, <2>3, <2>4, RequestStep DEF TypeOK
<1>4. ASSUME NEW r \in Requests, Lookup(r) PROVE WithdrawalInv'
  <2>1. /\ pc[r] = "form" /\ ChangeAllowed(Amount(note[r]), amount[r])
        /\ pc' = [pc EXCEPT ![r] = "confirm"]
        /\ change' = [change EXCEPT ![r] = Change(Amount(note[r]), amount[r])]
        /\ UNCHANGED <<note, amount, root, insertions, spent, vault, txns, spoiled, leafCount>>
    BY <1>4 DEF Lookup, Goto, contractVars, txnsDbVars
  <2>2. note[r] \in Leaves /\ amount[r] \in Uint64
    BY <1>1, <2>1 DEF RequestInv, TypeOK
  <2>3. Change(Amount(note[r]), amount[r]) \in Uint64
    BY <1>1, <2>1, <2>2, AmountType, ChangeIsProvable
  <2>4. TypeOK'
    BY <1>1, <2>1, <2>3 DEF TypeOK, Leaves
  <2>5. change'[r] = Change(Amount(note[r]), amount[r])
    BY <1>1, <2>1 DEF TypeOK
  <2> QED
    BY <1>1, <2>1, <2>2, <2>4, <2>5, RequestStep DEF TypeOK
<1>5. ASSUME NEW r \in Requests, ReadRoot(r) \/ ReadLeaves(r) \/ Refused(r)
      PROVE  WithdrawalInv'
  <2>1. /\ pc[r] \in {"confirm", "root", "built"}
        /\ root' = root \/ root' = [root EXCEPT ![r] = leafCount]
        /\ UNCHANGED <<note, amount, change, insertions, spent, vault, txns, spoiled, leafCount>>
    BY <1>5 DEF ReadRoot, ReadLeaves, Refused, contractVars, txnsDbVars
  <2>2. PICK stage \in {"form", "root", "built"} : pc' = [pc EXCEPT ![r] = stage]
    BY <1>5 DEF ReadRoot, ReadLeaves, Refused, Goto
  <2>3. TypeOK'
    BY <1>1, <2>1, <2>2 DEF TypeOK, Leaves
  <2>4. /\ note[r] \in Leaves
        /\ ChangeAllowed(Amount(note[r]), amount[r])
        /\ change[r] = Change(Amount(note[r]), amount[r])
    BY <1>1, <2>1 DEF RequestInv
  <2> QED
    BY <1>1, <2>1, <2>2, <2>3, <2>4, RequestStep DEF TypeOK
<1>6. CASE UNCHANGED vars
  <2>1. UNCHANGED <<insertions, spent, vault, txns, spoiled, leafCount, pc, note, amount, change, root>>
    BY <1>6 DEF vars, contractVars, txnsDbVars, requestVars
  <2>2. TypeOK'
    BY <1>1, <2>1 DEF TypeOK, Leaves
  <2>3. RequestInv'
    BY <1>1, <2>1 DEF RequestInv, Leaves, Amount, ChangeAllowed, Change, Deduction, Plus,
                      CalculateWithdrawalFee
  <2> QED
    BY <2>2, <2>3 DEF WithdrawalInv
<1> QED
  BY <1>2, <1>3, <1>4, <1>5, <1>6, OthersStep, AcceptedStep DEF Next, Handle

-----------------------------------------------------------------------------

\* The invariant holds in every state.
LEMMA WithdrawalInvariant == Spec => []WithdrawalInv
<1> QED
  BY WithdrawalInit, WithdrawalStep, PTL DEF Spec

\* Every change note a request carries is a uint64, and every request past the
\* form keeps the note it was made for: the handlers never compute an amount
\* that wraps.
THEOREM WithdrawalTypes == Spec => []TypeOK
<1>1. WithdrawalInv => TypeOK
  BY DEF WithdrawalInv
<1> QED
  BY <1>1, WithdrawalInvariant, PTL

\* confirm_withdrawal.go:53-111: the withdrawals that are sent back to the form
\* are those whose leaf the root has not, whose root is not that of the rows,
\* whose note was spent meanwhile, or whose root left the ring.
THEOREM WithdrawalsFailForAReason == Spec => FailsForAReason
<1> DEFINE Reason(r) ==
      pc'[r] = "form" =>
        \/ pc[r] \in {"idle", "form"}
        \/ pc[r] = "confirm" /\ note[r] >= leafCount
        \/ pc[r] = "root" /\ (txns # 0 .. root[r] - 1 \/ spoiled # {})
        \/ pc[r] = "built" /\ (note[r] \in spent
                               \/ Len(insertions) - root[r] >= RootsKept)
<1>1. WithdrawalInv /\ [Next]_vars => [\A r \in Requests : Reason(r)]_vars
  <2> SUFFICES ASSUME WithdrawalInv, Next, NEW r \in Requests PROVE Reason(r)
    OBVIOUS
  <2>1. TypeOK /\ RequestInv
    BY DEF WithdrawalInv
  <2>2. CASE pc'[r] = pc[r]
    BY <2>2
  <2>3. ASSUME NEW q \in Requests, NEW stage, pc' = [pc EXCEPT ![q] = stage], q # r
        PROVE  Reason(r)
    BY <2>1, <2>2, <2>3 DEF TypeOK
  <2>4. ASSUME NEW q \in Requests, NEW leaf \in Leaves, NEW withdrawal \in WithdrawalAmounts,
               Ask(q, leaf, withdrawal)
        PROVE  Reason(r)
    BY <2>3, <2>4 DEF Ask, Goto
  <2>5. ASSUME NEW q \in Requests, Handle(q) PROVE Reason(r)
    <3>1. CASE q # r
      BY <2>3, <2>5, <3>1 DEF Handle, Lookup, ReadRoot, ReadLeaves, Accepted, Refused, Goto
    <3>2. CASE q = r /\ (Lookup(r) \/ Accepted(r))
      <4>1. pc'[r] # "form"
        BY <2>1, <3>2 DEF Lookup, Accepted, Goto, TypeOK
      <4> QED
        BY <4>1
    <3>3. CASE q = r /\ ReadRoot(r)
      <4>1. pc[r] = "confirm" /\ note[r] \in Nat /\ leafCount \in Int
        BY <2>1, <3>3 DEF ReadRoot, TypeOK
      <4>2. note[r] < leafCount => pc'[r] = "root"
        BY <2>1, <3>3 DEF ReadRoot, Goto, TypeOK
      <4> QED
        BY <4>1, <4>2
    <3>4. CASE q = r /\ ReadLeaves(r)
      <4>1. /\ pc[r] = "root" /\ note[r] \in Leaves /\ amount[r] \in Uint64
            /\ ChangeAllowed(Amount(note[r]), amount[r])
            /\ change[r] = Change(Amount(note[r]), amount[r])
        BY <2>1, <3>4 DEF ReadLeaves, RequestInv, TypeOK
      <4>2. WithdrawalCircuit(Amount(note[r]), amount[r],
                              CalculateWithdrawalFee(amount[r]), change[r])
        BY <2>1, <4>1, AmountType, ChangeIsProvable
      <4>3. pc'[r] = "form" => ~Provable(r)
        BY <2>1, <3>4 DEF ReadLeaves, Goto, TypeOK
      <4> QED
        BY <4>1, <4>2, <4>3 DEF Provable
    <3>5. CASE q = r /\ Refused(r)
      <4>1. Len(insertions) \in Nat /\ root[r] \in Int /\ RootsKept \in Nat
        BY <2>1, WithdrawalsAssumption DEF TypeOK
      <4>2. pc[r] = "built" /\ (note[r] \in spent \/ ~(Len(insertions) - root[r] < RootsKept))
        BY <3>5 DEF Refused, WithdrawalAllowed, KnownRoot
      <4> QED
        BY <4>1, <4>2
    <3> QED
      BY <2>5, <3>1, <3>2, <3>3, <3>4, <3>5 DEF Handle
  <2>6. CASE Others \/ Subscriber
    BY <2>2, <2>6 DEF Others, Subscriber, requestVars, contractVars
  <2> QED
    BY <2>4, <2>5, <2>6 DEF Next
<1>2. Spec => [][\A r \in Requests : Reason(r)]_vars
  BY <1>1, WithdrawalInvariant, PTL DEF Spec
<1> QED
  BY <1>2 DEF FailsForAReason

-----------------------------------------------------------------------------
(* The contract is solvent. *)

\* What holds of 0 and of the successor of each number holds of all.
LEMMA Induction ==
  ASSUME NEW S, 0 \in S, \A n \in Nat : n \in S => n + 1 \in S
  PROVE  Nat \subseteq S
<1> DEFINE Less == {ss \in Nat \X Nat : ss[1] < ss[2]}
           Missing == Nat \ S
<1>1. IsWellFoundedOn(Less, Nat)
  BY NatLessThanWellFounded DEF OpToRel
<1>2. ASSUME Missing # {} PROVE FALSE
  <2> HIDE DEF Less
  <2>1. PICK x \in Missing : \A y \in Missing : ~(<<y, x>> \in Less)
    BY <1>1, <1>2, WFMin
  <2>2. \A y \in Missing : ~(y < x)
    BY <2>1 DEF Less
  <2>3. x - 1 \in Nat /\ x - 1 \in S
    BY <2>2
  <2> QED
    BY <2>3
<1> QED
  BY <1>2

\* Sums of the values of a function.
IsSum(g, U, fun) ==
  g = [s \in SUBSET U |-> IF s = {} THEN 0
                          ELSE fun[CHOOSE x \in s : TRUE] + g[s \ {CHOOSE x \in s : TRUE}]]


\* SumFunctionOnSet is computed by such a function.
LEMMA SumIs ==
  ASSUME NEW U, NEW fun
  PROVE  SumFunctionOnSet(fun, U) = (CHOOSE g : IsSum(g, U, fun))[U]
BY DEF SumFunctionOnSet, FoldFunctionOnSet, MapThenFoldSet, IsSum

\* The function exists: it is defined set by set, the smaller ones first.
LEMMA SumExists ==
  ASSUME NEW U, IsFiniteSet(U), NEW fun
  PROVE  \E g : IsSum(g, U, fun)
<1> DEFINE Small(n) == {s \in SUBSET U : Cardinality(s) <= n}
           Upto(g, n) ==
             g = [s \in Small(n) |->
                    IF s = {} THEN 0
                    ELSE fun[CHOOSE x \in s : TRUE] + g[s \ {CHOOSE x \in s : TRUE}]]
           Done == {n \in Nat : \E g : Upto(g, n)}
<1>1. \A s \in SUBSET U : IsFiniteSet(s) /\ Cardinality(s) \in Nat
  BY FS_Subset, FS_CardinalityType
<1>2. \A s \in SUBSET U : Cardinality(s) = 0 <=> s = {}
  BY <1>1, FS_EmptySet
<1>3. \A s \in SUBSET U : s # {} =>
        /\ s \ {CHOOSE x \in s : TRUE} \in SUBSET U
        /\ Cardinality(s \ {CHOOSE x \in s : TRUE}) = Cardinality(s) - 1
  BY <1>1, FS_RemoveElement
<1>4. 0 \in Done
  <2> DEFINE g == [s \in Small(0) |-> 0]
  <2>1. \A s \in Small(0) : s = {}
    BY <1>1, <1>2
  <2>2. Upto(g, 0)
    BY <2>1
  <2> QED
    BY <2>2
<1>5. ASSUME NEW n \in Nat, n \in Done PROVE n + 1 \in Done
  <2>1. PICK g : Upto(g, n)
    BY <1>5
  <2> DEFINE h == [s \in Small(n + 1) |->
                     IF s \in Small(n) THEN g[s]
                     ELSE fun[CHOOSE x \in s : TRUE] + g[s \ {CHOOSE x \in s : TRUE}]]
  <2>2. Small(n) \subseteq Small(n + 1)
    BY <1>1
  <2>3. \A s \in Small(n + 1) : s # {} => s \ {CHOOSE x \in s : TRUE} \in Small(n)
    BY <1>1, <1>3
  <2>4. \A s \in Small(n + 1) : s = {} => s \in Small(n)
    BY <1>1, <1>2
  <2>5. \A s \in Small(n) : h[s] = g[s]
    BY <2>2
  <2>6. \A s \in Small(n) :
          g[s] = IF s = {} THEN 0
                 ELSE fun[CHOOSE x \in s : TRUE] + g[s \ {CHOOSE x \in s : TRUE}]
    <3> HIDE DEF Small
    <3> QED
      BY <2>1
  <2>7. \A s \in Small(n + 1) :
          h[s] = IF s = {} THEN 0
                 ELSE fun[CHOOSE x \in s : TRUE] + h[s \ {CHOOSE x \in s : TRUE}]
    <3> HIDE DEF Small
    <3> QED
      BY <2>3, <2>4, <2>5, <2>6
  <2>8. Upto(h, n + 1)
    <3> DEFINE rhs == [s \in Small(n + 1) |->
                    IF s = {} THEN 0
                    ELSE fun[CHOOSE x \in s : TRUE] + h[s \ {CHOOSE x \in s : TRUE}]]
    <3>1. h = rhs
      <4> HIDE DEF Small
      <4> QED
        BY <2>7
    <3> QED
      BY <3>1
  <2> HIDE DEF h, Upto
  <2> QED
    BY <2>8
<1>6. Cardinality(U) \in Done
  <2> HIDE DEF Done
  <2> QED
    BY <1>1, <1>4, <1>5, Induction
<1>7. PICK g : Upto(g, Cardinality(U))
  BY <1>6
<1>8. Small(Cardinality(U)) = SUBSET U
  BY FS_Subset, FS_CardinalityType
<1> HIDE DEF Small
<1> QED
  BY <1>7, <1>8 DEF IsSum

\* Two such functions agree on the sets on which what they sum agrees.
LEMMA SumUnique ==
  ASSUME NEW U, NEW V, NEW fun, NEW other, NEW g, NEW h, NEW S \in SUBSET U,
         IsFiniteSet(S), S \subseteq V, IsSum(g, U, fun), IsSum(h, V, other),
         \A x \in S : fun[x] = other[x]
  PROVE  g[S] = h[S]
<1> DEFINE Agree == {n \in Nat : \A s \in SUBSET S : Cardinality(s) = n => g[s] = h[s]}
           Rest(s) == s \ {CHOOSE x \in s : TRUE}
<1>1. \A s \in SUBSET S : IsFiniteSet(s) /\ Cardinality(s) \in Nat
  BY FS_Subset, FS_CardinalityType
<1>2. \A s \in SUBSET S : Cardinality(s) = 0 <=> s = {}
  BY <1>1, FS_EmptySet
<1>3. \A s \in SUBSET S : s # {} =>
        Rest(s) \in SUBSET S /\ Cardinality(Rest(s)) = Cardinality(s) - 1
  BY <1>1, FS_RemoveElement
<1>4. \A s \in SUBSET S :
        /\ g[s] = IF s = {} THEN 0 ELSE fun[CHOOSE x \in s : TRUE] + g[Rest(s)]
        /\ h[s] = IF s = {} THEN 0 ELSE other[CHOOSE x \in s : TRUE] + h[Rest(s)]
  BY DEF IsSum
<1>5. \A s \in SUBSET S : s # {} =>
        fun[CHOOSE x \in s : TRUE] = other[CHOOSE x \in s : TRUE]
  OBVIOUS
<1> HIDE DEF Rest
<1>6. 0 \in Agree
  BY <1>2, <1>4
<1>7. ASSUME NEW n \in Nat, n \in Agree PROVE n + 1 \in Agree
  <2> SUFFICES ASSUME NEW s \in SUBSET S, Cardinality(s) = n + 1 PROVE g[s] = h[s]
    OBVIOUS
  <2>1. s # {}
    BY <1>2
  <2>2. g[Rest(s)] = h[Rest(s)]
    BY <1>3, <1>7, <2>1
  <2> QED
    BY <1>4, <1>5, <2>1, <2>2
<1>8. Cardinality(S) \in Agree
  <2> HIDE DEF Agree
  <2> QED
    BY <1>1, <1>6, <1>7, Induction
<1> QED
  BY <1>8


\* The sum of integers is an integer.
LEMMA SumType ==
  ASSUME NEW U, IsFiniteSet(U), NEW fun, \A x \in U : fun[x] \in Int,
         NEW g, IsSum(g, U, fun)
  PROVE  \A s \in SUBSET U : g[s] \in Int
<1> DEFINE Done == {n \in Nat : \A s \in SUBSET U : Cardinality(s) = n => g[s] \in Int}
<1>1. \A s \in SUBSET U : IsFiniteSet(s) /\ Cardinality(s) \in Nat
  BY FS_Subset, FS_CardinalityType
<1>2. \A s \in SUBSET U : Cardinality(s) = 0 <=> s = {}
  BY <1>1, FS_EmptySet
<1>3. \A s \in SUBSET U :
        IF s = {} THEN g[s] = 0
        ELSE \E y \in s : g[s] = fun[y] + g[s \ {y}]
  BY DEF IsSum
<1>4. \A s \in SUBSET U : \A x \in s :
        s \ {x} \in SUBSET U /\ Cardinality(s \ {x}) = Cardinality(s) - 1
  BY <1>1, FS_RemoveElement
<1>5. 0 \in Done
  BY <1>2, <1>3
<1>6. ASSUME NEW n \in Nat, n \in Done PROVE n + 1 \in Done
  <2> SUFFICES ASSUME NEW s \in SUBSET U, Cardinality(s) = n + 1 PROVE g[s] \in Int
    OBVIOUS
  <2>1. PICK y \in s : g[s] = fun[y] + g[s \ {y}]
    BY <1>2, <1>3
  <2>2. s \ {y} \in SUBSET U /\ Cardinality(s \ {y}) = n
    BY <1>4
  <2>3. g[s \ {y}] \in Int /\ fun[y] \in Int
    BY <1>6, <2>2
  <2> QED
    BY <2>1, <2>3
<1>7. \A s \in SUBSET U : Cardinality(s) \in Done
  <2> HIDE DEF Done
  <2> QED
    BY <1>1, <1>5, <1>6, Induction
<1> QED
  BY <1>7

\* Any of the numbers can be taken out of their sum.
LEMMA SumParts ==
  ASSUME NEW U, IsFiniteSet(U), NEW fun, \A x \in U : fun[x] \in Int,
         NEW g, IsSum(g, U, fun)
  PROVE  \A s \in SUBSET U : \A x \in s : g[s] = fun[x] + g[s \ {x}]
<1> DEFINE Parts(s) == \A x \in s : g[s] = fun[x] + g[s \ {x}]
           Done == {n \in Nat : \A s \in SUBSET U : Cardinality(s) = n => Parts(s)}
<1>1. \A s \in SUBSET U : IsFiniteSet(s) /\ Cardinality(s) \in Nat /\ g[s] \in Int
  BY FS_Subset, FS_CardinalityType, SumType
<1>2. \A s \in SUBSET U : \A x \in s :
        s \ {x} \in SUBSET U /\ Cardinality(s \ {x}) = Cardinality(s) - 1
  BY <1>1, FS_RemoveElement
<1>3. 0 \in Done
  BY <1>1, FS_EmptySet
<1>4. ASSUME NEW n \in Nat, n \in Done PROVE n + 1 \in Done
  <2> SUFFICES ASSUME NEW s \in SUBSET U, Cardinality(s) = n + 1, NEW x \in s
               PROVE  g[s] = fun[x] + g[s \ {x}]
    OBVIOUS
  <2>1. PICK y \in s : g[s] = fun[y] + g[s \ {y}]
    BY DEF IsSum
  <2>2. \A z \in s : s \ {z} \in SUBSET U /\ Cardinality(s \ {z}) = n
    BY <1>2
  <2>3. \A z \in s : Parts(s \ {z})
    BY <1>4, <2>2
  <2>4. CASE x # y
    <3>1. x \in s \ {y} /\ y \in s \ {x} /\ (s \ {y}) \ {x} = (s \ {x}) \ {y}
      BY <2>4
    <3>2. g[s \ {y}] = fun[x] + g[(s \ {y}) \ {x}]
      BY <2>3, <3>1
    <3>3. g[s \ {x}] = fun[y] + g[(s \ {y}) \ {x}]
      BY <2>3, <3>1
    <3>4. fun[x] \in Int /\ fun[y] \in Int /\ g[(s \ {y}) \ {x}] \in Int
      BY <1>1
    <3> QED
      BY <2>1, <3>2, <3>3, <3>4
  <2> QED
    BY <2>1, <2>4
<1>5. \A s \in SUBSET U : Cardinality(s) \in Done
  <2> HIDE DEF Done
  <2> QED
    BY <1>1, <1>3, <1>4, Induction
<1> QED
  BY <1>5

\* A sum does not depend on what is not summed.
LEMMA SumSame ==
  ASSUME NEW S, IsFiniteSet(S), NEW fun, NEW other, \A x \in S : fun[x] = other[x]
  PROVE  SumFunctionOnSet(fun, S) = SumFunctionOnSet(other, S)
<1> DEFINE g == CHOOSE g : IsSum(g, S, fun)
           h == CHOOSE h : IsSum(h, S, other)
<1>1. IsSum(g, S, fun) /\ IsSum(h, S, other)
  BY SumExists
<1>2. g[S] = h[S]
  <2> HIDE DEF g, h
  <2> QED
    BY <1>1, SumUnique
<1> QED
  BY <1>2, SumIs

\* A number more in a sum.
LEMMA SumAdd ==
  ASSUME NEW S, IsFiniteSet(S), NEW y, y \notin S, NEW fun,
         \A x \in S \cup {y} : fun[x] \in Int
  PROVE  /\ SumFunctionOnSet(fun, S) \in Int
         /\ SumFunctionOnSet(fun, S \cup {y}) = SumFunctionOnSet(fun, S) + fun[y]
<1> DEFINE T == S \cup {y}
           g == CHOOSE g : IsSum(g, T, fun)
           h == CHOOSE h : IsSum(h, S, fun)
<1>1. /\ IsFiniteSet(T) /\ S \in SUBSET T /\ T \in SUBSET T
      /\ y \in T /\ T \ {y} = S /\ \A x \in T : fun[x] \in Int
  BY FS_AddElement
<1>2. SumFunctionOnSet(fun, T) = g[T] /\ SumFunctionOnSet(fun, S) = h[S]
  BY SumIs
<1>3. IsSum(g, T, fun) /\ IsSum(h, S, fun)
  BY <1>1, SumExists
<1> HIDE DEF g, h, T
<1>4. g[S] = h[S]
  BY <1>1, <1>3, SumUnique
<1>5. g[T] = fun[y] + g[S] /\ g[S] \in Int /\ fun[y] \in Int
  BY <1>1, <1>3, SumParts, SumType
<1> QED
  BY <1>2, <1>4, <1>5 DEF T

-----------------------------------------------------------------------------

\* The positions of the notes the contract still has to pay.
Unspent == {k \in DOMAIN insertions : k - 1 \notin spent}

\* They are finitely many, and what they hold are integers.
LEMMA UnspentFacts ==
  ASSUME WithdrawalInv
  PROVE  /\ IsFiniteSet(Unspent)
         /\ Unspent \subseteq 1 .. Len(insertions)
         /\ \A k \in 1 .. Len(insertions) : insertions[k] \in Int
<1>1. insertions \in Seq(Uint64)
  BY DEF WithdrawalInv, TypeOK
<1>2. DOMAIN insertions = 1 .. Len(insertions) /\ Len(insertions) \in Nat
  BY <1>1
<1>3. IsFiniteSet(1 .. Len(insertions))
  BY <1>2, FS_Interval
<1>4. IsFiniteSet(Unspent)
  BY <1>2, <1>3, FS_Subset DEF Unspent
<1>5. \A k \in 1 .. Len(insertions) : insertions[k] \in Int
  BY <1>1, ElementOfSeq, AmountsAssumption DEF Uint64
<1> QED
  BY <1>2, <1>4, <1>5 DEF Unspent

\* A note more is worth its value more.
LEMMA SolventAppend ==
  ASSUME WithdrawalInv, NEW value \in Uint64, NEW S \in SUBSET Unspent
  PROVE  LET after == Append(insertions, value)
         IN  SumFunctionOnSet(after, S \cup {Len(insertions) + 1}) =
               SumFunctionOnSet(insertions, S) + value
<1> DEFINE after == Append(insertions, value)
           last == Len(insertions) + 1
<1>1. /\ IsFiniteSet(S) /\ S \subseteq 1 .. Len(insertions)
      /\ \A k \in S : insertions[k] \in Int
  BY UnspentFacts, FS_Subset
<1>2. insertions \in Seq(Uint64) /\ Len(insertions) \in Nat /\ value \in Int
  BY AmountsAssumption DEF WithdrawalInv, TypeOK, Uint64
<1>3. after[last] = value /\ \A k \in 1 .. Len(insertions) : after[k] = insertions[k]
  BY <1>2, AppendProperties
<1>4. last \notin S
  BY <1>1, <1>2
<1> HIDE DEF after, last
<1>5. SumFunctionOnSet(after, S \cup {last}) = SumFunctionOnSet(after, S) + value
  BY <1>1, <1>2, <1>3, <1>4, SumAdd
<1>6. SumFunctionOnSet(after, S) = SumFunctionOnSet(insertions, S)
  BY <1>1, <1>3, SumSame
<1> QED
  BY <1>5, <1>6 DEF after, last

\* A deposit brings what its note is worth.
LEMMA DepositSolvent ==
  ASSUME WithdrawalInv, Solvent, NEW value \in Uint64, Deposit(value)
  PROVE  Solvent'
<1>1. insertions \in Seq(Uint64) /\ Len(insertions) \in Nat /\ spent \subseteq Leaves
  BY DEF WithdrawalInv, TypeOK
<1>2. insertions' = Append(insertions, value) /\ spent' = spent /\ vault' = vault + value
  BY DEF Deposit
<1>3. DOMAIN insertions' = 1 .. Len(insertions) + 1 /\ DOMAIN insertions = 1 .. Len(insertions)
  BY <1>1, <1>2, AppendProperties
<1>4. Unspent' = Unspent \cup {Len(insertions) + 1}
  BY <1>1, <1>2, <1>3 DEF Unspent, Leaves
<1>5. SumFunctionOnSet(insertions', Unspent') = SumFunctionOnSet(insertions, Unspent) + value
  BY <1>2, <1>4, SolventAppend
<1> QED
  BY <1>2, <1>5 DEF Solvent, Unspent

\* A withdrawal takes what its note is worth, less its change: the circuit
\* computes in the field, but its order constraints keep it from wrapping.
LEMMA WithdrawalSolvent ==
  ASSUME WithdrawalInv, Solvent, NEW leaf \in Leaves \ spent, NEW withdrawal \in Uint64,
         NEW fee \in Uint64, NEW value, Withdrawal(leaf, withdrawal, fee, value)
  PROVE  Solvent'
<1> DEFINE rest == Unspent \ {leaf + 1}
<1>1. TypeOK /\ insertions \in Seq(Uint64) /\ Len(insertions) \in Nat /\ spent \subseteq Leaves
  BY DEF WithdrawalInv, TypeOK
<1>2. /\ WithdrawalCircuit(Amount(leaf), withdrawal, fee, value)
      /\ insertions' = Append(insertions, value)
      /\ spent' = spent \cup {leaf}
      /\ vault' = vault - withdrawal - fee
  BY DEF Withdrawal
<1>3. Amount(leaf) \in Uint64 /\ value \in Uint64
  BY <1>1, <1>2, AmountType, CircuitChange
<1>4. withdrawal + fee + value = Amount(leaf)
  BY <1>2, <1>3, AmountsAssumption DEF WithdrawalCircuit, Sub, Uint64
<1>5. DOMAIN insertions' = 1 .. Len(insertions) + 1 /\ DOMAIN insertions = 1 .. Len(insertions)
  BY <1>1, <1>2, <1>3, AppendProperties
<1>6. leaf \in Int /\ leaf + 1 \in Unspent
  BY <1>1, <1>5 DEF Unspent, Leaves
<1>7. Unspent' = rest \cup {Len(insertions) + 1}
  BY <1>1, <1>2, <1>5, <1>6 DEF Unspent, Leaves
<1>8. rest \cup {leaf + 1} = Unspent /\ leaf + 1 \notin rest /\ rest \in SUBSET Unspent
  BY <1>6
<1> HIDE DEF rest
<1>9. SumFunctionOnSet(insertions', Unspent') = SumFunctionOnSet(insertions, rest) + value
  BY <1>2, <1>3, <1>7, <1>8, SolventAppend
<1>10. /\ SumFunctionOnSet(insertions, rest) \in Int
       /\ SumFunctionOnSet(insertions, Unspent) =
            SumFunctionOnSet(insertions, rest) + Amount(leaf)
  <2>1. IsFiniteSet(rest) /\ \A k \in rest \cup {leaf + 1} : insertions[k] \in Int
    BY <1>8, UnspentFacts, FS_Subset
  <2> QED
    BY <1>8, <2>1, SumAdd DEF Amount
<1>11. vault = SumFunctionOnSet(insertions, Unspent)
  BY DEF Solvent, Unspent
<1>12. vault' = SumFunctionOnSet(insertions', Unspent')
  BY <1>2, <1>3, <1>4, <1>9, <1>10, <1>11, AmountsAssumption DEF Uint64
<1> QED
  BY <1>12 DEF Solvent, Unspent

\* withdrawal_circuit.go:67-74: whatever is deposited and withdrawn, through
\* this frontend or another, the contract holds what the unspent notes are
\* worth, for every field that has room for a uint64.
THEOREM ContractIsSolvent == Spec => []Solvent
<1>1. Init => Solvent
  <2> SUFFICES ASSUME Init PROVE Solvent
    OBVIOUS
  <2> DEFINE none == {k \in DOMAIN insertions : k - 1 \notin spent}
             g == CHOOSE g : IsSum(g, none, insertions)
  <2>1. none = {} /\ vault = 0
    BY DEF Init, TxnsDb!Init
  <2>2. IsSum(g, none, insertions) /\ SumFunctionOnSet(insertions, none) = g[none]
    BY <2>1, FS_EmptySet, SumExists, SumIs
  <2> HIDE DEF none, g
  <2>3. g[none] = 0
    BY <2>1, <2>2 DEF IsSum
  <2> QED
    BY <2>1, <2>2, <2>3 DEF Solvent, none
<1>2. WithdrawalInv /\ Solvent /\ [Next]_vars => Solvent'
  <2> SUFFICES ASSUME WithdrawalInv, Solvent, [Next]_vars PROVE Solvent'
    OBVIOUS
  <2>1. TypeOK /\ RequestInv
    BY DEF WithdrawalInv
  <2>2. CASE UNCHANGED contractVars
    BY <2>2 DEF contractVars, Solvent
  <2>3. CASE Others
    <3>1. ASSUME NEW value \in DepositAmounts, Deposit(value) PROVE Solvent'
      BY <3>1, DepositSolvent, WithdrawalsAssumption
    <3>2. ASSUME NEW leaf \in Leaves \ spent, NEW withdrawal \in WithdrawalAmounts,
                 NEW value \in Elements, Withdrawal(leaf, withdrawal, MinFee, value)
          PROVE  Solvent'
      BY <3>2, WithdrawalSolvent, WithdrawalsAssumption, AmountsAssumption DEF Uint64
    <3> QED
      BY <2>3, <3>1, <3>2 DEF Others
  <2>4. ASSUME NEW r \in Requests, Accepted(r) PROVE Solvent'
    <3>1. note[r] \in Leaves \ spent /\ amount[r] \in Uint64
      BY <2>1, <2>4 DEF Accepted, WithdrawalAllowed, RequestInv, TypeOK
    <3>2. Withdrawal(note[r], amount[r], CalculateWithdrawalFee(amount[r]), change[r])
      BY <2>4 DEF Accepted
    <3> QED
      BY <3>1, <3>2, FeeType, WithdrawalSolvent
  <2>5. ASSUME NEW r \in Requests, Lookup(r) \/ ReadRoot(r) \/ ReadLeaves(r) \/ Refused(r)
        PROVE  UNCHANGED contractVars
    BY <2>5 DEF Lookup, ReadRoot, ReadLeaves, Refused
  <2>6. ASSUME NEW r \in Requests, NEW leaf \in Leaves, NEW withdrawal \in WithdrawalAmounts,
               Ask(r, leaf, withdrawal)
        PROVE  UNCHANGED contractVars
    BY <2>6 DEF Ask
  <2>7. Subscriber \/ UNCHANGED vars => UNCHANGED contractVars
    BY DEF Subscriber, vars, contractVars
  <2> QED
    BY <2>2, <2>3, <2>4, <2>5, <2>6, <2>7 DEF Next, Handle
<1> QED
  BY <1>1, <1>2, WithdrawalInvariant, PTL DEF Spec

=============================================================================
