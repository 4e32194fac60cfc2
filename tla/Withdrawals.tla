---------------------------- MODULE Withdrawals -----------------------------
(***************************************************************************)
(* Withdrawing a note: the two handlers of a withdrawal read txns.db while *)
(* the subscriber writes it, build a group with a Merkle proof against the *)
(* root they read, and the contract takes or refuses the group while other *)
(* frontends deposit and withdraw.                                         *)
(*                                                                         *)
(* txns.db is what ChainMirror promises of it, and no more: rows may come  *)
(* in any order, and may be missing for good.  A note is its leaf index, a *)
(* root the number of its leaves.                                          *)
(*                                                                         *)
(* Every group reaches the contract: the failures of the node, and groups  *)
(* that expire, are those of Frontend, which has the receipts.             *)
(***************************************************************************)
EXTENDS Amounts, Sequences, FiniteSetsExt

CONSTANTS
  Requests,          \* withdrawals users make through this frontend
  RootsKept,         \* roots the contract remembers
  DepositAmounts, WithdrawalAmounts,
  MaxInsertions      \* bound on the insertions the others make

ASSUME WithdrawalsAssumption ==
  /\ RootsKept \in Nat /\ MaxInsertions \in Nat
  /\ DepositAmounts \subseteq Uint64 /\ WithdrawalAmounts \subseteq Uint64

VARIABLES
  insertions, \* contract: the amounts of the notes inserted
  spent,      \* contract: the notes whose nullifier it has
  vault,      \* contract: its balance
  txns,       \* txns.db: the leaf indices with the row of their note
  spoiled,    \* txns.db: those with the row of a call that appended no leaf
  leafCount,  \* txns.db: leaf_count of the root
  pc,         \* where each request stands
  note,       \* the note it spends
  amount,     \* the amount it withdraws
  change,     \* the amount of its change note
  root        \* the root it read

contractVars == <<insertions, spent, vault>>
txnsDbVars   == <<txns, spoiled, leafCount>>
requestVars  == <<pc, note, amount, change, root>>
vars == <<contractVars, txnsDbVars, requestVars>>

TxnsDb == INSTANCE ChainMirror WITH leaves <- Len(insertions)

Leaves == 0 .. Len(insertions) - 1
Amount(leaf) == insertions[leaf + 1]

Init ==
  /\ insertions = << >>
  /\ TxnsDb!Init
  /\ spent = {}
  /\ vault = 0
  /\ pc = [r \in Requests |-> "idle"]
  /\ note = [r \in Requests |-> 0]
  /\ amount = [r \in Requests |-> 0]
  /\ change = [r \in Requests |-> 0]
  /\ root = [r \in Requests |-> 0]

-----------------------------------------------------------------------------
(* The contract. *)

Deposit(value) ==
  /\ insertions' = Append(insertions, value)
  /\ vault' = vault + value
  /\ UNCHANGED spent

\* The ring of roots holds the root of so many leaves.
KnownRoot(leaves) == Len(insertions) - leaves < RootsKept

\* The nullifier is new and the root known; the logicsig of the verifier
\* checks the circuit.
WithdrawalAllowed(leaf, leaves) == leaf \notin spent /\ KnownRoot(leaves)

Withdrawal(leaf, withdrawal, fee, value) ==
  /\ WithdrawalCircuit(Amount(leaf), withdrawal, fee, value)
  /\ insertions' = Append(insertions, value)
  /\ spent' = spent \cup {leaf}
  /\ vault' = vault - withdrawal - fee

\* Deposits, and withdrawals through other frontends.
Others ==
  /\ Len(insertions) < MaxInsertions
  /\ \/ \E value \in DepositAmounts : Deposit(value)
     \/ \E leaf \in Leaves \ spent, withdrawal \in WithdrawalAmounts, value \in Elements :
          Withdrawal(leaf, withdrawal, MinFee, value)
  /\ UNCHANGED <<txnsDbVars, requestVars>>

Subscriber == UNCHANGED <<contractVars, requestVars>> /\ TxnsDb!Mirror

-----------------------------------------------------------------------------
(* A request. *)

Goto(r, stage) == pc' = [pc EXCEPT ![r] = stage]

\* A user fills the form for a note that is on chain.
Ask(r, leaf, withdrawal) ==
  /\ pc[r] = "idle"
  /\ leaf \in Leaves
  /\ Goto(r, "form")
  /\ note' = [note EXCEPT ![r] = leaf]
  /\ amount' = [amount EXCEPT ![r] = withdrawal]
  /\ UNCHANGED <<change, root, contractVars, txnsDbVars>>

\* WithdrawHandler: the leaf is looked up and the change note generated.
Lookup(r) ==
  /\ pc[r] = "form"
  /\ note[r] \in txns
  /\ ChangeAllowed(Amount(note[r]), amount[r])
  /\ Goto(r, "confirm")
  /\ change' = [change EXCEPT ![r] = Change(Amount(note[r]), amount[r])]
  /\ UNCHANGED <<note, amount, root, contractVars, txnsDbVars>>

\* Mutant: the first root that was read is kept.
ReadRootOnce(r) ==
  /\ pc[r] = "confirm"
  /\ IF note[r] < leafCount
     THEN Goto(r, "root") /\ root' = [root EXCEPT ![r] = IF @ = 0 THEN leafCount ELSE @]
     ELSE Goto(r, "form") /\ UNCHANGED root
  /\ UNCHANGED <<note, amount, change, contractVars, txnsDbVars>>

\* ConfirmWithdrawHandler: the leaf index again, and the root, which has to
\* have that leaf.
ReadRoot(r) ==
  /\ pc[r] = "confirm"
  /\ IF note[r] < leafCount
     THEN Goto(r, "root") /\ root' = [root EXCEPT ![r] = leafCount]
     ELSE Goto(r, "form") /\ UNCHANGED root
  /\ UNCHANGED <<note, amount, change, contractVars, txnsDbVars>>

\* createMerkleProof makes a proof from the leaves read now when they are
\* those of the root, and ZkArgs one of the circuit when it is satisfied.
Provable(r) ==
  /\ txns = 0 .. root[r] - 1 /\ spoiled = {}
  /\ WithdrawalCircuit(Amount(note[r]), amount[r],
                       CalculateWithdrawalFee(amount[r]), change[r])

\* On an error the modal leads back to the form; where a missing row makes
\* createMerkleProof panic, net/http drops the answer and the form is still on
\* the page.
ReadLeaves(r) ==
  /\ pc[r] = "root"
  /\ Goto(r, IF Provable(r) THEN "built" ELSE "form")
  /\ UNCHANGED <<note, amount, change, root, contractVars, txnsDbVars>>

Accepted(r) ==
  /\ pc[r] = "built"
  /\ WithdrawalAllowed(note[r], root[r])
  /\ Withdrawal(note[r], amount[r], CalculateWithdrawalFee(amount[r]), change[r])
  /\ Goto(r, "done")
  /\ UNCHANGED <<note, amount, change, root, txnsDbVars>>

\* ErrRejected: the modal leads back to the form.
Refused(r) ==
  /\ pc[r] = "built"
  /\ ~WithdrawalAllowed(note[r], root[r])
  /\ Goto(r, "form")
  /\ UNCHANGED <<note, amount, change, root, contractVars, txnsDbVars>>

Handle(r) == Lookup(r) \/ ReadRoot(r) \/ ReadLeaves(r) \/ Accepted(r) \/ Refused(r)

Next ==
  \/ Others \/ Subscriber
  \/ \E r \in Requests :
       \/ Handle(r)
       \/ \E leaf \in Leaves, withdrawal \in WithdrawalAmounts : Ask(r, leaf, withdrawal)

\* The handlers run, and a user whose withdrawal failed submits the form again.
Fairness == \A r \in Requests : WF_vars(Handle(r))

Spec == Init /\ [][Next]_vars

FairSpec == Spec /\ Fairness

-----------------------------------------------------------------------------

\* The values each variable takes.
TypeOK ==
  /\ insertions \in Seq(Uint64)
  /\ spent \subseteq Leaves
  /\ vault \in Int
  /\ txns \subseteq Leaves /\ spoiled \subseteq Leaves
  /\ leafCount \in 0 .. Len(insertions)
  /\ pc \in [Requests -> {"idle", "form", "confirm", "root", "built", "done"}]
  /\ note \in [Requests -> Nat]
  /\ amount \in [Requests -> Uint64]
  /\ change \in [Requests -> Uint64]
  /\ root \in [Requests -> 0 .. Len(insertions)]

\* The contract holds what the unspent notes are worth: whatever withdrawals
\* the circuit admits (withdrawal_circuit.go:67-74), every note can be paid.
Solvent ==
  vault = SumFunctionOnSet(insertions, {k \in DOMAIN insertions : k - 1 \notin spent})

\* README.md:37: what WithdrawHandler let through fails in
\* ConfirmWithdrawHandler only when the root has not the leaf, or the rows are
\* not those of the root that was read, and at the contract only when its note
\* was spent meanwhile or RootsKept insertions came after its root.
FailsForAReason ==
  [][\A r \in Requests :
       pc'[r] = "form" =>
         \/ pc[r] \in {"idle", "form"}
         \/ pc[r] = "confirm" /\ note[r] >= leafCount
         \/ pc[r] = "root" /\ (txns # 0 .. root[r] - 1 \/ spoiled # {})
         \/ pc[r] = "built" /\ (note[r] \in spent
                                \/ Len(insertions) - root[r] >= RootsKept)]_vars

\* A note whose withdrawal the form accepted is spent in the end, however the
\* reads of txns.db fall, if from some moment on txns.db is in step with a root
\* the contract knows.
Withdrawable ==
  <>[](TxnsDb!InStep /\ KnownRoot(leafCount)) =>
    \A r \in Requests : pc[r] = "confirm" ~> \E leaf \in spent : leaf = note[r]

-----------------------------------------------------------------------------
(* The inductive invariant behind TypeOK and FailsForAReason. *)

\* A request past the form has a note of txns.db and a change note that the
\* fee and the amount leave of it; past the reading, a root of txns.db.
RequestInv ==
  \A r \in Requests :
    /\ pc[r] # "idle" => note[r] \in Leaves
    /\ pc[r] \in {"confirm", "root", "built"} =>
         /\ ChangeAllowed(Amount(note[r]), amount[r])
         /\ change[r] = Change(Amount(note[r]), amount[r])

WithdrawalInv == TypeOK /\ RequestInv

=============================================================================
