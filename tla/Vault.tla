-------------------------------- MODULE Vault --------------------------------
(***************************************************************************)
(* The HermesVault contract on the Algorand chain, as far as its readers   *)
(* see it: the calls of its two methods, in the order of the chain.  Both  *)
(* log the leaf index of the new note and the new root, deposit(...)       *)
(* (uint64,byte[32]) and withdraw(...)(uint64,byte[32]).  A withdrawal     *)
(* with no_change set appends no leaf, and logs the index and the root     *)
(* that the last leaf has.                                                 *)
(*                                                                         *)
(* A call is identified by its position among the calls, and a root by the *)
(* number of leaves of its tree.                                           *)
(***************************************************************************)
EXTENDS Integers, Sequences, FiniteSets

CONSTANTS
  MaxCalls,    \* bound on the calls
  MaxRound,    \* bound on the rounds
  MaxPerBlock  \* calls a block may hold

ASSUME VaultAssumption ==
  MaxCalls \in Nat /\ MaxRound \in Nat /\ MaxPerBlock \in Nat

VARIABLES
  calls, \* each with its kind, the leaf index it logs, and its round
  round  \* the last round of the chain; the calls of the next one are in the
         \* block that is being made

vaultVars == <<calls, round>>

Kinds == {"deposit", "withdraw", "noChange"}

\* The block the application was created in.
CreationBlock == 1

VaultInit ==
  /\ calls = << >>
  /\ round = CreationBlock

Calls == 1 .. Len(calls)
Kind(c)  == calls[c].kind
Leaf(c)  == calls[c].leaf
Round(c) == calls[c].round

\* The number of leaves of the tree.
TreeSize == IF calls = << >> THEN 0 ELSE Leaf(Len(calls)) + 1

\* The calls that append a leaf.
Notes == {c \in Calls : Kind(c) # "noChange"}

Deposits    == {c \in Calls : Kind(c) = "deposit"}
Withdrawals == {c \in Calls : Kind(c) # "deposit"}

\* Amounts in which a withdrawal and its fee use up a deposit.
DepositAmount    == 2
WithdrawalAmount == 1
WithdrawalFee    == 1

\* A call of the contract.  The circuit of the withdrawals lets no more out
\* than was put in.
Call(kind) ==
  /\ Len(calls) < MaxCalls /\ round < MaxRound
  /\ Cardinality({c \in Calls : Round(c) = round + 1}) < MaxPerBlock
  /\ kind # "deposit" => Cardinality(Withdrawals) < Cardinality(Deposits)
  /\ calls' = Append(calls,
       [kind  |-> kind,
        leaf  |-> IF kind = "noChange" THEN TreeSize - 1 ELSE TreeSize,
        round |-> round + 1])
  /\ UNCHANGED round

\* The block with the calls of the next round is on the chain.
NewBlock ==
  /\ round < MaxRound
  /\ round' = round + 1
  /\ UNCHANGED calls

=============================================================================
