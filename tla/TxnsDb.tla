------------------------------- MODULE TxnsDb -------------------------------
(***************************************************************************)
(* txns.db, the SQLite database the subscriber service writes and the      *)
(* frontend reads: a row for each call that was saved, the latest root     *)
(* with its leaf count, the totals, and the watermark.                     *)
(*                                                                         *)
(* A row of txns is identified by the call it was written for: its leaf    *)
(* index is the one the call logs, its commitment, txn_id and amounts are  *)
(* those of the arguments of the call.                                     *)
(***************************************************************************)
EXTENDS Vault

VARIABLES
  txns,       \* the calls with a row in txns
  leafCount,  \* the row of roots: leaf_count, and the root of so many leaves
  stats,      \* the rows of stats
  watermarkDb \* the row of watermark

txnsDbVars == <<txns, leafCount, stats, watermarkDb>>

NoTotals == [total_deposits |-> 0, total_withdrawals |-> 0, total_fees |-> 0,
             count_deposits |-> 0]

TxnsDbInit ==
  /\ txns = {}
  /\ leafCount = 0
  /\ stats = NoTotals
  /\ watermarkDb = 0

\* txns.leaf_index is the PRIMARY KEY.
SaveAllowed(c) == \A row \in txns : Leaf(row) # Leaf(c)

\* UPDATE stats SET value = value + ? WHERE key = ?
Added(values, key, amount) == [values EXCEPT ![key] = @ + amount]

\* Mutant: the totals are not part of the SQL transaction.
DepositStatsLost == stats

DepositStats ==
  Added(Added(stats, "total_deposits", DepositAmount), "count_deposits", 1)

WithdrawalStats ==
  Added(Added(stats, "total_withdrawals", WithdrawalAmount), "total_fees", WithdrawalFee)

\* Mutant: the leaf count saved with the root is the index of the new leaf.
SaveOldCount(c) ==
  /\ SaveAllowed(c)
  /\ txns' = txns \cup {c}
  /\ leafCount' = Leaf(c)
  /\ stats' = IF Kind(c) = "deposit" THEN DepositStats ELSE WithdrawalStats
  /\ watermarkDb' = Round(c)

\* save_deposit and save_withdrawal: one SQL transaction.  A withdrawal with
\* no_change set is saved like any other.
Save(c) ==
  /\ SaveAllowed(c)
  /\ txns' = txns \cup {c}
  /\ leafCount' = Leaf(c) + 1
  /\ stats' = IF Kind(c) = "deposit" THEN DepositStats ELSE WithdrawalStats
  /\ watermarkDb' = Round(c)

SetWatermark(new) ==
  /\ watermarkDb' = new
  /\ UNCHANGED <<txns, leafCount, stats>>

=============================================================================
