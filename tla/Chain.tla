-------------------------------- MODULE Chain --------------------------------
(***************************************************************************)
(* The environment of the frontend, as the frontend sees it: the Algorand  *)
(* network, which accepts, confirms or lets expire a transaction group,    *)
(* and txns.db, the read-only copy of the confirmed insertions that the    *)
(* subscriber service fills.                                               *)
(***************************************************************************)
EXTENDS ConfirmRequests

VARIABLES
  chain,     \* what became of each group
  leafOf,    \* the leaf index the contract gave to the group's note
  leafCount, \* leaves in the tree of the contract
  txnsDb     \* groups with a row in the txns table of txns.db

chainVars == <<chain, leafOf, leafCount, txnsDb>>

ChainInit ==
  /\ chain = [t \in Txns |-> "unsent"]
  /\ leafOf = [t \in Txns |-> EmptyLeafIndex]
  /\ leafCount = 0
  /\ txnsDb = {}

\* A group the network may have included in a block, or may still include.
Submitted(t) == chain[t] \in {"pool", "onchain"}

\* A node accepts the group (SendRawTransaction).
Submit(t) ==
  /\ chain[t] = "unsent"
  /\ chain' = [chain EXCEPT ![t] = "pool"]
  /\ UNCHANGED <<leafOf, leafCount, txnsDb>>

\* The group is included in a block: the contract appends the note's leaf.
ConfirmTxn(t) ==
  /\ chain[t] = "pool"
  /\ chain' = [chain EXCEPT ![t] = "onchain"]
  /\ leafOf' = [leafOf EXCEPT ![t] = leafCount]
  /\ leafCount' = leafCount + 1
  /\ UNCHANGED txnsDb

\* The last valid round of the group passes and it is not in a block.
ExpireTxn(t) ==
  /\ chain[t] \in {"unsent", "pool"}
  /\ chain' = [chain EXCEPT ![t] = "dead"]
  /\ UNCHANGED <<leafOf, leafCount, txnsDb>>

\* The subscriber saves a confirmed insertion.  The order is left open: it
\* handles the deposits of a poll before the withdrawals of it.
SubscriberSaves(t) ==
  /\ chain[t] = "onchain"
  /\ t \notin txnsDb
  /\ txnsDb' = txnsDb \cup {t}
  /\ UNCHANGED <<chain, leafOf, leafCount>>

=============================================================================
