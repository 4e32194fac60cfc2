---------------------------- MODULE ReceiptLedger ----------------------------
(***************************************************************************)
(* What the frontend promises about receipts, whatever the interleaving:   *)
(* a group is sent only while its note is pending, a receipt is written    *)
(* only for a group that is on chain, at most once, while its note is      *)
(* pending, and a note stops being pending only when it has its receipt or *)
(* its group is not, and without a new registration will never be, on      *)
(* chain.                                                                  *)
(***************************************************************************)
CONSTANT Txns

VARIABLES
  fate,    \* of each group: "unsent", "pool", "onchain", "dead"
  pending, \* groups whose note the frontend still has to settle
  receipts \* groups whose note has a receipt

vars == <<fate, pending, receipts>>

TypeOK ==
  /\ fate \in [Txns -> {"unsent", "pool", "onchain", "dead"}]
  /\ pending \subseteq Txns
  /\ receipts \subseteq Txns

Init ==
  /\ fate = [t \in Txns |-> "unsent"]
  /\ pending = {}
  /\ receipts = {}

Open(t) ==
  /\ t \notin pending
  /\ pending' = pending \cup {t}
  /\ UNCHANGED <<fate, receipts>>

Send(t) ==
  /\ t \in pending
  /\ fate[t] = "unsent"
  /\ fate' = [fate EXCEPT ![t] = "pool"]
  /\ UNCHANGED <<pending, receipts>>

Settle(t) ==
  /\ \/ fate[t] = "pool" /\ fate' = [fate EXCEPT ![t] = "onchain"]
     \/ fate[t] \in {"unsent", "pool"} /\ fate' = [fate EXCEPT ![t] = "dead"]
  /\ UNCHANGED <<pending, receipts>>

Receipt(t) ==
  /\ fate[t] = "onchain"
  /\ t \in pending \ receipts
  /\ receipts' = receipts \cup {t}
  /\ pending' \in {pending, pending \ {t}}
  /\ UNCHANGED fate

Close(t) ==
  /\ t \in pending
  /\ t \in receipts \/ fate[t] \in {"unsent", "dead"}
  /\ pending' = pending \ {t}
  /\ UNCHANGED <<fate, receipts>>

Next == \E t \in Txns : Open(t) \/ Send(t) \/ Settle(t) \/ Receipt(t) \/ Close(t)

Spec == Init /\ [][Next]_vars

\* No receipt is lost: a note whose group is or may get on chain is pending
\* or has its receipt (what the promise above is for).
NoReceiptLost ==
  \A t \in Txns : fate[t] \in {"pool", "onchain"} => t \in pending \cup receipts

=============================================================================
