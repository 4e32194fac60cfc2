--------------------------- MODULE ConfirmRequests ---------------------------
(***************************************************************************)
(* The confirm requests of the browsers and the transaction groups they    *)
(* ask the frontend to send.  A deposit group is built and signed before   *)
(* the request, so several requests may carry the same one (a double       *)
(* submit); a withdrawal group is built by the handler around a fresh      *)
(* proof, so no two requests build the same.                               *)
(***************************************************************************)
EXTENDS Integers

CONSTANTS
  Txns,     \* transaction groups, each inserting one note
  Deposits, \* those that are deposits; the others are withdrawals
  Requests, \* POST /confirm-deposit and POST /confirm-withdraw
  TxnOf     \* the group a request is about

ASSUME RequestsAssumption ==
  /\ Deposits \subseteq Txns
  /\ TxnOf \in [Requests -> Txns]
  /\ \A q, r \in Requests : TxnOf[q] = TxnOf[r] => q = r \/ TxnOf[q] \in Deposits

\* The leaf index of a note before its group is confirmed (math.MaxUint64).
EmptyLeafIndex == -1

=============================================================================
