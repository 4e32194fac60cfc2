----------------------------- MODULE MCFrontend -----------------------------
(***************************************************************************)
(* Instances of Frontend for TLC.  The withdrawal request w1 is about the  *)
(* group wdr; every other request is about the one deposit dep, so two of  *)
(* them are a double submit of its form.                                   *)
(***************************************************************************)
EXTENDS Frontend

CONSTANTS dep, wdr, w1

MCTxnOf == [q \in Requests |-> IF q = w1 THEN wdr ELSE dep]

=============================================================================
