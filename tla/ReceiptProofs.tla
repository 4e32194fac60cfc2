---------------------------- MODULE ReceiptProofs ----------------------------
(***************************************************************************)
(* Proof that no receipt is lost and that Frontend implements              *)
(* ReceiptLedger, when the node does not fail after it took a group and    *)
(* the subscriber is less than 7 days behind.                              *)
(***************************************************************************)
EXTENDS FrontendProofs

Assumptions == ~AmbiguousErrors /\ SubscriberKeepsUp

LEMMA ReceiptInit == Init => ReceiptInv
<1>1. Init => UniqueRows /\ RowInv /\ StaleInv /\ NoReceiptLost
  BY DEF Init, DbInit, ChainInit, HandlerInit, CleanupInit,
         UniqueRows, RowInv, StaleInv, NoReceiptLost, Submitted
<1>2. QED
  BY <1>1, FaithInit DEF ReceiptInv

\* Writing a receipt for a group makes that group receipted and no other.
LEMMA ReceiptedGrows ==
  ASSUME NEW n, notes' = notes \cup {n}
  PROVE  Receipted' = Receipted \cup {n.txn}
<1>1. QED
  BY DEF Receipted

LEMMA ReceiptHandle ==
  ASSUME Assumptions, ReceiptInv, FaithInv', NEW q \in Requests, Handle(q)
  PROVE  ReceiptInv'
<1> USE RequestsAssumption
<1> USE DEF Assumptions, ReceiptInv, FaithInv, TypeOK, ChainInv, WriterInv,
            NotesFaithful, UniqueRows, RowInv, StaleInv, NoReceiptLost,
            Submitted, Pending, Receipted, Goto, ErrorTypes,
            dbVars, chainVars, handlerVars, cleanupVars, serverVars
<1>0. HandlerStep(q) /\ UNCHANGED <<cleanupVars, serverVars>>
  BY DEF Handle
<1>1. CASE RefuseRequest(q)
  BY <1>0, <1>1 DEF RefuseRequest, Refuse
<1>2. CASE RetrieveDeposit(q)
  BY <1>0, <1>2 DEF RetrieveDeposit
<1>3. CASE DeleteDeposit(q)
  BY <1>0, <1>3 DEF DeleteDeposit, Refuse
<1>4. CASE CreateWithdrawalTxns(q)
  BY <1>0, <1>4 DEF CreateWithdrawalTxns
<1>5. CASE Register(q)
  BY <1>0, <1>5 DEF Register, RegisterUnconfirmedNote, RegisterAllowed
<1>6. CASE RegisterFails(q)
  BY <1>0, <1>6 DEF RegisterFails, Refuse, DbError
<1>7. CASE SignFails(q)
  BY <1>0, <1>7 DEF SignFails, Fail
<1>8. CASE SendAccepted(q)
  BY <1>0, <1>8 DEF SendAccepted, Submit
<1>9. CASE SendRefused(q)
  BY <1>0, <1>9 DEF SendRefused, RefusalErrors, Fail
<1>10. CASE SendResponseLost(q)
  BY <1>10 DEF SendResponseLost
<1>11. CASE WaitConfirmed(q)
  BY <1>0, <1>11 DEF WaitConfirmed
<1>12. CASE WaitTimesOut(q)
  BY <1>0, <1>12 DEF WaitTimesOut, Fail
<1>13. CASE WaitFails(q)
  BY <1>0, <1>13 DEF WaitFails, Fail
<1>14. CASE Save(q)
  <2>1. /\ notes' = notes \cup {[leaf |-> leafOf[TxnOf[q]], txn |-> TxnOf[q]]}
        /\ pc' = [pc EXCEPT ![q] = "return"] /\ pc[q] = "save"
        /\ UNCHANGED <<unconfirmed, stale, confirmationError,
                       saveNoteToDbError, chainVars, cleanupVars>>
    BY <1>0, <1>14 DEF Save, SaveNote
  <2> HIDE DEF Receipted
  <2>2. Receipted' = Receipted \cup {TxnOf[q]}
    <3> DEFINE n == [leaf |-> leafOf[TxnOf[q]], txn |-> TxnOf[q]]
    <3>1. n.txn = TxnOf[q] /\ notes' = notes \cup {n}
      BY <2>1
    <3> HIDE DEF n
    <3>2. QED
      BY <3>1, ReceiptedGrows
  <2>3. RowInv'
    BY <2>1, <2>2
  <2>4. NoReceiptLost'
    BY <2>1, <2>2
  <2>5. UniqueRows' /\ StaleInv'
    BY <2>1
  <2>6. QED
    BY <2>3, <2>4, <2>5
<1>15. CASE SaveFails(q)
  BY <1>0, <1>15 DEF SaveFails, DbError
<1>16. CASE Return(q)
  BY <1>0, <1>16 DEF Return, DeleteUnconfirmedNote, DbError, MayDeleteUnconfirmed
<1>17. QED
  BY <1>0, <1>1, <1>2, <1>3, <1>4, <1>5, <1>6, <1>7, <1>8, <1>9, <1>10,
     <1>11, <1>12, <1>13, <1>14, <1>15, <1>16 DEF HandlerStep

LEMMA ReceiptOthers ==
  ASSUME Assumptions, ReceiptInv, FaithInv',
         \/ \E q \in Requests : RowAges(q)
         \/ \E t \in Txns : Network(t) \/ Subscriber(t)
         \/ ExpireSession \/ StartPass \/ StartPassFails \/ CleanUp
         \/ FinishPass \/ Crash \/ Restart
  PROVE  ReceiptInv'
<1> USE RequestsAssumption, NoRowAssumption
<1> USE DEF Assumptions, ReceiptInv, FaithInv, TypeOK, ChainInv, WriterInv,
            NotesFaithful, UniqueRows, RowInv, StaleInv, NoReceiptLost,
            Submitted, Pending, ErrorTypes,
            dbVars, chainVars, handlerVars, cleanupVars, serverVars
<1>0. notes' = notes => Receipted' = Receipted
  BY DEF Receipted
<1>a. \A n \in notes : n.txn \in Receipted /\ chain[n.txn] = "onchain"
  BY DEF Receipted
<1>b. \A t \in Receipted : chain[t] = "onchain"
  BY DEF Receipted
<1>1. ASSUME NEW q \in Requests, RowAges(q) PROVE ReceiptInv'
  BY <1>0, <1>1 DEF RowAges
<1>2. ASSUME NEW t \in Txns, Network(t) PROVE ReceiptInv'
  BY <1>0, <1>2 DEF Network, ConfirmTxn, ExpireTxn
<1>3. ASSUME NEW t \in Txns, Subscriber(t) PROVE ReceiptInv'
  BY <1>0, <1>3 DEF Subscriber, SubscriberSaves
<1>4. CASE ExpireSession
  BY <1>0, <1>4 DEF ExpireSession, SessionExpires
<1>5. CASE StartPass
  BY <1>0, <1>5 DEF StartPass, BeginPass
<1>6. CASE StartPassFails
  BY <1>0, <1>6 DEF StartPassFails, DbError
<1>7. CASE CleanUp
  <2>1. ASSUME NEW q \in rows, LookUp(q) PROVE ReceiptInv'
    <3>1. /\ UNCHANGED <<dbVars, chainVars, handlerVars, serverVars, rows>>
          /\ row' = q /\ (found' <=> TxnOf[q] \in txnsDb)
      BY <1>7, <2>1 DEF CleanUp, LookUp
    <3>2. StaleInv'
      BY <3>1
    <3>3. UniqueRows' /\ RowInv' /\ NoReceiptLost'
      BY <1>0, <3>1
    <3>4. QED
      BY <3>2, <3>3
  <2>2. CASE DeleteStale
    <3>1. row \in stale /\ row \in Requests /\ chain[TxnOf[row]] = "dead"
      BY <2>2 DEF DeleteStale
    <3>2. /\ unconfirmed' = unconfirmed \ {row} /\ stale' = stale \ {row}
          /\ UNCHANGED <<notes, chainVars, handlerVars, serverVars>>
          /\ pass' = "rows" /\ rows' = rows \ {row} /\ row' = NoRow /\ found' = FALSE
      BY <1>7, <2>2 DEF CleanUp, DeleteStale, DeleteUnconfirmedNote, NextRow
    <3>3. QED
      BY <1>0, <3>1, <3>2
  <2>3. CASE Keep
    BY <1>0, <1>7, <2>3 DEF CleanUp, Keep, NextRow
  <2>4. CASE Move
    <3>1. row \in Requests /\ chain[TxnOf[row]] = "onchain"
      BY <2>4 DEF Move
    <3>2. Receipted' = Receipted \cup {TxnOf[row]}
      <4> DEFINE n == [leaf |-> leafOf[TxnOf[row]], txn |-> TxnOf[row]]
      <4>1. n.txn = TxnOf[row] /\ notes' = notes \cup {n}
        BY <2>4 DEF Move, MoveNote
      <4> HIDE DEF n
      <4>2. QED
        BY <4>1, ReceiptedGrows
    <3>3. /\ unconfirmed' = unconfirmed \ {row} /\ stale' = stale \ {row}
          /\ UNCHANGED <<dbErrors, chainVars, handlerVars, serverVars>>
          /\ pass' = "rows" /\ rows' = rows \ {row} /\ row' = NoRow /\ found' = FALSE
      BY <1>7, <2>4 DEF CleanUp, Move, MoveNote, NextRow
    <3>4. QED
      BY <3>1, <3>2, <3>3
  <2>5. CASE MoveRollsBack
    BY <1>0, <1>7, <2>5 DEF CleanUp, MoveRollsBack, NextRow
  <2>6. CASE SkipRow
    BY <1>0, <1>7, <2>6 DEF CleanUp, SkipRow, NextRow, DbError
  <2>7. QED
    BY <1>7, <2>1, <2>2, <2>3, <2>4, <2>5, <2>6 DEF CleanUp, CleanupStep
<1>8. CASE FinishPass
  BY <1>0, <1>8 DEF FinishPass, EndPass
<1>9. CASE Crash
  BY <1>0, <1>9 DEF Crash, HandlersCrash, CleanupCrash
<1>10. CASE Restart
  BY <1>0, <1>10 DEF Restart
<1>11. QED
  BY <1>1, <1>2, <1>3, <1>4, <1>5, <1>6, <1>7, <1>8, <1>9, <1>10

LEMMA ReceiptStep ==
  ASSUME Assumptions
  PROVE  ReceiptInv /\ [Next]_vars => ReceiptInv'
<1> SUFFICES ASSUME ReceiptInv, [Next]_vars PROVE ReceiptInv'
  OBVIOUS
<1>0. FaithInv'
  BY FaithStep DEF ReceiptInv
<1>1. CASE UNCHANGED vars
  BY <1>0, <1>1 DEF ReceiptInv, UniqueRows, RowInv, StaleInv, NoReceiptLost,
     Submitted, Pending, Receipted, vars, dbVars, chainVars, handlerVars,
     cleanupVars, serverVars
<1>2. CASE Next
  BY <1>0, <1>2, ReceiptHandle, ReceiptOthers DEF Next
<1>3. QED
  BY <1>1, <1>2

\* confirm_deposit.go:132, maintenance.go:38: whoever is about to delete a row,
\* handler or cleanup, has its receipt or knows that its group never reached the
\* network, and no group has two rows.
THEOREM ReceiptInvariant ==
  ASSUME Assumptions
  PROVE  Spec => []ReceiptInv
<1>1. ReceiptInv /\ [Next]_vars => ReceiptInv'
  BY ReceiptStep
<1>2. QED
  BY <1>1, ReceiptInit, PTL DEF Spec

\* No receipt is lost: while a group is in a pool or in a block, its note has a
\* receipt or a row in unconfirmed_notes, through every crash and restart.
THEOREM ReceiptsAreNotLost ==
  ASSUME Assumptions
  PROVE  Spec => []NoReceiptLost
<1>1. ReceiptInv => NoReceiptLost
  BY DEF ReceiptInv
<1>2. QED
  BY <1>1, ReceiptInvariant, PTL

-----------------------------------------------------------------------------
(* The refinement. *)

LEMMA LedgerInit == Init => Ledger!Init
  BY DEF Init, DbInit, ChainInit, Ledger!Init, Pending, Receipted

\* What the deletion of a row is to the ledger.
LEMMA RowDeleted ==
  ASSUME UniqueRows, NEW q \in unconfirmed, unconfirmed' = unconfirmed \ {q},
         unconfirmed \subseteq Requests
  PROVE  Pending' = Pending \ {TxnOf[q]} /\ TxnOf[q] \in Pending
  BY DEF Pending, UniqueRows

LEMMA LedgerHandle ==
  ASSUME Assumptions, ReceiptInv, NEW q \in Requests, Handle(q)
  PROVE  [Ledger!Next]_(Ledger!vars)
<1> DEFINE t == TxnOf[q]
<1>0. /\ HandlerStep(q) /\ t \in Txns /\ ReceiptInv /\ TypeOK
      /\ UniqueRows /\ NoReceiptLost
  BY RequestsAssumption DEF Handle, ReceiptInv, FaithInv
<1>1. SUFFICES ASSUME ~UNCHANGED <<chain, unconfirmed, notes>>
               PROVE  [Ledger!Next]_(Ledger!vars)
  BY DEF Ledger!vars, Pending, Receipted
<1>2. CASE Register(q)
  <2>1. t \notin Pending /\ unconfirmed' = unconfirmed \cup {q}
        /\ UNCHANGED <<chain, notes>>
    BY <1>2 DEF Register, RegisterUnconfirmedNote, RegisterAllowed, chainVars
  <2>2. Ledger!Open(t)
    BY <2>1 DEF Ledger!Open, Pending, Receipted
  <2>3. QED
    BY <1>0, <2>2 DEF Ledger!Next
<1>3. CASE SendAccepted(q)
  <2>1. pc[q] = "send" /\ chain[t] = "unsent" /\ UNCHANGED <<unconfirmed, notes>>
        /\ chain' = [chain EXCEPT ![t] = "pool"]
    BY <1>3 DEF SendAccepted, Goto, Submit, dbVars
  <2>2. q \in unconfirmed
    BY <1>0, <2>1 DEF ReceiptInv, RowInv
  <2>3. Ledger!Send(t)
    BY <2>1, <2>2 DEF Ledger!Send, Pending, Receipted
  <2>4. QED
    BY <1>0, <2>3 DEF Ledger!Next
<1>4. CASE Save(q)
  <2> DEFINE n == [leaf |-> leafOf[t], txn |-> t]
  <2>1. /\ pc[q] = "save" /\ t \notin Receipted /\ n.txn = t
        /\ notes' = notes \cup {n} /\ UNCHANGED <<chain, unconfirmed>>
    BY <1>4 DEF Save, Goto, SaveNote, SaveAllowed, InsertAllowed, Receipted, chainVars
  <2>2. chain[t] = "onchain"
    BY <1>0, <2>1 DEF ReceiptInv, FaithInv, WriterInv
  <2>3. t \in Pending
    BY <1>0, <2>1, <2>2 DEF NoReceiptLost, Submitted
  <2> HIDE DEF n
  <2>4. Receipted' = Receipted \cup {t} /\ Pending' = Pending
    BY <2>1, ReceiptedGrows DEF Pending
  <2>5. Ledger!Receipt(t)
    BY <2>1, <2>2, <2>3, <2>4 DEF Ledger!Receipt
  <2>6. QED
    BY <1>0, <2>5 DEF Ledger!Next
<1>5. CASE Return(q)
  <2>1. /\ pc[q] = "return" /\ MayDeleteUnconfirmed(q) /\ q \in unconfirmed
        /\ unconfirmed' = unconfirmed \ {q} /\ UNCHANGED <<chain, notes>>
    BY <1>1, <1>5 DEF Return, Goto, DeleteUnconfirmedNote, DbError, dbVars, chainVars
  <2>2. t \in Receipted \/ chain[t] \in {"unsent", "dead"}
    BY <1>0, <2>1 DEF MayDeleteUnconfirmed, ReceiptInv, RowInv, Submitted, TypeOK
  <2>3. Pending' = Pending \ {t} /\ t \in Pending /\ Receipted' = Receipted
    BY <1>0, <2>1, RowDeleted DEF TypeOK, Receipted
  <2>4. Ledger!Close(t)
    BY <2>1, <2>2, <2>3 DEF Ledger!Close
  <2>5. QED
    BY <1>0, <2>4 DEF Ledger!Next
<1>6. QED
  BY <1>0, <1>1, <1>2, <1>3, <1>4, <1>5
     DEF Assumptions, HandlerStep, RefuseRequest, Refuse, RetrieveDeposit,
         DeleteDeposit, CreateWithdrawalTxns, RegisterFails, DbError, SignFails,
         SendRefused, SendResponseLost, WaitConfirmed, WaitTimesOut, WaitFails,
         SaveFails, dbVars, chainVars

LEMMA LedgerCleanUp ==
  ASSUME ReceiptInv, CleanUp
  PROVE  [Ledger!Next]_(Ledger!vars)
<1>0. TypeOK /\ ChainInv /\ WriterInv /\ UniqueRows /\ NoReceiptLost
  BY DEF ReceiptInv, FaithInv
<1>1. SUFFICES ASSUME ~UNCHANGED <<chain, unconfirmed, notes>>
               PROVE  [Ledger!Next]_(Ledger!vars)
  BY DEF Ledger!vars, Pending, Receipted
<1>2. CASE DeleteStale
  <2>1. /\ row \in stale /\ row \in Requests /\ chain[TxnOf[row]] = "dead"
        /\ row \in unconfirmed
        /\ unconfirmed' = unconfirmed \ {row} /\ UNCHANGED <<chain, notes>>
    BY <1>0, <1>2 DEF DeleteStale, DeleteUnconfirmedNote, NextRow, chainVars,
                      WriterInv, TypeOK, ReceiptInv, StaleInv
  <2>2. Pending' = Pending \ {TxnOf[row]} /\ TxnOf[row] \in Pending
    BY <1>0, <2>1, RowDeleted DEF TypeOK
  <2>3. Ledger!Close(TxnOf[row])
    BY <2>1, <2>2 DEF Ledger!Close, Receipted
  <2>4. QED
    BY <2>1, <2>3, RequestsAssumption DEF Ledger!Next
<1>3. CASE Move
  <2> DEFINE t == TxnOf[row]
  <2> DEFINE n == [leaf |-> leafOf[t], txn |-> t]
  <2>1. row \in Requests /\ t \in Txns /\ chain[t] = "onchain"
    BY <1>0, <1>3, RequestsAssumption DEF Move, WriterInv, ChainInv, TypeOK
  <2>2. /\ t \notin Receipted /\ n.txn = t /\ notes' = notes \cup {n}
        /\ unconfirmed' = unconfirmed \ {row} /\ UNCHANGED chain
    BY <1>3 DEF Move, MoveNote, InsertAllowed, Receipted, NextRow, chainVars
  <2>3. t \in Pending
    BY <1>0, <2>1, <2>2 DEF NoReceiptLost, Submitted
  <2> HIDE DEF n
  <2>4. Receipted' = Receipted \cup {t}
    BY <2>2, ReceiptedGrows
  <2>5. Pending' = Pending \/ Pending' = Pending \ {t}
    <3>1. CASE row \in unconfirmed
      BY <1>0, <2>2, <3>1, RowDeleted DEF TypeOK
    <3>2. CASE row \notin unconfirmed
      BY <2>2, <3>2 DEF Pending
    <3>3. QED
      BY <3>1, <3>2
  <2>6. Ledger!Receipt(t)
    BY <2>1, <2>2, <2>3, <2>4, <2>5 DEF Ledger!Receipt
  <2>7. QED
    BY <2>1, <2>6 DEF Ledger!Next
<1>4. QED
  BY <1>1, <1>2, <1>3 DEF CleanUp, CleanupStep, LookUp, Keep, MoveRollsBack,
     SkipRow, DbError, NextRow, dbVars, chainVars

LEMMA LedgerNetwork ==
  ASSUME NEW t \in Txns, Network(t)
  PROVE  [Ledger!Next]_(Ledger!vars)
<1>1. Ledger!Settle(t)
  BY DEF Network, ConfirmTxn, ExpireTxn, Ledger!Settle, Pending, Receipted, dbVars
<1>2. QED
  BY <1>1 DEF Ledger!Next

LEMMA LedgerStep ==
  ASSUME Assumptions
  PROVE  ReceiptInv /\ [Next]_vars => [Ledger!Next]_(Ledger!vars)
<1> SUFFICES ASSUME ReceiptInv, [Next]_vars PROVE [Ledger!Next]_(Ledger!vars)
  OBVIOUS
<1>1. CASE UNCHANGED <<chain, unconfirmed, notes>>
  BY <1>1 DEF Ledger!vars, Pending, Receipted
<1>2. ASSUME NEW q \in Requests, Handle(q)
      PROVE  [Ledger!Next]_(Ledger!vars)
  BY <1>2, LedgerHandle
<1>3. ASSUME NEW t \in Txns, Network(t)
      PROVE  [Ledger!Next]_(Ledger!vars)
  BY <1>3, LedgerNetwork
<1>4. CASE CleanUp
  BY <1>4, LedgerCleanUp
<1>5. QED
  BY <1>1, <1>2, <1>3, <1>4
     DEF Next, RowAges, Subscriber, SubscriberSaves, ExpireSession,
         SessionExpires, StartPass, BeginPass, StartPassFails, DbError,
         FinishPass, EndPass, Crash, Restart, vars, dbVars, chainVars

\* The frontend implements the promise on receipts.
THEOREM FrontendImplementsLedger ==
  ASSUME Assumptions
  PROVE  Spec => ImplementsLedger
<1>1. ReceiptInv /\ [Next]_vars => [Ledger!Next]_(Ledger!vars)
  BY LedgerStep
<1>2. QED
  BY <1>1, LedgerInit, ReceiptInvariant, PTL DEF Spec, ImplementsLedger, Ledger!Spec

\* What the promise on receipts is for: whatever keeps it loses no receipt, be
\* it these handlers and this cleanup or others.
THEOREM LedgerLosesNothing == Ledger!Spec => []Ledger!NoReceiptLost
<1>1. Ledger!Init => Ledger!TypeOK /\ Ledger!NoReceiptLost
  BY DEF Ledger!Init, Ledger!TypeOK, Ledger!NoReceiptLost
<1>2. Ledger!TypeOK /\ [Ledger!Next]_(Ledger!vars) => Ledger!TypeOK'
  BY DEF Ledger!TypeOK, Ledger!Next, Ledger!vars, Ledger!Open, Ledger!Send,
         Ledger!Settle, Ledger!Receipt, Ledger!Close
<1>3. Ledger!TypeOK /\ Ledger!NoReceiptLost /\ [Ledger!Next]_(Ledger!vars)
        => Ledger!NoReceiptLost'
  <2> SUFFICES ASSUME Ledger!TypeOK, Ledger!NoReceiptLost, [Ledger!Next]_(Ledger!vars),
                      NEW t \in Txns, chain'[t] \in {"pool", "onchain"}
               PROVE  t \in Pending' \cup Receipted'
    BY DEF Ledger!NoReceiptLost
  <2>1. DOMAIN chain = Txns /\ chain = [u \in Txns |-> chain[u]]
    BY DEF Ledger!TypeOK
  <2>2. chain[t] \in {"pool", "onchain"} => t \in Pending \cup Receipted
    BY DEF Ledger!NoReceiptLost
  <2>3. CASE UNCHANGED Ledger!vars
    BY <2>2, <2>3 DEF Ledger!vars
  <2>4. ASSUME NEW u \in Txns, Ledger!Open(u) PROVE t \in Pending' \cup Receipted'
    BY <2>2, <2>4 DEF Ledger!Open
  <2>5. ASSUME NEW u \in Txns, Ledger!Send(u) PROVE t \in Pending' \cup Receipted'
    BY <2>1, <2>2, <2>5 DEF Ledger!Send
  <2>6. ASSUME NEW u \in Txns, Ledger!Settle(u) PROVE t \in Pending' \cup Receipted'
    BY <2>1, <2>2, <2>6 DEF Ledger!Settle
  <2>7. ASSUME NEW u \in Txns, Ledger!Receipt(u) PROVE t \in Pending' \cup Receipted'
    BY <2>2, <2>7 DEF Ledger!Receipt
  <2>8. ASSUME NEW u \in Txns, Ledger!Close(u) PROVE t \in Pending' \cup Receipted'
    BY <2>2, <2>8 DEF Ledger!Close
  <2> QED
    BY <2>3, <2>4, <2>5, <2>6, <2>7, <2>8 DEF Ledger!Next
<1> QED
  BY <1>1, <1>2, <1>3, PTL DEF Ledger!Spec

=============================================================================
