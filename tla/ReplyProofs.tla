----------------------------- MODULE ReplyProofs -----------------------------
(***************************************************************************)
(* Proofs about what a browser is told: success only with the receipt in   *)
(* the database, whatever the node does; "not confirmed yet" only with a   *)
(* row the cleanup still has, as long as the subscriber is less than 7     *)
(* days behind; and failure only of a group that is in no node's hands, as *)
(* long as the node's errors are definite.                                 *)
(***************************************************************************)
EXTENDS FrontendProofs

\* A handler about to answer with success has written the receipt.
SuccessInv ==
  /\ SuccessHasReceipt
  /\ \A q \in Requests :
       pc[q] = "return" /\ confirmationError[q] = "nil" /\ ~saveNoteToDbError[q]
         => TxnOf[q] \in Receipted

\* A group that was sent, and was not confirmed in time, has a row of its own
\* request until it has a receipt.
WaitInv ==
  \A q \in Requests :
    /\ pc[q] = "send" /\ chain[TxnOf[q]] = "unsent" => q \in unconfirmed
    /\ pc[q] = "wait" \/ confirmationError[q] = "WaitTimeout" =>
         /\ chain[TxnOf[q]] # "unsent"
         /\ Submitted(TxnOf[q]) => q \in unconfirmed \/ TxnOf[q] \in Receipted
    /\ pc[q] \notin {"return", "done"} => confirmationError[q] = "nil"

-----------------------------------------------------------------------------
(* Success. *)

\* More notes, more receipts.
LEMMA ReceiptsGrow ==
  ASSUME notes \subseteq notes' PROVE Receipted \subseteq Receipted'
<1>1. ASSUME NEW t \in Receipted PROVE t \in Receipted'
  <2>1. PICK n \in notes : t = n.txn
    BY <1>1 DEF Receipted
  <2>2. n \in notes'
    OBVIOUS
  <2> QED
    BY <2>1, <2>2 DEF Receipted
<1> QED
  BY <1>1

\* A receipt is never deleted.
LEMMA ReceiptsStay ==
  ASSUME [Next]_vars PROVE Receipted \subseteq Receipted'
<1>1. notes \subseteq notes' => Receipted \subseteq Receipted'
  BY ReceiptsGrow
<1>2. CASE UNCHANGED vars
  <2>1. notes' = notes
    BY <1>2 DEF vars, dbVars
  <2> QED
    BY <1>1, <2>1
<1>3. ASSUME NEW q \in Requests, Handle(q) PROVE notes \subseteq notes'
  BY <1>3
  DEF Handle, HandlerStep, RefuseRequest, RetrieveDeposit, DeleteDeposit,
      CreateWithdrawalTxns, Register, RegisterUnconfirmedNote, RegisterFails,
      SignFails, SendAccepted, SendRefused, SendResponseLost, WaitConfirmed,
      WaitTimesOut, WaitFails, Save, SaveNote, SaveFails, Return,
      DeleteUnconfirmedNote, DbError, dbVars
<1>4. CASE CleanUp
  <2>1. CASE Move
    BY <1>1, <2>1 DEF Move, MoveNote
  <2>2. CASE ~Move
    <3>1. notes' = notes
      BY <1>4, <2>2
      DEF CleanUp, CleanupStep, LookUp, DeleteStale, DeleteUnconfirmedNote, Keep,
          MoveRollsBack, SkipRow, DbError, dbVars
    <3> QED
      BY <1>1, <3>1
  <2> QED
    BY <2>1, <2>2
<1>5. CASE Next /\ ~CleanUp /\ ~(\E q \in Requests : Handle(q))
  <2>1. notes' = notes
    BY <1>5
    DEF Next, RowAges, Network, Subscriber, ExpireSession, SessionExpires, StartPass,
        BeginPass, StartPassFails, DbError, FinishPass, EndPass, Crash, Restart, dbVars
  <2> QED
    BY <1>1, <2>1
<1> QED
  BY <1>1, <1>2, <1>3, <1>4, <1>5 DEF Next

\* Only its own handler, or a crash, changes where a request stands.
LEMMA OtherRequests ==
  ASSUME TypeOK, [Next]_vars, NEW q \in Requests, ~Handle(q)
  PROVE  \/ /\ pc'[q] = pc[q] /\ reply'[q] = reply[q]
            /\ confirmationError'[q] = confirmationError[q]
            /\ saveNoteToDbError'[q] = saveNoteToDbError[q]
         \/ /\ Crash /\ pc'[q] \in {"start", "done"}
            /\ (pc'[q] = "start" => pc[q] = "start")
            /\ reply'[q] \in {reply[q], "dropped"}
            /\ confirmationError'[q] = confirmationError[q]
            /\ saveNoteToDbError'[q] = saveNoteToDbError[q]
<1>1. ASSUME NEW r \in Requests, Handle(r)
      PROVE  /\ pc'[q] = pc[q] /\ reply'[q] = reply[q]
             /\ confirmationError'[q] = confirmationError[q]
             /\ saveNoteToDbError'[q] = saveNoteToDbError[q]
  <2>1. r # q
    BY <1>1
  <2> QED
    BY <1>1, <2>1
    DEF TypeOK, Handle, HandlerStep, Goto, Refuse, Fail, RefuseRequest,
        RetrieveDeposit, DeleteDeposit, CreateWithdrawalTxns, Register,
        RegisterFails, SignFails, SendAccepted, SendRefused, SendResponseLost,
        WaitConfirmed, WaitTimesOut, WaitFails, Save, SaveFails, Return
<1>2. CASE Crash
  BY <1>2 DEF Crash, HandlersCrash, TypeOK
<1>3. CASE Next /\ ~Crash /\ ~(\E r \in Requests : Handle(r))
  BY <1>3
  DEF Next, CleanUp, RowAges, Network, Subscriber, ExpireSession, SessionExpires,
      StartPass, StartPassFails, FinishPass, Restart, handlerVars
<1>4. CASE UNCHANGED vars
  BY <1>4 DEF vars, handlerVars
<1> QED
  BY <1>1, <1>2, <1>3, <1>4 DEF Next

LEMMA SuccessStep ==
  ASSUME TypeOK, SuccessInv, [Next]_vars PROVE SuccessInv'
<1> SUFFICES ASSUME NEW q \in Requests
             PROVE  /\ reply'[q] = "success" => TxnOf[q] \in Receipted'
                    /\ pc'[q] = "return" /\ confirmationError'[q] = "nil"
                         /\ ~saveNoteToDbError'[q] => TxnOf[q] \in Receipted'
  BY DEF SuccessInv, SuccessHasReceipt
<1>1. TxnOf[q] \in Receipted => TxnOf[q] \in Receipted'
  BY ReceiptsStay
<1>2. CASE ~Handle(q)
  BY <1>1, <1>2, OtherRequests DEF SuccessInv, SuccessHasReceipt
<1>3. CASE Handle(q)
  <2>1. CASE Return(q)
    BY <1>1, <2>1
    DEF Return, Goto, ClosurePanics, TypeOK, SuccessInv, SuccessHasReceipt
  <2>2. CASE Save(q)
    <3> DEFINE n == [leaf |-> leafOf[TxnOf[q]], txn |-> TxnOf[q]]
    <3>1. n.txn = TxnOf[q] /\ n \in notes'
      BY <2>2 DEF Save, SaveNote
    <3> HIDE DEF n
    <3> QED
      BY <3>1 DEF Receipted
  <2>3. CASE SaveFails(q)
    BY <1>1, <2>3 DEF SaveFails, Goto, TypeOK, SuccessInv, SuccessHasReceipt
  <2>4. ASSUME NEW from, NEW error \in ErrorTypes \ {"nil"}, Fail(q, from, error)
        PROVE  reply'[q] = reply[q] /\ confirmationError'[q] # "nil"
    BY <2>4 DEF Fail, TypeOK
  <2>5. CASE SignFails(q) \/ SendRefused(q) \/ SendResponseLost(q) \/ WaitTimesOut(q)
               \/ WaitFails(q)
    BY <1>1, <2>4, <2>5
    DEF SignFails, SendRefused, SendResponseLost, WaitTimesOut, WaitFails,
        RefusalErrors, ErrorTypes, SuccessInv, SuccessHasReceipt
  <2>6. CASE \/ RefuseRequest(q) \/ RetrieveDeposit(q) \/ DeleteDeposit(q)
             \/ CreateWithdrawalTxns(q) \/ Register(q) \/ RegisterFails(q)
             \/ SendAccepted(q) \/ WaitConfirmed(q)
    <3>1. pc'[q] # "return" /\ reply'[q] \in {reply[q], "error"}
      BY <2>6
      DEF TypeOK, RefuseRequest, RetrieveDeposit, DeleteDeposit, Refuse, Goto,
          CreateWithdrawalTxns, Register, RegisterFails, SendAccepted, WaitConfirmed
    <3> QED
      BY <1>1, <3>1 DEF SuccessInv, SuccessHasReceipt
  <2> QED
    BY <1>3, <2>1, <2>2, <2>3, <2>5, <2>6 DEF Handle, HandlerStep
<1> QED
  BY <1>2, <1>3

\* confirm_deposit.go:221-236: a browser is told of success only when the receipt
\* is in the database, whatever the node answers.
THEOREM SuccessIsReceipted == Spec => []SuccessHasReceipt
<1>1. Init => SuccessInv
  BY DEF Init, HandlerInit, SuccessInv, SuccessHasReceipt
<1>2. TypeOK /\ SuccessInv /\ [Next]_vars => SuccessInv'
  BY SuccessStep
<1>3. SuccessInv => SuccessHasReceipt
  BY DEF SuccessInv
<1> QED
  BY <1>1, <1>2, <1>3, TypeCorrect, PTL DEF Spec

-----------------------------------------------------------------------------
(* The note of a wait that timed out. *)

\* The rows of the cleanup and of the waits, whatever the node answers.
KeepInv == FaithInv /\ StaleInv /\ WaitInv

LEMMA KeepInit == Init => KeepInv
<1>1. Init => StaleInv /\ WaitInv
  BY DEF Init, DbInit, ChainInit, HandlerInit, CleanupInit, StaleInv, WaitInv
<1> QED
  BY <1>1, FaithInit DEF KeepInv

\* Every step of a handler preserves it.
LEMMA KeepHandle ==
  ASSUME SubscriberKeepsUp, KeepInv, FaithInv', NEW q \in Requests, Handle(q)
  PROVE  KeepInv'
<1> USE RequestsAssumption
<1> USE DEF KeepInv, FaithInv, TypeOK, ChainInv, WriterInv, StaleInv, WaitInv,
            Submitted, Goto, ErrorTypes, dbVars, chainVars, handlerVars,
            cleanupVars, serverVars
<1>0. HandlerStep(q) /\ UNCHANGED <<cleanupVars, serverVars>>
  BY DEF Handle
<1>a. notes' = notes => Receipted' = Receipted
  BY DEF Receipted
<1>1. CASE RefuseRequest(q)
  BY <1>0, <1>a, <1>1 DEF RefuseRequest, Refuse
<1>2. CASE RetrieveDeposit(q)
  BY <1>0, <1>a, <1>2 DEF RetrieveDeposit
<1>3. CASE DeleteDeposit(q)
  BY <1>0, <1>a, <1>3 DEF DeleteDeposit, Refuse
<1>4. CASE CreateWithdrawalTxns(q)
  BY <1>0, <1>a, <1>4 DEF CreateWithdrawalTxns
<1>5. CASE Register(q)
  BY <1>0, <1>a, <1>5 DEF Register, RegisterUnconfirmedNote
<1>6. CASE RegisterFails(q)
  BY <1>0, <1>a, <1>6 DEF RegisterFails, Refuse, DbError
<1>7. CASE SignFails(q)
  BY <1>0, <1>a, <1>7 DEF SignFails, Fail
<1>8. CASE SendAccepted(q)
  BY <1>0, <1>a, <1>8 DEF SendAccepted, Submit
<1>9. CASE SendRefused(q)
  BY <1>0, <1>a, <1>9 DEF SendRefused, RefusalErrors, Fail
<1>10. CASE SendResponseLost(q)
  BY <1>0, <1>a, <1>10 DEF SendResponseLost, Submit, Fail
<1>11. CASE WaitConfirmed(q)
  BY <1>0, <1>a, <1>11 DEF WaitConfirmed
<1>12. CASE WaitTimesOut(q)
  BY <1>0, <1>a, <1>12 DEF WaitTimesOut, Fail
<1>13. CASE WaitFails(q)
  BY <1>0, <1>a, <1>13 DEF WaitFails, Fail
<1>14. CASE Save(q)
  <2>1. /\ pc' = [pc EXCEPT ![q] = "return"]
        /\ UNCHANGED <<unconfirmed, stale, confirmationError, chainVars, cleanupVars>>
    BY <1>0, <1>14 DEF Save, SaveNote
  <2>2. notes \subseteq notes'
    BY <1>14 DEF Save, SaveNote
  <2>3. Receipted \subseteq Receipted'
    BY <2>2, ReceiptsGrow
  <2> QED
    BY <2>1, <2>3
<1>15. CASE SaveFails(q)
  BY <1>0, <1>a, <1>15 DEF SaveFails, DbError
<1>16. CASE Return(q)
  BY <1>0, <1>a, <1>16 DEF Return, DeleteUnconfirmedNote, DbError, MayDeleteUnconfirmed
<1> QED
  BY <1>0, <1>1, <1>2, <1>3, <1>4, <1>5, <1>6, <1>7, <1>8, <1>9, <1>10,
     <1>11, <1>12, <1>13, <1>14, <1>15, <1>16 DEF HandlerStep

\* Every step of the cleanup, of the process and of the environment too.
LEMMA KeepOthers ==
  ASSUME SubscriberKeepsUp, KeepInv, FaithInv',
         \/ \E q \in Requests : RowAges(q)
         \/ \E t \in Txns : Network(t) \/ Subscriber(t)
         \/ ExpireSession \/ StartPass \/ StartPassFails \/ CleanUp
         \/ FinishPass \/ Crash \/ Restart
  PROVE  KeepInv'
<1> USE RequestsAssumption, NoRowAssumption
<1> USE DEF KeepInv, FaithInv, TypeOK, ChainInv, WriterInv, StaleInv, WaitInv,
            Submitted, ErrorTypes, dbVars, chainVars, handlerVars, cleanupVars,
            serverVars
<1>a. notes' = notes => Receipted' = Receipted
  BY DEF Receipted
<1>1. ASSUME NEW q \in Requests, RowAges(q) PROVE KeepInv'
  BY <1>a, <1>1 DEF RowAges
<1>2. ASSUME NEW t \in Txns, Network(t) PROVE KeepInv'
  BY <1>a, <1>2 DEF Network, ConfirmTxn, ExpireTxn
<1>3. ASSUME NEW t \in Txns, Subscriber(t) PROVE KeepInv'
  BY <1>a, <1>3 DEF Subscriber, SubscriberSaves
<1>4. CASE ExpireSession
  BY <1>a, <1>4 DEF ExpireSession, SessionExpires
<1>5. CASE StartPass
  BY <1>a, <1>5 DEF StartPass, BeginPass
<1>6. CASE StartPassFails
  BY <1>a, <1>6 DEF StartPassFails, DbError
<1>7. CASE CleanUp
  <2>1. ASSUME NEW q \in rows, LookUp(q) PROVE KeepInv'
    <3>1. /\ UNCHANGED <<dbVars, chainVars, handlerVars>>
          /\ row' = q /\ (found' <=> TxnOf[q] \in txnsDb)
      BY <1>7, <2>1 DEF CleanUp, LookUp
    <3> QED
      BY <1>a, <3>1
  <2>2. CASE DeleteStale
    <3>1. row \in stale /\ row \in Requests /\ chain[TxnOf[row]] = "dead"
      BY <2>2 DEF DeleteStale
    <3>2. /\ unconfirmed' = unconfirmed \ {row} /\ stale' = stale \ {row}
          /\ UNCHANGED <<notes, chainVars, handlerVars>> /\ pass' = "rows"
      BY <1>7, <2>2 DEF CleanUp, DeleteStale, DeleteUnconfirmedNote, NextRow
    <3> QED
      BY <1>a, <3>1, <3>2
  <2>3. CASE Keep
    BY <1>a, <1>7, <2>3 DEF CleanUp, Keep, NextRow
  <2>4. CASE Move
    <3>1. row \in Requests /\ chain[TxnOf[row]] = "onchain"
      BY <2>4 DEF Move
    <3> DEFINE n == [leaf |-> leafOf[TxnOf[row]], txn |-> TxnOf[row]]
    <3>2. n.txn = TxnOf[row] /\ n \in notes' /\ notes \subseteq notes'
      BY <2>4 DEF Move, MoveNote
    <3> HIDE DEF n
    <3>3. TxnOf[row] \in Receipted' /\ Receipted \subseteq Receipted'
      BY <3>2, ReceiptsGrow DEF Receipted
    <3>4. /\ unconfirmed' = unconfirmed \ {row} /\ stale' = stale \ {row}
          /\ UNCHANGED <<chainVars, handlerVars>> /\ pass' = "rows"
      BY <1>7, <2>4 DEF CleanUp, Move, MoveNote, NextRow
    <3> QED
      BY <3>1, <3>3, <3>4
  <2>5. CASE MoveRollsBack
    BY <1>a, <1>7, <2>5 DEF CleanUp, MoveRollsBack, NextRow
  <2>6. CASE SkipRow
    BY <1>a, <1>7, <2>6 DEF CleanUp, SkipRow, NextRow, DbError
  <2> QED
    BY <1>7, <2>1, <2>2, <2>3, <2>4, <2>5, <2>6 DEF CleanUp, CleanupStep
<1>8. CASE FinishPass
  BY <1>a, <1>8 DEF FinishPass, EndPass
<1>9. CASE Crash
  BY <1>a, <1>9 DEF Crash, HandlersCrash, CleanupCrash
<1>10. CASE Restart
  BY <1>a, <1>10 DEF Restart
<1> QED
  BY <1>1, <1>2, <1>3, <1>4, <1>5, <1>6, <1>7, <1>8, <1>9, <1>10

LEMMA KeepStep ==
  ASSUME SubscriberKeepsUp PROVE KeepInv /\ [Next]_vars => KeepInv'
<1> SUFFICES ASSUME KeepInv, [Next]_vars PROVE KeepInv'
  OBVIOUS
<1>0. FaithInv'
  BY FaithStep DEF KeepInv
<1>1. CASE UNCHANGED vars
  BY <1>0, <1>1
  DEF KeepInv, StaleInv, WaitInv, Submitted, Receipted, vars, dbVars, chainVars,
      handlerVars, cleanupVars
<1>2. CASE Next
  BY <1>0, <1>2, KeepHandle, KeepOthers DEF Next
<1> QED
  BY <1>1, <1>2

\* maintenance.go:38, confirm_deposit.go:185: a note whose wait timed out keeps
\* its row until it has its receipt, whatever the node answers to anybody, as
\* long as the subscriber is less than 7 days behind.
THEOREM TimeoutsKeepNotes ==
  ASSUME SubscriberKeepsUp PROVE Spec => []TimeoutKeepsNote
<1>1. KeepInv /\ [Next]_vars => KeepInv'
  BY KeepStep
<1>2. KeepInv => TimeoutKeepsNote
  BY DEF KeepInv, WaitInv, TimeoutKeepsNote, Pending
<1> QED
  BY <1>1, <1>2, KeepInit, PTL DEF Spec

-----------------------------------------------------------------------------
(* What a reported failure means. *)

\* No other request has the group of q in its hands.
Alone(q) == \A r \in Requests \ {q} : TxnOf[r] = TxnOf[q] => pc[r] = "start"

\* Before its only handler has sent it, and after it failed for good, no node
\* has the group.
FailInv ==
  \A q \in Requests :
    /\ \/ pc[q] \in {"start", "retrieved", "register", "send"}
       \/ pc[q] = "return" /\ confirmationError[q] \notin {"nil", "WaitTimeout"}
       => (Alone(q) => ~Submitted(TxnOf[q]))
    /\ pc[q] \notin {"return", "done"} => confirmationError[q] = "nil"

LEMMA FailInit == Init => FailInv
  BY RequestsAssumption DEF Init, ChainInit, HandlerInit, FailInv, Submitted

\* A request that has arrived does not go back.
LEMMA AloneBefore ==
  ASSUME TypeOK, [Next]_vars, NEW q \in Requests, Alone(q)' PROVE Alone(q)
<1> SUFFICES ASSUME NEW r \in Requests, pc'[r] = "start" PROVE pc[r] = "start"
  BY DEF Alone
<1>1. CASE ~Handle(r)
  BY <1>1, OtherRequests
<1>2. CASE Handle(r)
  BY <1>2
  DEF TypeOK, Handle, HandlerStep, Goto, Refuse, Fail, RefuseRequest,
      RetrieveDeposit, DeleteDeposit, CreateWithdrawalTxns, Register,
      RegisterFails, SignFails, SendAccepted, SendRefused, SendResponseLost,
      WaitConfirmed, WaitTimesOut, WaitFails, Save, SaveFails, Return
<1> QED
  BY <1>1, <1>2

\* Only a handler that sends it gets a group to a node.
LEMMA OnlySendersSubmit ==
  ASSUME TypeOK, [Next]_vars, NEW q \in Requests, Alone(q),
         ~Submitted(TxnOf[q]), Submitted(TxnOf[q])'
  PROVE  SendAccepted(q) \/ SendResponseLost(q)
<1> USE RequestsAssumption DEF Submitted, TypeOK
<1>1. CASE UNCHANGED chain
  BY <1>1
<1>2. ASSUME NEW r \in Requests, Handle(r), chain' # chain
      PROVE  SendAccepted(q) \/ SendResponseLost(q)
  <2>1. SendAccepted(r) \/ SendResponseLost(r)
    BY <1>2
    DEF Handle, HandlerStep, RefuseRequest, RetrieveDeposit, DeleteDeposit,
        CreateWithdrawalTxns, Register, RegisterFails, SignFails, SendRefused,
        WaitConfirmed, WaitTimesOut, WaitFails, Save, SaveFails, Return, chainVars
  <2>2. pc[r] = "send" /\ chain' = [chain EXCEPT ![TxnOf[r]] = "pool"]
    BY <2>1 DEF SendAccepted, SendResponseLost, Submit, Fail, Goto
  <2>3. TxnOf[r] = TxnOf[q]
    BY <2>2
  <2>4. r = q
    BY <2>2, <2>3 DEF Alone
  <2> QED
    BY <2>1, <2>4
<1>3. ASSUME NEW t \in Txns, Network(t) PROVE FALSE
  BY <1>3 DEF Network, ConfirmTxn, ExpireTxn
<1>4. CASE UNCHANGED vars
  BY <1>1, <1>4 DEF vars, chainVars
<1>5. CleanUp => UNCHANGED chain
  BY DEF CleanUp, CleanupStep, LookUp, DeleteStale, Keep, Move, MoveRollsBack, SkipRow,
         NextRow, chainVars
<1>6. StartPass \/ StartPassFails \/ FinishPass => UNCHANGED chain
  BY DEF StartPass, BeginPass, StartPassFails, FinishPass, EndPass, chainVars
<1>7. CASE Next /\ ~(\E r \in Requests : Handle(r)) /\ ~(\E t \in Txns : Network(t))
  BY <1>1, <1>5, <1>6, <1>7
  DEF Next, RowAges, Subscriber, SubscriberSaves, ExpireSession, SessionExpires,
      Crash, Restart, chainVars
<1> QED
  BY <1>1, <1>2, <1>3, <1>4, <1>7 DEF Next

LEMMA FailStep ==
  ASSUME ~AmbiguousErrors, TypeOK, FailInv, [Next]_vars PROVE FailInv'
<1> USE RequestsAssumption
<1> DEFINE Early(q) == pc[q] \in {"start", "retrieved", "register", "send"}
           Failed(q) == pc[q] = "return" /\ confirmationError[q] \notin {"nil", "WaitTimeout"}
<1> SUFFICES ASSUME NEW q \in Requests
             PROVE  /\ Early(q)' \/ Failed(q)' => (Alone(q)' => ~Submitted(TxnOf[q])')
                    /\ pc'[q] \notin {"return", "done"} => confirmationError'[q] = "nil"
  BY DEF FailInv
<1>1. Alone(q)' => Alone(q)
  BY AloneBefore
<1>2. CASE ~Handle(q)
  <2>1. Early(q)' \/ Failed(q)' => Early(q) \/ Failed(q)
    BY <1>2, OtherRequests
  <2>2. pc'[q] \notin {"return", "done"} => confirmationError'[q] = "nil"
    BY <1>2, OtherRequests DEF FailInv
  <2>3. (~SendAccepted(q) /\ ~SendResponseLost(q)) \/ UNCHANGED pc
    BY <1>2, OtherRequests DEF SendAccepted, SendResponseLost, Fail, Goto, TypeOK
  <2> QED
    BY <1>1, <2>1, <2>2, <2>3, OnlySendersSubmit
    DEF FailInv, SendAccepted, SendResponseLost, Fail, Goto, TypeOK
<1>3. CASE Handle(q)
  <2>1. CASE SendAccepted(q)
    BY <2>1 DEF SendAccepted, Goto, TypeOK, FailInv
  <2>2. ~SendResponseLost(q)
    BY DEF SendResponseLost
  <2>3. ASSUME ~SendAccepted(q), Alone(q)', ~Submitted(TxnOf[q])
        PROVE  ~Submitted(TxnOf[q])'
    BY <1>1, <2>2, <2>3, OnlySendersSubmit
  <2>4. ASSUME NEW from, NEW error \in ErrorTypes \ {"nil"}, Fail(q, from, error)
        PROVE  /\ pc[q] = from /\ pc'[q] = "return" /\ confirmationError'[q] = error
    BY <2>4 DEF Fail, Goto, TypeOK
  <2>5. CASE SignFails(q) \/ SendRefused(q)
    <3>1. pc[q] = "send" /\ pc'[q] = "return"
      BY <2>5 DEF SignFails, SendRefused, Fail, Goto, TypeOK
    <3> QED
      BY <1>1, <2>3, <3>1 DEF FailInv, SendAccepted, Goto, TypeOK
  <2>6. CASE WaitTimesOut(q)
    <3>1. pc'[q] = "return" /\ confirmationError'[q] = "WaitTimeout"
      BY <2>4, <2>6 DEF WaitTimesOut, ErrorTypes
    <3> QED
      BY <3>1
  <2>7. CASE WaitFails(q)
    <3>1. pc'[q] = "return" /\ chain'[TxnOf[q]] = "dead"
      BY <2>7 DEF WaitFails, Fail, Goto, TypeOK, chainVars
    <3> QED
      BY <3>1 DEF Submitted
  <2>8. CASE Save(q) \/ SaveFails(q)
    <3>1. pc[q] = "save" /\ pc'[q] = "return" /\ confirmationError' = confirmationError
      BY <2>8 DEF Save, SaveFails, Goto, TypeOK
    <3> QED
      BY <3>1 DEF FailInv
  <2>9. CASE Return(q) \/ RefuseRequest(q) \/ RegisterFails(q) \/ WaitConfirmed(q)
    <3>1. pc'[q] \in {"done", "save"} /\ confirmationError' = confirmationError
          /\ (pc'[q] = "save" => pc[q] = "wait")
      BY <2>9 DEF Return, RefuseRequest, RegisterFails, WaitConfirmed, Refuse, Goto, TypeOK
    <3> QED
      BY <3>1 DEF FailInv
  <2>10. CASE RetrieveDeposit(q) \/ DeleteDeposit(q) \/ CreateWithdrawalTxns(q) \/ Register(q)
    <3>1. /\ Early(q) /\ pc[q] # "send" /\ pc'[q] # "return"
          /\ confirmationError' = confirmationError
      BY <2>10
      DEF RetrieveDeposit, DeleteDeposit, CreateWithdrawalTxns, Register, Refuse, Goto, TypeOK
    <3>2. ~SendAccepted(q)
      BY <3>1 DEF SendAccepted, Goto
    <3> QED
      BY <1>1, <2>3, <3>1, <3>2 DEF FailInv
  <2> QED
    BY <1>3, <2>1, <2>2, <2>5, <2>6, <2>7, <2>8, <2>9, <2>10 DEF Handle, HandlerStep
<1> QED
  BY <1>2, <1>3

\* confirm_deposit.go:150, :204: a browser that sent its form once is told of a
\* failure only when no node can put the group in a block any more, as long as
\* the node's errors are definite.
THEOREM FailuresAreFinal ==
  ASSUME ~AmbiguousErrors PROVE Spec => FailureIsNotOnChain
<1>1. TypeOK /\ FailInv /\ [Next]_vars => FailInv'
  BY FailStep
<1>2. TypeOK /\ FailInv /\ [Next]_vars =>
        [\A q \in Requests :
           /\ reply[q] = "none" /\ reply'[q] = "error"
           /\ confirmationError[q] \notin {"nil", "WaitTimeout"}
           /\ \A r \in Requests \ {q} : TxnOf[r] = TxnOf[q] => pc[r] = "start"
           => ~Submitted(TxnOf[q])]_vars
  <2> SUFFICES ASSUME TypeOK, FailInv, [Next]_vars, NEW q \in Requests,
                      reply[q] = "none", reply'[q] = "error",
                      confirmationError[q] \notin {"nil", "WaitTimeout"}, Alone(q)
               PROVE  ~Submitted(TxnOf[q])
    BY DEF Alone
  <2>1. Handle(q)
    BY OtherRequests
  <2>2. pc[q] \in {"return", "done"}
    BY DEF FailInv
  <2>3. pc[q] = "return"
    BY <2>1, <2>2
    DEF Handle, HandlerStep, RefuseRequest, RetrieveDeposit, DeleteDeposit, Refuse,
        CreateWithdrawalTxns, Register, RegisterFails, SignFails, SendAccepted,
        SendRefused, SendResponseLost, Fail, WaitConfirmed, WaitTimesOut, WaitFails,
        Save, SaveFails, Return, Goto
  <2> QED
    BY <2>3 DEF FailInv
<1> QED
  BY <1>1, <1>2, FailInit, TypeCorrect, PTL DEF Spec, FailureIsNotOnChain

=============================================================================
