--------------------------- MODULE FrontendProofs ---------------------------
(***************************************************************************)
(* Proofs about Frontend, for any number of requests, groups, crashes and  *)
(* failing statements.                                                     *)
(***************************************************************************)
EXTENDS Frontend, TLAPS

\* The initial state satisfies the first inductive invariant.
LEMMA FaithInit == Init => FaithInv
<1> SUFFICES ASSUME Init PROVE FaithInv
  OBVIOUS
<1> USE RequestsAssumption, MaxCrashesAssumption, DbErrorsAssumption
<1> USE DEF Init, DbInit, ChainInit, HandlerInit, CleanupInit
<1>1. TypeOK
  <2>1. /\ dbErrors \in 0..MaxDbErrors
        /\ crashes \in 0..MaxCrashes
    OBVIOUS
  <2>2. saveNoteToDbError \in [Requests -> BOOLEAN]
    OBVIOUS
  <2>3. leafOf \in [Txns -> Nat \cup {EmptyLeafIndex}]
    OBVIOUS
  <2>4. QED
    BY <2>1, <2>2, <2>3 DEF TypeOK, ErrorTypes
<1>2. ChainInv /\ WriterInv /\ NotesFaithful
  BY DEF ChainInv, WriterInv, NotesFaithful
<1>3. QED
  BY <1>1, <1>2 DEF FaithInv

\* Every step of a handler preserves it.
LEMMA FaithHandle ==
  ASSUME FaithInv, NEW q \in Requests, Handle(q)
  PROVE  FaithInv'
<1> USE RequestsAssumption, DbErrorsAssumption
<1> USE DEF FaithInv, TypeOK, ChainInv, WriterInv, NotesFaithful, Goto,
            ErrorTypes, EmptyLeafIndex, dbVars, chainVars, handlerVars,
            cleanupVars, serverVars
<1>0. HandlerStep(q) /\ UNCHANGED <<cleanupVars, serverVars>>
  BY DEF Handle
<1>1. CASE RefuseRequest(q)
  BY <1>0, <1>1 DEF RefuseRequest, Refuse
<1>2. CASE RetrieveDeposit(q)
  BY <1>0, <1>2 DEF RetrieveDeposit
<1>3. CASE DeleteDeposit(q)
  BY <1>0, <1>3 DEF DeleteDeposit, Refuse
<1>4. CASE CreateWithdrawalTxns(q)
  BY <1>0, <1>4 DEF CreateWithdrawalTxns
<1>5. CASE Register(q)
  BY <1>0, <1>5 DEF Register, RegisterUnconfirmedNote
<1>6. CASE RegisterFails(q)
  BY <1>0, <1>6 DEF RegisterFails, Refuse, DbError
<1>7. CASE SignFails(q)
  BY <1>0, <1>7 DEF SignFails, Fail
<1>8. CASE SendAccepted(q)
  BY <1>0, <1>8 DEF SendAccepted, Submit
<1>9. CASE SendRefused(q)
  BY <1>0, <1>9 DEF SendRefused, RefusalErrors, Fail
<1>10. CASE SendResponseLost(q)
  BY <1>0, <1>10 DEF SendResponseLost, Submit, Fail
<1>11. CASE WaitConfirmed(q)
  BY <1>0, <1>11 DEF WaitConfirmed
<1>12. CASE WaitTimesOut(q)
  BY <1>0, <1>12 DEF WaitTimesOut, Fail
<1>13. CASE WaitFails(q)
  BY <1>0, <1>13 DEF WaitFails, Fail
<1>14. CASE Save(q)
  BY <1>0, <1>14 DEF Save, SaveNote
<1>15. CASE SaveFails(q)
  BY <1>0, <1>15 DEF SaveFails, DbError
<1>16. CASE Return(q)
  BY <1>0, <1>16 DEF Return, DeleteUnconfirmedNote, DbError
<1>17. QED
  BY <1>0, <1>1, <1>2, <1>3, <1>4, <1>5, <1>6, <1>7, <1>8, <1>9, <1>10,
     <1>11, <1>12, <1>13, <1>14, <1>15, <1>16 DEF HandlerStep

\* Every step of the cleanup, of the process and of the environment too.
LEMMA FaithOthers ==
  ASSUME FaithInv,
         \/ \E q \in Requests : RowAges(q)
         \/ \E t \in Txns : Network(t) \/ Subscriber(t)
         \/ ExpireSession \/ StartPass \/ StartPassFails \/ CleanUp
         \/ FinishPass \/ Crash \/ Restart
  PROVE  FaithInv'
<1> USE RequestsAssumption, DbErrorsAssumption, MaxCrashesAssumption,
        NoRowAssumption
<1> USE DEF FaithInv, TypeOK, ChainInv, WriterInv, NotesFaithful,
            EmptyLeafIndex, dbVars, chainVars, handlerVars, cleanupVars,
            serverVars
<1>1. ASSUME NEW q \in Requests, RowAges(q) PROVE FaithInv'
  BY <1>1 DEF RowAges
<1>2. ASSUME NEW t \in Txns, Network(t) PROVE FaithInv'
  BY <1>2 DEF Network, ConfirmTxn, ExpireTxn
<1>3. ASSUME NEW t \in Txns, Subscriber(t) PROVE FaithInv'
  BY <1>3 DEF Subscriber, SubscriberSaves
<1>4. CASE ExpireSession
  BY <1>4 DEF ExpireSession, SessionExpires
<1>5. CASE StartPass
  BY <1>5 DEF StartPass, BeginPass
<1>6. CASE StartPassFails
  BY <1>6 DEF StartPassFails, DbError
<1>7. CASE CleanUp
  <2>1. ASSUME NEW q \in rows, LookUp(q) PROVE FaithInv'
    BY <1>7, <2>1 DEF CleanUp, LookUp
  <2>2. CASE DeleteStale
    BY <1>7, <2>2 DEF CleanUp, DeleteStale, DeleteUnconfirmedNote, NextRow
  <2>3. CASE Keep
    BY <1>7, <2>3 DEF CleanUp, Keep, NextRow
  <2>4. CASE Move
    <3>1. /\ row \in Requests /\ TxnOf[row] \in Txns
          /\ chain[TxnOf[row]] = "onchain"
          /\ leafOf[TxnOf[row]] \in 0 .. leafCount - 1
      BY <2>4 DEF Move
    <3>2. /\ notes' = notes \cup {[leaf |-> leafOf[TxnOf[row]], txn |-> TxnOf[row]]}
          /\ unconfirmed' = unconfirmed \ {row} /\ stale' = stale \ {row}
          /\ UNCHANGED <<dbErrors, chainVars, handlerVars, serverVars>>
          /\ pass' = "rows" /\ rows' = rows \ {row} /\ row' = NoRow /\ found' = FALSE
      BY <1>7, <2>4 DEF CleanUp, Move, MoveNote, NextRow
    <3>3. notes' \subseteq [leaf : 0 .. leafCount - 1, txn : Txns] /\ NotesFaithful'
      BY <3>1, <3>2
    <3>4. QED
      BY <3>2, <3>3
  <2>5. CASE MoveRollsBack
    <3>1. /\ UNCHANGED <<dbVars, chainVars, handlerVars, serverVars>>
          /\ pass' = "rows" /\ rows' = rows \ {row} /\ row' = NoRow /\ found' = FALSE
      BY <1>7, <2>5 DEF CleanUp, MoveRollsBack, NextRow
    <3>2. QED
      BY <3>1
  <2>6. CASE SkipRow
    <3>1. /\ UNCHANGED <<unconfirmed, stale, notes, chainVars, handlerVars, serverVars>>
          /\ pass' = "rows" /\ rows' = rows \ {row} /\ row' = NoRow /\ found' = FALSE
      BY <1>7, <2>6 DEF CleanUp, SkipRow, NextRow, DbError
    <3>2. dbErrors' \in 0..MaxDbErrors
      BY <2>6 DEF SkipRow, DbError
    <3>3. QED
      BY <3>1, <3>2
  <2>7. QED
    BY <1>7, <2>1, <2>2, <2>3, <2>4, <2>5, <2>6 DEF CleanUp, CleanupStep
<1>8. CASE FinishPass
  BY <1>8 DEF FinishPass, EndPass
<1>9. CASE Crash
  <2>1. /\ UNCHANGED <<dbVars, chainVars, confirmationError, saveNoteToDbError>>
        /\ server' = "down" /\ crashes' \in 0..MaxCrashes
        /\ pass' = "idle" /\ rows' = {} /\ row' = NoRow /\ found' = FALSE
        /\ sessions' = {}
    BY <1>9 DEF Crash, HandlersCrash, CleanupCrash
  <2>2. /\ pc' \in [Requests -> {"start", "retrieved", "register", "send",
                                "wait", "save", "return", "done"}]
        /\ \A q \in Requests : pc'[q] # "save"
        /\ reply' \in [Requests -> {"none", "success", "error", "dropped"}]
    BY <1>9 DEF Crash, HandlersCrash
  <2>3. QED
    BY <2>1, <2>2
<1>10. CASE Restart
  BY <1>10 DEF Restart
<1>11. QED
  BY <1>1, <1>2, <1>3, <1>4, <1>5, <1>6, <1>7, <1>8, <1>9, <1>10

LEMMA FaithStep == FaithInv /\ [Next]_vars => FaithInv'
<1> SUFFICES ASSUME FaithInv, [Next]_vars PROVE FaithInv'
  OBVIOUS
<1>1. CASE UNCHANGED vars
  BY <1>1 DEF FaithInv, TypeOK, ChainInv, WriterInv, NotesFaithful, vars,
              dbVars, chainVars, handlerVars, cleanupVars, serverVars
<1>2. CASE Next
  BY <1>2, FaithHandle, FaithOthers DEF Next
<1>3. QED
  BY <1>1, <1>2

LEMMA FaithInvariant == Spec => []FaithInv
<1>1. QED
  BY FaithInit, FaithStep, PTL DEF Spec

\* Type correctness of the frontend.
THEOREM TypeCorrect == Spec => []TypeOK
<1>1. FaithInv => TypeOK
  BY DEF FaithInv
<1>2. QED
  BY <1>1, FaithInvariant, PTL

\* A receipt always names a confirmed group and its own leaf, whatever fails,
\* crashes or interleaves: no assumption on the node or the subscriber.
THEOREM ReceiptsAreFaithful == Spec => []NotesFaithful
<1>1. FaithInv => NotesFaithful
  BY DEF FaithInv
<1>2. QED
  BY <1>1, FaithInvariant, PTL

=============================================================================
