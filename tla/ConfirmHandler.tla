--------------------------- MODULE ConfirmHandler ---------------------------
(***************************************************************************)
(* ConfirmDepositHandler and ConfirmWithdrawHandler, one goroutine for     *)
(* each request: look up the deposit session (a deposit) or build the      *)
(* group (a withdrawal), register the note as unconfirmed, send the group, *)
(* wait for it, save the note, and in the deferred closure delete the      *)
(* unconfirmed row or keep it.                                             *)
(***************************************************************************)
EXTENDS InternalDb, Chain

CONSTANT
  AmbiguousErrors \* TRUE: a call to the node may fail after the network took
                  \* the group (lost response, node down during the wait, or
                  \* the confirmed transaction comes without the log of its
                  \* leaf index)

ASSUME AmbiguousErrorsAssumption == AmbiguousErrors \in BOOLEAN

VARIABLES
  pc,                \* where the handler of a request is
  confirmationError, \* type of the handler's *TxnConfirmationError, or "nil"
  saveNoteToDbError, \* whether SaveNote returned an error
  reply,             \* what the browser gets: "none" before the handler ends
  sessions           \* memstore: the deposit groups that wait for a signature

handlerVars == <<pc, confirmationError, saveNoteToDbError, reply, sessions>>

\* SendTxnErrorType, and "nil" for no error.
ErrorTypes == {"nil", "WaitTimeout", "Rejected", "OverSpend", "Expired",
               "Internal", "MinimumBalanceRequirement"}

\* Init is after the POSTs to /deposit that stored the deposit sessions.
HandlerInit ==
  /\ pc = [q \in Requests |-> "start"]
  /\ confirmationError = [q \in Requests |-> "nil"]
  /\ saveNoteToDbError = [q \in Requests |-> FALSE]
  /\ reply = [q \in Requests |-> "none"]
  /\ sessions = Deposits

Goto(q, from, to) == pc[q] = from /\ pc' = [pc EXCEPT ![q] = to]

\* The handler answers and returns before anything is registered.
Refuse(q, from) ==
  /\ Goto(q, from, "done")
  /\ reply' = [reply EXCEPT ![q] = "error"]
  /\ UNCHANGED <<confirmationError, saveNoteToDbError>>

-----------------------------------------------------------------------------
(* Before the note is registered. *)

\* The form is malformed, the deposit has no session, or the withdrawal group
\* cannot be built (unknown commitment, no proof, no suggested parameters).
RefuseRequest(q) ==
  /\ Refuse(q, "start")
  /\ UNCHANGED <<sessions, dbVars, chainVars>>

RetrieveDeposit(q) ==
  /\ TxnOf[q] \in Deposits \cap sessions
  /\ Goto(q, "start", "retrieved")
  /\ UNCHANGED <<confirmationError, saveNoteToDbError, reply, sessions,
                 dbVars, chainVars>>

\* DeleteDeposit, then the comparison of the form with the session.  Load and
\* Delete of the store are two calls: two requests may retrieve one session.
DeleteDeposit(q) ==
  /\ sessions' = sessions \ {TxnOf[q]}
  /\ \/ Goto(q, "retrieved", "register")
        /\ UNCHANGED <<confirmationError, saveNoteToDbError, reply>>
     \/ Refuse(q, "retrieved")
  /\ UNCHANGED <<dbVars, chainVars>>

CreateWithdrawalTxns(q) ==
  /\ TxnOf[q] \notin Deposits
  /\ Goto(q, "start", "register")
  /\ UNCHANGED <<confirmationError, saveNoteToDbError, reply, sessions,
                 dbVars, chainVars>>

Register(q) ==
  /\ Goto(q, "register", "send")
  /\ RegisterUnconfirmedNote(q)
  /\ UNCHANGED <<confirmationError, saveNoteToDbError, reply, sessions,
                 chainVars>>

RegisterFails(q) ==
  /\ Refuse(q, "register")
  /\ IF RegisterAllowed(q) THEN DbError ELSE UNCHANGED dbVars
  /\ UNCHANGED <<sessions, chainVars>>

-----------------------------------------------------------------------------
(* Sending the group and waiting for it. *)

Fail(q, from, error) ==
  /\ Goto(q, from, "return")
  /\ confirmationError' = [confirmationError EXCEPT ![q] = error]
  /\ UNCHANGED <<saveNoteToDbError, reply, sessions>>

\* What parseSendTransactionError makes of a node's refusal: a group already
\* in the pool or in a block is refused too, and falls in the default case.
RefusalErrors(t) ==
  CASE chain[t] = "dead"   -> {"Expired"}
    [] chain[t] = "unsent" -> {"Rejected", "OverSpend",
                               "MinimumBalanceRequirement"}
    [] OTHER               -> {"Rejected"}

SignFails(q) ==
  /\ Fail(q, "send", "Internal")
  /\ UNCHANGED <<dbVars, chainVars>>

SendAccepted(q) ==
  /\ Goto(q, "send", "wait")
  /\ Submit(TxnOf[q])
  /\ UNCHANGED <<confirmationError, saveNoteToDbError, reply, sessions, dbVars>>

SendRefused(q) ==
  /\ \E error \in RefusalErrors(TxnOf[q]) : Fail(q, "send", error)
  /\ UNCHANGED <<dbVars, chainVars>>

\* The node took the group but its answer is lost: the transport error has
\* none of the texts parseSendTransactionError knows.
SendResponseLost(q) ==
  /\ AmbiguousErrors
  /\ Submit(TxnOf[q])
  /\ Fail(q, "send", "Rejected")
  /\ UNCHANGED dbVars

WaitConfirmed(q) ==
  /\ chain[TxnOf[q]] = "onchain"
  /\ Goto(q, "wait", "save")
  /\ UNCHANGED <<confirmationError, saveNoteToDbError, reply, sessions,
                 dbVars, chainVars>>

\* Mutant: the text of the timeout is not recognised.
WaitTimesOutUnparsed(q) ==
  /\ Fail(q, "wait", "Internal")
  /\ UNCHANGED <<dbVars, chainVars>>

\* WaitRounds rounds passed; the group may be in a block nevertheless (errors
\* of PendingTransactionInformation are swallowed, and a block may follow the
\* last poll).
WaitTimesOut(q) ==
  /\ Fail(q, "wait", "WaitTimeout")
  /\ UNCHANGED <<dbVars, chainVars>>

\* The node dropped the group from its pool (Rejected), or a call for the
\* status of the node fails (Internal).  getLeafIndexAndRoot fails with Internal
\* too, for a confirmed group.
WaitFails(q) ==
  /\ chain[TxnOf[q]] = "dead" \/ AmbiguousErrors
  /\ \E error \in {"Rejected", "Internal"} : Fail(q, "wait", error)
  /\ UNCHANGED <<dbVars, chainVars>>

-----------------------------------------------------------------------------
(* Saving the note and the deferred closure. *)

\* Mutant: the leaves of the tree are counted, and not those before the note.
SaveCountOfLeaves(q) ==
  /\ Goto(q, "save", "return")
  /\ SaveNote(leafOf[TxnOf[q]] + 1, TxnOf[q])
  /\ UNCHANGED <<confirmationError, saveNoteToDbError, reply, sessions,
                 chainVars>>

Save(q) ==
  /\ Goto(q, "save", "return")
  /\ SaveNote(leafOf[TxnOf[q]], TxnOf[q])
  /\ UNCHANGED <<confirmationError, saveNoteToDbError, reply, sessions,
                 chainVars>>

SaveFails(q) ==
  /\ Goto(q, "save", "return")
  /\ saveNoteToDbError' = [saveNoteToDbError EXCEPT ![q] = TRUE]
  /\ IF SaveAllowed(leafOf[TxnOf[q]], TxnOf[q]) THEN DbError ELSE UNCHANGED dbVars
  /\ UNCHANGED <<confirmationError, reply, sessions, chainVars>>

\* Mutant: the row is deleted after any error, a timeout included.
MayDeleteAnyError(q) ==
  confirmationError[q] = "nil" => ~saveNoteToDbError[q]

MayDeleteUnconfirmed(q) ==
  \/ confirmationError[q] = "nil" /\ ~saveNoteToDbError[q]
  \/ confirmationError[q] \notin {"nil", "WaitTimeout"}

\* Mutant: the error of SaveNote is ignored.
ClosureIgnoresSaveError(q) == FALSE

\* The closure reads confirmationError.Type of a nil pointer: net/http
\* recovers the panic and drops the buffered answer.
ClosurePanics(q) == confirmationError[q] = "nil" /\ saveNoteToDbError[q]

Return(q) ==
  /\ Goto(q, "return", "done")
  /\ reply' = [reply EXCEPT ![q] =
       IF ClosurePanics(q) THEN "dropped"
       ELSE IF confirmationError[q] = "nil" THEN "success" ELSE "error"]
  /\ IF MayDeleteUnconfirmed(q) THEN DeleteUnconfirmedNote(q) \/ DbError
                                ELSE UNCHANGED dbVars
  /\ UNCHANGED <<confirmationError, saveNoteToDbError, sessions, chainVars>>

-----------------------------------------------------------------------------

\* The ten minutes of a session pass (startCleanup of the memory store).
SessionExpires ==
  /\ \E t \in sessions : sessions' = sessions \ {t}
  /\ UNCHANGED <<pc, confirmationError, saveNoteToDbError, reply, dbVars,
                 chainVars>>

HandlerStep(q) ==
  \/ RefuseRequest(q) \/ RetrieveDeposit(q) \/ DeleteDeposit(q)
  \/ CreateWithdrawalTxns(q) \/ Register(q) \/ RegisterFails(q)
  \/ SignFails(q) \/ SendAccepted(q) \/ SendRefused(q) \/ SendResponseLost(q)
  \/ WaitConfirmed(q) \/ WaitTimesOut(q) \/ WaitFails(q)
  \/ Save(q) \/ SaveFails(q) \/ Return(q)

\* The process ends: goroutines and the memory store are gone.  A request
\* that had not arrived may be made to the next process.
HandlersCrash ==
  /\ pc' = [q \in Requests |-> IF pc[q] = "start" THEN "start" ELSE "done"]
  /\ reply' = [q \in Requests |->
       IF pc[q] \in {"start", "done"} THEN reply[q] ELSE "dropped"]
  /\ sessions' = {}
  /\ UNCHANGED <<confirmationError, saveNoteToDbError>>

=============================================================================
