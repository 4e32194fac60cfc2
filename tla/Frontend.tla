------------------------------ MODULE Frontend ------------------------------
(***************************************************************************)
(* The frontend server: the confirm handlers, the cleanup of               *)
(* unconfirmed_notes (once at startup, before the server listens, then     *)
(* every CleanupInterval), crashes and restarts of the process, over       *)
(* internal.db, txns.db and the network.                                   *)
(***************************************************************************)
EXTENDS ConfirmHandler, Cleanup

CONSTANTS
  MaxCrashes,       \* bound on the crashes of the process
  SubscriberKeepsUp \* TRUE: txns.db is less than 7 days behind the chain

ASSUME MaxCrashesAssumption == MaxCrashes \in Nat
ASSUME SubscriberKeepsUpAssumption == SubscriberKeepsUp \in BOOLEAN

VARIABLES
  server, \* "boot" (startup cleanup), "serving" or "down"
  crashes

serverVars == <<server, crashes>>
vars == <<dbVars, chainVars, handlerVars, cleanupVars, serverVars>>

Init ==
  /\ DbInit
  /\ ChainInit
  /\ HandlerInit
  /\ CleanupInit
  /\ server = "boot"
  /\ crashes = 0

-----------------------------------------------------------------------------
(* The process. *)

Handle(q) ==
  /\ server = "serving"
  /\ HandlerStep(q)
  /\ UNCHANGED <<cleanupVars, serverVars>>

ExpireSession ==
  /\ server # "down"
  /\ SessionExpires
  /\ UNCHANGED <<cleanupVars, serverVars>>

StartPass ==
  /\ server # "down"
  /\ BeginPass
  /\ UNCHANGED <<handlerVars, serverVars>>

\* The SELECT on unconfirmed_notes fails: no pass this time.
StartPassFails ==
  /\ server # "down"
  /\ pass = "idle"
  /\ DbError
  /\ server' = "serving"
  /\ UNCHANGED <<chainVars, handlerVars, cleanupVars, crashes>>

CleanUp ==
  /\ server # "down"
  /\ CleanupStep
  /\ UNCHANGED <<handlerVars, serverVars>>

\* After the startup pass the server listens.
FinishPass ==
  /\ server # "down"
  /\ EndPass
  /\ server' = "serving"
  /\ UNCHANGED <<handlerVars, crashes>>

\* A kill, or log.Fatalf when handlers outlast the 60 s of the shutdown.
Crash ==
  /\ server # "down"
  /\ crashes < MaxCrashes
  /\ crashes' = crashes + 1
  /\ server' = "down"
  /\ HandlersCrash
  /\ CleanupCrash
  /\ UNCHANGED <<dbVars, chainVars>>

Restart ==
  /\ server = "down"
  /\ server' = "boot"
  /\ UNCHANGED <<dbVars, chainVars, handlerVars, cleanupVars, crashes>>

-----------------------------------------------------------------------------
(* The environment. *)

\* A withdrawal group does not exist, and so does not expire, before its
\* handler has built it.
Built(t) == t \in Deposits \/ \E q \in Requests : TxnOf[q] = t /\ pc[q] # "start"

Network(t) ==
  /\ ConfirmTxn(t) \/ (Built(t) /\ ExpireTxn(t))
  /\ UNCHANGED <<dbVars, handlerVars, cleanupVars, serverVars>>

Subscriber(t) ==
  /\ SubscriberSaves(t)
  /\ UNCHANGED <<dbVars, handlerVars, cleanupVars, serverVars>>

\* A row turns 7 days old: its group expired long ago or is in a block, and
\* then txns.db has had it since before any lookup that is still undecided.
RowAges(q) ==
  /\ q \in unconfirmed \ stale
  /\ chain[TxnOf[q]] \in {"onchain", "dead"}
  /\ SubscriberKeepsUp /\ chain[TxnOf[q]] = "onchain"
       => TxnOf[q] \in txnsDb /\ (row = q => found)
  /\ stale' = stale \cup {q}
  /\ UNCHANGED <<unconfirmed, notes, dbErrors, chainVars, handlerVars,
                 cleanupVars, serverVars>>

Next ==
  \/ \E q \in Requests : Handle(q) \/ RowAges(q)
  \/ \E t \in Txns : Network(t) \/ Subscriber(t)
  \/ ExpireSession \/ StartPass \/ StartPassFails \/ CleanUp \/ FinishPass
  \/ Crash \/ Restart

\* A request that has arrived is served, the ticker of the cleanup fires, the
\* service manager restarts the process, rounds and days pass, and the
\* subscriber gets to every block.
Fairness ==
  /\ \A q \in Requests : WF_vars(pc[q] # "start" /\ Handle(q))
  /\ \A q \in Requests : WF_vars(RowAges(q))
  /\ \A t \in Txns : WF_vars(Network(t)) /\ WF_vars(Subscriber(t))
  /\ WF_vars(StartPass) /\ WF_vars(CleanUp) /\ WF_vars(FinishPass)
  /\ WF_vars(Restart)

Spec == Init /\ [][Next]_vars

FairSpec == Spec /\ Fairness

-----------------------------------------------------------------------------

\* The values each variable takes.
TypeOK ==
  /\ unconfirmed \subseteq Requests
  /\ stale \subseteq unconfirmed
  /\ notes \subseteq [leaf : 0 .. leafCount - 1, txn : Txns]
  /\ dbErrors \in 0..MaxDbErrors
  /\ chain \in [Txns -> {"unsent", "pool", "onchain", "dead"}]
  /\ leafOf \in [Txns -> Nat \cup {EmptyLeafIndex}]
  /\ leafCount \in Nat
  /\ txnsDb \subseteq Txns
  /\ pc \in [Requests -> {"start", "retrieved", "register", "send", "wait",
                          "save", "return", "done"}]
  /\ confirmationError \in [Requests -> ErrorTypes]
  /\ saveNoteToDbError \in [Requests -> BOOLEAN]
  /\ reply \in [Requests -> {"none", "success", "error", "dropped"}]
  /\ sessions \subseteq Deposits
  /\ pass \in {"idle", "rows", "decide"}
  /\ rows \subseteq Requests
  /\ row \in Requests \cup {NoRow}
  /\ found \in BOOLEAN
  /\ server \in {"boot", "serving", "down"}
  /\ crashes \in 0..MaxCrashes

\* A receipt states the truth: its group is on chain, and the leaf index of
\* the receipt is the one the contract gave to the note.  The handler takes
\* the index from the node, the cleanup from txns.db.
NotesFaithful ==
  \A n \in notes : chain[n.txn] = "onchain" /\ n.leaf = leafOf[n.txn]

\* No receipt is lost: while a group is in a pool or a block its note has a
\* receipt or a row the cleanup will turn into one.
NoReceiptLost ==
  \A t \in Txns : Submitted(t) => t \in Pending \cup Receipted

\* A note whose wait timed out keeps its row until it has its receipt, even
\* when other calls to the node fail after the network took a group.
TimeoutKeepsNote ==
  \A q \in Requests :
    confirmationError[q] = "WaitTimeout" /\ Submitted(TxnOf[q])
      => TxnOf[q] \in Pending \cup Receipted

\* A browser is told of success only when the receipt is in the database.
SuccessHasReceipt ==
  \A q \in Requests : reply[q] = "success" => TxnOf[q] \in Receipted

\* Every note on chain gets its receipt, whatever crashes in between.
OnChainGetsReceipt ==
  \A t \in Txns : (chain[t] = "onchain") ~> (t \in Receipted)

\* A row of unconfirmed_notes does not stay there for ever (internal.go:60-62:
\* once the txn is confirmed it is removed from this table; maintenance.go:38:
\* older than 7 days it is deleted).
EveryRowLeaves == \A q \in Requests : (q \in unconfirmed) ~> (q \notin unconfirmed)

\* README.md:23: a confirmation that does not succeed is answered with an
\* error message, so every request that ends while the server is up is
\* answered one way or the other.
EveryRequestAnswered == \A q \in Requests : reply[q] = "dropped" => crashes > 0

\* A browser that sent its form once is told that the network rejected the
\* group, or that it was not processed (confirm_deposit.go:150, :204), only
\* when no block has it and no node that took it may still put it in one.
FailureIsNotOnChain ==
  [][\A q \in Requests :
       /\ reply[q] = "none" /\ reply'[q] = "error"
       /\ confirmationError[q] \notin {"nil", "WaitTimeout"}
       /\ \A r \in Requests \ {q} : TxnOf[r] = TxnOf[q] => pc[r] = "start"
       => ~Submitted(TxnOf[q])]_vars

-----------------------------------------------------------------------------
(* The inductive invariants behind NotesFaithful and NoReceiptLost. *)

\* txns.db holds confirmed groups only, and a confirmed group has a leaf.
ChainInv ==
  /\ \A t \in Txns : chain[t] = "onchain" => leafOf[t] \in 0 .. leafCount - 1
  /\ \A t \in txnsDb : chain[t] = "onchain"

\* Who is about to write a receipt knows that its group is confirmed.
WriterInv ==
  /\ \A q \in Requests : pc[q] = "save" => chain[TxnOf[q]] = "onchain"
  /\ pass = "decide" => row \in Requests
  /\ found => pass = "decide" /\ TxnOf[row] \in txnsDb

FaithInv == TypeOK /\ ChainInv /\ WriterInv /\ NotesFaithful

\* The UNIQUE constraint: one row for each group.
UniqueRows ==
  \A q, r \in unconfirmed : TxnOf[q] = TxnOf[r] => q = r

\* A handler is about to send, or about to delete the row of, a group that
\* nobody else has sent, or whose receipt is there.
RowInv ==
  \A q \in Requests :
    /\ pc[q] = "send" /\ chain[TxnOf[q]] = "unsent" => q \in unconfirmed
    /\ \/ pc[q] = "send"
       \/ pc[q] = "return" /\ confirmationError[q] \notin {"nil", "WaitTimeout"}
       => (q \in unconfirmed /\ Submitted(TxnOf[q]) => TxnOf[q] \in Receipted)
    /\ pc[q] = "return" /\ confirmationError[q] = "nil" /\ ~saveNoteToDbError[q]
       => TxnOf[q] \in Receipted
    /\ pc[q] \notin {"return", "done"} => confirmationError[q] = "nil"

\* The cleanup deletes as stale only rows whose group is dead.
StaleInv ==
  /\ \A q \in stale : chain[TxnOf[q]] = "dead" \/ TxnOf[q] \in txnsDb
  /\ pass = "decide" /\ row \in stale /\ ~found => chain[TxnOf[row]] = "dead"

ReceiptInv == FaithInv /\ UniqueRows /\ RowInv /\ StaleInv /\ NoReceiptLost

-----------------------------------------------------------------------------

\* The frontend implements the promise on receipts.
Ledger == INSTANCE ReceiptLedger
            WITH fate <- chain, pending <- Pending, receipts <- Receipted

ImplementsLedger == Ledger!Spec

=============================================================================
