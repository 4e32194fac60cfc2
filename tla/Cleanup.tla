------------------------------- MODULE Cleanup -------------------------------
(***************************************************************************)
(* CleanupUnconfirmedNotes (db/maintenance.go): one pass reads all rows of *)
(* unconfirmed_notes as of its start and, row by row, looks the            *)
(* transaction up in txns.db and then moves, deletes or keeps the row.     *)
(* Handlers and the subscriber run between any two of these statements.    *)
(***************************************************************************)
EXTENDS InternalDb, Chain

NoRow == "NoRow"

ASSUME NoRowAssumption == NoRow \notin Requests

VARIABLES
  pass,  \* "idle", "rows" (next row to fetch) or "decide" (row looked up)
  rows,  \* rows of the snapshot not handled yet
  row,   \* the row being handled
  found  \* whether its transaction was in txns.db

cleanupVars == <<pass, rows, row, found>>

CleanupInit ==
  /\ pass = "idle"
  /\ rows = {}
  /\ row = NoRow
  /\ found = FALSE

BeginPass ==
  /\ pass = "idle"
  /\ pass' = "rows"
  /\ rows' = unconfirmed
  /\ UNCHANGED <<row, found, dbVars, chainVars>>

\* SQLite returns the rows by id; any order is allowed here.
LookUp(q) ==
  /\ pass = "rows"
  /\ q \in rows
  /\ pass' = "decide"
  /\ row' = q
  /\ found' = (TxnOf[q] \in txnsDb)
  /\ UNCHANGED <<rows, dbVars, chainVars>>

NextRow ==
  /\ pass' = "rows"
  /\ rows' = rows \ {row}
  /\ row' = NoRow
  /\ found' = FALSE
  /\ UNCHANGED chainVars

\* Mutant: the age of the row is not looked at.
DeleteAnyAge ==
  /\ pass = "decide" /\ ~found
  /\ DeleteUnconfirmedNote(row)
  /\ NextRow

\* Mutant: a stale row is skipped like a fresh one.
SkipStale ==
  /\ pass = "decide" /\ ~found /\ row \in stale
  /\ NextRow
  /\ UNCHANGED dbVars

\* The transaction is unknown and the row older than 7 days.
DeleteStale ==
  /\ pass = "decide" /\ ~found /\ row \in stale
  /\ DeleteUnconfirmedNote(row)
  /\ NextRow

Keep ==
  /\ pass = "decide" /\ ~found /\ row \notin stale
  /\ NextRow
  /\ UNCHANGED dbVars

\* Mutant: the receipt gets the newest leaf index, not the note's own.
MoveNewestLeaf ==
  /\ pass = "decide" /\ found
  /\ MoveNote(row, leafCount - 1)
  /\ NextRow

\* txn_id found: the commitments are equal too, both being those of the note.
Move ==
  /\ pass = "decide" /\ found
  /\ MoveNote(row, leafOf[TxnOf[row]])
  /\ NextRow

\* A constraint refuses the insert: rollback, the row stays as it is.
MoveRollsBack ==
  /\ pass = "decide" /\ found
  /\ ~InsertAllowed(leafOf[TxnOf[row]], TxnOf[row])
  /\ NextRow
  /\ UNCHANGED dbVars

\* Mutant: no SQL transaction, the row is deleted although the insert failed.
SkipRowHalfway ==
  /\ pass = "decide"
  /\ dbErrors < MaxDbErrors
  /\ dbErrors' = dbErrors + 1
  /\ unconfirmed' = unconfirmed \ {row}
  /\ stale' = stale \ {row}
  /\ UNCHANGED notes
  /\ NextRow

\* Any statement for the row fails otherwise: it is skipped in this pass.
SkipRow ==
  /\ pass = "decide"
  /\ DbError
  /\ NextRow

EndPass ==
  /\ pass = "rows" /\ rows = {}
  /\ pass' = "idle"
  /\ UNCHANGED <<rows, row, found, dbVars, chainVars>>

CleanupStep ==
  \/ \E q \in rows : LookUp(q)
  \/ DeleteStale \/ Keep \/ Move \/ MoveRollsBack \/ SkipRow

CleanupCrash ==
  /\ pass' = "idle"
  /\ rows' = {}
  /\ row' = NoRow
  /\ found' = FALSE

=============================================================================
