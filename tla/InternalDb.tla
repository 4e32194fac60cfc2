----------------------------- MODULE InternalDb -----------------------------
(***************************************************************************)
(* internal.db, the SQLite database of the frontend (db/internal.go,       *)
(* db/db.go): the table of the notes whose transaction the frontend has    *)
(* not seen confirmed yet, and the table of the confirmed notes, which are *)
(* the receipts the frontend keeps.                                        *)
(*                                                                         *)
(* A note is identified by the transaction group that inserts it on chain, *)
(* Txns: commitment and nullifier are functions of the note, and a txn_id  *)
(* is a hash over the group's arguments, the commitment among them.  A row *)
(* of unconfirmed_notes is identified by the confirm request that          *)
(* registered it: a request registers once, and AUTOINCREMENT never gives  *)
(* its id to another row.                                                  *)
(***************************************************************************)
EXTENDS ConfirmRequests

CONSTANT MaxDbErrors \* bound on the statements of internal.db that fail

ASSUME DbErrorsAssumption == MaxDbErrors \in Nat

VARIABLES
  unconfirmed, \* rows of unconfirmed_notes
  stale,       \* the rows of unconfirmed_notes older than 7 days
  notes,       \* rows of notes: leaf_index and txn_id
  dbErrors     \* statements that failed so far (for the bound only)

dbVars == <<unconfirmed, stale, notes, dbErrors>>

DbInit ==
  /\ unconfirmed = {}
  /\ stale = {}
  /\ notes = {}
  /\ dbErrors = 0

\* The txn_ids in each table.
Pending   == {TxnOf[q] : q \in unconfirmed}
Receipted == {n.txn : n \in notes}

\* A statement fails for a reason that is not a constraint: database locked
\* beyond busy_timeout, disk full, encryption of the nullifier failing.
DbError ==
  /\ dbErrors < MaxDbErrors
  /\ dbErrors' = dbErrors + 1
  /\ UNCHANGED <<unconfirmed, stale, notes>>

\* Mutant: txn_id is not UNIQUE.
RegisterAllowedNotUnique(q) == TRUE

\* unconfirmed_notes.txn_id is UNIQUE.
RegisterAllowed(q) == TxnOf[q] \notin Pending

RegisterUnconfirmedNote(q) ==
  /\ RegisterAllowed(q)
  /\ unconfirmed' = unconfirmed \cup {q}
  /\ UNCHANGED <<stale, notes, dbErrors>>

\* notes.leaf_index is the PRIMARY KEY, notes.txn_id is UNIQUE.
InsertAllowed(leaf, t) == \A n \in notes : n.leaf # leaf /\ n.txn # t

\* isNoteConfirmed: SaveNote refuses a note whose leaf index was not set.  Its
\* txn_id was set when the group was built.
SaveAllowed(leaf, t) == leaf # EmptyLeafIndex /\ InsertAllowed(leaf, t)

SaveNote(leaf, t) ==
  /\ SaveAllowed(leaf, t)
  /\ notes' = notes \cup {[leaf |-> leaf, txn |-> t]}
  /\ UNCHANGED <<unconfirmed, stale, dbErrors>>

DeleteUnconfirmedNote(q) ==
  /\ unconfirmed' = unconfirmed \ {q}
  /\ stale' = stale \ {q}
  /\ UNCHANGED <<notes, dbErrors>>

\* The SQL transaction of the cleanup: INSERT INTO notes and DELETE FROM
\* unconfirmed_notes commit together or not at all.
MoveNote(q, leaf) ==
  /\ InsertAllowed(leaf, TxnOf[q])
  /\ notes' = notes \cup {[leaf |-> leaf, txn |-> TxnOf[q]]}
  /\ unconfirmed' = unconfirmed \ {q}
  /\ stale' = stale \ {q}
  /\ UNCHANGED dbErrors

=============================================================================
