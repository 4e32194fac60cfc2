-------------------------------- MODULE Stats --------------------------------
(***************************************************************************)
(* StatsHandler and db.GetStats of the frontend: two queries of txns.db,   *)
(* between which the subscriber may save more, and the page that is        *)
(* computed from their results with uint64 subtractions.                   *)
(***************************************************************************)
EXTENDS Subscriber

VARIABLES
  reading,   \* "idle", "totals" after the first query, "page" when rendered
  totals,    \* result of the first query
  noteCount  \* result of the second query

statsVars == <<reading, totals, noteCount>>

StatsInit ==
  /\ Init
  /\ reading = "idle"
  /\ totals = NoTotals
  /\ noteCount = 0

ReadTotals ==
  /\ reading = "idle"
  /\ reading' = "totals"
  /\ totals' = stats
  /\ UNCHANGED <<noteCount, vars>>

ReadNoteCount ==
  /\ reading = "totals"
  /\ reading' = "page"
  /\ noteCount' = Cardinality(txns)
  /\ UNCHANGED <<totals, vars>>

PageSent ==
  /\ reading = "page"
  /\ reading' = "idle"
  /\ totals' = NoTotals
  /\ noteCount' = 0
  /\ UNCHANGED vars

StatsNext ==
  \/ Next /\ UNCHANGED statsVars
  \/ ReadTotals \/ ReadNoteCount \/ PageSent

StatsSpec == StatsInit /\ [][StatsNext]_<<vars, statsVars>> /\ Fairness

SpentNoteCount == noteCount - totals.count_deposits
TVL == totals.total_deposits - totals.total_withdrawals - totals.total_fees

\* The subtractions of the page (stats.go:47, models.go:65) are in uint64, and
\* its two queries are of two moments.  The count of spent notes never wraps,
\* and the value locked only when the subscriber lost a deposit whose money a
\* saved withdrawal took out.
PageWrapsOnlyByLoss ==
  reading = "page" =>
    /\ SpentNoteCount >= 0
    /\ TVL < 0 => \E c \in LostNotes : Kind(c) = "deposit"

=============================================================================
