----------------------------- MODULE Subscriber -----------------------------
(***************************************************************************)
(* The subscriber service (subscriber-service/main.py): it polls the chain *)
(* from its watermark, saves the calls of the poll in txns.db, and moves   *)
(* the watermark to the end of the poll.  It may crash, and a statement    *)
(* may fail, between any two of these steps.                               *)
(*                                                                         *)
(* The polling loop is that of the library AlgorandSubscriber.  It reads   *)
(* the blocks of a poll at once and then hands over the transactions of    *)
(* one filter after those of the other, in the order the filters are given *)
(* (main.py:170): every deposit of the poll before its first withdrawal.   *)
(* An exception of the handler or of set_watermark ends the poll; the      *)
(* error handler of the service only logs it, and the loop goes on or the  *)
(* process ends, both of which are allowed here.                           *)
(***************************************************************************)
EXTENDS TxnsDb

CONSTANTS
  MaxRoundsToSync, \* rounds one poll covers at most
  MaxFailures,     \* bound on the statements that fail
  MaxCrashes       \* bound on the crashes

ASSUME SubscriberAssumption ==
  MaxRoundsToSync \in Nat \ {0} /\ MaxFailures \in Nat /\ MaxCrashes \in Nat

VARIABLES
  phase,        \* "down", "idle" between polls, or "poll"
  watermark,    \* the global variable
  batch,        \* calls of the poll that are not handled yet
  newWatermark, \* the last round of the poll
  failures, crashes

subscriberVars == <<phase, watermark, batch, newWatermark, failures, crashes>>
vars == <<vaultVars, txnsDbVars, subscriberVars>>

Init ==
  /\ VaultInit
  /\ TxnsDbInit
  /\ phase = "down"
  /\ watermark = 0
  /\ batch = {}
  /\ newWatermark = 0
  /\ failures = 0
  /\ crashes = 0

\* Mutant: each start sets the watermark to the creation of the application.
StartOver ==
  /\ phase = "down"
  /\ phase' = "idle"
  /\ SetWatermark(CreationBlock) /\ watermark' = CreationBlock
  /\ UNCHANGED <<batch, newWatermark, failures, crashes, vaultVars>>

\* init(): the watermark comes from the database, and skips the blocks before
\* the application.
Start ==
  /\ phase = "down"
  /\ phase' = "idle"
  /\ IF watermarkDb < CreationBlock
     THEN SetWatermark(CreationBlock) /\ watermark' = CreationBlock
     ELSE UNCHANGED txnsDbVars /\ watermark' = watermarkDb
  /\ UNCHANGED <<batch, newWatermark, failures, crashes, vaultVars>>

\* The calls of the rounds above one and up to the other.
CallsOf(above, upTo) == {c \in Calls : above < Round(c) /\ Round(c) <= upTo}

\* Mutant: a poll leaves out the last round of the chain.
PollEndBehind(from) ==
  IF round - 1 < from + MaxRoundsToSync THEN round - 1 ELSE from + MaxRoundsToSync

\* The last round of a poll that starts from a watermark.
PollEnd(from) ==
  IF round < from + MaxRoundsToSync THEN round ELSE from + MaxRoundsToSync

\* Mutant: a poll is not cut at the last round of the chain.
BeginPollUncut ==
  /\ phase = "idle"
  /\ watermark < round
  /\ phase' = "poll"
  /\ newWatermark' = watermark + MaxRoundsToSync
  /\ batch' = CallsOf(watermark, newWatermark')
  /\ UNCHANGED <<watermark, failures, crashes, vaultVars, txnsDbVars>>

\* Mutant: a poll reads the block of the watermark again.
BeginPollAgain ==
  /\ phase = "idle"
  /\ watermark < round
  /\ phase' = "poll"
  /\ newWatermark' = PollEnd(watermark)
  /\ batch' = CallsOf(watermark - 1, newWatermark')
  /\ UNCHANGED <<watermark, failures, crashes, vaultVars, txnsDbVars>>

BeginPoll ==
  /\ phase = "idle"
  /\ watermark < round
  /\ phase' = "poll"
  /\ newWatermark' = PollEnd(watermark)
  /\ batch' = CallsOf(watermark, newWatermark')
  /\ UNCHANGED <<watermark, failures, crashes, vaultVars, txnsDbVars>>

\* Mutant: the filters are given in the other order.
WithdrawalsFirst(c, d) ==
  IF c \in Deposits <=> d \in Deposits THEN c <= d ELSE d \in Deposits

\* The order in which the calls of a poll are delivered: the filters one after
\* the other, and for each filter the order of the chain.
Before(c, d) ==
  IF c \in Deposits <=> d \in Deposits THEN c <= d ELSE c \in Deposits

FirstOf(c) == c \in batch /\ \A d \in batch : Before(c, d)

HandleTransaction(c) ==
  /\ phase = "poll"
  /\ FirstOf(c)
  /\ Save(c)
  /\ batch' = batch \ {c}
  /\ UNCHANGED <<phase, watermark, newWatermark, failures, crashes, vaultVars>>

\* The poll ends with an exception.
PollFails ==
  /\ phase' \in {"idle", "down"}
  /\ batch' = {}
  /\ UNCHANGED <<newWatermark, crashes, vaultVars>>

Failure == failures < MaxFailures /\ failures' = failures + 1

\* Mutant: the handler swallows the exception, and the poll goes on.
SwallowFailure(c) ==
  /\ phase = "poll"
  /\ FirstOf(c)
  /\ IF SaveAllowed(c) THEN Failure ELSE UNCHANGED failures
  /\ batch' = batch \ {c}
  /\ UNCHANGED <<phase, newWatermark, crashes, vaultVars, watermark, txnsDbVars>>

\* The leaf index has a row already (IntegrityError, which is not retried), or
\* the retries of an OperationalError are used up: rollback.
HandleTransactionFails(c) ==
  /\ phase = "poll"
  /\ FirstOf(c)
  /\ IF SaveAllowed(c) THEN Failure ELSE UNCHANGED failures
  /\ PollFails
  /\ UNCHANGED <<watermark, txnsDbVars>>

EndPoll ==
  /\ phase = "poll"
  /\ batch = {}
  /\ phase' = "idle"
  /\ watermark' = newWatermark
  /\ SetWatermark(newWatermark)
  /\ UNCHANGED <<batch, newWatermark, failures, crashes, vaultVars>>

\* set_watermark assigns the variable before it writes the row.
EndPollFails ==
  /\ phase = "poll"
  /\ batch = {}
  /\ Failure
  /\ watermark' = newWatermark
  /\ PollFails
  /\ UNCHANGED txnsDbVars

Crash ==
  /\ phase # "down"
  /\ crashes < MaxCrashes
  /\ crashes' = crashes + 1
  /\ phase' = "down"
  /\ batch' = {}
  /\ UNCHANGED <<watermark, newWatermark, failures, vaultVars, txnsDbVars>>

Grow ==
  /\ NewBlock \/ \E kind \in Kinds : Call(kind)
  /\ UNCHANGED <<txnsDbVars, subscriberVars>>

Poll ==
  \/ BeginPoll
  \/ \E c \in batch : HandleTransaction(c) \/ HandleTransactionFails(c)
  \/ EndPoll \/ EndPollFails

Next == Grow \/ Start \/ Poll \/ Crash

\* The service manager restarts the process, and the loop of the library
\* polls.
Fairness == WF_vars(Start) /\ WF_vars(Poll)

Spec == Init /\ [][Next]_vars

FairSpec == Spec /\ Fairness

-----------------------------------------------------------------------------

\* The values each variable takes.
TypeOK ==
  /\ calls \in Seq([kind : Kinds, leaf : Nat, round : Nat])
  /\ round \in Nat \ {0}
  /\ txns \subseteq Calls
  /\ leafCount \in 0..TreeSize
  /\ stats \in [total_deposits : Nat, total_withdrawals : Nat, total_fees : Nat,
               count_deposits : Nat]
  /\ watermarkDb \in 0..round
  /\ phase \in {"down", "idle", "poll"}
  /\ watermark \in 0..round
  /\ batch \subseteq Calls
  /\ newWatermark \in 0..round
  /\ failures \in 0..MaxFailures
  /\ crashes \in 0..MaxCrashes

\* Where the next poll, or the next process, takes up the chain.
ResumePoint == IF phase = "down" THEN watermarkDb ELSE watermark

\* The calls without a row that the service has left behind: no poll reads
\* them any more.
Skipped == {c \in Calls \ txns : Round(c) <= ResumePoint}

LostNotes == Skipped \cap Notes

\* main.py:5: each new note is saved, so none is left behind.
NoNoteSkipped == LostNotes = {}

\* db.py:43, main.py:53: a note is lost only when the process ends in a poll
\* that has saved a row of a later watermark, never by a poll that fails and
\* is tried again, nor by one that comes to its end.
LostOnlyWithProcess ==
  [][/\ LostNotes \subseteq LostNotes'
     /\ LostNotes' # LostNotes =>
          phase # "down" /\ phase' = "down" /\ watermark < watermarkDb]_vars

\* db.go:104: the roots row counts the leaf of each withdrawal with a row.  It
\* lags behind a row only of a deposit that its poll delivered before an
\* earlier withdrawal, to whose tree the root belongs.
RootLagsByDeposits ==
  \A c \in txns :
    Leaf(c) >= leafCount =>
      /\ Kind(c) = "deposit"
      /\ \E w \in txns : Leaf(w) = leafCount - 1 /\ Kind(w) # "deposit"

\* parse.py:77: a withdrawal with no_change has a row only in the place of a
\* lost note, whose leaf index it logs.
SpoiledOnlyWhenLost ==
  \A c \in txns : Kind(c) = "noChange" => \E i \in LostNotes : Leaf(i) = Leaf(c)

\* The totals are those of the rows of txns, whatever failed or crashed.
StatsAgree ==
  LET deposits == Cardinality(txns \cap Deposits)
      withdrawals == Cardinality(txns \cap Withdrawals)
  IN stats = [total_deposits    |-> deposits * DepositAmount,
              total_withdrawals |-> withdrawals * WithdrawalAmount,
              total_fees        |-> withdrawals * WithdrawalFee,
              count_deposits    |-> deposits]

\* main.py:53-56, db.py:43: the row of the watermark goes back only from one
\* transaction of a poll to another, and not to a block of a poll before.
WatermarkBackOnlyInPoll ==
  [][watermarkDb' < watermarkDb =>
       phase = "poll" /\ phase' = "poll" /\ watermark < watermarkDb']_vars

\* Every note is saved in the end.
EverythingSaved ==
  \A c \in 1 .. MaxCalls : (c \in Notes /\ Round(c) <= round) ~> (c \in txns)

\* The next poll comes to a call whose INSERT fails each time (db.py:207): its
\* leaf index has a row, or will have that of another call of the poll.
Blocked ==
  \E c \in CallsOf(ResumePoint, PollEnd(ResumePoint)) :
    \E d \in txns \cup CallsOf(ResumePoint, PollEnd(ResumePoint)) :
      Leaf(d) = Leaf(c) /\ (d \in txns \/ d # c)

\* Unless from some moment on every poll is blocked, each note is saved or
\* lost in the end, whatever fails or crashes.
SavedUnlessBlocked ==
  \/ <>[](phase # "poll" => Blocked)
  \/ \A c \in 1 .. MaxCalls :
       (c \in Notes /\ Round(c) <= round) ~> (c \in txns \cup LostNotes)

-----------------------------------------------------------------------------

\* txns.db keeps the promises of ChainMirror to its readers.
Mirror == INSTANCE ChainMirror
  WITH leaves  <- TreeSize,
       txns    <- {Leaf(c) : c \in txns \cap Notes},
       spoiled <- {Leaf(c) : c \in txns \ Notes}

MirrorsChain == Mirror!Spec

-----------------------------------------------------------------------------
(* The inductive invariant. *)

\* Rounds and leaves grow along the chain, and the leaf that a withdrawal with
\* no_change logs was appended before it.
ChainInv ==
  /\ \A c \in Calls : CreationBlock < Round(c) /\ Round(c) <= round + 1
  /\ \A c, d \in Calls : c < d =>
       /\ Round(c) <= Round(d) /\ Leaf(c) <= Leaf(d)
       /\ d \in Notes => Leaf(c) < Leaf(d)
  /\ \A c \in Calls : \E i \in Notes : i <= c /\ Leaf(i) = Leaf(c)

\* What a poll has not saved yet is in its batch; the row of the watermark is
\* behind the end of the poll, and no note is lost above it.
PollInv ==
  /\ phase # "down" =>
       /\ watermarkDb <= PollEnd(watermark)
       /\ \A c \in Skipped : Round(c) <= watermarkDb
  /\ phase = "poll" =>
       /\ watermarkDb <= newWatermark
       /\ watermark <= newWatermark /\ newWatermark <= PollEnd(watermark)
       /\ batch \subseteq CallsOf(watermark, newWatermark)
       /\ CallsOf(watermark, newWatermark) \subseteq txns \cup batch

\* A call that is still to come is earlier than a row only if it is a
\* withdrawal and the row that of a deposit.
DeliveryInv ==
  \A c \in txns, d \in Calls \ (txns \cup Skipped) :
    d < c => c \in Deposits /\ d \in Withdrawals

\* A leaf has one row at most.
PrimaryKey == \A c, d \in txns : Leaf(c) = Leaf(d) => c = d

SubscriberInv ==
  /\ TypeOK /\ ChainInv /\ PollInv /\ DeliveryInv
  /\ PrimaryKey /\ RootLagsByDeposits /\ SpoiledOnlyWhenLost

=============================================================================
