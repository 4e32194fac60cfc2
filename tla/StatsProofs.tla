----------------------------- MODULE StatsProofs -----------------------------
(***************************************************************************)
(* When a subtraction of the statistics page wraps below zero.  Every      *)
(* prefix of the chain holds at least as many deposits as withdrawals, and *)
(* a poll delivers its deposits first: a row of a withdrawal without the   *)
(* row of a deposit before it means that the deposit is lost.  Between the *)
(* two queries of the page rows are added and none is deleted.             *)
(***************************************************************************)
EXTENDS Stats, SubscriberProofs, WellFoundedInduction

\* No prefix of the chain has more withdrawals than deposits.
PrefixesSpendable ==
  \A i \in 0 .. Len(calls) :
    Cardinality(Withdrawals \cap (1..i)) <= Cardinality(Deposits \cap (1..i))

ADepositIsLost == \E c \in LostNotes : Kind(c) = "deposit"

\* What the page has read so far.
PageInv ==
  reading # "idle" =>
    /\ totals.count_deposits \in Nat /\ totals.total_withdrawals \in Nat
    /\ totals.total_deposits = 2 * totals.count_deposits
    /\ totals.total_fees = totals.total_withdrawals
    /\ totals.total_withdrawals > totals.count_deposits => ADepositIsLost
    /\ IF reading = "page" THEN noteCount \in Nat /\ totals.count_deposits <= noteCount
       ELSE totals.count_deposits <= Cardinality(txns)

\* The page reads txns.db and changes nothing the subscriber knows.
LEMMA StatsRefines == StatsSpec => Spec
<1>1. StatsInit => Init
  BY DEF StatsInit
<1>2. [StatsNext]_<<vars, statsVars>> => [Next]_vars
  BY DEF StatsNext, ReadTotals, ReadNoteCount, PageSent
<1> QED
  BY <1>1, <1>2, PTL DEF StatsSpec, Spec

\* The circuit of the withdrawals keeps each prefix of the chain spendable.
LEMMA PrefixesStay ==
  ASSUME PrefixesSpendable, SubscriberInv, [Next]_vars
  PROVE  PrefixesSpendable'
<1>1. CASE UNCHANGED calls
  BY <1>1, SameChain DEF PrefixesSpendable
<1>2. ASSUME NEW kind \in Kinds, Call(kind) PROVE PrefixesSpendable'
  <2>1. PICK new : new = Len(calls) + 1
    OBVIOUS
  <2>2. /\ Calls' = Calls \cup {new} /\ new \in Nat /\ \A c \in Calls : c < new
        /\ \A c \in Calls : Kind(c)' = Kind(c)
        /\ Kind(new)' = kind
        /\ kind # "deposit" => Cardinality(Withdrawals) < Cardinality(Deposits)
    BY <1>2, <2>1, CallAppended DEF SubscriberInv
  <2>3. /\ Len(calls) \in Nat /\ Calls = 1 .. Len(calls) /\ Len(calls') = new
        /\ IsFiniteSet(Withdrawals) /\ IsFiniteSet(Deposits)
    <3>1. Len(calls) \in Nat /\ Calls = 1 .. Len(calls) /\ Len(calls') = Len(calls) + 1
      BY <1>2, CallFacts DEF SubscriberInv, TypeOK, Call, Calls
    <3>2. IsFiniteSet(Calls)
      BY <3>1, FS_Interval
    <3>3. Withdrawals \subseteq Calls /\ Deposits \subseteq Calls
      BY DEF Withdrawals, Deposits
    <3> QED
      BY <2>1, <3>1, <3>2, <3>3, FS_Subset
  <2>4. /\ Deposits' = IF kind = "deposit" THEN Deposits \cup {new} ELSE Deposits
        /\ Withdrawals' = IF kind = "deposit" THEN Withdrawals ELSE Withdrawals \cup {new}
    BY <2>2 DEF Deposits, Withdrawals
  <2>5. Deposits \subseteq 1 .. Len(calls) /\ Withdrawals \subseteq 1 .. Len(calls)
    BY DEF Deposits, Withdrawals, Calls
  <2> SUFFICES ASSUME NEW i \in 0 .. new
               PROVE  Cardinality(Withdrawals' \cap (1..i)) <= Cardinality(Deposits' \cap (1..i))
    BY <2>3 DEF PrefixesSpendable
  <2>6. CASE i < new
    <3>1. i \in 0 .. Len(calls)
      BY <2>1, <2>3, <2>6
    <3>2. Withdrawals' \cap (1..i) = Withdrawals \cap (1..i)
          /\ Deposits' \cap (1..i) = Deposits \cap (1..i)
      BY <2>2, <2>4, <2>6
    <3> QED
      BY <3>1, <3>2 DEF PrefixesSpendable
  <2>7. CASE i = new
    <3>1. /\ Cardinality(Withdrawals) <= Cardinality(Deposits)
          /\ Withdrawals' \cap (1..i) = Withdrawals' /\ Deposits' \cap (1..i) = Deposits'
      <4>1. Withdrawals \cap (1 .. Len(calls)) = Withdrawals
            /\ Deposits \cap (1 .. Len(calls)) = Deposits
        BY <2>5
      <4>2. Cardinality(Withdrawals) <= Cardinality(Deposits)
        BY <2>3, <4>1 DEF PrefixesSpendable
      <4>3. 1 .. Len(calls) \subseteq 1..i /\ new \in 1..i
        BY <2>1, <2>3, <2>7
      <4>4. Withdrawals' \subseteq Withdrawals \cup {new} /\ Deposits' \subseteq Deposits \cup {new}
        BY <2>4
      <4>5. Withdrawals' \subseteq 1..i /\ Deposits' \subseteq 1..i
        BY <2>5, <4>3, <4>4
      <4> QED
        BY <4>2, <4>5
    <3>2. new \notin Withdrawals /\ new \notin Deposits
      BY <2>1, <2>3, <2>5
    <3>3. Cardinality(Withdrawals) \in Nat /\ Cardinality(Deposits) \in Nat
      BY <2>3, FS_CardinalityType
    <3>4. CASE kind = "deposit"
      <4>1. Cardinality(Deposits') = Cardinality(Deposits) + 1
        BY <2>3, <2>4, <3>2, <3>4, FS_AddElement
      <4>2. Withdrawals' = Withdrawals
        BY <2>4, <3>4
      <4> QED
        BY <3>1, <3>3, <4>1, <4>2
    <3>5. CASE kind # "deposit"
      <4>1. Cardinality(Withdrawals') = Cardinality(Withdrawals) + 1
        BY <2>3, <2>4, <3>2, <3>5, FS_AddElement
      <4>2. Deposits' = Deposits
        BY <2>4, <3>5
      <4>3. Cardinality(Withdrawals) < Cardinality(Deposits)
        BY <2>2, <3>5
      <4>4. Cardinality(Withdrawals) + 1 <= Cardinality(Deposits)
        BY <3>3, <4>3
      <4> QED
        BY <3>1, <4>1, <4>2, <4>4
    <3> QED
      BY <3>4, <3>5
  <2> QED
    BY <2>2, <2>3, <2>6, <2>7
<1>3. UNCHANGED calls \/ \E kind \in Kinds : Call(kind)
  BY DEF Next, Grow, NewBlock, Start, Poll, BeginPoll, HandleTransaction,
         HandleTransactionFails, PollFails, EndPoll, EndPollFails, Crash, vars, vaultVars
<1> QED
  BY <1>1, <1>2, <1>3

\* A set of calls is empty or has a last one.
LEMMA LastCall ==
  ASSUME TypeOK, NEW S, S \subseteq Calls
  PROVE  \E i \in 0 .. Len(calls) : S \subseteq 1..i /\ (i = 0 \/ i \in S)
<1> DEFINE Less == {ss \in Nat \X Nat : ss[1] < ss[2]}
           Bounds == {i \in 0 .. Len(calls) : S \subseteq 1..i}
<1>1. Len(calls) \in Nat /\ S \subseteq 1 .. Len(calls)
  BY CallFacts DEF Calls
<1>2. Bounds \subseteq Nat /\ Bounds # {}
  BY <1>1
<1>3. IsWellFoundedOn(Less, Nat)
  BY NatLessThanWellFounded DEF OpToRel
<1> HIDE DEF Less, Bounds
<1>4. PICK i \in Bounds : \A j \in Bounds : ~(<<j, i>> \in Less)
  BY <1>2, <1>3, WFMin
<1>5. \A j \in Bounds : ~(j < i)
  BY <1>2, <1>4 DEF Less
<1>6. i \in 0 .. Len(calls) /\ S \subseteq 1..i
  BY <1>4 DEF Bounds
<1>7. i = 0 \/ i \in S
  <2> SUFFICES ASSUME i # 0, i \notin S PROVE i - 1 \in Bounds
    BY <1>1, <1>5, <1>6
  <2> QED
    BY <1>1, <1>6 DEF Bounds
<1> QED
  BY <1>6, <1>7

\* There are no more rows of withdrawals than of deposits, unless a deposit is
\* lost.
LEMMA RowsSpendable ==
  ASSUME SubscriberInv, PrefixesSpendable, ~ADepositIsLost
  PROVE  Cardinality(WithdrawalRows) <= Cardinality(DepositRows)
<1>1. TypeOK /\ DeliveryInv /\ txns \subseteq Calls
  BY DEF SubscriberInv, TypeOK
<1>2. PICK i \in 0 .. Len(calls) :
        WithdrawalRows \subseteq 1..i /\ (i = 0 \/ i \in WithdrawalRows)
  BY <1>1, LastCall DEF WithdrawalRows
<1>3. WithdrawalRows \subseteq Withdrawals \cap (1..i)
  BY <1>2 DEF WithdrawalRows
<1>4. Deposits \cap (1..i) \subseteq DepositRows
  <2> SUFFICES ASSUME NEW d \in Deposits, d \in 1..i PROVE d \in txns
    BY DEF DepositRows
  <2>1. i \in txns /\ i \in Withdrawals /\ d \in Calls /\ d # i
    BY <1>2 DEF WithdrawalRows, Deposits, Withdrawals
  <2>2. d < i /\ i \notin Deposits
    BY <2>1, <1>2 DEF Deposits, Withdrawals
  <2>3. d \in txns \/ d \in Skipped
    BY <1>1, <2>1, <2>2 DEF DeliveryInv
  <2>4. d \in Notes
    BY DEF Deposits, Notes
  <2> QED
    BY <2>3, <2>4 DEF ADepositIsLost, LostNotes, Deposits
<1>5. /\ IsFiniteSet(Withdrawals \cap (1..i)) /\ IsFiniteSet(DepositRows)
      /\ IsFiniteSet(WithdrawalRows) /\ IsFiniteSet(Deposits \cap (1..i))
  <2>1. IsFiniteSet(Calls) /\ IsFiniteSet(DepositRows) /\ IsFiniteSet(WithdrawalRows)
    BY <1>1, RowsFinite
  <2>2. Withdrawals \cap (1..i) \subseteq Calls /\ Deposits \cap (1..i) \subseteq Calls
    BY DEF Withdrawals, Deposits
  <2> QED
    BY <2>1, <2>2, FS_Subset
<1>6. Cardinality(WithdrawalRows) <= Cardinality(Withdrawals \cap (1..i))
  BY <1>3, <1>5, FS_Subset
<1>7. Cardinality(Deposits \cap (1..i)) <= Cardinality(DepositRows)
  BY <1>4, <1>5, FS_Subset
<1>8. Cardinality(Withdrawals \cap (1..i)) <= Cardinality(Deposits \cap (1..i))
  BY <1>2 DEF PrefixesSpendable
<1>9. /\ Cardinality(WithdrawalRows) \in Nat /\ Cardinality(DepositRows) \in Nat
      /\ Cardinality(Withdrawals \cap (1..i)) \in Nat
      /\ Cardinality(Deposits \cap (1..i)) \in Nat
  BY <1>5, FS_CardinalityType
<1> QED
  BY <1>6, <1>7, <1>8, <1>9

\* What the first query of the page reads.
LEMMA TotalsOfRows ==
  ASSUME SubscriberInv, StatsAgree, PrefixesSpendable
  PROVE  /\ stats.count_deposits \in Nat /\ stats.total_withdrawals \in Nat
         /\ stats.total_deposits = 2 * stats.count_deposits
         /\ stats.total_fees = stats.total_withdrawals
         /\ stats.total_withdrawals > stats.count_deposits => ADepositIsLost
         /\ stats.count_deposits <= Cardinality(txns)
<1> DEFINE d == Cardinality(DepositRows)
           w == Cardinality(WithdrawalRows)
<1>1. d \in Nat /\ w \in Nat /\ d <= Cardinality(txns)
  BY RowsFinite DEF SubscriberInv
<1>2. ~ADepositIsLost => w <= d
  BY RowsSpendable
<1>3. stats = [total_deposits |-> d * 2, total_withdrawals |-> w * 1,
               total_fees |-> w * 1, count_deposits |-> d]
  BY TotalsAreCounts DEF DepositAmount, WithdrawalAmount, WithdrawalFee
<1> HIDE DEF d, w
<1> QED
  BY <1>1, <1>2, <1>3

\* No row of txns is ever deleted, and a lost deposit stays lost.
LEMMA RowsGrow ==
  ASSUME SubscriberInv, SubscriberInv', [Next]_vars
  PROVE  /\ Cardinality(txns) \in Nat /\ Cardinality(txns') \in Nat
         /\ Cardinality(txns) <= Cardinality(txns')
         /\ ADepositIsLost => ADepositIsLost'
<1>1. txns \subseteq txns'
  BY DEF Next, Grow, Start, SetWatermark, Poll, BeginPoll, HandleTransaction, Save,
         HandleTransactionFails, PollFails, EndPoll, EndPollFails, Crash, vars,
         txnsDbVars
<1>2. IsFiniteSet(txns) /\ IsFiniteSet(txns')
  <2>1. IsFiniteSet(txns)
    BY RowsFinite DEF SubscriberInv
  <2>2. TypeOK'
    BY DEF SubscriberInv
  <2>3. txns' \subseteq Calls' /\ Len(calls') \in Nat /\ Calls' = 1 .. Len(calls')
    BY <2>2 DEF TypeOK, Calls
  <2>4. IsFiniteSet(Calls')
    BY <2>3, FS_Interval
  <2> QED
    BY <2>1, <2>3, <2>4, FS_Subset
<1>3. ADepositIsLost => ADepositIsLost'
  <2>1. ADepositIsLost <=> LostNotes \cap Deposits # {}
    BY DEF ADepositIsLost, LostNotes, Skipped, Deposits
  <2>2. ADepositIsLost' <=> LostNotes' \cap Deposits' # {}
    BY DEF ADepositIsLost, LostNotes, Skipped, Deposits
  <2>3. LostNotes \subseteq LostNotes' /\ LostNotes \subseteq Calls
    BY LostStep DEF LostNotes, Skipped
  <2> QED
    BY <2>1, <2>2, <2>3, NotesStay
<1> QED
  BY <1>1, <1>2, <1>3, FS_Subset, FS_CardinalityType

\* The second query sees the rows of the first one at least.
LEMMA PageStep ==
  ASSUME SubscriberInv, SubscriberInv', StatsAgree, PrefixesSpendable, PageInv,
         [StatsNext]_<<vars, statsVars>>
  PROVE  PageInv'
<1> DEFINE rows == Cardinality(txns)
<1>1. /\ rows \in Nat /\ rows' \in Nat /\ rows <= rows'
      /\ ADepositIsLost => ADepositIsLost'
  <2>1. [Next]_vars
    BY DEF StatsNext, ReadTotals, ReadNoteCount, PageSent
  <2> QED
    BY <2>1, RowsGrow
<1> HIDE DEF rows
<1>2. CASE UNCHANGED statsVars
  BY <1>1, <1>2 DEF PageInv, statsVars, rows
<1>3. CASE ReadTotals
  <2>1. /\ reading' = "totals" /\ totals' = stats /\ rows' = rows
    BY <1>3 DEF ReadTotals, vars, txnsDbVars, rows
  <2> QED
    BY <1>1, <2>1, TotalsOfRows DEF PageInv, rows
<1>4. CASE ReadNoteCount
  <2>1. reading = "totals" /\ reading' = "page" /\ noteCount' = rows /\ totals' = totals
    BY <1>4 DEF ReadNoteCount, rows
  <2> QED
    BY <1>1, <2>1 DEF PageInv, rows
<1>5. CASE PageSent
  BY <1>5 DEF PageSent, PageInv
<1> QED
  BY <1>2, <1>3, <1>4, <1>5 DEF StatsNext

\* stats.go:47 and models.go:65: the count of spent notes never wraps in
\* uint64, whatever the subscriber saves between the two queries, and the value
\* locked only after the subscriber lost a deposit.
THEOREM PageIsSound == StatsSpec => []PageWrapsOnlyByLoss
<1>1. StatsInit => PrefixesSpendable /\ PageInv
  <2> SUFFICES ASSUME StatsInit PROVE PrefixesSpendable /\ PageInv
    OBVIOUS
  <2>1. Len(calls) = 0 /\ Calls = {} /\ reading = "idle"
    BY DEF StatsInit, Init, VaultInit, Calls
  <2>2. \A i : Withdrawals \cap (1..i) = {} /\ Deposits \cap (1..i) = {}
    BY <2>1 DEF Withdrawals, Deposits
  <2>3. \A i : Cardinality(Withdrawals \cap (1..i)) <= Cardinality(Deposits \cap (1..i))
    BY <2>2, FS_EmptySet
  <2> QED
    BY <2>1, <2>3 DEF PrefixesSpendable, PageInv
<1>2. StatsSpec => []SubscriberInv /\ []StatsAgree
  BY StatsRefines, SubscriberInvariant, TotalsAgree, PTL
<1>3. SubscriberInv /\ SubscriberInv' /\ StatsAgree /\ PrefixesSpendable /\ PageInv
        /\ [StatsNext]_<<vars, statsVars>> => PrefixesSpendable' /\ PageInv'
  <2>1. [StatsNext]_<<vars, statsVars>> => [Next]_vars
    BY DEF StatsNext, ReadTotals, ReadNoteCount, PageSent
  <2> QED
    BY <2>1, PrefixesStay, PageStep
<1>4. PageInv => PageWrapsOnlyByLoss
  <2> SUFFICES ASSUME PageInv, reading = "page"
               PROVE  SpentNoteCount >= 0 /\ (TVL < 0 => ADepositIsLost)
    BY DEF PageWrapsOnlyByLoss, ADepositIsLost
  <2> QED
    BY DEF PageInv, SpentNoteCount, TVL
<1> QED
  BY <1>1, <1>2, <1>3, <1>4, PTL DEF StatsSpec

=============================================================================
