-------------------------- MODULE SubscriberProofs --------------------------
(***************************************************************************)
(* What the subscriber service keeps for every chain, however many calls a *)
(* block or a poll holds, whatever fails and wherever it crashes.          *)
(* SubscriberInv of Subscriber is the inductive invariant: the order of    *)
(* the filters inside a poll (DeliveryInv), with what a poll has in its    *)
(* batch (PollInv), says which calls can be missing beside a row.          *)
(***************************************************************************)
EXTENDS Subscriber, SequenceTheorems, FiniteSetTheorems, TLAPS

CallType == [kind : Kinds, leaf : Nat, round : Nat]

Totals == [total_deposits : Nat, total_withdrawals : Nat, total_fees : Nat,
           count_deposits : Nat]

\* The calls are numbered, and what they carry has its type.
LEMMA CallFacts ==
  ASSUME TypeOK
  PROVE  /\ Len(calls) \in Nat /\ Calls \subseteq Nat \ {0}
         /\ \A c \in Calls : Kind(c) \in Kinds /\ Leaf(c) \in Nat /\ Round(c) \in Nat
         /\ TreeSize \in Nat
<1>1. calls \in Seq(CallType) /\ Len(calls) \in Nat
  BY DEF TypeOK, CallType
<1>2. \A c \in Calls : calls[c] \in CallType
  BY <1>1, ElementOfSeq DEF Calls
<1>3. \A c \in Calls : Kind(c) \in Kinds /\ Leaf(c) \in Nat /\ Round(c) \in Nat
  BY <1>2 DEF CallType, Kind, Leaf, Round
<1>4. calls # << >> => Len(calls) \in Calls
  BY <1>1 DEF Calls
<1> QED
  BY <1>1, <1>3, <1>4 DEF Calls, TreeSize

\* The tree has the leaf of every call.
LEMMA LeavesBelow ==
  ASSUME TypeOK, ChainInv
  PROVE  \A c \in Calls : Leaf(c) \in 0 .. TreeSize - 1
<1> SUFFICES ASSUME NEW c \in Calls PROVE Leaf(c) \in 0 .. TreeSize - 1
  OBVIOUS
<1>1. Len(calls) \in Calls /\ calls # << >> /\ c <= Len(calls)
  BY CallFacts DEF Calls
<1>2. Leaf(c) <= Leaf(Len(calls))
  BY <1>1, CallFacts DEF ChainInv
<1> QED
  BY <1>1, <1>2, CallFacts DEF TreeSize

\* A call comes after the others, and logs a leaf of the tree.
LEMMA CallAppended ==
  ASSUME TypeOK, NEW kind \in Kinds, Call(kind), NEW new, new = Len(calls) + 1
  PROVE  /\ calls' \in Seq(CallType) /\ round' = round
         /\ Calls' = Calls \cup {new} /\ new \in Nat /\ \A c \in Calls : c < new
         /\ \A c \in Calls : Kind(c)' = Kind(c) /\ Leaf(c)' = Leaf(c) /\ Round(c)' = Round(c)
         /\ Kind(new)' = kind /\ Round(new)' = round + 1
         /\ Leaf(new)' = IF kind = "noChange" THEN TreeSize - 1 ELSE TreeSize
         /\ Leaf(new)' \in Nat /\ TreeSize' = Leaf(new)' + 1
         /\ kind = "noChange" => calls # << >>
         /\ kind # "deposit" => Cardinality(Withdrawals) < Cardinality(Deposits)
<1> DEFINE entry == [kind  |-> kind,
                     leaf  |-> IF kind = "noChange" THEN TreeSize - 1 ELSE TreeSize,
                     round |-> round + 1]
<1>1. calls' = Append(calls, entry) /\ round' = round
  BY DEF Call
<1>2. kind # "deposit" => Cardinality(Withdrawals) < Cardinality(Deposits)
  BY DEF Call
<1>3. kind = "noChange" => calls # << >>
  <2> SUFFICES ASSUME kind = "noChange", calls = << >> PROVE FALSE
    OBVIOUS
  <2>1. Deposits = {} /\ Withdrawals = {}
    BY DEF Deposits, Withdrawals, Calls
  <2> QED
    BY <1>2, <2>1, FS_EmptySet
<1>4. calls \in Seq(CallType) /\ Len(calls) \in Nat /\ TreeSize \in Nat /\ round \in Nat
  BY CallFacts DEF TypeOK, CallType
<1>5. calls # << >> => TreeSize \in Nat \ {0}
  <2> SUFFICES ASSUME calls # << >> PROVE TreeSize \in Nat \ {0}
    OBVIOUS
  <2>1. Len(calls) \in Calls
    BY <1>4 DEF Calls
  <2> QED
    BY <2>1, CallFacts DEF TreeSize
<1>6. entry \in CallType
  BY <1>3, <1>4, <1>5 DEF CallType, Kinds
<1>7. /\ calls' \in Seq(CallType) /\ calls' # << >> /\ Len(calls') = new
      /\ \A i \in 1 .. Len(calls) : calls'[i] = calls[i]
      /\ calls'[new] = entry
  BY <1>1, <1>4, <1>6, AppendProperties
<1>8. Calls' = Calls \cup {new} /\ new \in Nat /\ \A c \in Calls : c < new
  BY <1>4, <1>7 DEF Calls
<1>9. \A c \in Calls : Kind(c)' = Kind(c) /\ Leaf(c)' = Leaf(c) /\ Round(c)' = Round(c)
  BY <1>7 DEF Calls, Kind, Leaf, Round
<1>10. /\ Kind(new)' = kind /\ Round(new)' = round + 1
       /\ Leaf(new)' = IF kind = "noChange" THEN TreeSize - 1 ELSE TreeSize
  BY <1>4, <1>7 DEF Kind, Leaf, Round
<1>11. TreeSize' = Leaf(new)' + 1 /\ Leaf(new)' \in Nat
  BY <1>3, <1>5, <1>4, <1>7, <1>10 DEF TreeSize, Leaf
<1> QED
  BY <1>1, <1>2, <1>3, <1>7, <1>8, <1>9, <1>10, <1>11

\* Steps of the service leave the chain as it is.
LEMMA SameChain ==
  ASSUME UNCHANGED calls
  PROVE  /\ Calls' = Calls /\ Notes' = Notes /\ TreeSize' = TreeSize
         /\ Deposits' = Deposits /\ Withdrawals' = Withdrawals
         /\ \A c : Kind(c)' = Kind(c) /\ Leaf(c)' = Leaf(c) /\ Round(c)' = Round(c)
BY DEF Calls, Notes, TreeSize, Deposits, Withdrawals, Kind, Leaf, Round

\* The last round of a poll lies above its start, and none to come.
LEMMA PollEndFacts ==
  ASSUME round \in Nat, NEW from \in 0 .. round
  PROVE  /\ PollEnd(from) \in from .. round
         /\ from < round => from < PollEnd(from)
BY SubscriberAssumption DEF PollEnd

\* Where the service resumes is a round of the chain.
LEMMA ResumeType == TypeOK => ResumePoint \in 0 .. round /\ round \in Nat
  BY DEF TypeOK, ResumePoint

-----------------------------------------------------------------------------
(* What a step changes of the calls that are left behind. *)

\* The rows and the chain stay: nothing but the resume point matters.
LEMMA SkippedByResume ==
  ASSUME UNCHANGED <<calls, txns>>
  PROVE  Skipped' = {c \in Calls \ txns : Round(c) <= ResumePoint'}
BY SameChain DEF Skipped

\* A poll in which nothing is left to do has saved what it covers.
LEMMA PollDone ==
  ASSUME SubscriberInv, phase = "poll", batch = {}
  PROVE  \A c \in Calls \ txns : Round(c) <= newWatermark <=> Round(c) <= watermark
<1>1. TypeOK /\ CallsOf(watermark, newWatermark) \subseteq txns /\ watermark <= newWatermark
  BY DEF SubscriberInv, PollInv
<1> SUFFICES ASSUME NEW c \in Calls \ txns
             PROVE  Round(c) <= newWatermark <=> Round(c) <= watermark
  OBVIOUS
<1>2. ~(watermark < Round(c) /\ Round(c) <= newWatermark)
  BY <1>1 DEF CallsOf
<1>3. Round(c) \in Nat /\ watermark \in Nat /\ newWatermark \in Nat
  BY <1>1, CallFacts DEF TypeOK
<1> QED
  BY <1>1, <1>2, <1>3

\* When the process ends, what it had left behind stays left behind, and more
\* is only when the row of the watermark is ahead of the variable.
LEMMA SkippedAtEnd ==
  ASSUME SubscriberInv, phase # "down", phase' = "down",
         UNCHANGED <<calls, txns, watermarkDb>>
  PROVE  /\ Skipped \subseteq Skipped'
         /\ Skipped' = Skipped \/ watermark < watermarkDb
<1>1. TypeOK /\ ResumePoint = watermark /\ ResumePoint' = watermarkDb
  BY DEF SubscriberInv, ResumePoint
<1>2. Skipped' = {c \in Calls \ txns : Round(c) <= watermarkDb}
  BY <1>1, SkippedByResume
<1>3. \A c \in Skipped : Round(c) <= watermarkDb
  BY DEF SubscriberInv, PollInv
<1>4. Skipped \subseteq Skipped'
  BY <1>2, <1>3 DEF Skipped
<1>5. ASSUME ~(watermark < watermarkDb) PROVE Skipped' \subseteq Skipped
  <2>1. watermark \in Nat /\ watermarkDb \in Nat /\ \A c \in Calls : Round(c) \in Nat
    BY <1>1, CallFacts DEF TypeOK
  <2> QED
    BY <1>1, <1>2, <1>5, <2>1 DEF Skipped
<1> QED
  BY <1>4, <1>5

\* A transaction that is saved was above the watermark.
LEMMA SavedCall ==
  ASSUME SubscriberInv, NEW c \in batch, HandleTransaction(c)
  PROVE  /\ c \in Calls /\ c \notin txns /\ c \notin Skipped
         /\ watermark < Round(c) /\ Round(c) <= newWatermark
         /\ phase = "poll" /\ Skipped' = Skipped
<1>1. TypeOK /\ phase = "poll" /\ c \in CallsOf(watermark, newWatermark)
  BY DEF SubscriberInv, PollInv, HandleTransaction
<1>2. c \in Calls /\ watermark < Round(c) /\ Round(c) <= newWatermark
  BY <1>1 DEF CallsOf
<1>3. c \notin txns
  BY DEF HandleTransaction, Save, SaveAllowed
<1>4. Round(c) \in Nat /\ watermark \in Nat
  BY <1>1, <1>2, CallFacts DEF TypeOK
<1>5. ResumePoint = watermark
  BY <1>1 DEF ResumePoint
<1>6. c \notin Skipped
  BY <1>2, <1>4, <1>5 DEF Skipped
<1>7. UNCHANGED calls /\ txns' = txns \cup {c} /\ ResumePoint' = ResumePoint
  BY <1>1 DEF HandleTransaction, Save, vaultVars, ResumePoint
<1>8. Skipped' = {d \in Calls \ txns' : Round(d) <= ResumePoint}
  BY <1>7, SameChain DEF Skipped
<1> QED
  BY <1>1, <1>2, <1>3, <1>6, <1>7, <1>8 DEF Skipped

\* No step takes up a call that was left behind, and one leaves behind more
\* only when it ends a process whose row of the watermark is ahead.
LEMMA SkippedStep ==
  ASSUME SubscriberInv, [Next]_vars
  PROVE  /\ Skipped \subseteq Skipped'
         /\ \/ Skipped' = Skipped
            \/ phase # "down" /\ phase' = "down" /\ watermark < watermarkDb
               /\ UNCHANGED calls
<1>1. TypeOK /\ ChainInv
  BY DEF SubscriberInv
<1>2. ASSUME NEW kind \in Kinds, Call(kind), UNCHANGED <<txnsDbVars, subscriberVars>>
      PROVE  Skipped' = Skipped
  <2>0. PICK new : new = Len(calls) + 1
    OBVIOUS
  <2>1. /\ Calls' = Calls \cup {new} /\ Round(new)' = round + 1 /\ new \in Nat
        /\ \A c \in Calls : c < new /\ Round(c)' = Round(c)
    BY <1>1, <1>2, <2>0, CallAppended
  <2>2. UNCHANGED <<txns, ResumePoint>> /\ ResumePoint \in 0 .. round /\ round \in Nat
    BY <1>1, <1>2, ResumeType DEF txnsDbVars, subscriberVars, ResumePoint
  <2>3. txns \subseteq Calls /\ new \notin Calls
    BY <1>1, <2>1 DEF TypeOK
  <2>4. ~(Round(new)' <= ResumePoint)
    BY <2>1, <2>2
  <2>5. Skipped' = {c \in Calls' \ txns : Round(c)' <= ResumePoint}
    BY <2>2 DEF Skipped
  <2>6. Calls' \ txns = (Calls \ txns) \cup {new}
    BY <2>1, <2>3
  <2> HIDE DEF Skipped
  <2>7. Skipped' = {c \in Calls \ txns : Round(c) <= ResumePoint}
    BY <2>1, <2>4, <2>5, <2>6
  <2> QED
    BY <2>7 DEF Skipped
<1>3. ASSUME NewBlock, UNCHANGED <<txnsDbVars, subscriberVars>>
      PROVE  Skipped' = Skipped
  BY <1>3, SkippedByResume
  DEF NewBlock, txnsDbVars, subscriberVars, ResumePoint, Skipped
<1>4. CASE Start
  <2>1. /\ UNCHANGED <<calls, txns>> /\ phase = "down" /\ phase' = "idle"
        /\ watermark' = watermarkDb'
        /\ IF watermarkDb < CreationBlock THEN watermarkDb' = CreationBlock
                                          ELSE watermarkDb' = watermarkDb
    BY <1>4 DEF Start, SetWatermark, vaultVars, txnsDbVars
  <2>2. ResumePoint = watermarkDb /\ ResumePoint' = watermarkDb'
    BY <2>1 DEF ResumePoint
  <2>3. \A c \in Calls : CreationBlock < Round(c) /\ Round(c) \in Nat
    BY <1>1, CallFacts DEF ChainInv
  <2>4. watermarkDb \in Nat /\ CreationBlock \in Nat
    BY <1>1 DEF TypeOK, CreationBlock
  <2>5. Skipped' = Skipped
    BY <2>1, <2>2, <2>3, <2>4, SkippedByResume DEF Skipped
  <2> QED
    BY <2>5
<1>5. CASE BeginPoll
  <2>1. UNCHANGED <<calls, txns, ResumePoint>>
    BY <1>5 DEF BeginPoll, vaultVars, txnsDbVars, ResumePoint
  <2> QED
    BY <2>1, SkippedByResume DEF Skipped
<1>6. ASSUME NEW c \in batch, HandleTransaction(c) PROVE Skipped' = Skipped
  BY <1>6, SavedCall
<1>7. ASSUME UNCHANGED <<calls, txns, watermark, watermarkDb>>, phase = "poll",
             phase' \in {"idle", "down"}
      PROVE  /\ Skipped \subseteq Skipped'
             /\ \/ Skipped' = Skipped
                \/ phase # "down" /\ phase' = "down" /\ watermark < watermarkDb
  <2>1. CASE phase' = "idle"
    BY <1>7, <2>1, SkippedByResume DEF ResumePoint, Skipped
  <2>2. CASE phase' = "down"
    BY <1>7, <2>2, SkippedAtEnd
  <2> QED
    BY <1>7, <2>1, <2>2
<1>8. ASSUME NEW c \in batch, HandleTransactionFails(c)
      PROVE  /\ UNCHANGED <<calls, txns, watermark, watermarkDb>>
             /\ phase = "poll" /\ phase' \in {"idle", "down"}
  BY <1>8 DEF HandleTransactionFails, PollFails, vaultVars, txnsDbVars
<1>9. CASE EndPoll \/ EndPollFails
  <2>1. /\ UNCHANGED <<calls, txns>> /\ phase = "poll" /\ batch = {}
        /\ phase' \in {"idle", "down"} /\ watermark' = newWatermark
        /\ phase' = "down" => UNCHANGED watermarkDb
    BY <1>9 DEF EndPoll, EndPollFails, PollFails, SetWatermark, vaultVars, txnsDbVars
  <2>2. CASE phase' = "idle"
    <3>1. ResumePoint = watermark /\ ResumePoint' = newWatermark
      BY <2>1, <2>2 DEF ResumePoint
    <3>2. Skipped' = Skipped
      BY <2>1, <3>1, PollDone, SkippedByResume DEF Skipped
    <3> QED
      BY <3>2
  <2>3. CASE phase' = "down"
    BY <2>1, <2>3, SkippedAtEnd
  <2> QED
    BY <2>1, <2>2, <2>3
<1>10. CASE Crash
  BY <1>10, SkippedAtEnd DEF Crash, vaultVars, txnsDbVars
<1>11. CASE UNCHANGED vars
  BY <1>11, SkippedByResume
  DEF vars, vaultVars, txnsDbVars, subscriberVars, ResumePoint, Skipped
<1> QED
  BY <1>2, <1>3, <1>4, <1>5, <1>6, <1>7, <1>8, <1>9, <1>10, <1>11 DEF Next, Grow, Poll

-----------------------------------------------------------------------------
(* The invariant. *)

\* The first state satisfies the invariant.
LEMMA SubscriberInit == Init => SubscriberInv
<1> SUFFICES ASSUME Init PROVE SubscriberInv
  OBVIOUS
<1>1. /\ calls = << >> /\ Calls = {} /\ txns = {} /\ batch = {} /\ round = 1
      /\ leafCount = 0 /\ TreeSize = 0 /\ phase = "down"
      /\ watermark = 0 /\ watermarkDb = 0 /\ newWatermark = 0 /\ failures = 0 /\ crashes = 0
  BY DEF Init, VaultInit, TxnsDbInit, CreationBlock, Calls, TreeSize
<1>2. stats \in Totals
  BY DEF Init, TxnsDbInit, NoTotals, Totals
<1>3. TypeOK
  BY <1>1, <1>2, SubscriberAssumption DEF TypeOK, Totals
<1>4. ChainInv /\ PollInv
  BY <1>1 DEF ChainInv, PollInv
<1>5. DeliveryInv /\ PrimaryKey /\ RootLagsByDeposits /\ SpoiledOnlyWhenLost
  BY <1>1 DEF DeliveryInv, PrimaryKey, RootLagsByDeposits, SpoiledOnlyWhenLost
<1> QED
  BY <1>3, <1>4, <1>5 DEF SubscriberInv

\* What says nothing of the poll stays when no row and no call is added.
LEMMA SameRows ==
  ASSUME SubscriberInv, UNCHANGED <<calls, txns, leafCount>>, round' \in {round, round + 1},
         Skipped \subseteq Skipped'
  PROVE  /\ ChainInv' /\ DeliveryInv' /\ PrimaryKey'
         /\ RootLagsByDeposits' /\ SpoiledOnlyWhenLost'
<1>1. TypeOK /\ round \in Nat
  BY DEF SubscriberInv, TypeOK
<1>2. ChainInv'
  <2>1. ChainInv /\ \A c \in Calls : Round(c) \in Nat
    BY <1>1, CallFacts DEF SubscriberInv
  <2> QED
    BY <1>1, <2>1, SameChain DEF ChainInv, CreationBlock
<1>3. DeliveryInv'
  BY SameChain DEF SubscriberInv, DeliveryInv
<1>4. PrimaryKey' /\ RootLagsByDeposits'
  BY SameChain DEF SubscriberInv, PrimaryKey, RootLagsByDeposits
<1>5. SpoiledOnlyWhenLost'
  BY SameChain DEF SubscriberInv, SpoiledOnlyWhenLost, LostNotes
<1> QED
  BY <1>2, <1>3, <1>4, <1>5

\* A call of the next block is still to come.
LEMMA CallStep ==
  ASSUME SubscriberInv, NEW kind \in Kinds, Call(kind),
         UNCHANGED <<txnsDbVars, subscriberVars>>, Skipped' = Skipped
  PROVE  SubscriberInv'
<1>0. PICK new : new = Len(calls) + 1
  OBVIOUS
<1>1. TypeOK /\ ChainInv
  BY DEF SubscriberInv
<1>2. /\ calls' \in Seq(CallType) /\ round' = round
      /\ Calls' = Calls \cup {new} /\ new \in Nat /\ \A c \in Calls : c < new
      /\ \A c \in Calls : Kind(c)' = Kind(c) /\ Leaf(c)' = Leaf(c) /\ Round(c)' = Round(c)
      /\ Kind(new)' = kind /\ Round(new)' = round + 1
      /\ Leaf(new)' = IF kind = "noChange" THEN TreeSize - 1 ELSE TreeSize
      /\ TreeSize' = Leaf(new)' + 1
      /\ kind = "noChange" => calls # << >>
  BY <1>0, <1>1, CallAppended
<1>3. /\ Calls \subseteq Nat /\ TreeSize \in Nat /\ round \in Nat
      /\ \A c \in Calls : Leaf(c) \in 0 .. TreeSize - 1 /\ Round(c) \in Nat
  BY <1>1, CallFacts, LeavesBelow DEF TypeOK
<1>4. txns \subseteq Calls /\ batch \subseteq Calls
  BY <1>1 DEF TypeOK
<1>5. UNCHANGED <<txns, leafCount, stats, watermarkDb, phase, watermark, batch,
                  newWatermark, failures, crashes>>
  BY DEF txnsDbVars, subscriberVars
<1>6. TypeOK'
  <2>1. TreeSize' \in Nat /\ TreeSize <= TreeSize'
    BY <1>2, <1>3
  <2> QED
    BY <1>1, <1>2, <1>3, <1>4, <1>5, <2>1 DEF TypeOK, CallType
<1>7. Notes' = IF kind = "noChange" THEN Notes ELSE Notes \cup {new}
  BY <1>2, <1>3 DEF Notes
<1>8. ChainInv'
  <2>1. \A c \in Calls' : CreationBlock < Round(c)' /\ Round(c)' <= round' + 1
    BY <1>1, <1>2, <1>3 DEF ChainInv, CreationBlock, TypeOK
  <2>2. ASSUME NEW c \in Calls', NEW d \in Calls', c < d
        PROVE  /\ Round(c)' <= Round(d)' /\ Leaf(c)' <= Leaf(d)'
               /\ d \in Notes' => Leaf(c)' < Leaf(d)'
    <3>1. c \in Calls
      BY <1>2, <1>3, <2>2
    <3>2. CASE d \in Calls
      <4>1. /\ Round(c) <= Round(d) /\ Leaf(c) <= Leaf(d)
            /\ d \in Notes => Leaf(c) < Leaf(d)
        BY <1>1, <2>2, <3>1, <3>2 DEF ChainInv
      <4>2. d \in Notes' => d \in Notes
        BY <1>2, <1>3, <1>7, <3>2
      <4> QED
        BY <1>2, <3>1, <3>2, <4>1, <4>2
    <3>3. CASE d = new
      <4>1. Leaf(c) \in 0 .. TreeSize - 1 /\ Round(c) <= round + 1
        BY <1>1, <1>3, <3>1 DEF ChainInv
      <4>2. new \in Notes' => kind # "noChange"
        BY <1>2 DEF Notes
      <4> QED
        BY <1>2, <1>3, <3>1, <3>3, <4>1, <4>2
    <3> QED
      BY <1>2, <3>2, <3>3
  <2>3. ASSUME NEW c \in Calls'
        PROVE  \E i \in Notes' : i <= c /\ Leaf(i)' = Leaf(c)'
    <3>1. CASE c \in Calls
      <4>1. PICK i \in Notes : i <= c /\ Leaf(i) = Leaf(c)
        BY <1>1, <3>1 DEF ChainInv
      <4> QED
        BY <1>2, <1>7, <3>1, <4>1 DEF Notes
    <3>2. CASE c = new /\ kind # "noChange"
      BY <1>2, <1>7, <3>2
    <3>3. CASE c = new /\ kind = "noChange"
      <4>1. Len(calls) \in Calls /\ TreeSize = Leaf(Len(calls)) + 1
        BY <1>1, <1>2, <3>3, CallFacts DEF Calls, TreeSize
      <4>2. PICK i \in Notes : i <= Len(calls) /\ Leaf(i) = Leaf(Len(calls))
        BY <1>1, <4>1 DEF ChainInv
      <4>3. i \in Calls /\ i < new /\ Leaf(i) \in Nat
        BY <1>2, <1>3, <4>2 DEF Notes
      <4>4. Leaf(i)' = Leaf(new)'
        BY <1>2, <1>3, <3>3, <4>1, <4>2, <4>3
      <4> QED
        BY <1>2, <1>3, <1>7, <3>3, <4>2, <4>3, <4>4
    <3> QED
      BY <1>2, <3>1, <3>2, <3>3
  <2> QED
    BY <2>1, <2>2, <2>3 DEF ChainInv
<1>9. PollInv'
  <2>1. CallsOf(watermark, newWatermark)' = CallsOf(watermark, newWatermark)
    <3>1. ~(Round(new)' <= newWatermark)
      BY <1>1, <1>2, <1>3 DEF TypeOK
    <3> QED
      BY <1>2, <1>5, <3>1 DEF CallsOf
  <2>2. PollEnd(watermark)' = PollEnd(watermark)
    BY <1>2, <1>5 DEF PollEnd
  <2>3. \A c \in Skipped : Round(c)' = Round(c)
    BY <1>2 DEF Skipped
  <2> QED
    BY <1>5, <2>1, <2>2, <2>3 DEF SubscriberInv, PollInv
<1>10. ASSUME NEW c \in txns PROVE (c \in Deposits <=> c \in Deposits') /\ c \in Calls
  BY <1>2, <1>4 DEF Deposits
<1>11. DeliveryInv'
  <2> SUFFICES ASSUME NEW c \in txns, NEW d \in Calls' \ (txns \cup Skipped), d < c
               PROVE  c \in Deposits' /\ d \in Withdrawals'
    BY <1>5 DEF DeliveryInv
  <2>1. d \in Calls /\ c \in Calls
    BY <1>2, <1>3, <1>4
  <2>2. c \in Deposits /\ d \in Withdrawals
    BY <2>1 DEF SubscriberInv, DeliveryInv
  <2> QED
    BY <1>2, <2>1, <2>2 DEF Deposits, Withdrawals
<1>12. PrimaryKey' /\ RootLagsByDeposits'
  BY <1>2, <1>4, <1>5 DEF SubscriberInv, PrimaryKey, RootLagsByDeposits
<1>13. SpoiledOnlyWhenLost'
  <2>1. LostNotes \subseteq LostNotes' /\ LostNotes \subseteq Calls
    BY <1>7 DEF LostNotes, Notes
  <2> QED
    BY <1>2, <1>4, <1>5, <2>1 DEF SubscriberInv, SpoiledOnlyWhenLost
<1> QED
  BY <1>6, <1>8, <1>9, <1>11, <1>12, <1>13 DEF SubscriberInv

\* A call is saved: what it could have overtaken was delivered before.
LEMMA SaveStep ==
  ASSUME SubscriberInv, NEW c \in batch, HandleTransaction(c)
  PROVE  SubscriberInv'
<1>1. TypeOK /\ ChainInv /\ PollInv
  BY DEF SubscriberInv
<1>2. /\ c \in Calls /\ c \notin txns /\ c \notin Skipped
      /\ watermark < Round(c) /\ Round(c) <= newWatermark
      /\ phase = "poll" /\ Skipped' = Skipped
  BY SavedCall
<1>3. /\ UNCHANGED <<calls, round, phase, watermark, newWatermark, failures, crashes>>
      /\ txns' = txns \cup {c} /\ batch' = batch \ {c}
      /\ leafCount' = Leaf(c) + 1 /\ watermarkDb' = Round(c)
      /\ \A row \in txns : Leaf(row) # Leaf(c)
      /\ \A d \in batch : Before(c, d)
      /\ stats' = DepositStats \/ stats' = WithdrawalStats
  BY DEF HandleTransaction, FirstOf, Save, SaveAllowed, vaultVars
<1>4. /\ Calls \subseteq Nat /\ TreeSize \in Nat /\ round \in Nat
      /\ \A d \in Calls : Leaf(d) \in 0 .. TreeSize - 1 /\ Round(d) \in Nat
      /\ watermark \in Nat /\ newWatermark \in 0 .. round /\ txns \subseteq Calls
  BY <1>1, CallFacts, LeavesBelow DEF TypeOK
<1>5. TypeOK'
  <2>1. stats' \in Totals
    <3>1. stats \in Totals
      BY <1>1 DEF TypeOK, Totals
    <3>2. DepositStats \in Totals
      BY <3>1 DEF DepositStats, Added, DepositAmount, Totals
    <3>3. WithdrawalStats \in Totals
      BY <3>1 DEF WithdrawalStats, Added, WithdrawalAmount, WithdrawalFee, Totals
    <3> QED
      BY <1>3, <3>2, <3>3
  <2>2. leafCount' \in 0 .. TreeSize
    BY <1>2, <1>3, <1>4
  <2>3. watermarkDb' \in 0 .. round
    BY <1>2, <1>3, <1>4
  <2> QED
    BY <1>1, <1>2, <1>3, <2>1, <2>2, <2>3, SameChain DEF TypeOK, Totals
\* A call before c that has no row was left behind before this poll, unless c
\* is a deposit and it is a withdrawal.
<1>6. ASSUME NEW d \in Calls \ (txns \cup Skipped), d < c
      PROVE  c \in Deposits /\ d \in Withdrawals
  <2>1. watermark < Round(d)
    BY <1>2, <1>4, <1>6 DEF Skipped, ResumePoint
  <2>2. Round(d) <= Round(c)
    BY <1>1, <1>2, <1>6 DEF ChainInv
  <2>3. d \in CallsOf(watermark, newWatermark)
    BY <1>2, <1>4, <1>6, <2>1, <2>2 DEF CallsOf
  <2>4. d \in batch
    BY <1>1, <1>2, <1>6, <2>3 DEF PollInv
  <2>5. Before(c, d) /\ ~(c <= d)
    BY <1>2, <1>3, <1>4, <1>6, <2>4
  <2> QED
    BY <1>6, <2>5 DEF Before, Deposits, Withdrawals
<1>7. PollInv'
  <2>1. PollEnd(watermark)' = PollEnd(watermark)
    BY <1>3 DEF PollEnd
  <2>2. CallsOf(watermark, newWatermark)' = CallsOf(watermark, newWatermark)
    BY <1>3, SameChain DEF CallsOf
  <2>3. Round(c) <= PollEnd(watermark)
    <3>1. newWatermark <= PollEnd(watermark) /\ PollEnd(watermark) \in Int
      BY <1>1, <1>2, <1>4, PollEndFacts DEF PollInv, TypeOK
    <3> QED
      BY <1>2, <1>4, <3>1
  <2>4. \A d \in Skipped : Round(d)' <= Round(c)
    BY <1>2, <1>3, <1>4, SameChain DEF Skipped, ResumePoint
  <2> QED
    BY <1>1, <1>2, <1>3, <2>1, <2>2, <2>3, <2>4 DEF PollInv
<1>8. DeliveryInv'
  <2> SUFFICES ASSUME NEW e \in txns \cup {c}, NEW d \in Calls \ (txns \cup {c} \cup Skipped),
                      d < e
               PROVE  e \in Deposits /\ d \in Withdrawals
    BY <1>2, <1>3, SameChain DEF DeliveryInv
  <2> QED
    BY <1>6 DEF SubscriberInv, DeliveryInv
<1>9. PrimaryKey'
  BY <1>3, SameChain DEF SubscriberInv, PrimaryKey
<1>10. RootLagsByDeposits'
  <2> SUFFICES ASSUME NEW e \in txns \cup {c}, Leaf(e) >= Leaf(c) + 1
               PROVE  /\ Kind(e) = "deposit"
                      /\ \E w \in txns \cup {c} :
                           Leaf(w) = leafCount' - 1 /\ Kind(w) # "deposit"
    <3>1. \A e : Kind(e)' = Kind(e) /\ Leaf(e)' = Leaf(e)
      BY <1>3, SameChain
    <3> QED
      BY <1>3, <3>1 DEF RootLagsByDeposits
  <2>1. e \in txns /\ e \in Calls /\ ~(Leaf(e) <= Leaf(c))
    BY <1>2, <1>4
  <2>2. c < e
    BY <1>1, <1>2, <1>4, <2>1 DEF ChainInv
  <2>3. e \in Deposits /\ c \in Withdrawals
    BY <1>2, <2>1, <2>2 DEF SubscriberInv, DeliveryInv
  <2> QED
    BY <1>2, <1>3, <1>4, <2>3 DEF Deposits, Withdrawals
<1>11. SpoiledOnlyWhenLost'
  <2>1. LostNotes' = LostNotes
    BY <1>2, <1>3, SameChain DEF LostNotes
  <2> SUFFICES ASSUME NEW e \in txns \cup {c}, Kind(e) = "noChange"
               PROVE  \E i \in LostNotes : Leaf(i) = Leaf(e)
    BY <1>3, <2>1, SameChain DEF SpoiledOnlyWhenLost
  <2>2. CASE e \in txns
    BY <2>2 DEF SubscriberInv, SpoiledOnlyWhenLost
  <2>3. CASE e = c
    <3>1. PICK i \in Notes : i <= c /\ Leaf(i) = Leaf(c)
      BY <1>1, <1>2 DEF ChainInv
    <3>2. i \in Calls /\ i # c /\ i \notin txns
      BY <1>3, <2>3, <3>1 DEF Notes
    <3>3. i < c
      BY <1>2, <1>4, <3>1, <3>2
    <3>4. c \notin Deposits
      BY <2>3 DEF Deposits
    <3>5. i \in Skipped
      BY <1>6, <3>2, <3>3, <3>4
    <3> QED
      BY <2>3, <3>1, <3>5 DEF LostNotes
  <2> QED
    BY <2>2, <2>3
<1>12. ChainInv'
  BY <1>1, <1>3, SameChain DEF ChainInv, CreationBlock
<1> QED
  BY <1>5, <1>7, <1>8, <1>9, <1>10, <1>11, <1>12 DEF SubscriberInv

\* The other steps add no row and no call.
LEMMA ServiceStep ==
  ASSUME SubscriberInv, Skipped \subseteq Skipped',
         \/ NewBlock /\ UNCHANGED <<txnsDbVars, subscriberVars>>
         \/ Start \/ BeginPoll \/ EndPoll \/ EndPollFails \/ Crash
         \/ \E c \in batch : HandleTransactionFails(c)
         \/ UNCHANGED vars
  PROVE  SubscriberInv'
<1>1. TypeOK /\ ChainInv /\ PollInv
  BY DEF SubscriberInv
<1>2. /\ round \in Nat \ {0} /\ watermark \in 0 .. round /\ watermarkDb \in 0 .. round
      /\ newWatermark \in 0 .. round
      /\ PollEnd(watermark) \in watermark .. round
      /\ PollEnd(watermarkDb) \in watermarkDb .. round
      /\ PollEnd(newWatermark) \in newWatermark .. round
      /\ \A c \in Calls : Round(c) \in Nat
  BY <1>1, PollEndFacts, CallFacts DEF TypeOK
<1>3. ASSUME TypeOK', PollInv', UNCHANGED <<calls, txns, leafCount>>,
             round' \in {round, round + 1}
      PROVE  SubscriberInv'
  BY <1>3, SameRows DEF SubscriberInv
<1>4. CASE NewBlock /\ UNCHANGED <<txnsDbVars, subscriberVars>>
  <2>1. /\ UNCHANGED <<calls, txns, leafCount, stats, watermarkDb, phase, watermark,
                       batch, newWatermark, failures, crashes>>
        /\ round' = round + 1
    BY <1>4 DEF NewBlock, txnsDbVars, subscriberVars
  <2>2. TypeOK'
    BY <1>1, <1>2, <2>1, SameChain DEF TypeOK
  <2>3. PollEnd(watermark)' >= PollEnd(watermark)
    BY <1>2, <2>1, SubscriberAssumption DEF PollEnd
  <2>4. PollEnd(watermark)' \in Int
    BY <1>2, <2>1, SubscriberAssumption DEF PollEnd
  <2>5. CallsOf(watermark, newWatermark)' = CallsOf(watermark, newWatermark)
    BY <2>1, SameChain DEF CallsOf
  <2>6. Skipped' = Skipped
    BY <2>1, SkippedByResume DEF ResumePoint, Skipped
  <2>7. PollInv'
    BY <1>1, <1>2, <2>1, <2>3, <2>4, <2>5, <2>6, SameChain DEF PollInv
  <2> QED
    BY <1>3, <2>1, <2>2, <2>7
<1>5. CASE Start
  <2>1. /\ UNCHANGED <<calls, round, txns, leafCount, stats, batch, newWatermark,
                       failures, crashes>>
        /\ phase' = "idle" /\ watermark' = watermarkDb' /\ watermarkDb' \in 0 .. round
    BY <1>2, <1>5 DEF Start, SetWatermark, vaultVars, txnsDbVars, CreationBlock
  <2>2. TypeOK'
    BY <1>1, <2>1, SameChain DEF TypeOK
  <2>3. \A c \in Skipped' : Round(c)' <= watermarkDb'
    BY <2>1 DEF Skipped, ResumePoint
  <2>4. watermarkDb' <= PollEnd(watermark)'
    <3>1. PollEnd(watermark)' = PollEnd(watermarkDb')
      BY <2>1 DEF PollEnd
    <3> QED
      BY <1>2, <2>1, <3>1, PollEndFacts
  <2> QED
    BY <1>3, <2>1, <2>2, <2>3, <2>4 DEF PollInv
<1>6. CASE BeginPoll
  <2>1. /\ UNCHANGED <<calls, round, txns, leafCount, stats, watermarkDb, watermark,
                       failures, crashes>>
        /\ phase = "idle" /\ phase' = "poll" /\ newWatermark' = PollEnd(watermark)
        /\ batch' = CallsOf(watermark, newWatermark')
    BY <1>6 DEF BeginPoll, vaultVars, txnsDbVars
  <2>2. TypeOK'
    BY <1>1, <1>2, <2>1, SameChain DEF TypeOK, CallsOf
  <2>3. /\ PollEnd(watermark)' = PollEnd(watermark)
        /\ CallsOf(watermark, newWatermark)' = CallsOf(watermark, newWatermark')
    BY <2>1, SameChain DEF PollEnd, CallsOf
  <2>4. Skipped' = Skipped
    BY <2>1, SkippedByResume DEF ResumePoint, Skipped
  <2>5. PollInv'
    BY <1>1, <1>2, <2>1, <2>3, <2>4, SameChain DEF PollInv
  <2> QED
    BY <1>3, <2>1, <2>2, <2>5
<1>7. CASE EndPoll \/ EndPollFails
  <2>1. /\ UNCHANGED <<calls, round, txns, leafCount, stats, newWatermark, crashes>>
        /\ phase = "poll" /\ phase' \in {"idle", "down"} /\ batch = {} /\ batch' = {}
        /\ watermark' = newWatermark /\ watermarkDb' \in {watermarkDb, newWatermark}
        /\ failures' \in 0 .. MaxFailures
    BY <1>1, <1>7, SubscriberAssumption
    DEF EndPoll, EndPollFails, PollFails, Failure, SetWatermark, vaultVars, txnsDbVars, TypeOK
  <2>2. TypeOK'
    BY <1>1, <1>2, <2>1, SameChain DEF TypeOK
  <2>3. phase' = "idle" => \A c \in Skipped' : Round(c)' <= watermarkDb'
    <3> SUFFICES ASSUME phase' = "idle", NEW c \in Skipped'
                 PROVE  Round(c) <= watermarkDb'
      BY <2>1, SameChain
    <3>1. c \in Calls \ txns /\ Round(c) <= newWatermark
      BY <2>1, SkippedByResume DEF ResumePoint
    <3>2. c \in Skipped
      BY <2>1, <3>1, PollDone DEF Skipped, ResumePoint
    <3> QED
      BY <1>1, <2>1, <3>1, <3>2 DEF PollInv
  <2>4. watermarkDb' <= PollEnd(watermark)'
    <3>1. PollEnd(watermark)' = PollEnd(newWatermark)
      BY <2>1 DEF PollEnd
    <3> QED
      BY <1>1, <1>2, <2>1, <3>1 DEF PollInv
  <2> QED
    BY <1>3, <2>1, <2>2, <2>3, <2>4 DEF PollInv
<1>8. ASSUME UNCHANGED <<calls, round, txns, leafCount, stats, watermarkDb, watermark,
                         newWatermark>>,
             phase # "down", phase' \in {"idle", "down"}, batch' = {},
             failures' \in 0 .. MaxFailures, crashes' \in 0 .. MaxCrashes
      PROVE  SubscriberInv'
  <2>1. TypeOK'
    BY <1>1, <1>8, SameChain DEF TypeOK
  <2>2. phase' = "idle" => Skipped' = Skipped
    BY <1>8, SkippedByResume DEF ResumePoint, Skipped
  <2>3. PollEnd(watermark)' = PollEnd(watermark)
    BY <1>8 DEF PollEnd
  <2>4. PollInv'
    BY <1>1, <1>8, <2>2, <2>3, SameChain DEF PollInv
  <2> QED
    BY <1>3, <1>8, <2>1, <2>4
<1>9. CASE Crash
  BY <1>1, <1>8, <1>9, SubscriberAssumption
  DEF Crash, TypeOK, vaultVars, txnsDbVars
<1>10. ASSUME NEW c \in batch, HandleTransactionFails(c) PROVE SubscriberInv'
  BY <1>1, <1>8, <1>10, SubscriberAssumption
  DEF HandleTransactionFails, PollFails, Failure, TypeOK, vaultVars, txnsDbVars
<1>11. CASE UNCHANGED vars
  <2>1. UNCHANGED <<calls, round, txns, leafCount, stats, watermarkDb, phase, watermark,
                    batch, newWatermark, failures, crashes>>
    BY <1>11 DEF vars, vaultVars, txnsDbVars, subscriberVars
  <2>2. TypeOK'
    BY <1>1, <2>1, SameChain DEF TypeOK
  <2>3. /\ PollEnd(watermark)' = PollEnd(watermark) /\ Skipped' = Skipped
        /\ CallsOf(watermark, newWatermark)' = CallsOf(watermark, newWatermark)
    BY <2>1, SameChain DEF PollEnd, CallsOf, Skipped, ResumePoint
  <2>4. PollInv'
    BY <1>1, <2>1, <2>3, SameChain DEF PollInv
  <2> QED
    BY <1>3, <2>1, <2>2, <2>4
<1> QED
  BY <1>4, <1>5, <1>6, <1>7, <1>9, <1>10, <1>11

\* Every step keeps the invariant.
LEMMA SubscriberStep ==
  ASSUME SubscriberInv, [Next]_vars PROVE SubscriberInv'
<1>1. Skipped \subseteq Skipped'
  BY SkippedStep
<1>2. ASSUME NEW kind \in Kinds, Call(kind), UNCHANGED <<txnsDbVars, subscriberVars>>
      PROVE  SubscriberInv'
  <2>1. Skipped' = Skipped
    BY <1>2, SkippedStep DEF subscriberVars
  <2> QED
    BY <1>2, <2>1, CallStep
<1>3. ASSUME NEW c \in batch, HandleTransaction(c) PROVE SubscriberInv'
  BY <1>3, SaveStep
<1> QED
  BY <1>1, <1>2, <1>3, ServiceStep DEF Next, Grow, Poll

-----------------------------------------------------------------------------
(* The theorems. *)

\* main.py and db.py: the inductive invariant holds in every state.
THEOREM SubscriberInvariant == Spec => []SubscriberInv
<1>1. SubscriberInv /\ [Next]_vars => SubscriberInv'
  BY SubscriberStep
<1> QED
  BY <1>1, SubscriberInit, PTL DEF Spec

\* main.py and db.py: rows and batches are of calls of the chain, the leaf
\* count is none to come, and no watermark runs ahead of the chain.
THEOREM TypeCorrect == Spec => []TypeOK
<1>1. SubscriberInv => TypeOK
  BY DEF SubscriberInv
<1> QED
  BY <1>1, SubscriberInvariant, PTL

\* db.go:104: whatever the root lags behind is a deposit that the same poll
\* delivered before an earlier withdrawal.
THEOREM RootLags == Spec => []RootLagsByDeposits
<1>1. SubscriberInv => RootLagsByDeposits
  BY DEF SubscriberInv
<1> QED
  BY <1>1, SubscriberInvariant, PTL

\* parse.py:77: the row of a withdrawal that appended no leaf stands in the
\* place of a lost note.
THEOREM SpoiledRows == Spec => []SpoiledOnlyWhenLost
<1>1. SubscriberInv => SpoiledOnlyWhenLost
  BY DEF SubscriberInv
<1> QED
  BY <1>1, SubscriberInvariant, PTL

\* The chain keeps its notes.
LEMMA NotesStay ==
  ASSUME SubscriberInv, [Next]_vars
  PROVE  \A c \in Calls : c \in Calls' /\ (c \in Notes' <=> c \in Notes)
                          /\ (c \in Deposits' <=> c \in Deposits)
<1>1. TypeOK
  BY DEF SubscriberInv
<1>2. ASSUME NEW kind \in Kinds, Call(kind)
      PROVE  /\ Calls \subseteq Calls'
             /\ \A c \in Calls : Kind(c)' = Kind(c)
  <2>1. PICK new : new = Len(calls) + 1
    OBVIOUS
  <2> QED
    BY <1>1, <1>2, <2>1, CallAppended
<1>3. ASSUME UNCHANGED calls
      PROVE  Calls' = Calls /\ \A c \in Calls : Kind(c)' = Kind(c)
  BY <1>3, SameChain
<1>4. UNCHANGED calls \/ \E kind \in Kinds : Call(kind)
  BY DEF Next, Grow, NewBlock, Start, Poll, BeginPoll, HandleTransaction,
         HandleTransactionFails, PollFails, EndPoll, EndPollFails, Crash, vars, vaultVars
<1>5. Calls \subseteq Calls' /\ \A c \in Calls : Kind(c)' = Kind(c)
  BY <1>2, <1>3, <1>4
<1> QED
  BY <1>5 DEF Notes, Deposits

\* Lost notes stay lost, and how one is lost.
LEMMA LostStep ==
  ASSUME SubscriberInv, [Next]_vars
  PROVE  /\ LostNotes \subseteq LostNotes'
         /\ LostNotes' # LostNotes =>
              phase # "down" /\ phase' = "down" /\ watermark < watermarkDb
<1>1. Skipped \subseteq Calls /\ Skipped \subseteq Skipped'
  BY SkippedStep DEF Skipped
<1>2. LostNotes \subseteq LostNotes'
  BY <1>1, NotesStay DEF LostNotes
<1>3. Skipped' = Skipped => LostNotes' = LostNotes
  BY <1>1, NotesStay DEF LostNotes
<1> QED
  BY <1>2, <1>3, SkippedStep

\* db.py:43, main.py:53: no poll that comes to its end, or fails and is tried
\* again, loses a note; only the end of the process in a poll does, when a row
\* of it was saved.
THEOREM LossNeedsAnEnd == Spec => LostOnlyWithProcess
<1>1. SubscriberInv /\ [Next]_vars =>
        [/\ LostNotes \subseteq LostNotes'
         /\ LostNotes' # LostNotes =>
              phase # "down" /\ phase' = "down" /\ watermark < watermarkDb]_vars
  BY LostStep
<1> QED
  BY <1>1, SubscriberInvariant, PTL DEF Spec, LostOnlyWithProcess

\* main.py:53-56, db.py:43: the persisted watermark goes back only inside a
\* poll, and never behind what the polls before it have covered.
THEOREM WatermarkBack == Spec => WatermarkBackOnlyInPoll
<1>1. SubscriberInv /\ [Next]_vars =>
        [watermarkDb' < watermarkDb =>
           phase = "poll" /\ phase' = "poll" /\ watermark < watermarkDb']_vars
  <2> SUFFICES ASSUME SubscriberInv, [Next]_vars, watermarkDb' < watermarkDb
               PROVE  phase = "poll" /\ phase' = "poll" /\ watermark < watermarkDb'
    OBVIOUS
  <2>1. TypeOK /\ watermarkDb \in Nat /\ newWatermark \in Nat /\ CreationBlock \in Nat
    BY DEF SubscriberInv, TypeOK, CreationBlock
  <2>2. ~ UNCHANGED watermarkDb
    BY <2>1
  <2>3. ~ Start
    BY <2>1 DEF Start, SetWatermark, txnsDbVars
  <2>4. ~ EndPoll
    BY <2>1 DEF EndPoll, SetWatermark, SubscriberInv, PollInv
  <2>5. PICK c \in batch : HandleTransaction(c)
    BY <2>2, <2>3, <2>4
    DEF Next, Grow, Poll, BeginPoll, HandleTransactionFails, EndPollFails, Crash, vars,
        txnsDbVars
  <2>6. phase = "poll" /\ phase' = phase /\ watermarkDb' = Round(c)
    BY <2>5 DEF HandleTransaction, Save
  <2> QED
    BY <2>5, <2>6, SavedCall
<1> QED
  BY <1>1, SubscriberInvariant, PTL DEF Spec, WatermarkBackOnlyInPoll

-----------------------------------------------------------------------------
(* The totals. *)

DepositRows    == txns \cap Deposits
WithdrawalRows == txns \cap Withdrawals

\* The totals say how many rows of each kind there are.
LEMMA TotalsAreCounts ==
  StatsAgree <=> stats = [total_deposits    |-> Cardinality(DepositRows) * DepositAmount,
                          total_withdrawals |-> Cardinality(WithdrawalRows) * WithdrawalAmount,
                          total_fees        |-> Cardinality(WithdrawalRows) * WithdrawalFee,
                          count_deposits    |-> Cardinality(DepositRows)]
BY DEF StatsAgree, DepositRows, WithdrawalRows

\* The rows are finitely many.
LEMMA RowsFinite ==
  ASSUME TypeOK
  PROVE  /\ IsFiniteSet(Calls) /\ IsFiniteSet(txns)
         /\ IsFiniteSet(DepositRows) /\ IsFiniteSet(WithdrawalRows)
         /\ Cardinality(DepositRows) \in Nat /\ Cardinality(WithdrawalRows) \in Nat
         /\ Cardinality(DepositRows) <= Cardinality(txns) /\ Cardinality(txns) \in Nat
<1>1. IsFiniteSet(Calls)
  BY CallFacts, FS_Interval DEF Calls
<1>2. IsFiniteSet(txns)
  BY <1>1, FS_Subset DEF TypeOK
<1>3. DepositRows \in SUBSET txns /\ WithdrawalRows \in SUBSET txns
  BY DEF DepositRows, WithdrawalRows
<1>4. /\ IsFiniteSet(DepositRows) /\ IsFiniteSet(WithdrawalRows)
      /\ Cardinality(DepositRows) <= Cardinality(txns)
  BY <1>2, <1>3, FS_Subset
<1> QED
  BY <1>1, <1>2, <1>4, FS_CardinalityType

\* A row more of one kind.
LEMMA TotalsOfOneMore ==
  ASSUME SubscriberInv, StatsAgree, NEW c \in batch, HandleTransaction(c)
  PROVE  StatsAgree'
<1> DEFINE d == Cardinality(DepositRows)
           w == Cardinality(WithdrawalRows)
<1>1. TypeOK /\ c \in Calls /\ c \notin txns
  BY SavedCall DEF SubscriberInv
<1>2. /\ UNCHANGED calls /\ txns' = txns \cup {c}
      /\ stats' = IF Kind(c) = "deposit" THEN DepositStats ELSE WithdrawalStats
  BY DEF HandleTransaction, Save, vaultVars
<1>3. DepositRows' = (txns \cup {c}) \cap Deposits /\ WithdrawalRows' = (txns \cup {c}) \cap Withdrawals
  BY <1>2, SameChain DEF DepositRows, WithdrawalRows
<1>4. d \in Nat /\ w \in Nat /\ IsFiniteSet(DepositRows) /\ IsFiniteSet(WithdrawalRows)
      /\ c \notin DepositRows /\ c \notin WithdrawalRows
  BY <1>1, RowsFinite DEF DepositRows, WithdrawalRows
<1>5. stats = [total_deposits |-> d * 2, total_withdrawals |-> w * 1,
               total_fees |-> w * 1, count_deposits |-> d]
  BY TotalsAreCounts DEF DepositAmount, WithdrawalAmount, WithdrawalFee
<1>6. StatsAgree' <=>
        stats' = [total_deposits |-> d' * 2, total_withdrawals |-> w' * 1,
                  total_fees |-> w' * 1, count_deposits |-> d']
  BY DEF StatsAgree, DepositRows, WithdrawalRows, DepositAmount, WithdrawalAmount,
         WithdrawalFee
<1>7. CASE Kind(c) = "deposit"
  <2>1. DepositRows' = DepositRows \cup {c} /\ WithdrawalRows' = WithdrawalRows
    BY <1>1, <1>3, <1>7 DEF DepositRows, WithdrawalRows, Deposits, Withdrawals
  <2>2. d' = d + 1 /\ w' = w
    BY <1>4, <2>1, FS_AddElement
  <2>3. stats' = [total_deposits |-> d * 2 + 2, total_withdrawals |-> w * 1,
                  total_fees |-> w * 1, count_deposits |-> d + 1]
    BY <1>2, <1>5, <1>7 DEF DepositStats, Added, DepositAmount
  <2> HIDE DEF d, w
  <2> QED
    BY <1>4, <1>6, <2>2, <2>3
<1>8. CASE Kind(c) # "deposit"
  <2>1. WithdrawalRows' = WithdrawalRows \cup {c} /\ DepositRows' = DepositRows
    BY <1>1, <1>3, <1>8 DEF DepositRows, WithdrawalRows, Deposits, Withdrawals
  <2>2. w' = w + 1 /\ d' = d
    BY <1>4, <2>1, FS_AddElement
  <2>3. stats' = [total_deposits |-> d * 2, total_withdrawals |-> w * 1 + 1,
                  total_fees |-> w * 1 + 1, count_deposits |-> d]
    BY <1>2, <1>5, <1>8 DEF WithdrawalStats, Added, WithdrawalAmount, WithdrawalFee
  <2> HIDE DEF d, w
  <2> QED
    BY <1>4, <1>6, <2>2, <2>3
<1> QED
  BY <1>7, <1>8

\* A call that is added has no row.
LEMMA TotalsOfGrowth ==
  ASSUME SubscriberInv, StatsAgree, UNCHANGED <<txns, stats>>, [Next]_vars
  PROVE  StatsAgree'
<1>1. txns \subseteq Calls
  BY DEF SubscriberInv, TypeOK
<1>2. (txns \cap Deposits)' = txns \cap Deposits /\ (txns \cap Withdrawals)' = txns \cap Withdrawals
  BY <1>1, NotesStay DEF Deposits, Withdrawals
<1> QED
  BY <1>2 DEF StatsAgree

\* db.py:39-41, :82-86, db.go:131-143: the totals the statistics page reads are
\* those of the rows, whatever failed, wherever the process crashed, and also
\* where notes are lost.
THEOREM TotalsAgree == Spec => []StatsAgree
<1>1. Init => StatsAgree
  <2> SUFFICES ASSUME Init PROVE StatsAgree
    OBVIOUS
  <2>1. txns \cap Deposits = {} /\ txns \cap Withdrawals = {} /\ stats = NoTotals
    BY DEF Init, TxnsDbInit
  <2>2. Cardinality(txns \cap Deposits) = 0 /\ Cardinality(txns \cap Withdrawals) = 0
    BY <2>1, FS_EmptySet
  <2> QED
    BY <2>1, <2>2 DEF StatsAgree, NoTotals, DepositAmount, WithdrawalAmount, WithdrawalFee
<1>2. SubscriberInv /\ StatsAgree /\ [Next]_vars => StatsAgree'
  <2> SUFFICES ASSUME SubscriberInv, StatsAgree, [Next]_vars PROVE StatsAgree'
    OBVIOUS
  <2>1. CASE UNCHANGED <<txns, stats>>
    BY <2>1, TotalsOfGrowth
  <2>2. CASE \E c \in batch : HandleTransaction(c)
    BY <2>2, TotalsOfOneMore
  <2>3. UNCHANGED <<txns, stats>> \/ \E c \in batch : HandleTransaction(c)
    BY DEF Next, Grow, Start, SetWatermark, Poll, BeginPoll, HandleTransactionFails,
           EndPoll, EndPollFails, Crash, vars, txnsDbVars
  <2> QED
    BY <2>1, <2>2, <2>3
<1> QED
  BY <1>1, <1>2, SubscriberInvariant, PTL DEF Spec

-----------------------------------------------------------------------------
(* The promise to the readers. *)

\* db.py:124-132, db.go:70-104: every step of the chain and of the service is a
\* step of ChainMirror, or changes nothing its readers see.
THEOREM Mirrors == Spec => MirrorsChain
<1> DEFINE rows == {Leaf(c) : c \in txns \cap Notes}
           places == {Leaf(c) : c \in txns \ Notes}
<1>1. Init => Mirror!Init
  <2> SUFFICES ASSUME Init PROVE Mirror!Init
    OBVIOUS
  <2>1. TreeSize = 0 /\ txns = {} /\ leafCount = 0
    BY DEF Init, VaultInit, TxnsDbInit, TreeSize
  <2> QED
    BY <2>1 DEF Mirror!Init
<1>2. SubscriberInv /\ [Next]_vars => [Mirror!Next]_(Mirror!vars)
  <2> SUFFICES ASSUME SubscriberInv, [Next]_vars PROVE [Mirror!Next]_(Mirror!vars)
    OBVIOUS
  <2>1. TypeOK /\ ChainInv /\ txns \subseteq Calls
    BY DEF SubscriberInv, TypeOK
  <2>2. ASSUME UNCHANGED <<calls, txns, leafCount>> PROVE [Mirror!Next]_(Mirror!vars)
    <3>1. UNCHANGED <<TreeSize, rows, places, leafCount>>
      BY <2>2, SameChain
    <3> QED
      BY <3>1 DEF Mirror!vars
  <2>3. ASSUME NEW kind \in Kinds, Call(kind), UNCHANGED <<txnsDbVars, subscriberVars>>
        PROVE  [Mirror!Next]_(Mirror!vars)
    <3>0. PICK new : new = Len(calls) + 1
      OBVIOUS
    <3>1. /\ \A c \in Calls : Kind(c)' = Kind(c) /\ Leaf(c)' = Leaf(c) /\ c \in Calls'
          /\ Leaf(new)' = IF kind = "noChange" THEN TreeSize - 1 ELSE TreeSize
          /\ TreeSize' = Leaf(new)' + 1 /\ TreeSize \in Nat
      BY <2>1, <2>3, <3>0, CallAppended, CallFacts
    <3>2. UNCHANGED <<txns, leafCount>>
      BY <2>3 DEF txnsDbVars
    <3>3. txns' \cap Notes' = txns \cap Notes /\ txns' \ Notes' = txns \ Notes
      BY <2>1, <3>1, <3>2 DEF Notes
    <3>4. UNCHANGED <<rows, places>>
      BY <2>1, <3>1, <3>3
    <3>5. TreeSize' = TreeSize \/ TreeSize' > TreeSize
      BY <3>1
    <3> QED
      BY <3>2, <3>4, <3>5 DEF Mirror!Next, Mirror!Extend, Mirror!vars
  <2>4. ASSUME NEW c \in batch, HandleTransaction(c) PROVE [Mirror!Next]_(Mirror!vars)
    <3>1. c \in Calls /\ c \notin txns
      BY SavedCall, <2>4
    <3>2. /\ UNCHANGED calls /\ txns' = txns \cup {c} /\ leafCount' = Leaf(c) + 1
          /\ \A row \in txns : Leaf(row) # Leaf(c)
      BY <2>4 DEF HandleTransaction, Save, SaveAllowed, vaultVars
    <3>3. Leaf(c) \in (0 .. TreeSize - 1) \ (rows \cup places)
      BY <2>1, <3>1, <3>2, LeavesBelow
    <3>4. \/ rows' = rows \cup {Leaf(c)} /\ places' = places
          \/ places' = places \cup {Leaf(c)} /\ rows' = rows
      <4>1. rows' = {Leaf(e) : e \in (txns \cup {c}) \cap Notes}
            /\ places' = {Leaf(e) : e \in (txns \cup {c}) \ Notes}
        BY <3>2, SameChain
      <4>2. CASE c \in Notes
        BY <4>1, <4>2
      <4>3. CASE c \notin Notes
        BY <4>1, <4>3
      <4> QED
        BY <4>2, <4>3
    <3>5. TreeSize' = TreeSize
      BY <3>2, SameChain
    <3>6. Mirror!Mirror
      BY <3>2, <3>3, <3>4, <3>5 DEF Mirror!Mirror
    <3> QED
      BY <3>6 DEF Mirror!Next
  <2>5. \/ UNCHANGED <<calls, txns, leafCount>>
        \/ \E c \in batch : HandleTransaction(c)
        \/ \E kind \in Kinds : Call(kind) /\ UNCHANGED <<txnsDbVars, subscriberVars>>
    BY DEF Next, Grow, NewBlock, Start, SetWatermark, Poll, BeginPoll,
           HandleTransactionFails, PollFails, EndPoll, EndPollFails, Crash, vars,
           vaultVars, txnsDbVars
  <2> QED
    BY <2>2, <2>3, <2>4, <2>5
<1> QED
  BY <1>1, <1>2, SubscriberInvariant, PTL DEF Spec, MirrorsChain, Mirror!Spec

=============================================================================
