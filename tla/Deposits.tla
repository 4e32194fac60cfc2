------------------------------ MODULE Deposits ------------------------------
(***************************************************************************)
(* Depositing from one account: the deposit form and its (max) link, the   *)
(* handler that builds the group and stores the session, the confirm page, *)
(* the confirm handler up to the node's verdict, and the ledger.  The      *)
(* account is used by several forms and by others, and time passes: the    *)
(* group is valid for WaitRounds, the session is dropped by a ticker, a    *)
(* restart drops them all.                                                 *)
(*                                                                         *)
(* Time is counted in rounds, the ten and five minutes of the sessions     *)
(* too.  What the handler does with receipts, and two requests for one     *)
(* form, are in Frontend.                                                  *)
(***************************************************************************)
EXTENDS Inputs

CONSTANTS
  Forms,                \* deposit forms, all from the one account
  Typed,                \* amounts users type
  Fee,                  \* DepositMinFeeMultiplier * MinTxnFee
  DepositMinimumAmount, \* what the contract takes at least
  MinimumBalance,       \* of an account with no opt-ins
  OptInBalance,         \* what one opt-in adds to it
  WaitRounds, SessionTtl, CleanupInterval,
  LatePayments,         \* TRUE: the account may be paid while a deposit that
                        \* closes it is under way
  Payments,             \* amounts the account is paid, or pays, elsewhere
  InitialBalances,
  MaxBalance, MaxTime   \* bounds on the payments and the rounds

ASSUME DepositsAssumption ==
  /\ Typed \subseteq Input
  /\ Fee \in Nat /\ DepositMinimumAmount \in Nat \ {0}
  /\ MinimumBalance \in Nat /\ OptInBalance \in Nat \ {0}
  /\ WaitRounds \in Nat /\ SessionTtl \in Nat /\ CleanupInterval \in Nat
  /\ LatePayments \in BOOLEAN
  /\ Payments \subseteq Nat /\ InitialBalances \subseteq 0 .. MaxBalance
  /\ MaxBalance \in Uint64 /\ MaxTime \in Nat

VARIABLES
  balance, \* ledger: of the account
  optedIn, \* ledger: whether the account has an opt-in
  vault,   \* ledger: what deposits brought the contract
  worth,   \* contract: what the notes of the deposits are worth
  now,     \* the round
  started, \* when the server started
  ticker,  \* when the ticker of the sessions fires next
  sessions, \* memory store: the forms that have one
  page,    \* where each form stands
  typed,   \* what is in its amount field
  amount,  \* the amount of its session, its note and its group
  closes,  \* whether its group closes the account into the contract
  built    \* the round its group was built and its session stored in

ledgerVars == <<balance, optedIn, vault, worth>>
timeVars   == <<now, started, ticker>>
formVars   == <<page, typed, amount, closes, built>>
vars == <<ledgerVars, timeVars, sessions, formVars>>

\* Nothing was typed yet.
Blank == [whole |-> -1, digits |-> 0, decimals |-> 0]

Init ==
  /\ balance \in InitialBalances
  /\ optedIn \in BOOLEAN
  /\ vault = 0 /\ worth = 0
  /\ now = 1 /\ started = 0 /\ ticker \in now .. now + CleanupInterval
  /\ sessions = {}
  /\ page = [f \in Forms |-> "form"]
  /\ typed = [f \in Forms |-> Blank]
  /\ amount = [f \in Forms |-> 0]
  /\ closes = [f \in Forms |-> FALSE]
  /\ built = [f \in Forms |-> 0]

Goto(f, from, to) == page[f] = from /\ page' = [page EXCEPT ![f] = to]

\* The page is closed, and what it held is gone.
Forget(f) ==
  /\ typed' = [typed EXCEPT ![f] = Blank]
  /\ amount' = [amount EXCEPT ![f] = 0]
  /\ closes' = [closes EXCEPT ![f] = FALSE]
  /\ built' = [built EXCEPT ![f] = 0]

-----------------------------------------------------------------------------
(* The account. *)

\* The minimum balance of the account.
Mbr == IF optedIn THEN MinimumBalance + OptInBalance ELSE MinimumBalance

\* Mutant: the balance has to stay above the minimum in any case.
MaxDepositKeepingMbr ==
  IF balance < Mbr + Fee THEN 0 ELSE balance - Mbr - Fee

\* maxDepositAmount: an account whose minimum is that of an account with no
\* opt-ins may be closed.
MaxDepositAmount ==
  LET net == IF Mbr = MinimumBalance THEN balance
             ELSE IF balance < Mbr THEN 0 ELSE balance - Mbr
  IN IF net <= Fee THEN 0 ELSE net - Fee

\* A deposit that closes the account is under way.
Closing == \E f \in Forms : page[f] \in {"confirm", "sent"} /\ closes[f]

\* What a node holds against a group, in the order it looks: the contract
\* asserts the minimum; the account cannot pay; an account with an opt-in
\* cannot be closed; what would be left is less than the minimum balance.
TooSmall(f)     == amount[f] < DepositMinimumAmount
Overspends(f)   == balance < amount[f] + Fee
ClosesOptIn(f)  == closes[f] /\ optedIn
BelowMinimum(f) == ~closes[f] /\ balance < amount[f] + Fee + Mbr

Accepted(f) ==
  ~TooSmall(f) /\ ~Overspends(f) /\ ~ClosesOptIn(f) /\ ~BelowMinimum(f)

BePaid(payment) ==
  /\ LatePayments \/ ~Closing
  /\ balance + payment <= MaxBalance
  /\ balance' = balance + payment
  /\ UNCHANGED <<optedIn, vault, worth, timeVars, sessions, formVars>>

Pay(payment) ==
  /\ Mbr <= balance - payment
  /\ balance' = balance - payment
  /\ UNCHANGED <<optedIn, vault, worth, timeVars, sessions, formVars>>

OptIn ==
  /\ ~optedIn
  /\ MinimumBalance + OptInBalance <= balance
  /\ optedIn' = TRUE
  /\ UNCHANGED <<balance, vault, worth, timeVars, sessions, formVars>>

-----------------------------------------------------------------------------
(* The forms and their handlers. *)

Type(f, input) ==
  /\ page[f] = "form"
  /\ typed' = [typed EXCEPT ![f] = input]
  /\ UNCHANGED <<page, amount, closes, built, ledgerVars, timeVars, sessions>>

\* MaxDepositHandler fills the field.
Max(f) == Type(f, MicroAlgosToAlgoString(MaxDepositAmount))

\* Mutant: the account is closed when less than its minimum would be left.
ClosesOnDust(deposit) == balance <= deposit + Fee + MinimumBalance

\* CreateDepositTxns closes the account when nothing but the fee is left, if
\* the node tells its balance.
Closes(deposit) == balance = deposit + Fee

\* DepositHandler.
Deposit(f) ==
  /\ ~ToAmountFails(typed[f])
  /\ Goto(f, "form", "confirm")
  /\ amount' = [amount EXCEPT ![f] = ToAmount(typed[f])]
  /\ \E told \in BOOLEAN :
       closes' = [closes EXCEPT ![f] = told /\ Closes(ToAmount(typed[f]))]
  /\ built' = [built EXCEPT ![f] = now]
  /\ sessions' = sessions \cup {f}
  /\ UNCHANGED <<typed, ledgerVars, timeVars>>

\* "Invalid algo amount", or the group cannot be built.
DepositFails(f) ==
  /\ Goto(f, "form", "failed")
  /\ Forget(f)
  /\ UNCHANGED <<ledgerVars, timeVars, sessions>>

Valid(f) == now <= built[f] + WaitRounds

\* What a node answers to the group.
Answer(f) ==
  IF ~Valid(f)            THEN "expired"
  ELSE IF TooSmall(f)     THEN "rejected"
  ELSE IF Overspends(f)   THEN "refused"
  ELSE IF ClosesOptIn(f)  THEN "rejected"
  ELSE IF BelowMinimum(f) THEN "refused"
  ELSE "sent"

\* What becomes of a confirmation.  The amount comes back from the hidden
\* field of the confirm page.
Verdict(f) ==
  LET field == MicroAlgosToAlgoString(amount[f])
  IN IF ToAmountFails(field)            THEN "malformed"
     ELSE IF f \notin sessions          THEN "lost"
     ELSE IF ToAmount(field) # amount[f] THEN "mismatch"
     ELSE Answer(f)

\* ConfirmDepositHandler and the node it sends the group to.
ConfirmDeposit(f) ==
  /\ Goto(f, "confirm", Verdict(f))
  /\ sessions' = IF Verdict(f) = "malformed" THEN sessions ELSE sessions \ {f}
  /\ IF Verdict(f) \in {"malformed", "sent"}
     THEN UNCHANGED <<typed, amount, closes, built>>
     ELSE Forget(f)
  /\ UNCHANGED <<ledgerVars, timeVars>>

\* The signed transaction does not decode.  The page is closed, but the handler
\* has not touched the session.
ConfirmUnsigned(f) ==
  /\ ~ToAmountFails(MicroAlgosToAlgoString(amount[f]))
  /\ Goto(f, "confirm", "unsigned")
  /\ typed' = [typed EXCEPT ![f] = Blank]
  /\ amount' = [amount EXCEPT ![f] = 0]
  /\ closes' = [closes EXCEPT ![f] = FALSE]
  /\ UNCHANGED <<built, ledgerVars, timeVars, sessions>>

\* The group is in a block: the payment, and the rest of the balance when the
\* account is closed.
Include(f) ==
  /\ Valid(f) /\ Accepted(f)
  /\ Goto(f, "sent", "deposited")
  /\ LET paid == IF closes[f] THEN balance - Fee ELSE amount[f]
     IN /\ vault' = vault + paid
        /\ balance' = balance - Fee - paid
  /\ worth' = worth + amount[f]
  /\ Forget(f)
  /\ UNCHANGED <<optedIn, timeVars, sessions>>

\* The group leaves the pool: it expired, or its payment failed.
Drop(f) ==
  /\ ~(Valid(f) /\ Accepted(f))
  /\ Goto(f, "sent", "failed")
  /\ Forget(f)
  /\ UNCHANGED <<ledgerVars, timeVars, sessions>>

-----------------------------------------------------------------------------
(* Time. *)

\* The ticker is not late.
Tick ==
  /\ now < MaxTime /\ now < ticker
  /\ now' = now + 1
  /\ UNCHANGED <<started, ticker, ledgerVars, sessions, formVars>>

\* Mutant: the comparison is the wrong way round.
TooOldInverted(f) == now - built[f] < SessionTtl

\* now.Sub(tg.createdAt) > s.ttl
TooOld(f) == now - built[f] > SessionTtl

\* Mutant: the ticker is made of the ttl.
CleanupEveryTtl ==
  /\ now = ticker
  /\ ticker' = now + SessionTtl
  /\ sessions' = {f \in sessions : ~TooOld(f)}
  /\ UNCHANGED <<now, started, ledgerVars, formVars>>

\* startCleanup of the memory store.
Cleanup ==
  /\ now = ticker
  /\ ticker' = now + CleanupInterval
  /\ sessions' = {f \in sessions : ~TooOld(f)}
  /\ UNCHANGED <<now, started, ledgerVars, formVars>>

Restart ==
  /\ started < now
  /\ started' = now
  /\ ticker' = now + CleanupInterval
  /\ sessions' = {}
  /\ UNCHANGED <<now, ledgerVars, formVars>>

Handle(f) ==
  \/ \E input \in Typed : Type(f, input)
  \/ Max(f) \/ Deposit(f) \/ DepositFails(f) \/ ConfirmDeposit(f)
  \/ ConfirmUnsigned(f) \/ Include(f) \/ Drop(f)

Account == (\E payment \in Payments : BePaid(payment) \/ Pay(payment)) \/ OptIn

Next == (\E f \in Forms : Handle(f)) \/ Account \/ Tick \/ Cleanup \/ Restart

Spec == Init /\ [][Next]_vars

-----------------------------------------------------------------------------

\* The values each variable takes.
TypeOK ==
  /\ balance \in 0 .. MaxBalance
  /\ optedIn \in BOOLEAN
  /\ vault \in Nat /\ worth \in Nat
  /\ now \in Nat /\ started \in 0 .. now
  /\ ticker \in now .. now + CleanupInterval
  /\ sessions \subseteq Forms
  /\ page \in [Forms -> {"form", "confirm", "sent", "deposited", "failed",
                         "malformed", "unsigned", "mismatch", "lost", "expired",
                         "rejected", "refused"}]
  /\ typed \in [Forms -> Input]
  /\ amount \in [Forms -> Uint64]
  /\ closes \in [Forms -> BOOLEAN]
  /\ built \in [Forms -> 0 .. now]

\* The contract gets what the notes are worth: the group that closes the
\* account into it (transactions.go:102) takes nothing the user has no note
\* for.
VaultIsNotes == vault = worth

\* The amount goes from the form to the session, to the confirm page, and back
\* to the confirm handler (confirm_deposit.go:109) without a change, and what
\* is sent is what was written, except when that is no uint64.
AmountSurvives ==
  \A f \in Forms :
    /\ page[f] \notin {"malformed", "mismatch"}
    /\ page[f] = "sent" =>
         amount[f] = Written(typed[f]) \/ Word <= Written(typed[f])

\* Whoever confirms while the group is valid has a session, unless the server
\* was started anew: "Something went wrong" is no answer to a user in time.
SessionOutlivesGroup ==
  \A f \in Forms :
    page[f] = "confirm" /\ Valid(f) /\ started < built[f] => f \in sessions

\* A session of a form nobody confirms leaves the memory of the server.
SessionsLeave ==
  \A f \in sessions : now <= built[f] + SessionTtl + CleanupInterval

\* The maximum the pages tell (confirm_deposit.go:162, max_deposit.go:31) is
\* one: no deposit above it gets into a block, and a deposit of exactly the
\* maximum is refused only when its group leaves open an account that could be
\* closed, so that the same deposit goes through when it is made again.
MaximumIsRight ==
  [][\A f \in Forms :
       /\ page[f] = "sent" /\ page'[f] = "deposited" =>
            amount[f] <= MaxDepositAmount
       /\ page[f] = "confirm" /\ page'[f] = "refused" /\ amount[f] = MaxDepositAmount =>
            ~closes[f] /\ Mbr = MinimumBalance]_vars

-----------------------------------------------------------------------------
(* The inductive invariant. *)

\* The amount of a form that waits is the one that was written.
WrittenInv ==
  \A f \in Forms :
    page[f] \in {"confirm", "sent"} =>
      amount[f] = Written(typed[f]) \/ Word <= Written(typed[f])

\* An account that is being closed has no more than the deposit takes.
ClosingInv ==
  \A f \in Forms :
    page[f] \in {"confirm", "sent"} /\ closes[f] => balance <= amount[f] + Fee

\* A session is of a form that waits, or that came without its signature, and
\* the ticker that drops it is due.
SessionInv ==
  \A f \in sessions :
    /\ page[f] \in {"confirm", "unsigned"}
    /\ ticker <= built[f] + SessionTtl + CleanupInterval

DepositInv ==
  /\ TypeOK /\ WrittenInv /\ ClosingInv /\ SessionInv
  /\ VaultIsNotes /\ AmountSurvives /\ SessionOutlivesGroup

=============================================================================
