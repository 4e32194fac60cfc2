# TLA+ models of the HermesVault frontend

HermesVault is a contract on Algorand that takes deposits and pays
withdrawals against zero-knowledge proofs. This repository is a frontend of
it: a Go web server, a Python service that mirrors the chain into a database,
and a few lines of JavaScript. The modules in this directory model what the
server and the service do with their two databases, the node and the browser;
TLC checks them on small instances, and TLAPS proves the main results for all
of them.

Paths below are relative to the repository.

## The system

    browser --- POST /deposit, /withdraw ------> forms, sessions
            --- POST /confirm-deposit, ... ----> confirm handlers ---> algod
                                                   |        ^            |
                                              internal.db   |          chain
                                                   |      txns.db        |
                                        cleanup routine     ^------- subscriber

| Component | State | Operations | What makes it correct |
|---|---|---|---|
| Confirm handlers (`handlers/confirm_*.go`, `avm/transactions.go`, `avm/errors.go`) | one goroutine per request: error of the node, error of SaveNote, the row it registered | look up the session or build the group, register, send, wait, save, delete the row | no note that gets on chain is without a receipt; the browser hears the truth |
| internal.db (`db/internal.go`, `db/db.go`) | `unconfirmed_notes`, `notes` | insert, move, delete, each one statement or one transaction | one row per group, one receipt per note |
| Cleanup routine (`db/maintenance.go`) | snapshot of the rows of a pass | look a row up in txns.db, move it, drop it after 7 days | a row is moved to the receipts or is of a group that is dead |
| Deposit form (`handlers/deposit.go`, `handlers/max_deposit.go`, `models/input.go`, `models/amount.go`) | none in the server, the form carries it | read the amount, tell the maximum, build the group, close the account | what is sent is what was typed, and the note is worth it |
| Deposit sessions (`memstore/memstore.go`) | a map from group ids, 10 minutes each | store, retrieve, delete, expire | a session is used once, outlives its group and is dropped in the end |
| Subscriber (`subscriber-service/`) | watermark in memory and in txns.db, `txns`, `roots`, `stats` | start, poll, save a deposit or withdrawal, retry | every note gets its row, the root becomes that of the rows, the totals are those of the rows |
| Withdrawal flow (`handlers/withdraw.go`, `confirm_withdrawal.go`) | none in the server, the form carries it | look the leaf up, make the change note, read root and leaves, prove, send | what the form accepts can be withdrawn |
| Merkle proof (`avm/merkle.go`) | two slices of hashes | hash level by level, pick up siblings | the path verifies against the root |
| Statistics (`handlers/stats.go`, `db.GetStats`) | none | two queries, three subtractions | no subtraction wraps as long as no note is lost |
| Contract (artefacts only) | tree, ring of 50 roots, nullifiers, balance | deposit, withdraw | external; modelled from how it is called |
| Browser (`frontend/js/`) | the state of the submit button | submit, sign, re-enable after 60 s | a form is submitted once at a time |

What is hard here:

- *Concurrency.* Every request is a goroutine; the cleanup, the expiry of the
  sessions and the subscriber, a process of its own, run beside them. The
  handlers and the subscriber share txns.db, the handlers and the cleanup
  internal.db, and no transaction spans two steps of a handler.
- *Failure.* A call to the node may fail after the network took the group. A
  statement may fail. The process may end between any two steps: the shutdown
  waits 60 s, a handler up to 30 rounds.
- *Order.* The subscription library hands over the transactions of one
  filter after those of the other, the deposits of a poll before its
  withdrawals, and after a failed poll it hands them over again.
- *Time.* Groups expire after 30 rounds, rows after 7 days, sessions after 10
  minutes, roots after 50 insertions.
- *Arithmetic.* Amounts are uint64, text in the forms, and field elements in
  the circuit.

`PROJECT.json` lists the components, one by one, and the hazards, each at its
line with the properties that watch it.

## Modules

### Receipts: `Frontend` and what it is made of

| Module | Models |
|---|---|
| `ConfirmRequests` | the requests browsers send, and the group of each |
| `InternalDb` | the tables and statements of internal.db, with DbError for a failing one |
| `Chain` | each group in the network: unsent, in a pool, on chain with its leaf, or dead |
| `ConfirmHandler` | the two confirm handlers, one action per step between two points where another actor can come in |
| `Cleanup` | a pass over the snapshot of the rows |
| `Frontend` | the process: handlers, cleanup at start and at every tick, crash, restart; the network, the subscriber and the clock of the rows as environment |
| `ReceiptLedger` | the abstract specification: what the frontend promises about receipts |
| `MCFrontend` | the requests and groups of the runs |
| `FrontendProofs`, `ReceiptProofs`, `ReplyProofs` | the proofs: faithful receipts; none lost, and the refinement; what the browser is told |

`pc[q]` follows the handler: `retrieved` is between `RetrieveDeposit` and
`DeleteDeposit` of the store, `register` before `RegisterUnconfirmedNote`,
`send` before the node is called, `wait` in `WaitForConfirmation`, `save`
before `SaveNote`, `return` in the deferred closure. The answer is written
before the closure runs, but `net/http` drops it when the goroutine panics, so
`reply` is assigned in the closure's action. `confirmationError` is the type of
the error in the code's enumeration. The deposit and the withdrawal handler
differ until the note is registered; from there the code is the same, and so
are the actions.

`SaveNote` refuses a note whose leaf index was not set, like the code
(`SaveAllowed`); the cleanup's INSERT has no such check (`InsertAllowed`).

Time is a set of facts: `stale` holds the rows that are 7 days old. A row
becomes stale only when its group is settled, since a group lives 30 rounds.

### Deposits: `Deposits`, `Inputs`

| Module | Models |
|---|---|
| `Words` | uint64, as words of `Word` values |
| `Inputs` | an amount as text: what `ToAmount` reads, what `MicroAlgosToAlgoString` and `microAlgosToInputAmount` write |
| `Deposits` | form, (max) link, group, session, confirm page, verdict of the node, block; the account with its balance and opt-in; the ticker of the sessions and restarts |
| `MCDeposits` | the amounts typed in the runs |
| `DepositProofs` | the proofs |

`Deposits` stands in front of `Frontend`: it ends where the group is in a pool
or refused, which is where `Frontend` follows the receipt. `Forms` are the
tabs of one user, all with one account. `page[f]` is what the browser shows;
its value after the confirmation is the answer of `ConfirmDepositHandler`, one
name per message. A confirmation whose signed transaction does not decode
(`ConfirmUnsigned`) closes the page and leaves the session to the ticker.
`closes[f]` says that the group closes the account, decided
from the balance when the group is built. `balance`, `vault` and `worth` are
the ledger: what the account has, what the contract got, what the notes say.

A text is the number before the point, the number of digits after it and
the number they are; -1 before the point is everything `ParseUint` refuses.

Time is counted in rounds, for the 30 rounds of a group and for the 10 and 5
minutes of the sessions: at 2.8 s a round, 10 minutes are some 214 rounds. The
theorem `SessionsOutlive` needs only that a session lives as long as a group.

The comment above `maxDepositAmount` says that the minimum balance is
subtracted; the code does not subtract it from an account without opt-ins,
which the next comment explains. The model follows the code.

### Mirror: `Subscriber`

| Module | Models |
|---|---|
| `Vault` | the calls of the contract in the order of the chain, with the leaf index each logs and its round, the withdrawals that append no leaf among them (external) |
| `TxnsDb` | the rows of txns.db, with the transactions that save a deposit, a withdrawal and the watermark |
| `Subscriber` | start, polls, the handler of one transaction, its failures, the end of a poll, crashes |
| `ChainMirror` | the abstract specification: what readers of txns.db may rely on |
| `Stats` | the statistics page beside the subscriber |
| `SubscriberProofs`, `StatsProofs` | the proofs: losses, watermark, root, totals, the refinement; the page |

The library `AlgorandSubscriber` is external. What the code depends on is
modelled: a poll covers at most `MaxRoundsToSync` blocks after the watermark
in memory, reads them at once, hands each transaction to its handler once,
ends by setting the watermark, and is given up at the first exception. The
program gives it two filters, deposits first (`main.py:170`), and the library
hands over all transactions of a poll that match the first before any that
matches the second: `Before`. A deposit is therefore saved before a
withdrawal of an earlier block of the poll, and both rows that follow the last
save, `watermark` and `roots`, go back when the withdrawal is saved.

What the code does not keep in this order is stated as it is:

- A crash between the two saves loses the withdrawal's note for good, since
  the watermark row already names the deposit's block. `SkippedNote` finds it
  with one call a block. `LostOnlyWithProcess` says that this, or the same
  between two calls of one block, is the only way a note is lost: the process
  ends in a poll after a row of a later watermark was saved.
- After such a poll the root is the one of the withdrawal, and the rows reach
  beyond it, until the next insertion is saved. In this state `createMerkleProof`
  finds a root mismatch for every note (`MerkleProof!ProofWhenInStep`), so no
  withdrawal goes through. `RootLagsByDeposits` says that only rows of deposits
  delivered ahead of their turn can be beyond the root. No run shows the
  failing withdrawal: nothing in the repository promises otherwise, and the
  rows and the root agree again with the next poll that saves a last leaf.
- The value locked on the statistics page wraps when a deposit was lost and a
  withdrawal of its money was saved; `PageWrapsOnlyByLoss` says only then.

`ChainMirror` promises its readers no more than that a row stays and is of a
leaf of the chain, that a leaf has one row at most, and that the leaf count is
that of the row written last.

`withdraw` has a flag `no_change`, with which the contract appends no leaf and
logs the index of the last one (`avm/mainnet/APP.arc32.json`). This frontend
never sets it, other callers of the contract may. `withdraw_args` does not look
at the flag, so the service tries to insert a row whose `leaf_index` is taken
and fails each time, also after a restart; nothing after such a call is saved,
which `SavedUnlessBlocked` excepts. Where the note of that index was lost, the
call takes its place in `txns`: `SpoiledOnlyWhenLost`, and the `spoiled` rows of
`ChainMirror`. These calls (kind `noChange`) come anywhere among the others.

### Withdrawals: `Withdrawals`, `Amounts`, `MerkleProof`

| Module | Models |
|---|---|
| `Amounts` | fee, deduction, change and maximum in words of `Word` values; the constraints of the circuit in a field of `Field` elements |
| `Withdrawals` | requests from the form to the contract's verdict, on top of `ChainMirror`'s steps for txns.db |
| `MerkleProof` | `createMerkleProof` with its two slices |
| `WithdrawalProofs`, `MerkleProofs` | the proofs: the arithmetic, solvency and the requests; the path |

`Withdrawals` composes with the subscriber through the abstract specification:
txns.db moves by `ChainMirror!Mirror`, which `Subscriber` is shown to
implement without any hypothesis (`SubscriberProofs!Mirrors`): rows come in any
order, are missing for good, or are spoiled. `root[r]` is a number of
leaves; a proof can be made when the rows that are read are the leaves of it,
which is what `MerkleProof` shows of the code (`ProofIffInStep`, `RowsOfPrefix`). In `MerkleProof` the hash of
`a` and `b` is the pair `<<a, b>>`: two trees have the same root only when they
are the same tree. Every group of `Withdrawals` reaches the contract; lost
answers, refusals by the node and groups that expire are in `Frontend`.

## Runs

| Run | Question | Answer |
|---|---|---|
| `DoubleSubmit` | two confirms of one deposit, a failing statement, two crashes | `ReceiptInv` is invariant, no receipt is lost, success means a receipt, a reported failure is final, `ReceiptLedger` is implemented, every note on chain gets its receipt |
| `TwoNotes` | a deposit and a withdrawal, a node that fails after it took the group | receipts carry the right leaf, a note that timed out keeps its row, every row leaves |
| `Deposits` | two forms of one account, other payments, an opt-in, a restart, the ticker | the contract gets what the notes are worth, amounts survive, sessions outlive their groups and leave, the maximum is one |
| `Polls` | polls of two blocks of up to two calls, delivered filter by filter, calls without a leaf, a crash, a failure, and the statistics page | `SubscriberInv` is invariant; a note is lost, the root lags, the watermark goes back and the page wraps only as described above; the totals are those of the rows; `ChainMirror` is implemented; what is not saved or lost in the end lies behind a call whose leaf index is taken |
| `MerkleProof` | every set of rows, leaf and root of up to 8 leaves | the levels hashed in place are those of the tree; a path exactly when rows and root agree, and it verifies; the slice is left only when a row is missing |
| `Withdrawals` | two withdrawals, other frontends, rows saved in any order | the contract stays solvent, failures have a reason of the moment, the note is spent in the end if txns.db comes to stay in step with a known root |
| `Panic` | violated: every request is answered | SaveNote fails after the confirmation; the closure reads the type of a nil error |
| `LostReceipt` | violated: no receipt is lost | a lost answer to the send counts as a rejection and the row is deleted |
| `StuckRow` | violated: every row leaves | a crash between SaveNote and the deletion; the PRIMARY KEY stops every later pass |
| `CloseOut` | violated: the contract gets what the notes are worth | an account that is being closed is paid before the block |
| `SkippedNote` | violated: no note is skipped | a deposit of a later block is saved before a withdrawal, with a crash between the two; one call a block |
| `StuckSubscriber` | violated: everything is saved | after one failed transaction the next poll meets rows it already has |

The six violated runs are the findings of `PROJECT.json`, with the line of the
documentation each contradicts.

### Bounds

- `MaxDbErrors`, `MaxCrashes`, `MaxFailures` count failing statements, ends of
  the process and failing polls. One failure between any two steps is what
  matters; the second crash lets one hit the recovery from the first.
- `Requests`, `Txns`: two requests of one group race for the session and the
  UNIQUE id; two groups share the databases. Nothing else relates requests, so
  a third adds no new conflict.
- `Word = 1000`, `Decimals = 2` in `Deposits`: amounts of ten algos at most, so
  that a typed 11 wraps; "1.05" has a zero after the point that is lost when it
  is written wrongly, "1.005" has a digit too many. The account has 1.30, the
  fee is 0.05, the minimum balance 0.10: it can be closed (its maximum is
  1.25), and a payment of 0.20 leads it below the minimum deposit and back.
  `MaxBalance` bounds what it is paid, `MaxTime = 5` rounds suffice for a group
  to expire and its session to be dropped, the ticker starting anywhere in its
  interval.
- `LatePayments` FALSE keeps an account from being paid while a deposit that
  closes it is under way: the assumption under which `VaultIsNotes` holds, and
  `CloseOut` runs without.
- `Forms` is a symmetric set: forms differ in nothing, and no property of these
  runs is a liveness property.
- `MaxCalls`, `MaxRound`, `MaxPerBlock`, `MaxRoundsToSync`: in `Polls` four
  calls in three blocks of up to two, and polls of up to two blocks. A deposit
  can come after a withdrawal in one poll, in another block or in the same; a
  call without a leaf before, in or after the poll of the note whose index it
  logs; polls are empty, partial and full. A loss takes one crash, the endless
  repetition one failure. `SkippedNote` has one call a block and three blocks
  in one poll, the least for a deposit, a withdrawal and a deposit.
- `Depth = 3`, `MaxLeaves = 8`: a full tree, every padding at every level, and
  the two levels (the second and third) whose slices share an array.
- `Word = 8`, `Field = 17`, `MinFee = 1`: sums wrap within the amounts of the
  run, and the field has room for a uint64 and a negative difference, as
  2^64 and the order of the curve's scalar field have. `RootsKept = 2` with three insertions
  makes roots leave the ring.

Where deadlock is not checked the system may stop: the bounds on blocks and
insertions are used up and every request is answered.

### Fairness

- `Frontend`: a request that has arrived is served (goroutines are scheduled,
  calls to the node return), the ticker fires, the service manager
  restarts the process, groups are settled after 30 rounds, days pass and the
  subscriber gets to every block. Failures, crashes and the arrival of
  requests are not fair.
- `Deposits`: none, its properties are safety properties.
- `Subscriber` and `Stats`: `subscriber.start()` polls for ever and the service
  manager restarts the process. A failing transaction is never forced, nor is
  it excluded, and the chain need not grow.
- `Withdrawals`: handlers run, and a user whose withdrawal the modal led back to
  the form submits it again. The subscriber and the others are not fair:
  `Withdrawable` has as its premise that from some moment on the rows are those
  of a root the contract knows. That rests on insertions pausing for as
  long as a request takes (with 50 roots kept the code counts on that) and on
  a subscriber that lost nothing and is not held up.

## Proofs

All for any values of the constants that satisfy the assumptions in the
modules.

- `FrontendProofs!TypeCorrect`, `ReceiptsAreFaithful`: `[]TypeOK` and
  `[]NotesFaithful`, with no assumption on the node. Faithfulness alone is not
  inductive. A handler writes a receipt because it was told of a confirmation
  earlier, the cleanup because it found the row earlier; `FaithInv` adds that
  these facts are still true when they are used (`WriterInv`), which they are
  because a confirmed group stays so (`ChainInv`).
- `ReceiptProofs!ReceiptsAreNotLost`, `FrontendImplementsLedger`: `[]NoReceiptLost`
  and the refinement, under `~AmbiguousErrors /\ SubscriberKeepsUp`. The two
  hypotheses are needed: `LostReceipt` shows what happens without the first.
  A row is deleted by three actors; `RowInv` says that the handler about to
  delete one has its receipt or knows that the group never reached the
  network, `StaleInv` the same of the cleanup, and `UniqueRows` that no other
  request has a row of the group.
- `ReceiptProofs!LedgerLosesNothing`: `[]NoReceiptLost` of `ReceiptLedger` itself,
  so that the refinement promises what it is for.
- `ReplyProofs!SuccessIsReceipted`, without any assumption, and
  `TimeoutsKeepNotes`, under `SubscriberKeepsUp` alone. `SuccessInv` follows the
  nil error of a handler from `SaveNote` to its answer. `WaitInv` says that a
  handler waits only for a group that has its row; the row stays because the
  cleanup deletes none of a group that may confirm, and because a second
  request of the group, whose row is refused by the UNIQUE id, has none to
  delete.
- `ReplyProofs!FailuresAreFinal`: `FailureIsNotOnChain` under `~AmbiguousErrors`.
  `FailInv` says that no node has the group of a form sent once before its
  handler sends it, nor after the handler failed for another reason than the
  timeout; only the sender of a group gets it to a node (`OnlySendersSubmit`).
- `DepositProofs!DepositsAreSafe`: `[]DepositInv`, and from its parts, each under
  the hypotheses it needs, `NothingIsLost` (`~LatePayments`), `AmountsSurvive`,
  `SessionsOutlive` (`WaitRounds <= SessionTtl`), `SessionsAreDropped`,
  `MaximumHolds`. `ClosingInv` is the heart of the first: an account that is
  being closed has no more than its deposit takes, which is true when the group
  is built and stays true as long as nobody pays it. `RoundTrip` is about the
  two conversions alone, for every width and number of decimals.
- `SubscriberProofs!SubscriberInvariant`: `[]SubscriberInv` for every length of
  polls and number of calls in a block, with no hypothesis on the order, on
  failures or on crashes. `PollInv` says that what the poll has not saved is in
  its batch, and that no note is lost above the watermark row; `DeliveryInv`
  that a call still to come is earlier than a saved one only if it is a
  withdrawal and the other a deposit. From it `RootLags`, `SpoiledRows`,
  `LossNeedsAnEnd`, `WatermarkBack` and the refinement `Mirrors`.
- `SubscriberProofs!TotalsAgree`: `[]StatsAgree`, also where notes are lost: a
  saved row is one more of its kind, and the row and the totals are written in
  one transaction. The proof counts with the library's facts about
  cardinalities.
- `StatsProofs!PageIsSound`: `[]PageWrapsOnlyByLoss` of the page beside the
  subscriber. No prefix of the chain has more withdrawals than deposits
  (`PrefixesSpendable`, which the circuit grants). If the rows at the first
  query have more, a deposit before the last saved withdrawal has no row; by
  `DeliveryInv` it is lost, and it stays lost until the page is rendered
  (`PageInv`). The count of spent notes
  cannot wrap, since there are no fewer rows at the second query.
- `WithdrawalProofs!ChangeIsProvable`, `RefusalIsNeeded`, `MaximumIsMaximal`:
  the arithmetic, for every width and field. The first is why the check in
  `GenerateChangeNote` is enough for the circuit, the second why it is not too
  much.
- `WithdrawalProofs!WithdrawalTypes`, `WithdrawalsFailForAReason`:
  `[]TypeOK` and `FailsForAReason`. `RequestInv` carries the check of
  `WithdrawHandler` to `ConfirmWithdrawHandler`: the leaves of the tree do not
  change under a request, so what was checked still holds.
- `WithdrawalProofs!ContractIsSolvent`: `[]Solvent`. The balance is the sum of the
  unspent notes; a withdrawal takes from it what the circuit's equation says it
  takes from the sum. The sums are folds of the community modules; the lemmas
  about one note more or less rest on an induction over cardinalities.
- `MerkleProofs!LevelsAreTree`: `[]MerkleInv`, for every `Depth` and `MaxLeaves`, and
  from it `PathVerifies`, `ProofIffInStep` and `FailsOnHoleOnly`. While a level is
  hashed in place, what is not yet read of the array is still a level of the
  tree over the rows, what is written is the next one, and beyond the two there
  are only empty subtrees (`LevelsOfTree`); the path so far is that of the tree
  (`LoopInv`). `SameRoot` goes down from equal roots to equal leaves, `RankExists`
  says that sorting puts a leaf at the number of leaves below it. `RowsOfPrefix`
  ties the model of the code to the condition `Withdrawals` uses.

Only model-checked: the liveness properties (`OnChainGetsReceipt`,
`EveryRowLeaves`, `SavedUnlessBlocked`, `Withdrawable`), which are beyond the
prover. Every invariant and action property of the passing runs is a theorem.
The inductions the proofs need (on levels, on the number of leaves, on
cardinalities) are stated over sets of numbers (`MerkleProofs!Induction`), since
the library's induction theorems take an operator the provers cannot
instantiate.

## Not modelled

- The browser: that a form may come twice, late or not at all is modelled; the
  submit button, its 60 s and the queue of htmx are not, because what the code
  relies on there is the library's.
- Decoding of addresses and notes, which is the SDK's and hex's; a failure of
  it is a disjunct of the handlers. `Amount.Round` and the thousand separators
  are layout; the parser drops the latter.
- The 60 s of the orderly shutdown: a shutdown that waits is a run without a
  crash, one that does not is a crash.
- The artefacts loaded at start, configuration, encryption of receipts,
  rendering, the test programs, and `--fastcatchup`, which the code reserves for
  testing. Hashing and proving are symbolic.

Reasons, one by one, are in `PROJECT.json`.

## Plan

1. Done: receipts (`Frontend`), mirror (`Subscriber`), statistics, deposits,
   withdrawals, the Merkle proof, and the proofs above.
2. `Withdrawals` on `Subscriber` itself instead of `ChainMirror`, to say for how
   long a root that lags keeps every withdrawal from going through, and their
   receipts on `Frontend`.
3. The submit button of the browser, composed with the requests of
   `ConfirmHandler`.
4. Proofs about the modules of 2 and 3.
