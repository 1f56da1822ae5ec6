# PayWork verification project

PayWork (`src/`) is a FastAPI/Postgres back end for freelance contracts paid
through escrow.  This project states what its money path promises, in TLA+;
TLC checks it on small instances and TLAPS proves the central results for every
instance.  Paths below are relative to `src/app/` unless they start with `src/`.

## 1. The system

### Parts, state, operations

| Part | State | Operations that change it | Correct when |
|---|---|---|---|
| Contracts (`src/contracts`) | `contracts.status`, `milestones.status` | `create_contract`, `submit_milestone`, `approve_milestone`, `complete_contract_if_all_milestones_approved` | completed exactly when every milestone is settled; settled is final |
| Escrow ledger (`src/escrow`) | append-only `ledger_entries` on four accounts per contract | `confirm_funding`, `release_milestone`, `split_milestone`, `record_payout` | balanced; never overdrawn; every credit made once |
| Disputes (`src/disputes`) | `disputes`, `dispute_resolutions`, a Firestore thread | `open_dispute`, `resolve_dispute`, `post_message` | at most one open per contract; agrees with the statuses; can always be ruled on |
| Payouts (`src/payouts`) | `payouts` | `request_payout`, `mark_payout_sent` | one per milestone, for what it earned, always covered |
| Payments (`src/payments`) | `payment_transactions`, `processed_webhook_events` | `fund_contract`, `handle_webhook` (standard and Paystack) | a contract is charged once, whatever is retried or redelivered |
| Reconciliation (`platform/tasks/scheduled.py`) | none of its own | `reconcile_pending_transactions` | settles what a lost webhook left pending, once |
| Sessions (`db/session.py`, `core/dependencies.py`) | one SQLAlchemy session per request: identity map, transaction, row locks | `get_db` | every request is answered, and as if it ran alone |
| Statement cache (`platform/cache`) | a Redis key per contract and page | `get_statement` (read through), `invalidate_prefix` | a statement computed at rest is never out of date; any other goes with its expiry |
| Thread and stream (`src/disputes/firestore_client.py`, `platform/events`) | Firestore document and messages, subscriber queues | `create_thread`, `add_message`, `mark_thread_resolved`, `publish`, `subscribe` | a resolved dispute's thread is closed; who watches sees the thread in order |
| Accounts (`src/accounts`, `core/security.py`, `seed.py`) | `users` | `register_user`, `create_user_by_admin`, `authenticate_user`, `refresh_access_token`, `get_current_user` | one account per email; privilege only from above; tokens of deactivated users are of no use |

The parts interact in three ways: service functions call each other inside one
session (approval calls the ledger, a ruling calls the ledger and the contract's
completion, a webhook calls `confirm_funding`); requests meet in Postgres rows,
through `SELECT ... FOR UPDATE` on the contract, the milestone, the dispute or
the payout; and the handlers of one process share its event loop.  The routes
for funding, webhooks, disputes and payouts are `async` and call their service
function directly, on the loop; those for submission and approval go through
`run_in_threadpool`.

### What is hard

- *Overlap.*  Every service function reads, locks, checks and writes; which
  reads happen before the lock decides what it can get wrong.
- *The identity map.*  A session that has loaded a row and then selects it
  `FOR UPDATE` (without `populate_existing`) locks the current row and goes on
  seeing the old object.
- *Lock order.*  Approval locks the milestone first and the contract second; all
  other calls lock the contract before a milestone is written.
- *The event loop.*  A lock wait inside an `async` route stops the whole process,
  and the lock may belong to a request whose clean-up the loop has yet to run.
- *Sequences of calls.*  Disputes on milestones and on whole contracts, rulings,
  approvals and payouts in any order.
- *Rounding and coverage.*  A ruling splits integers by percent; a payment event
  may report an amount other than the milestones' total.
- *Delivery.*  Webhooks are lost, redelivered, late; requests are retried;
  a process may die between the two commits of a webhook.
- *Second stores.*  Redis and Firestore change outside the transaction, fail on
  their own, and nothing retries what failed.
- *Checks that are not locked.*  A dispute's status before a message is written, an
  email before an account is inserted, a user's activity before a request acts.

`PROJECT.json` lists each of these at its line, with the properties that cover it.

## 2. Modules and plan

| | Module | Content | State |
|---|---|---|---|
| 1 | `Sums` | sums of amounts, as cardinalities | done |
| 2 | `Escrow` | the money path, one whole call per action: the abstract specification | done |
| 3 | `EscrowTx` | the same calls as overlapping transactions; implements `Escrow` | done |
| 4 | `SumTheorems`, `EscrowProofs` | lemmas on sums; the theorems about `Escrow` | done |
| 5 | `Payments` | idempotency keys, event ids and types, Paystack verification, the two commits of a webhook, crashes, redelivery, the sweep; implements `Escrow` | done |
| 6 | `StatementCache`, `CacheProofs` | read-through cache against invalidation before commit, separate reads, failing Redis, expiry | done |
| 7 | `Thread`, `DisputeThread`, `DisputeThreadProofs` | what a thread promises; messages, resolution and the Firestore mirror with its failures, live streams; implements `Thread` | done |
| 8 | `Accounts`, `AccountsProofs` | accounts and how they come to be, tokens, deactivation, permissions | done |
| 9 | `PaymentsProofs` | every safety property of `Payments`, and that every step of it is a step of `Escrow` or a stutter | done |
| 10 | `EscrowTxProofs` | types, lock exclusion and lock cycles, the books under races, and that every step of `EscrowTx` is a step of `Escrow` or a stutter | done |
| 11 | | weaker hypotheses: ChargedOnce where only submissions race, the thread's theorems without `OneServer` where they hold without it | planned |

The order follows the money: first what a sequence of calls may do, then what
their overlap may do, then how calls are repeated and lost, then the stores that
only mirror.  `EscrowTx` EXTENDS `Escrow` (it shares its data and uses its
helpers), so that `Escrow!Spec` itself is the property that a run checks.
`Payments` EXTENDS it in the same way and refines its `FundContract` and
`ConfirmFunding` by the steps that lead to them.  The two are not composed with
each other: `EscrowTx` takes a payment event as a single transaction of one shape,
`Payments` leaves out what happens to a contract once it is funded (its code asks
of a contract only whether it is draft).  `StatementCache`, `DisputeThread` and
`Accounts` stand beside them: what they share with the money path is the ledger (as
a number of movements), the dispute's row (as its status) and the parties of a
contract, and none of them changes it in a way that the money path could notice.
No module uses a RECURSIVE operator.

## 3. Correspondence

### `Escrow`

| Variable | Code |
|---|---|
| `contract`, `milestone` | the status columns, `"absent"` before the row exists |
| `ledger[c][a]` | `get_balance(contract, account)`: the sum of that account's entries. The entries are append-only and only ever summed, except for the ruling (below) |
| `dispute[t]` | the latest dispute on milestone or contract `t`. A milestone can be disputed once in its life (only from `submitted`, and a ruling settles it); a contract dispute that follows another is a new row, and the resolved row before it is not consulted again |
| `ruling[m]` | `freelancer_amount` of the resolution that covered `m`, which `_payable_amount` looks up |
| `payout[m]` | the payout row; `milestone_id` is unique |

Each action is one service function that commits, from its first statement to
its last, including the completion test and the ledger entries it triggers.
A function that raises leaves the database as it was, so its error paths are the
negations of the guards.  A ruling on a contract splits its milestones one after
another, each against the balance left by the one before; since the amounts are
positive this is the same as one test of their sum, which is how `Settle` puts
it.  The milestones it splits are those of `UNSETTLED_MILESTONE_STATUSES`.
The caller is taken to be the party the call requires; permissions are the matter of
`Accounts`.  `FundContract` carries the width of `payment_transactions.amount_minor`
as `MaxInt` (SQLite in the tests would not mind, Postgres refuses the row).

### `EscrowTx`

A slot holds one request in progress.  `req` says which, `pc` how far it is
(`running`, `writing`, `refused`, `idle`), `locks` how many rows of its `LockPlan`
it has, `view` is the session's identity map, `writes` what the flush will write.
`Begin` is the routing of the request and its reads before any lock;
`Lock` is one `FOR UPDATE`; `Decide` evaluates the checks of the service function
on `view` (for attributes of loaded objects) or on the current rows (for sums and
for queries that filter on a status); `Commit` is flush and commit; `Refuse` is a
raised `AppError`; `Cleanup` is the unwinding of `get_db`, which needs the loop;
`DeadlockAbort` is Postgres breaking a cycle; `Crash` is a process dying with
all its sessions.  Modelling decisions a reader may want to argue about:

- *First load wins* (`Load`).  SQLAlchemy does not refresh a loaded object when a
  later `SELECT` finds its row, with or without `with_for_update()`.  Queries that
  filter in SQL, and sums, see the latest commits.
- *Locks are held from `Lock` to the end of the transaction.*  Rows that are
  written without having been locked first (`Touched`) are waited for in the
  flush.  The order of flushed rows inside one transaction is left out: the
  contract's row is already locked by everybody who writes several.
- *A payout insert* takes a key-share lock on its milestone, which waits for an
  approval that has the milestone locked.
- *Which routes run on the loop* (`OnLoop`) is read off the routers.
- *`Overlaps`* says which requests with an unprotected first read may overlap
  their rivals: `"submit"` (two submissions of one milestone) and `"webhook"` (two
  fundings of one contract).  With `Overlaps = {}` these pairs are kept apart and
  everything else overlaps freely; with both in, `tx_races` shows the damage of each.

### `Payments`

| Variable | Code |
|---|---|
| `keys[k]` | the `idempotency_keys` row: the contract of its endpoint |
| `tx[r]` | status of the `payment_transactions` row with reference `r` |
| `processed` | `processed_events`; the id of a Paystack event is made of its reference |
| `outcome[r]` | the payment at Paystack (external): pending, then a success, a success of another amount (`"short"`) or failed, for good |
| `charges[c]` | history: which key, event or transaction charged `c`, in order |
| `answer[k][c]` | history: the last answer to a funding request |
| `unanswered` | history: the references whose event was believed because Paystack could not be asked |
| `job`, `pc`, `seen`, `locked` | a handler's or sweep's session: what it is at, the contract status it read unlocked, the rows it has locked or inserted |

`FundLock`, `FundCommit` are `fund_contract`; `EventInsert`, `EventTouch`, `EventConfirm`
are `_handle_standard_webhook`, cut where its autoflush can wait; `Verify`,
`Confirm`, `Record` are `_handle_paystack_webhook` and `_reconcile_one`, cut at the
call to Paystack and at the two commits.  A lock and a commit with no wait between
them are one step.  To argue about:

- *Pending transactions.*  No function of today's code creates one.  An earlier
  version did (`src/Log.md`, Day 6), and the Paystack handler and the sweep deal
  with them, so `Checkout` (external) supplies one.  The transactions that
  `fund_contract` writes today are a success from the start and unknown to
  Paystack; nothing reads them again, and they are left out.
- *The sweep* is one job per transaction.  It keeps one session for its list, but
  each commit expires what it loaded.  Every pending transaction counts as old
  enough, and several sweeps may run (one per process).
- *Duplicates of one event* may always overlap: the primary key of
  `processed_events` makes the second wait and then fail.  While a contract is
  draft, a standard event for it overlaps another funding of it only with
  `Overlaps = TRUE`, for the reason found in `tx_races`; with a sweep thread, one
  server process is enough for that.  Once the contract is funded all of them
  overlap freely.
- Refused requests give up their locks at once; `EscrowTx` has the longer story.
- A Paystack event other than `charge.success` only records its own id and is
  left out; so is an event without id or reference.

### `StatementCache`

| Variable | Code |
|---|---|
| `ledger`, `flushed` | how many movements of the contract are committed, and how many including those of the open transaction |
| `phase`, `scan` | where the writer is between its flush, `invalidate_prefix` and its commit; the keys its scan has yet to reach |
| `cache[p]` | the Redis key of a page (limit and offset): what its first and its last query saw |
| `reader[r]` | a request that missed: the page, how many queries it has sent, what they saw |

`Miss`, `Query`, `Store`, `StoreNothing` are `get_statement` with `get_cached` and
`set_cached`; `Move` is a flush of ledger entries by any of the ledger's operations
(funding, release, split, payout) and the beginning of its `invalidate_prefix`,
`Sweep`, `SweepEnds`, `SweepFails` the rest of it; `Commit`, `Rollback` end the
transaction.  `Expire` is external.  To argue about:

- *One writer.*  Every operation on the ledger has the contract's row locked from
  before its entries to its commit (`EscrowTx` has the exception: a funding on an old
  reading, and it too waits for the lock).
- *A statement is told by two readings.*  The ledger only grows, so what lies between
  the first and the last query is bounded by them, and a statement is whole and
  current exactly when both saw the present ledger.  The service sends six queries;
  the number is a constant.
- *`raced`* is history: the reader's queries overlapped a writer, or a deletion
  failed.  Nothing reads it but the property.

### `DisputeThread`

| Variable | Code |
|---|---|
| `dispute` | `disputes.status`, `"none"` before the row exists |
| `thread`, `stored` | `status` of the document in `dispute_threads`; the documents of its `messages`, in the order of their writes |
| `step[h]`, `msg[h]`, `loop[p]` | what a handler is at, the message it posts, and who has the event loop |
| `subscribers[p]`, `queue[s]` | `Broadcaster._subscribers` of the topic (its order is of no effect, so a set), the `asyncio.Queue` of a stream |
| `conn[s]`, `sent[s]` | a connection and what was sent on it |
| `confirmed`, `published`, `watched`, `from` | history |

`OpenDispute`, `CreateThread` are `open_dispute` cut after its commit; `PostMessage`,
`AddMessage`, `PublishMessage` are `post_message`, cut before and after its call to
Firestore; `ResolveDispute`, `MarkThread`, `AnnounceResolution` are `resolve_dispute`
and `_announce_resolution`; `CheckViewer`, `Subscribe`, `Deliver`, `Disconnect` are
`stream_dispute` and `event_stream`.  What a ruling does to the money is the matter of
`Escrow`.  To argue about:

- *The event loop is the only lock.*  The three routes are `async` and call their
  service directly, and Firestore's client is synchronous; so a handler has the loop
  from its checks to its answer, and one process never runs two of them at once.
  Nothing else separates reading the dispute's status from writing a message.
  `Free` is where the model says so.
- *One process.*  The Dockerfile starts one, and the run and the theorems have one
  (`ProcessOf`, `OneServer`).  With two processes KeepsThread (a message stored after the
  ruling), ThreadClosedForGood (the document set as open after the mark) and
  WatchersTold (`Broadcaster` knows the streams of its own process only) fail; the others
  hold.  No document promises more than one process, so these are limits and not findings.
- *Firestore* carries a write out and answers, fails, or carries it out while its
  answer is lost (`Outcomes`); it does not carry out a write later, after the client
  gave it up.
- *Delivery.*  `publish` schedules `put_nowait` on the loop; it runs before anything
  that the loop is given later, and is one step with `publish`.
- *A retry* of a message that was answered with 503 is a new message with a new id.
  If the first was stored after all, the thread shows both.

### `Accounts`

| Variable | Code |
|---|---|
| `users` | the rows of `users` in the order of their commits: email, role, `is_active`, and (history) who made it |
| `age[u]` | the time since a user was last issued tokens |
| `request[h]` | an authenticated request, one that will issue tokens, or one that will insert a row |
| `contract` | client and freelancer of one contract |
| `last`, `barred` | history, written by `Remember` in each action: the call that was permitted in this step; who is shut out |

Every request has two steps: what it reads (the token, the row, whether the email is
taken) and what it then does; anything may happen in between, a deactivation too.
`Register`, `SeedUser`, `CreateUserByAdmin` with `InsertUser` make accounts; `Login`,
`Refresh` with `IssueTokens` make tokens; `Authenticate` is `get_current_user`, and
`CreateContract`, `Call` are the permission checks of the services, one `May...` each.
To argue about:

- *The newest pair stands for all.*  Tokens cannot be revoked and both types are issued
  together, so no older token can do what the newest cannot.
- *Nothing deactivates a user* in the code; `Switch` is an operator with access to the
  database (external).
- *`barred`* holds a user from the moment they are inactive or without a valid access
  token and have nothing in progress, until they log in or refresh while active.
- Forms are sets of pairs of email and role; one public form asks for a role that the
  schema refuses.

## 4. Runs

`tlc -config <cfg> <module>`; each within three minutes on two workers.

| Run | Instance | Shows |
|---|---|---|
| `escrow_any` | 2 contracts (amounts 3+2 and 1), rulings of 0, 50, 100 percent, events that report one unit less, the total, or one more | TypeOK, LedgerBalanced, EscrowNotOverdrawn, FreelancerOwed, PayoutsCovered, DisputesCoherent, CompletedIffSettled, SettledForever |
| `escrow_fee` | as `escrow_any` | *violation* of FeesDeducted |
| `tx_serial` | 1 contract, 2 milestones (1 and 2), 2 requests of any type in two processes, events report the total, rulings of 50 percent | OneAtATime (`Escrow!Spec`), NeverPaidTwice, ChargedOnce, CyclesNeedApproval, EscrowCoversUnsettled, RulingAlwaysPossible, TxTypeOK |
| `tx_answered` | 1 milestone, 3 requests in one process, all types but events (which lock as funding does), rulings of 0 percent | FinishUnlessHung |
| `tx_races` | as `tx_serial` without rulings, submissions and events may overlap | *violation* of ChargedOrPaidOnce |
| `tx_hang` | as `tx_answered`, 2 requests and all types | *violation* of RequestsFinish |
| `pay_once` | 2 contracts, a key, a transaction, events that name a contract, the transaction and neither, payments that succeed, fail or are of another amount, 2 handlers, a sweep, a crash | ChargedIffFunded, KeyIffCharged, RefusedNotCharged, RecordedMeansDone, FailedNotCharged, ChargesVouched, PayTypeOK, FundsAsEscrow (`Escrow!Spec`) |
| `pay_settle` | a transaction, an event on it that may overlap, payments of another amount, 2 handlers, a sweep, a crash | PaymentsSettle |
| `pay_unconfirmed` | 2 contracts: an event of type `payment.failed` on one, a transaction paid with another amount on the other, a handler, a crash | *violation* of EitherConfirms |
| `cache` | 2 pages, 2 readers of 2 queries each, 2 movements | StaleOnlyIfRaced, StatementsCatchUp, TypeOK |
| `thread` | 1 process, 2 handlers, 2 streams, 2 messages, a crash | KeepsThread (`Thread!Spec`), ConfirmedIsStored, AnnouncedInOrder, StreamsExact, ThreadClosedForGood, WatchersTold, TypeOK |
| `accounts` | 3 emails, 3 rows, 2 handlers, a user deactivated at a time, tokens that live for 1 and 2 ticks | OneAccountPerEmail, PrivilegeFromAbove, NobodyJudgesOwnCase, BarredDoNothing, TypeOK |

**Bounds.**  Two contracts are enough for a call on one to disturb the other (no
call reads two).  Two milestones are the least for which "the last one" and
"another one is disputed" differ; the amounts make a 50 percent ruling round on
one and not on the other, and the percentages include both ends.  In `EscrowTx`
half of 1 rounds to 0, a ruling that leaves nothing to pay out.  In `Payments` one key
and two contracts let the key be used for both, and events compete with it for the first; one transaction is enough, since
no handler looks at two; one crash suffices to cut any job at any step, and the
job that repairs it need not be cut again.  `MaxCrashes` is their only bound
on a counter.  All interference in `EscrowTx`
is between two requests (each locks or reads at most the rows of one
contract, and a third could only act between two steps of the others, as
successive requests in one slot do: slots are reused); a wait of a third behind a
cycle of two is in `tx_answered`.  `pay_once` takes its handlers as interchangeable
(a symmetry; it checks safety only), and so does `accounts`.  In `cache` two queries
are the least that can see two states, two movements let a statement be old twice over
or be swept between two flushes, and two readers let one store what another's sweep
has just dropped.  In `thread` two messages have an order, two handlers a race, two
streams a neighbour; one dispute is enough, since topics and documents share nothing,
and a crash may cut any call.  In `accounts` the seed's admin competes for an email with a registration, and
three rows hold a client, a freelancer and a judge; `MaxUsers`, `MaxInactive`, `MaxMoves` and
`MaxCrashes` are bounds of the instance.  Nothing else is bounded: statuses only
move forward and the ledgers with them, so the state spaces are finite.

**Deadlock** is not checked (`CHECK_DEADLOCK FALSE`): a contract that is completed
and paid out has nothing left to do, a resolved thread may be left by all, and nobody is
obliged to send requests.  The
waits of `EscrowTx` are the subject of CyclesNeedApproval, FinishUnlessHung and
RequestsFinish instead.

**Fairness.**  `Escrow` has none: nothing obliges a party to call.  `TxSpec` has
strong fairness of each request's own steps: Postgres grants a row lock in the
order of its wait queue, so a waiter is not overtaken for ever, and asyncio runs
its callbacks in order, so a clean-up that is scheduled runs when the loop is
free.  It has weak fairness of `DeadlockAbort`: Postgres looks for cycles after
`deadlock_timeout` and aborts somebody.  `Begin`, `Create` and `Crash` are not fair.
`PaySpec` has weak fairness of every step, and strong fairness of those that
wait for a row (again the lock queue) and of Paystack's answer (it is not
unreachable every time), and of each transaction's turn in the sweep
(`_sweep_loop` survives every exception and restarts with its process).  Nothing
obliges a client to pay or an event to arrive.
`StatementCache` has weak fairness of `Expire` (Redis drops what is due) and of a
reader's own steps; writers and new requests are not fair, and StatementsCatchUp
presumes that the contract's money rests.  `DisputeThread` has weak fairness of a
handler's steps (Firestore's client answers or times out) and strong fairness of
`Deliver`, which waits for the loop with others: asyncio runs ready callbacks in order.
`Accounts` has none; it is about what may not happen.
There is no `lock_timeout` or `statement_timeout` in `db/session.py`, and the event
loop's wait is invisible to Postgres; so nothing ends the state `Hung`.

### What the violations say

1. `escrow_fee` — the routes' descriptions say that an approval deducts a platform
   fee and that the statement shows platform fees (`src/contracts/router.py:80`,
   `src/escrow/router.py:16`).  There is no fee: `release_milestone` and
   `split_milestone` hand out the whole amount (this is what FreelancerOwed says), and
   the ledger has no account for one.
2. `tx_races` — ChargedOrPaidOnce says that at least one of NeverPaidTwice and
   ChargedOnce holds; the trace breaks both, by two independent races.
   *Submissions*: two submissions of a milestone both read `pending`; one goes
   through, the milestone is approved and released; the other then gets the
   contract's lock and, on its old reading, makes it `submitted` again.  The
   client's next approval releases it again, out of other milestones' money.
   `submit_milestone` reads the milestone before it locks the contract and never
   again (`src/contracts/services.py:74,78,91`).
   *Events*: a standard webhook loads the contract before `confirm_funding` locks
   it; the locked `SELECT` returns the loaded object, so a webhook that waits for
   another funding still finds the contract `draft` and charges again.  The other
   funding has to run outside the event loop of the webhook's process: the sweep's
   thread in the same process will do; the run has a second process instead.
3. `tx_hang` — an async route waits for a row lock on the loop while the lock's
   owner, which was refused, waits for the loop to close its session.
4. `pay_unconfirmed` — EitherConfirms says that at least one of the two webhook
   adapters moves money for confirmed payments only; the trace breaks it for both.
   *Standard*: the type of an event is never looked at (`src/payments/services.py:190`),
   so an event that reports a failed payment funds the contract like any other.
   *Paystack*: when Paystack cannot be asked, the handler assumes the amount it hoped
   for (`src/payments/services.py:253`), so a payment of another amount charges the
   contract.  A crash before the second commit leaves the transaction pending; the
   event is redelivered, Paystack now answers, and the mismatch marks the transaction
   failed (line 261) although it has charged.

What the handlers do with a payment that is not a whole one is part of `pay_once` and
of the theorems, without a hypothesis on it.  FailedNotCharged says that a transaction
is never marked failed when it was paid in full, and that the second part of
`pay_unconfirmed` (another amount, believed while Paystack could not be asked) is the
only way in which one that charged can be.  ChargesVouched says the same of charges:
they are for payments in full, but for those that were believed.

Two limits of the code that are inputs of the runs rather than properties of them.
*Amounts*: the standard webhook takes the amount of the event as it comes
(`src/payments/services.py:217`), so EscrowCoversUnsettled and RulingAlwaysPossible
presume `ExactPayments`; everything checked by `escrow_any` and proved without that
assumption holds for other amounts too.  *Payments of another amount* (`"short"`):
the Paystack handler marks them failed, but the sweep's last branch leaves them
pending (`platform/tasks/scheduled.py:58`), which is why PaymentsSettle promises
nothing about them.

Limits of the second stores, which the properties are worded around.  *Statements*: a
reader that overlaps a writer can cache an old or a mixed statement, and a sweep that
fails leaves one; either is answered for up to 60 seconds (StaleOnlyIfRaced says that
nothing else is).  *Streams*: what is published between the viewer's check and the
subscription, or while a client is away, is not replayed.  *Threads*: if creating or
marking the document fails, it stays as it is; the row in Postgres is what counts.
*Accounts*: a request that was authenticated before its user was deactivated goes on,
also one that logs in (BarredDoNothing begins when nothing is in progress); a
contract may name a freelancer who is deactivated.

## 5. Proofs

`tlapm` checks `SumTheorems`, `EscrowProofs`, `EscrowTxProofs`, `PaymentsProofs`,
`CacheProofs`, `DisputeThreadProofs` and `AccountsProofs` without exceptions.  Every
safety property that a passing run checks is a theorem.

### The money path, one call at a time

The assumptions are those named in `Escrow`: finitely many milestones, each of one
contract, every contract with one at least, positive amounts; percentages within
0..100; positive paid amounts.  They are the constraints of the Pydantic schemas.
TLC evaluates them in every run.

| Theorem | States | By |
|---|---|---|
| TypeCorrect | `[]TypeOK` | inductive as it stands; a share of 0..100 percent is between 0 and the amount |
| MoneyConserved | `[]LedgerBalanced` | `TypeOK /\ LedgerBalanced`; the two shares of a split add up to the amount (`SharesSum`) |
| DisputesCorrect, CompletionCorrect | `[]DisputesCoherent`, `[]CompletedIffSettled` | `StatusInv` |
| SettlementFinal | `SettledForever` | each step from `StatusInv` |
| FreelancerCreditedOnce | `[]FreelancerOwed` | `StatusInv /\ FreelancerOwed` |
| PayoutsCorrect | `[]PayoutsCovered` | `PayoutInv` |
| EscrowSolvent | `[]EscrowNotOverdrawn` | from the guards, for any reported amount |
| EscrowExact, RulingNeverBlocked | `[]EscrowCoversUnsettled`, `[]RulingAlwaysPossible` | `EscrowInv`, assuming `ExactPayments` |

- `StatusInv` is `TypeOK /\ DisputesCoherent /\ CompletedIffSettled`: neither of the
  last two is inductive alone.  A ruling may complete a contract only because an open
  dispute means a disputed milestone, hence (completed iff settled) a contract that
  is not completed and not absent; and a dispute can only be the single open one because
  a contract that is disputed, completed or unfunded has no submitted milestone to open
  another on.
- `PayoutInv` adds `PayoutsPositive` and `PayoutsCovered` to `StatusInv`: what a
  milestone earns does not change once it has a payout (it is settled), and
  requests only claim what earlier ones left.
- `EscrowInv` adds `EscrowEmptyUnfunded` and `EscrowCoversUnsettled`: escrow is
  empty before funding, and after it holds the sum over the open milestones.
  `RulingAlwaysPossible` follows, since a disputed contract is not completed and so
  has an open milestone, none of which is itself disputed.

Sums are cardinalities of sets of units (`Sums`), so that the lemmas of
`SumTheorems` (disjoint union, removal, point-wise addition, monotonicity)
derive from the library's cardinality theorems; a recursive or folded sum would
need induction with an operator parameter, which the provers at hand cannot do.
`MCEscrow` checks that the definition is the usual sum.

### The money path, calls that overlap

`EscrowTxProofs` is about any number of contracts, milestones, requests and
processes.  Its assumptions beside those of `Escrow` name constants that are nobody
(`SlotsAssumption`, `NobodyAssumption`).

| Theorem | States | By |
|---|---|---|
| TxTypeCorrect | `[]TxTypeOK` | `TxTypeInv` |
| CyclesHaveApproval | `[]CyclesNeedApproval` | from `LockInv` |
| BooksAlwaysHold | `[](LedgerBalanced /\ EscrowNotOverdrawn /\ FreelancerNotOverdrawn)` | `BookInv` |
| OverlapsSerialize | `OneAtATime`: `EscrowTx` implements `Escrow` | each step from `TxInv`, assuming `Overlaps = {}` |
| PaidOnce | `[]NeverPaidTwice` | from `[]FreelancerOwed`, assuming `Overlaps = {}` |
| ChargedAtMostOnce | `[]ChargedOnce` | from `EscrowInv` and `[]FreelancerOwed`, assuming `Overlaps = {}` and `ExactPayments` |
| OverlapsKeepMoney, OverlapsKeepEscrow | what is proved of `Escrow` holds of overlapping requests | by the refinement; the second assuming `ExactPayments` |

- `TxTypeInv` adds to the types that what is about to be written is well typed and was
  decided under all locks (`WritesTyped`).
- `LockInv` adds that no row is held twice (`Exclusive`) and that a writer writes only
  milestones of the contract it has locked (`WritesScoped`).  In a cycle somebody
  therefore waits for a contract; its holder has all its locks and is about to write, so
  it waits for a milestone of its own contract; and who holds a milestone without the
  contract is an approval (`StuckNeedsApproval`).  This needs no hypothesis about what
  overlaps.
- `BookInv` adds that what is about to be committed is balanced and covered by the
  account it comes from (`WritesBooked`).  It stays covered because the contract's lock
  is held from the decision to the commit, so nobody else books on the contract.  This
  too holds whatever overlaps: the races of `tx_races` give money to the wrong party,
  and never money that is not there.
- `TxInv` adds to `LockInv` the `StatusInv` of `Escrow`, that no two rivals are at work
  (`NoRivals`, where the hypothesis `Overlaps = {}` is used), and for each request
  `Sound`.  That is: the contract it is about exists; its session has loaded the rows
  it should have and no other milestone (`Loaded`); what it saw can still be relied on
  (`Trusted`); and what it has decided is what the service call would do now (`Decided`).
- `Trusted` is the heart of it.  A row that is first loaded by its lock is current.  The
  three reads without a lock are current in what matters: a submission's milestone can
  leave `pending` or `rejected` only by a ruling on the whole contract, which completes it
  and so refuses the submission (`SubmitWaits`, `RulingCompletes`); a payout request's
  milestone, once settled, stays so; and the webhook's contract stays `draft` unless
  another funding comes in between (`WebhookWaits`).  The first and the last are false
  when rivals overlap, which is what `tx_races` shows.
- A commit is a call of `Escrow` because its conditions still hold (`CommitIsCall`); it
  leaves the requests on other contracts alone (`OtherContractKept`) and those that wait
  for the same contract sound (`WaiterSound`).
- `RulingsBounded` (no ruling awards more than the milestone's amount) turns
  `FreelancerOwed` into the bounds of PaidOnce and ChargedAtMostOnce.

`TxInv` was checked by TLC on one contract of two milestones and on two contracts of one
each, before it was proved; `BooksHold` (the three bounds that BooksAlwaysHold states) on the
instance of `tx_serial` with both kinds of rivals overlapping (six million states, too
many to keep as a run).

### Funding

`PaymentsProofs` has four layers, each on top of the one before.

| Theorem | States | By |
|---|---|---|
| PaymentsTypeCorrect | `[]PayTypeOK` | `SessionInv` |
| KeysFaithful, RefusalsTrue, RecordsTrue | `[]KeyIffCharged`, `[]RefusedNotCharged`, `[]RecordedMeansDone` | `BooksInv` |
| ChargedExactlyOnce | `[]ChargedIffFunded` | `ApartInv`, assuming `~Overlaps` |
| FailuresExplained, ReportsBehindCharges | `[]FailedNotCharged`, `[]ChargesVouched` | `OutcomesKnown`, with no hypothesis |
| PaymentsRefinement | `FundsAsEscrow`: `Payments` implements `Escrow` | each step, assuming `~Overlaps` and `AmountsReported` |

- `SessionInv` says what a session can be at, and that no two have locked the same row.
- `BooksInv` relates keys, recorded events, transactions and answers to the charges; the
  commits of the handlers are ordered so that no crash can come between a record and
  its effect.
- `ApartInv` says that a reading `draft` taken without a lock is still true when the
  lock is had.  Without `~Overlaps` it is not (`tx_races`).  The hypothesis is about
  draft contracts only, so jobs that would be rivals on one of them may meet once it is
  funded; `BooksInv` then says that they change nothing.
- `OutcomesKnown` carries what Paystack answered, or that it did not, to the commit
  that acts on it: a job that is about to charge was told of a payment in full, or its
  reference is in `unanswered`; one that is about to mark a transaction failed was told
  of a failure or of another amount (`Told`).
  Outcomes are final and `unanswered` only grows, so none of it is undone by what
  happens between the answer and the commit, in whichever order two jobs on one
  transaction come.

### The cache, the thread and the accounts

| Theorem | States | By |
|---|---|---|
| CacheTypeCorrect, StatementsCurrentAtRest | `[]TypeOK`, `[]StaleOnlyIfRaced` of `StatementCache` | `CacheInv` |
| ThreadTypeCorrect | `[]TypeOK` of `DisputeThread` | `TypeInv` |
| StreamsAreExact | `[]StreamsExact` | `StreamInv` |
| EventsInOrder | `[]AnnouncedInOrder` | `OrderInv`, assuming `OneServer` |
| ConfirmedMessagesStored | `[]ConfirmedIsStored` | `ThreadInv`, assuming `OneServer` |
| ThreadStaysClosed | `ThreadClosedForGood` | each step from `ThreadInv`, assuming `OneServer` |
| ThreadRefinement | `KeepsThread`: `DisputeThread` implements `Thread` | each step maps to a step of `Thread` or a stutter, from `ThreadInv`, assuming `OneServer` |
| AccountsTypeCorrect, EmailsUnique, PrivilegeTraced | `[]TypeOK`, `[]OneAccountPerEmail`, `[]PrivilegeFromAbove` of `Accounts` | `AccountsInv` |
| JudgesImpartial | `[]NobodyJudgesOwnCase` | from `AccountsInv` |
| BarredHarmless | `BarredDoNothing` | each step from `AccountsInv` |

- `CacheInv` says why a statement computed at rest cannot survive a movement: a
  reader that is not raced has seen only the present ledger (`QuietReaders`); once a
  movement is flushed, what is cached and not raced is still to be reached by the scan
  (`QuietPagesScanned`), and the scan ends empty before the commit (`ScanWhileSweeping`).
- `ThreadInv` says that whoever is between its checks and its answer holds the loop
  (`LoopHeld`), so that what it read is still so (`ReadingsHold`): the dispute is open
  while a message is being written, and the mark follows the ruling
  (`MarkFollowsRow`).  `OneServer` is needed for ThreadRefinement and ThreadStaysClosed:
  with two processes they are false.
- `StreamInv` says that exactly the open connections of a process are subscribed, that
  nothing is queued for one before it is open, and that what it has been sent and has
  queued is what was published since; it holds with any number of processes.
  `OrderInv` says that a message is stored once, that only what is stored is published,
  the ruling by its handler's last call, and that a handler between its write and its
  event has written last, since it holds the loop.
- `AccountsInv` carries what a request has checked to the moment it acts
  (`RequestsHold`): rows are only added and keep their roles.  The parties of a
  contract have the roles of parties (`PartiesHold`), whoever judged has another
  (`JudgesHold`), and a barred user has nothing in progress (`BarredHold`).

### Only model-checked

Liveness stays with TLC: PaymentsSettle, FinishUnlessHung, StatementsCatchUp and
WatchersTold rest on fairness and `ENABLED`, which are out of this prover's reach.  So do
the four violations, which are counterexamples.

## 6. Not modelled, and why

- Opening a Paystack checkout (`prefer_paystack`): no route asks for it.
- Ledger rows locked by `get_balance_for_update`: only approvals lock them, and
  they hold the contract's lock by then.
- `fund_contract_direct` (`src/escrow/services.py`), `invalidate`
  (`platform/cache/redis_client.py`) and `require_role` (`core/dependencies.py`) have no caller.
- The connection pool: requests that wait for a connection add nothing to the
  data, and their waiting is like that for the loop.
- Heartbeats of a stream, the listing of freelancers, reads of contracts and
  milestones: they change nothing.
- Passwords and signatures: taken to be right.
- Notifications, formatting, middleware, rate limits, settings and migrations: no
  state that the modelled parts read.
