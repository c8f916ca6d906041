# Gelir-Gider: TLA+ models, model checking and proofs

Gelir-Gider is a personal finance service: a Cloudflare Worker (Hono) over a
PostgreSQL database (Neon, drizzle), with a double-entry ledger at its centre.
This directory holds TLA+ modules of the parts of it where concurrency, failure
and long histories decide whether the books are right, the TLC configurations
that check them on small instances, and TLAPS proofs that hold for every value
of the constants. Paths are relative to the repository; the service's TypeScript is under
`src/`, its triggers and constraints under `migrations/`.

`PROJECT.json` is the index: the components, the runs, the source lines each
definition stands for, a mutant per property, the hazards and the theorems.

## 1. Inventory

How requests run shapes every model. Each HTTP request is one database
transaction at READ COMMITTED (`db.transaction`); only previews use REPEATABLE
READ. Nothing retries a transaction that failed: a unique violation, a deadlock victim or a lost
connection surfaces as an error, and the client may send the request again with
the same idempotency key. Cron triggers call the worker besides the user: the
hourly one runs the notification scheduler and the checkpoint processor, the daily one the backup. The state that matters
is in PostgreSQL (and, for backups, an R2 bucket); a worker keeps nothing
between requests.

| Component | State | Operations | Interacts with | Hard behaviour | What makes it correct |
|---|---|---|---|---|---|
| Ledger journal (`ledger/`) | accounts, entries, lines, archived marks | post, reverse, archive, provision a role account | called by every product; row locks with the month close | duplicate requests in flight, archive during a posting, reversal races, lock upgrades | one entry per key, one reversal per entry, answers are committed, nothing new on archived accounts |
| Month close (`month-close/`) | anchors, close revisions, adjustments and their applications | preview, close | reads the journal and the plan; routes to Midas or long-term | stale confirmation, postings between reading and commit, carry-over of adjustments, lock order | every expense counted once, what was confirmed is what is closed, no cent lost |
| Canonical transactions (`transactions/`) | identities, numbered revisions, sources, bindings | create, revise, void, each with its ledger effect | the journal; used by manual expenses, cards, receipts, people, rewards, long-term | concurrent edits, retries after later edits, failure between reversal and posting | linear history, no lost edit, ledger follows the latest revision, replay is exact |
| Manual expenses (`manual-expenses/`) | none of its own | create with default date, partial update, delete | canonical transactions, categories | update laid over an unlocked read, clock in the fingerprint | untouched fields survive, retries replay |
| Backups (`backups/`) | run events, R2 objects | reserve, snapshot, upload, verify, record, prune | PostgreSQL and R2, no common transaction | crash between upload and record, stale takeover, lost answers, pruning from old lists | one upload a day, outcomes recorded against their own execution, recorded objects kept |
| Notifications (`notifications/`) | events, dispatches, attempts, subscription revisions | materialise, reserve, push, finalize, register, disable | the push service, outside any transaction; card statements | overlapping hourly runs, an outcome that is never known, a device that registers again while a call is out | accepted at most once, a call per hour and device, live endpoints kept |
| Midas accounts, short-term goals (`midas/`, `short-term-goals/`) | transfers between buckets, goal and priority revisions | fund, defund, reverse, create, update, complete, cancel, reorder | journal postings on the same account, month close, cards, long-term | solvency read before a write, reversal of an old transfer after the goal changed | earmarked money is there, no bucket overdrawn, the order lists the active goals |
| Authentication (`auth/`) | passkeys, challenges, grants, recovery codes | bootstrap, recover, add a passkey, sign in | HTTP boundary | one-time grants and challenges raced, reads before the lock | one bootstrap, one passkey per grant, a code recovers once |
| Imports (`imports/`) | batches, row revisions, results, identity claims, receipts | stage, confirm, map, link, skip, apply | card purchases, income receipts, a loop in the browser | one bank transaction in two statements, rows mapped again to another card, a purchase edited after its import | money once per identity and card, duplicates follow the owner, the loop ends |
| Budget v2 checkpoints (`budget/checkpoint-*`) | requests, snapshots in a chain | enqueue with a payment, process hourly | card payments | overlapping runs, a payment dated before a stored checkpoint | reports cover what their place in the chain says, no request is forgotten while those that are stuck leave a place |
| Credit cards (`credit-cards/`) | purchases, statements, payments, reserves, splits | purchase, amend, void, open, update, pay, reopen, archive | canonical transactions, Midas buckets, checkpoints | payment against purchase edits, reserve across reopenings, retries | reserve equals the open statement, paid once, never overpaid |
| People (`people/`) | obligations, settlements | lend, settle, undo, settle all receivables, archive | Midas account, income receipts | sums spread over many rows, two row locks in both orders | no obligation over-settled, a sum stored whole or not at all |
| Long-term (`long-term/`) | task revisions, earmark, ledger entries | allocate, send, reopen, cancel | Midas account, month close | retries and repeated corrections | the earmark is what is pending, money leaves once |
| Rewards (`rewards/`) | accounts, events, voids | earn, expire, redeem, void, archive | canonical transactions | voiding points that were spent | never overdrawn, the benefit is what was redeemed |
| Income (`income/`) | sources; chains of entitlements, receipts and settlements | receive, entitle, attribute; revise and void each; archive a source | canonical transactions, imports, people | a receipt corrected or an entitlement lowered while it is being attributed; reads before the locks | no receipt gives more than it brought, no entitlement is paid beyond what is owed, no change is lost |
| Budget plans (`budget/service.ts`, `service-v2.ts`) | chains of revisions, one per month and policy | create, refresh, void | income, month close, canonical transactions | snapshots older than the wait for the row | computed from one moment, one chain, closes rest on its end |
| Campaigns (`campaigns/`) | revisions of periods, overrides of purchases, reward credits, review candidates | create, confirm, amend, hide, end, cancel, override, credit, void, propose, apply, dismiss | card purchases, reward accounts | terms, purchases and overrides change while the progress is computed; proposals retried after they were decided | credited once on what still stands, nothing revised unseen, one proposal becomes one revision |
| Statement reconciliation (`credit-cards/statement-reconciliation.ts`) | a chain of revisions per statement, each with its parts | reconcile, supersede, void; read the state of a statement's | statements, purchases, splits of the card | reconcile and void lock different rows, evidence that changes under a reader, lock order against reopenings | one chain, parts that make up the amount on real evidence, one row per key |
| Categories, analysis | feedback | analyse | read side | mostly pure analysis | - |
| HTTP boundary, config, db client, logging, frontend | - | - | everything | parsing and wording | - |

All rows but the last two are modelled, wholly or in part. `PROJECT.json` lists the components with
their files, what of each is modelled, and why the others are left for later or left out.

## 2. Modules

```
components                                                                    proofs

RowLocks <-- JournalPosting <-- MonthClose                                    JournalPostingProofs <-- CloseProofs
                  ^-- (refines) ----+
TransactionRegister <-- (refines) -- CanonicalTransactions, StatementImports, PasskeyEnrollment     RecordProofs
BackupRuns, NotificationDispatch, CheckpointChain                             CronProofs
BudgetPlans, LongTermTasks, StatementReconciliation                           PlanProofs
CardStatements, RewardPoints, SharedPurchases, CampaignRewards                CardProofs
EarmarkedSavings, PersonSettlements, IncomeSettlements                        BalanceProofs
NotificationEvents

MCBackend: all of them but NotificationEvents, CanonicalTransactions and TransactionRegister
Sums: what Card-, Plan-, Balance- and CloseProofs share
```

The `MC*` modules give the constants of the TLC instances. No module declares a
RECURSIVE operator, so every one of them can be proved about; sums are
`SumFunctionOnSet` of the community modules, and the absorption of adjustments is a recursive function.

Two granularities are used.

*Statement by statement*: the journal, the month close and the canonical
transactions. A **session** is one request and
one transaction; one step is one SQL statement (or one statement with the
conditions the code tests on its result). What a session writes is invisible to the others until it commits, so a session's uncommitted row is kept
under its own name (`entry[s]`, `row[s]`) and the committed rows are those of
the sessions that have committed (`Posted`, `Committed`). A session serves one
request; a retry is another session with the same key. PostgreSQL's part is
explicit: an INSERT that meets an uncommitted row with the same unique key
waits, READ COMMITTED statements see what is committed when they start, row
locks are held to the end of the transaction, and the deadlock detector aborts
one session of a circle of waiting sessions. The definitions for this are
marked external in the map.

*Transaction by transaction*: the products. Their mutations look the idempotency
key up first, then take `FOR UPDATE` on one row (the Midas account, the card,
the statement, the person, the task, the reward account, the user) and keep it
to the commit. What one of them reads before that lock is a step of its own;
what it does from the lock on is a single step, since every other
writer of what it reads takes the same row. Each module's head says which row
that is, and two rows taken in both orders (`PersonSettlements`) are two steps.
The lookup under the lock, which finds what was stored since the first lookup,
is in the second step. Failure of a transaction leaves its rows as they were and its request
unanswered, which is a request that never took its second step.

### RowLocks

The four-mode row lock table of PostgreSQL, reduced to the three modes this
code takes: `FOR KEY SHARE` (foreign keys), `FOR NO KEY UPDATE` (UPDATE of a
non-key column) and `FOR UPDATE`.

### JournalPosting: `ledger/posting.ts`, `reversal.ts`, `accounts.ts`, `system-expense-accounts.ts`

| Definition | Code |
|---|---|
| `Provision` | `getOrCreateSystemExpenseAccounts`: insert of a role account, unique per role |
| `EarlyLookup`, `AnswerFrom` | the idempotency lookup and the fingerprint comparison (replay or conflict) |
| `ReadAccounts` | the unlocked read of the accounts with its archived check |
| `LockOriginal`, `CheckReversed` | the reversal's `FOR UPDATE` on the original and its already-reversed check |
| `InsertDraft`, `LateLookup` | the INSERT ON CONFLICT DO NOTHING and what the loser does |
| `InsertLines` | the lines, whose foreign key takes KEY SHARE on each account in line order |
| `Transition` | DRAFT to POSTED: the trigger of `migrations/0021` locks the accounts ascending and refuses archived ones, except for a reversal |
| `CloseCheck` | the read of `month_closes` and the adjustment row |
| `Archive` | the account's own transaction |
| `Crash`, `DeadlockVictim` | a lost connection, the detector |
| `CloseMonth` | the month close as one atomic step; `MonthClose` implements it |

Amounts are integers of cents and an entry is a function from accounts to
signed amounts. The currency checks and the well-formedness of a request are in
what `Payload` may contain.

### MonthClose: `month-close/service.ts`, `formula.ts`

Extends the journal with closers: `LookupClose`, `InsertAnchor`,
`ResolveRoles`, `LockAccounts`, `ReadExpenses`, `ReadAdjustments`, `Settle`,
`CommitClose` follow `closeMonth` from its idempotency lookup to its commit,
with the refusals on the way. The proposal the user confirms is `ProposalOf` the month when
the request is made (what a preview just showed), or one that an earlier request
confirmed (a retry, or a preview that has grown stale).
`Absorb` and `Applications` are the absorption of prior adjustments, oldest
first, clamped to the capacity of the close, with the split at the boundary;
`Surplus` is the formula with its clamps. Fixed or abstracted: the plan
(`Ceiling`), the choice of a route for the surplus (`Settle` may refuse, which
stands for a liquidity failure; nothing else of the route feeds back into these variables).

### CanonicalTransactions and TransactionRegister: `transactions/`, `manual-expenses/`

`CanonicalTransactions` runs create, update and void with their ledger effects:
`ReadLatest` (the unlocked read a manual-expense update merges its fields over),
`EarlyLookup`, `InsertIdentity` and `LateIdentity` (the create's own race),
`LockParent` (`FOR UPDATE` of the transaction), `CheckLatest` (not void, the
expected revision number), `InsertRevision`, `InsertSource` (the external
reference, unique), `ReversePrevious`, `ApplyNew`, `Bind`, `Commit`. A posting
and a reversal are one step here, since `JournalPosting` has their statements;
that the reversed entry is there and not yet reversed is checked in that step, not assumed.

`TransactionRegister` is what a caller sees: a transaction holds one content at
a revision number, or is void, and the ledger holds exactly its content. Three
actions, each atomic. `CanonicalTransactions` implements it under the
refinement mapping of `Register` (latest committed revision; applied minus
reversed entries per content).

A client edits from a revision it was shown (`Shown`): the expected revision
number in a request was the number of a committed revision when the request
was made.

### BackupRuns: `backups/service.ts`, `retention.ts`, triggers of `migrations/0056`, `0057`

Invocations of the cron trigger for one or several days. `ReserveExecution` is the first
transaction with its four outcomes (replay of COMPLETED, await another, settle
a stale one and start, exhausted); `SnapshotFails`, `Upload`, `Verify` the work
outside any transaction; `Complete` and `CompleteFails` the recording, which
checks that the reservation is still this invocation's and may fail after it
took effect; `Discard`, `Clean`, `Fail` the catch block; `ReadCompleted`,
`ListObjects`, `Prune`, `Retained` the retention pass, which deletes one object
at a time from lists read earlier. `Accepts` is the trigger on the event chain.
`Expire` lets two hours pass over a reservation at any moment; `Die` evicts the
worker between any two steps. A deletion is best effort and may fail. An
invocation reserves at most once, so it names its STARTED event and its object.
Corruption of object metadata in R2 is left out.

### NotificationEvents: `notifications/events.ts`, `scheduler.ts`, triggers of `migrations/0046`

The first half of an hourly run: the four `Materialize...` transactions store
the day's events under the insert guard of their table. `MaterializeQuietly` is
the same insert inside a try block: the exception is swallowed and the failed
transaction stores nothing. The user pays and reopens statements in between.

### NotificationDispatch: `notifications/scheduler.ts`, `delivery.ts`, `subscriptions.ts`, triggers of `migrations/0046`, `0047`

The second half: `ListEvents` and `ListSubscriptions` are the reads of a run,
`ReserveNothing`, `Suppress`, `ReserveDispatch` and `ReservationFails` the
outcomes of the first transaction of a pair of event and device (`Plan` is
`planDeliveryAttempt`, `SettledHistory` the settlement of reservations left by
other hours), `Send` the call, `Finalize` and `FinalizeFails` the second
transaction, `Retire` the conditional disabling of a gone endpoint. `CutOff`
ends a run after any step and has no fairness. `StatementMovesMeanwhile` is a
statement paid between the plan and the guard of the insert. `Register`,
`Disable` and `MoveStatement` are the user's. `DispatchInit` has stored events:
the rows the table accepted under its earlier guards, since the present one
refuses those the code inserts (finding `notification_events`).

### EarmarkedSavings: `midas/service.ts`, `short-term-goals/service.ts`, triggers of `migrations/0020` to `0023`

One Midas account: `Transfer` and `ReverseTransfer` between buckets and
unearmarked money, with the insert guards of the transfer table (`Executable`),
goals (`CreateGoal`, `UpdateGoal`, `FinishGoal` for both completion and
cancellation, `ReorderGoals`) and `PostOnMidas`, a journal entry on the linked
account with the solvency guard of its transition to POSTED. `Store` reproduces
the order of `createMidasAllocationTransferInTransaction`: guards first, then an insert that
does nothing on a key stored since the lookup.

### PasskeyEnrollment: `auth/bootstrap.ts`, `enrollment-grants.ts`, `recovery.ts`, `verification.ts`, `challenges.ts`, `credentials.ts`, `reauth.ts`

A **visit** authorises (`AuthorizeBootstrap`, `AuthorizeRecovery`, or
`FindCredential` and `Prove` with a passkey), gets a grant (`IssueGrant`, which
revokes the pending ones of its purpose), exchanges it for a challenge
(`BeginEnrollment`), and answers that challenge up to `Copies` times
(`ConsumeChallenge`, then `EnrollFirst`, `EnrollByRecovery` or `EnrollAnother`).
`Prove` updates a passkey only at the version that was read.

### StatementImports: `imports/service.ts`, `dedup.ts`, triggers of `migrations/0054`, and the loop of `ImportApplyProgress.tsx`

`StageBatch`, `Resolve` (confirm, map, link, skip, apply, by `Permitted`,
`Becomes` and `StandsFor`), the server's loop (`ListReady`, `ApplyNext`: the first
`Limit` ready rows with the revisions they had, in the order of their ordinals), the
browser's (`PressApply`, `ReadAnswer`), and `Edit`, a purchase changed in the
domain that owns it. `Binds` is the deferred trigger that compares what a
result names with the row.

A claim is of an external id *under a card or account* (`service.ts:1308`,
`dedup.ts:143`), the one the row's latest payload names. `mapping` is that payload, and
`RESOLVE_MAPPINGS` (`After`) may replace it in every status that is not terminal: a
row that was ready under one card is ready under another, needs review when
the new mapping is incomplete (`FullyMapped`), or is an exact duplicate when its id is claimed there
(`Owners`). A row that was staged as a possible duplicate becomes ready only with the mapping it has
(`Permitted`, from `migrations/0054`, lines 284-289). So nothing says that a bank transaction is booked once
altogether: two of its rows that the user maps to two cards are booked on both.
It is booked once on each card or account, which is what `MoneyOncePerIdentity` says.

### CheckpointChain: `budget/checkpoint-request-v2.ts`, `checkpoint-processor-v2.ts`, `migrations/0068`

`RecordPayment` leaves a request in the payment's transaction. A run of the
processor reads the first hundred of the pending requests by user, month and instant (`Discovered`, with
`MaxDiscovered` for the hundred), puts them into groups (`DiscoverPending`), skips a month that is
blocked (`CheckGroup`), and per request looks whether it is done
(`ReplayBeforeLive`), builds a report since the latest snapshot (`BuildReport`)
and stores it if the chain has not moved (`StoreSnapshot`,
`PredecessorChanged`, `ObserveSnapshot`, `ProcessorFails`). A `Period` is a user and a month, numbered in
the order of that query.

### CardStatements: `credit-cards/service.ts`, `payments.ts`, `purchases.ts`, triggers of `migrations/0058`

One card: `CreateStatement`, `UpdateStatement`, `VoidStatement`,
`PayStatement`, `ReopenStatement` with the reserve bucket each statement may
have, `RecordPurchase`, `UpdatePurchase`, `VoidPurchase`, `ArchiveCard`. `Liability`
is the balance of the card's ledger account.

### PersonSettlements: `people/people.ts`, `obligations.ts`, `settlements.ts`, `person-settlement-orchestrator.ts`

One person's receivables and payables. `SettleReceivables` spreads a sum over
the open receivables in order, the last of them taking all that is left, and
earmarks the excess. `LockUser`, `LockPerson` and `AbortVictim` are the two row
locks and the detector.

### LongTermTasks: `long-term/service.ts`, triggers of `migrations/0042`, and RewardPoints: `rewards/accounts.ts`, `events.ts`

The tasks of long-term money (`AllocateLongTerm`, `MarkSent`, `ReopenTask`,
`CancelTask`, and any other entry on the account, `MoveElsewhere`), and the
events of reward accounts (`CreateSimpleEvent`, `RecordRewardPurchase`,
`VoidEvent`, `ArchiveRewardAccount`). A reward key is looked up among the rows
of one account, but is unique among those of the user, which `Under` keeps apart.

### IncomeSettlements: `income/`, triggers of `migrations/0016`, `0017`

Three chains of revisions: of each receipt (`RecordReceipt`, `ReviseReceipt`,
`VoidReceipt`), of each entitlement, one per source and month
(`CreateEntitlement`, `ReviseEntitlement`, `VoidEntitlement`), and of the
settlement that shares a receipt among entitlements (`CreateSettlement`,
`ReviseSettlement`, which replaces the whole allocation). `Approach` is what a
request reads before it locks, and the row of the receipt, then those of the
entitlements in ascending order, are held from then on. `Answering` has the order in which the code decides: the domain's checks, the key
(`Remembered`: replay or conflict), the revision number, the domain's row.
`ArchiveSource` may happen between a request's two steps.

### SharedPurchases: `credit-cards/splits.ts`, `split-allocation.ts`, triggers of `migrations/0036`

One purchase, the split of it among the user and other people, and the obligation
each of them has for it. `ChangePurchase`, `ChangeSplit` and `ChangeBoth` are the three
kinds of request: the purchase alone, the split alone, and the coordinated
ones, where either part may be a replay. `ByRatio` and `ShareOf` allocate to the
cent; `MaySplit`, `MayOwe` and `Owing` are the split's checks, those of its obligations,
and what becomes of them; `SettleShare`, `UnsettleShare` and `ArchiveParticipant`
are what people do meanwhile. The card's side of a purchase is `CardStatements`.

### BudgetPlans: `budget/service.ts`, `service-v2.ts`, `income/reference.ts`, `migrations/0018`

The plans of one user: chains of revisions, and the closes that rest on them.
`Intend` looks a creation's key up, `BeginPlanning` is the first statement of the
transaction and takes the snapshot `view`; `LockForRefresh` goes by that snapshot, however
long it waited for the plan's row. `ReadReference` is each of the two reads of
`getMonthlyReferenceIncome`, and `StorePlan` meets the unique indexes (`Unclaimed`), the only
thing in a REPEATABLE READ transaction that sees what others have committed. `VoidPlan`, `LockForClose` and
`RestOnPlan` are READ COMMITTED. Incomes change at any time (`IncomeChanges`). What
a close does otherwise is `MonthClose`, in which the plan's figures are constants.

### CampaignRewards: `campaigns/service.ts`, `review-candidates.ts`, `progress.ts`, `rules.ts`, triggers of `migrations/0049`

One period of a campaign. `periodChain` is its revisions (`StoreRevision`; `Allowed` is what
the trigger lets follow what), `rulings` the overrides of its purchases (`Rule`), `credited` the
credits of its reward that stand, and `proposal` the review candidates. `LookUp` is the idempotency lookup
before any lock; every table has its own index of keys (`TableFor`). A credit is two steps:
`ReadProgress` takes the rows of the period and of its cards and reads, `StoreCredit` stores what the
progress allows. So is the voiding of one (`FindCredit`, which locks nothing, and `VoidCredit`), and the applying of a
proposal (`BeginApply`, `Apply`), which amends the period in its own transaction. `Propose`
answers a request with the pending candidate of the same terms, and its receipt says which (`boundTo`).
`Reprice` and `Redeem` are what the cards and the reward account do meanwhile.

### StatementReconciliation: `credit-cards/statement-reconciliation.ts`, triggers of `migrations/0065`, `0066`

The statements and purchases of one card, and the chain of reconciliations of each statement
(`entries`). A reconciliation is five steps: `LookKeyUp` (no lock), `BeginReconcile` (the statement's row, the
key again, the expected revision, the sum of the parts, the splits they cite), `ReadChain` (the reconciliation is
found or inserted, and its last revision read), `WriteEntry` (the key's index absorbs, the number's index refuses, and the trigger
`trg_fn_guard_ccsrc_insert` looks at the evidence once more: `AllEvidenced`) and `CommitEntry`. `VoidEntry` is a void, which locks the
reconciliation's row and not the statement's, so that the two cross; what orders them is the lock the chain's trigger takes
(`ChainHeld`) and the unique number (`NumberFree`). `ChangeInvoice`, `BeginReopen`, `EndReopen`, `Divide` and `Drop` are what the card does
meanwhile, under its own lock (`CardFree`) or the statement's. A foreign key keeps the card's row shared from the first
reconciliation's insert to its commit (`CardShared`), and a reopening holds the card before it wants the statement: `LockedOut` is the circle, and
`EndLockout` the detector, which may end either. `ReadEntry`, `ReadInvoice` and `ReadPart` are the separate reads of
`getStatementReconciliation`.

## 3. Properties and runs

Every passing run explores its whole state space. Deadlock checking is off in all of them
because each system stops when all its requests have ended; that waiting
requests do end is what the liveness properties say.

| Run | Instance | Checks |
|---|---|---|
| `posting` | 3 sessions, 3 keys, cash and one budgeted role account, 1 month, two amounts | `PostedOncePerKey`, `ReversedAtMostOnce`, `AnswerIsCommitted`, `ExpenseCountedOnce`, `NoPostingToArchived` |
| `close` | 2 closers, 2 sessions, 2 months, cash and one role, ceiling 4, expenses of 3 (376,919 states) | `MoneyConserved`, `ConfirmedFiguresHold`, and `ClosesAtomically`: the close, a statement at a time, implements `JournalPosting!Spec` |
| `canonical` | 3 sessions, 4 keys of which two share an external reference, 2 fields, updates of one field (41,643 states) | `TypeOK`, `EffectOfLatest`, `EditsFollowShown`, `AnswerIsRequested`, `NeverStranded`; `OperationsEnd` and the refinement `ImplementsRegister` under `FairSpec` |
| `backend` | the components side by side (378,950 states), bounds below | `BackendTypeOK` and the safety of all components but the journal and the canonical transactions |
| `backend_live` | the components with liveness (54,654 states) | `WorkEnds`, `EveryCheckpointStored` |

**The composed runs.** `MCBackend` holds the instance of each product. The
components share no variable (what one does to another is an action of the
other: `PostOnMidas`, `MoveElsewhere`, `Edit`, `MoveStatement`), so a behaviour of all of them together is a
shuffle of behaviours of each, and exploring the product would multiply the
states and add none that a property can tell apart. `Only(name)` therefore lets a behaviour
exercise one component, chosen at the start, and leaves the others at their
initial states. The choice is part of the instance, not of the modules.

| Component | Instance in `backend` |
|---|---|
| Month close | 3 closers, 3 months, 1 session: an expense of 3 against a ceiling of 4 leaves a capacity of 1, so an adjustment is split and carried to a third month |
| Backups | 3 invocations of one day and 1 of the next, 4 events a day (a day may fail once and start again), keep 1 (one newer day pushes a backup out) |
| Notifications | two overlapping runs of one hour and one of the next, 1 event, 1 device, 2 attempts, 2 revisions of the device |
| Savings and goals | 4 callers, 2 goals, a balance of up to 2 |
| Authentication | 4 visits, a challenge answered up to twice |
| Imports | 4 rows in 2 batches, 3 of which are one bank transaction, 2 accounts; one of the three comes with its account missing and may be mapped to either, another may be mapped again to the other one or to none; 3 reviewers, an apply request that takes 1 row at a time |
| Checkpoints | 5 payments of two months, the first one of all fails in its report, one is recorded late, two are of one instant (in `backend_live` two of one month behind the other); 2 runs of the processor, which take up 2 requests at a time, so that the stuck ones can fill a run |
| Cards | 5 clients, 1 statement, 1 purchase, 2 of unearmarked money |
| People | 4 parties, 2 receivables and 1 payable |
| Long-term | 4 senders, a deposit of 3 |
| Rewards | 4 shoppers, 2 accounts |
| Income | 4 claimants, 2 receipts and 2 entitlements of 1 source |
| Shared purchases | 4 requests, 2 people, amounts of up to 3: one purchase recorded with its split, changed together or alone, retried with an old revision, cancelled |
| Budget plans | 3 requests, one month under both policies, incomes that change once: creations with one key and with two, refreshes of one revision, a void, a close |
| Campaigns | 4 requests, 2 purchases on 2 cards, a period that is created or already active, three sets of terms: two credits and their voiding, one proposal made twice, applied, dismissed and overtaken by an amendment |
| Reconciliations | 3 requests (two reconcile, under one key or two, one voids), 2 statements alike at first of which one changes, 1 purchase and a person it may be shared with; `MaxChanges` 2: a statement is amended, paid, reopened or voided, a purchase split or voided, twice in all, which leaves it at most 3 revisions (`MaxInvoiced`) and its split 2 (`MaxDivided`); `Watched`: the reader looks at the first |

Each of these is the smallest instance in which the hazard it is about occurs: two
requests that race, a third that retries one of them or comes later with a
stale revision, and a history of one or two earlier ones. The requests a
caller may make are constants (`AsPlanned` and `FewInvocations` bound what is combined in one
behaviour), chosen so that duplicates, conflicts and corrections of each other
are among them. The mutants of section 4 are the evidence that the bounds are
not too small: each of them is a bug that the instance finds.
Sessions, keys and requests are taken in one fixed order in place of symmetry
sets where a run has liveness properties, for which symmetry is unsound.
Every bound is a constant of the specification.

**Fairness.** `FairSpec` and `FairCloseSpec` assume weak fairness of each
session's statements, which is what the database gives a started transaction: a
statement that can run continuously is run. They also assume it of the deadlock
detector, which PostgreSQL runs after `deadlock_timeout`. `backend_live`
assumes weak fairness of `Progress`, the steps of whatever has started and has
not been cut off; with one component active at a time this is weaker than the fairness each component is entitled to.
It also assumes strong fairness of `ServedInTurn`, the reconciliations that wait for the card's row: PostgreSQL serves
those who wait for a row in turn, so that a client that begins a reopening again and again, each ended by the detector, does not
keep a reconciliation out for ever.
No fairness is assumed of beginning a request, of crashing, of being cut off
(`CutOff`, `Die`), or of one session's branch over another's. The
browser's loop is fair because its component calls again until the answer says
nothing is left; the hourly runs of the checkpoint processor are fair because
the cron trigger starts them every hour. `BackupRuns` has no liveness property: an invocation may be evicted
for good, and the code promises no retry before the next day. The liveness
properties are stated as recurrence (`[]<>`): whenever requests are under way,
they come to an end again.

### What the properties say

`ExpenseCountedOnce` relates the journal to a close that reads it without
seeing uncommitted entries: the account locks of the close and of the posting's
trigger are all that orders the two. `ClosesAtomically` says the statement-level close
can be replaced by one step when reasoning about the journal, which is what the
proofs of `JournalPosting` rely on. `MoneyConserved` ties the sums of all
closes together over any order of closing, and `AppliedWithinOwed` keeps an
adjustment that is carried on from being used up twice. `EditsFollowShown` is the lost-update
property of an update that was merged over an unlocked read; the expected
revision number checked under the row lock is what saves it. `NeverStranded`
says no history of edits, failures and retries reaches a transaction whose next
edit must fail. `UploadsUndisturbed` and `CompletedKept` hold although the
bucket and the database share no transaction and lists are stale when used.

`PushedOnce`: the push service accepts a notification at most once
(`AcceptedAtMostOnce`), and a device is called at most once in an hour about an event
(`CalledOncePerHour`), although the call is between two transactions and a
later hour may settle what an earlier one left. `RecordsAreReal`: a success on
record was a call that succeeded, and an endpoint that registered again is not
disabled by the answer to an earlier call.

`SavingsInStep`: the buckets never hold more than the account, a goal that has ended holds no money, an active one no more than its
maximum budget, and the order lists exactly the active ones; a key transfers once, a transfer
is undone once, a reversal never.

`UsedOnce`: one bootstrap, one passkey per grant, one recovery per code, one proof
per version of a passkey; `StateConsistent` ties the enrolment mark to the
passkeys and codes that exist. `ImportedOnce`: on each card or account the money of one bank transaction is booked
once (`MoneyOncePerIdentity`), each row's status says what was booked (`MoneyMatchesStatus`), a duplicate ends at the
record of the row that owns the id there (`DuplicatesFollowOwner`), and a row stands for a record of the card or
account it is mapped to (`ResultsInScope`), however often it was mapped before. `ReportsInLine`: each report covers the time since the checkpoint it follows, and two
payments of one instant never both get one, however the runs overlap.

`StatementsInStep`: the reserve bucket holds what the open statement says (`ReserveHeld`),
a statement is paid once, under whichever key counts (`PaidOnce`), payments never exceed the
purchases, whatever is lowered meanwhile (`NeverOverpaid`), and an archived card owes nothing (`ArchivedSettled`). `DebtsAddUp`: no obligation is settled beyond its
amount, a sum collected is stored whole or not at all, an archived person has
no open obligation; `ExcessIsLast`: the last receivable takes more than its
due only when every other is closed. `TasksAccounted`: the earmark is what is pending, and a
task's money leaves once. `PointsInStep`: no reward account is overdrawn, an archived one
is empty, an account has one opening balance that stands, and the benefit account holds
what the purchases that stand were paid with. `IncomeInStep`: sums over all settlements stay within what each
receipt brought and each entitlement is worth, and no two stored changes build on
one revision. `SharesInStep`: what the participants owe for a purchase is
their allocation of what it costs now, however the purchase and its split are changed,
retried or voided; what they paid stays covered; nobody archived comes to owe again. It
is the binding at the commit (`Bound`) that the first part needs: a coordinated
update whose purchase part replays an old revision would otherwise share the old amount.
`PlansInStep`: a plan of the first policy was computed from incomes of one moment
(`FromOneMoment`; without the snapshot its two reads would be torn), a refresh never goes
back to older ones than the revision before it (`NeverOlder`), the revisions are one chain that
a void ends (`OneChain`), and a close ends on the revision whose figures it compared
(`ClosesOnLatest`). The snapshot is older than the wait for the plan's row, so it is
the unique index on the revision number that refuses a refresh that waited for another.
`CampaignsInStep`: a period is credited once, on terms and purchases that still stand when the credit is
stored (`ProgressStands`; nothing keeps an override from changing in between, since it locks the row of its purchase
alone, and the property leaves the overrides out), and a credit whose points are spent is not voided (`CreditedOnce`); a revision
is made by who saw the one before it (`RevisedKnowingly`); no two pending proposals are alike, one
that was applied is one revision with the terms that were reviewed, and a retry about a proposal is
answered with the proposal of the first attempt (`OnePendingAlike`, `AppliedAsReviewed`, `OneAnswerPerKey`).
`ReconciliationsInStep`: the revisions of a reconciliation are numbered without a gap or a fork, each by who had seen the one before, and
a void is the last (`ChainsWhole`), although a reconciliation and a void lock different rows; each makes up the
amount of the statement revision it was made for (`EntriesAddUp`), of parts that were owed as they say
(`EvidenceReal`); what a transaction has read stands until it commits (`ReadStands`: the statement, because it is locked; the chain,
but for a void, which the trigger's lock and the unique number are there for; the evidence only in a statement's first
reconciliation, whose foreign key happens to keep the card); and a key has one row whatever the statement, with a replay told
only to who submitted the same (`OneEntryPerKey`). `ReadInItsTime`: what the reader calls reconciled made up the statement as
it was at some time while it read, and each part was owed at some such time, though these times differ.
`BackupsInStep` is the conjunction of the four properties of `BackupRuns`: one upload a day stands (`OneUploadPerDay`), an
execution's outcome is its own (`OutcomeIsOwn`), and the two named above.

`WorkEnds` is the conjunction, over the components that wait or loop, of the
liveness of each: closes and postings in a circle, settlements locking in both
orders, reconciliations and reopenings likewise, notification runs, the browser's apply loop. `EveryCheckpointStored`:
a request is eventually reported unless it is stuck itself (`Stuck`: it, or an earlier one of its month,
fails closed, collides, or came too late for the chain) or is crowded out (`Crowded`: the stuck requests that
come before it in the order of discovery fill all the places of a run). Stuck requests of other months hold up nothing as long as
they leave a place. Without the second exception the property is false, at the limit of 2 of this instance as at that of
100 in the code (section "What the code does otherwise than it says").

### What the code does otherwise than it says

Each of these runs has one property that states a sentence of the repository,
and TLC finds it violated.

- `reversal_retry` (`RetriedReversalReplays`). A reversal retried while its
  first attempt is still running waits for the original's row lock, then finds
  the committed reversal and answers `LEDGER_ALREADY_REVERSED`. The key is
  looked up before the lock, not again after it. `tests/ledger-reversal.test.ts:312`
  says an exact retry replays; it does when the first attempt has finished.
- `close_circle` (`NoCloseInCircle`). The comment at `month-close/service.ts:1185`
  says the lock order is never inverted. The foreign keys of a posting's lines
  take KEY SHARE on its accounts in line order before the trigger's ascending
  pass, so a close and a posting can wait for each other. `backend_live` shows
  that all of them still end: one is aborted.
- `close_unprovisioned` (`CoherentPostingBoundary`). A role account that does
  not exist when `closeMonth` resolves the roles is not locked; an expense
  posted to it between the figures and the commit is neither counted nor
  recorded as an adjustment. The comment at lines 1259-1267 excludes it.
- `canonical_retry` (`RetriedCreateReplays`). A create without a date takes the
  clock's, which enters the fingerprint; the same request sent again is a
  conflict. `tests/manual-expenses-canonical.test.ts:141` says it is idempotent.
- `backups_lost` (`RecordedKept`). The commit that records COMPLETED succeeds
  but its answer is lost: the catch block deletes the object, the row stays,
  and later invocations of the day replay COMPLETED. `CompletedKept` is the
  part of the promise that holds.
- `notification_events` (`AnnouncedOnDueDate`). `docs/FRONTEND_PRODUCT_UX_SPEC.md:614`
    promises an announcement at 10:00 of the due date, which is when `events.ts:331`
  schedules it; the trigger of `migrations/0046` (lines 448-502) accepts 12:00
  alone. The insert is refused, and its exception ends the run before any delivery.
- `checkpoint_raw` (`NoRunFails`). The comments at `checkpoint-processor-v2.ts:35`
  and `:356` say a run classifies what it meets. A payment recorded behind a
  stored checkpoint meets the unique index of `migrations/0068` at line 74 as a
  raw error at `checkpoint-processor-v2.ts:422`.

Further places where the code differs from its documents, or answers a retry
otherwise than the rest of it does, which the models contain and no run is devoted to:

- A month that cannot go on "never blocks other periods/users" according to
  `checkpoint-processor-v2.ts:35`. A run takes up the first hundred pending requests by
  user, month and instant (line 154), and the pending ones of such a month stay among them. A hundred of them are all
  that any run sees from then on, and no later month or user gets a checkpoint.
- The same bank transaction on two statements is booked on two cards or accounts if its rows are mapped to
  them: the claim on its id is of one card (`imports/service.ts:1308`, `:2094`).
- A row that was staged as a possible duplicate and is mapped incompletely needs review, and is then ready once it is mapped
  completely, also as it was, without having been confirmed (`imports/service.ts:1366`; the trigger looks at one step alone).
- A purchase that was imported and then edited or voided makes later batches with
  the same identity be refused at staging (`imports/service.ts:716`, trigger of `migrations/0054`, lines 298-505).
- `docs/FRONTEND_BACKEND_CONTRACT.md:1996` gives the order of settling
  receivables otherwise than the code, which takes the order of creation.
- The settlement of all receivables sent again without a date takes a fresh
  timestamp into its fingerprint (`person-settlement-orchestrator.ts:84`).
- A retried `createIncomeEntitlement` that waits for its first attempt has read
  the month's entitlement before (`income/entitlements.ts:252`) and is answered
  `INCOME_ENTITLEMENT_INVALID_STATE` where a replay was due.
- The archived mark of an income source is read without a lock, so a receipt or
  an entitlement may be stored just after the archiving.
- A plain update of a shared purchase that changes neither amount nor category passes the
  service's guard (`credit-cards/purchases.ts:1217`, against "uncoordinated economic
  updates" alone) and is then refused at the commit, as any new revision the split is not bound to
  (`migrations/0036`, lines 749-757).
- A budget refresh that waits for its first attempt, or a creation for another one of its key,
  goes by the snapshot it took before (`budget/service.ts:588`, `:893`): the replay check of lines
  650-664 does not see what was committed, and the retry gets the raw error of a unique
  index where a replay was due. The next retry is replayed.
- `getStatementReconciliation` reads the revision, the statement and the evidence one after the other, without a
  transaction (`credit-cards/statement-reconciliation.ts:1217`). A statement that is amended, reconciled anew and amended back after
  the first read is called RECONCILED by a revision that was superseded before the statement had its amount
  again; line 129 says of this answer "sealed and current". `ReadInItsTime` is the part that holds.
- Retried revisions of receipts and entitlements run the domain's checks before the key is
  looked up and may be refused for what was stored since.

Hazards with no property: the spending category that `manual-expenses` assigns after its commit
(its failure is swallowed), in the list of hazards; and, not in that list, a posting to the short-term purchase role in
a closed month, which is recorded as an adjustment although the close does not
count that role (`ledger/posting.ts:559`); two closes that share a key but not a
month, of which the second is refused with the raw unique error
(`month-close/service.ts:1485`); a payment of a trigger card that locks its
statement before the card, which an update takes in the other order (`credit-cards/payments.ts:625`).

## 4. Mutants

Each property of each passing run has a mutant in `PROJECT.json`: an
alternative body for one definition of the model, as a plausible bug would
write it (a lookup that does not compare contents, a lock that is not taken, a
revision check dropped, the retention counting older instead of newer days). TLC
finds the property violated when the mutant replaces the definition. A property
that is a conjunction of named parts has a mutant for each part, and each
violates that part. The mutated forms are ordinary operators beside the
ones they mutate and are used by nothing else.

## 5. Proofs

All proofs are checked by tlapm with SMT (Z3), Zenon and, for the temporal steps, LS4.

**`JournalPostingProofs`** (`Types`, `OncePerKey`, `ReversedOnce`,
`CommittedAnswer`, `NeverPostedToArchived`, `CountedOnce`). The properties
speak of committed entries, but a step that commits an entry decides nothing:
it was decided when the draft was inserted. So `JournalInv` adds that each
session's entry is the one its request asks for from the moment it is inserted
(`Written`), that its statement fits its request (`Served`), that an answer names a
committed entry of the right content (`Answered`), and that uniqueness of keys
and of reversals holds among all entries that are not rolled back
(`SingleKey`, `SingleReversal`), not just committed ones; that is what the
unique index keeps. `LockInv` says a session at or past its transition holds
FOR UPDATE on every account it touches, that only sessions with a draft hold
locks, and that no account a posting holds is archived:
`NeverPostedToArchived` follows, since archiving needs a lock that conflicts.
`CountInv` says that an expense whose session has read the closed months is
counted or adjusted as soon as its month is closed, committed or not, which
needs those locks: no close commits between that reading and the posting's own
commit. It gives `CountedOnce`. That theorem assumes `Budgeted \subseteq FirstAccounts` (the
roles exist from the start); without it the property is false, as
`close_unprovisioned` shows.

**`RecordProofs`, of `CanonicalTransactions`** (`CanonicalTypes`, `ChainsAreLinear`, `NoEditLost`,
`LedgerFollowsLatest`, `AnswersAreRequested`, `NoEditStranded`, `RequestsAreAtomic`). `ChainInv` has
a part per session (`Own`, `Linked`, `Answers`: what a session holding a
revision knows of its predecessor, its reversal and its answer), `Exclusive`
(one session at a time past the parent lock of a transaction), `ChainLinear`,
and `Covered`: a committed revision that is not the latest has a committed
successor. A committed edit has reversed its predecessor's entry, so `Covered`
and the chain give `EffectOfLatest`, which is a fact about a whole history and
not inductive by itself. `NeverStranded` is needed inside the invariant: an edit
that could be refused for a missing or reversed entry would leave no way on.
`ChainLinear` has a theorem and no run: the row lock, the unique revision number
and the reversal of the previous entry each keep it, so no single bug breaks it.

`RequestsAreAtomic` is the refinement `ImplementsRegister`. Committed rows change in the commit alone, so every
other statement, a rollback and a crash are stutters of the register (`OnlyCommitsShow`, `QuietShows`). A commit is a
Create, a Revise or a Void: its revision takes the place of the latest, and its void keeps the content (`Linked`).
What the register's ledger carries is a difference of two counts over a history; `Balanced` gives its value, one
entry of the latest content or none, and is inductive because each commit adds one posting and one reversal of
exactly the content it supersedes. The counts are finite because `Balanced` also says that only finitely many
revisions are committed at any moment; the set of sessions itself may be infinite.

**`CronProofs`, of `BackupRuns`** (`BackupTypes`, `OneUpload`, `OutcomesAreOwn`, `UploadsStay`,
`CompletedBackupsStay`, and `BackupsStayInStep`, their conjunction). `BackupInv` says chains are well formed (started and
terminal events alternate, COMPLETED ends the chain), a working invocation whose
reservation is not stale owns the latest event, recorded invocations
have left the working stages, a COMPLETED answer goes on to retention, and the retention lists
contain only recorded invocations, of which the doomed ones are outside the
window. The window only moves forward: `RecordingGrows` shows by cardinalities
that no recorded backup comes back into it, so a list read long ago
dooms nothing that is still due.

**`RecordProofs`, of `PasskeyEnrollment`** (`EnrollmentTypeCorrect`, `AuthStateConsistent`,
`OneBootstrap`, `OneGrantOnePasskey`, `OneRecoveryPerCode`, `OneProofPerVersion`,
`NothingUsedTwice`). A grant, a challenge, a code and a version of a passkey are each
used up in one transaction and acted on in another. `EnrollmentInv` therefore
records who may still act: a grant belongs to the visit it was issued to, and a challenge to a consumed grant
(`OnceIssued`); a consumed challenge has one answer that may enrol (`AnsweredOnce`);
the passkey or code a visit started from exists (`SourcesKnown`); a code that recovered is
spent (`CodesSpent`); and a passkey has moved past every version that was proved with
(`VersionsMove`).

**`Sums`**, the lemmas on sums. What accounts, cards, buckets, debts, points and closes hold is a sum over the
requests that were stored, and `SumFunctionOnSet` is a fold: a recursive function that CHOOSE picks. What it is has to be shown by
induction over the set. The induction theorems of the library take an operator as parameter, but that of well-founded
orderings also has a form with a set: the subsets of a finite set are well-founded by
inclusion, so a set of subsets that has every subset whose proper subsets it has, has them all
(`SubsetInduction`). From it come the existence and uniqueness of the recursive function (`SummationsExist`,
`SummationsAgree`), `SumTakes` (a sum takes out any element), induction element by element and along an interval, and the lemmas
the other modules cite: one summand changes and the sum by as much (`SumChanges`, `SumShifts`), sums split, add up,
are monotone and zero.

**`CardProofs`, of `CardStatements`** (`CardTypeCorrect`, `ReserveCorrect`, `OnePayment`, `NoneOverpaid`,
`ArchivedForGood`, `StatementsCorrect`). `CardInv` is `ReserveHeld`, `PaidOnce`, `ArchivedSettled`, `NeverOverpaid`,
`PaidByAnswered` (a payment that counts was stored by a request that has been
answered, so that a new payment never meets an older one of its own) and `BilledByRevision`. What is owed is
the purchases that stand less the payments that count, and a request changes one summand of one of the two. An archived card leaves
no action anything to change.

**`CardProofs`, of `RewardPoints`** (`RewardTypeCorrect`, `RewardsInStep`). The balance of an account is a sum over the
events that stand, so the set it ranges over gains or loses an element (`EventAdds`, `EventLeaves`) while what the others asked for stays
(`EventsStored`).

**`CardProofs`, of `SharedPurchases`** (`SharesStayInStep`). The property sums the obligations of a person that
are not void. `SharingInv` says that there is at most one, the one the latest split names (`OneStands`), and that it is the
person's share of the latest amount (`Current`); the sums then have one summand (`StandingIsOwed`). That latest split
and latest purchase belong together is what the trigger at the end of each transaction compares.

**`CardProofs`, of `CampaignRewards`** (`CampaignsTyped`, `CampaignsStayInStep`). Five facts about requests that are
in flight carry the property. A revision was stored by the request that expected it to be next (`ChainStored`); a key is stored once
and a replay is answered as what it repeats (`CampaignKeys`); there is at most one credit, stored by a request
that asked for one (`CreditsStored`), and while one is computed nobody else has the period or its cards (`ProgressStands`); a
proposal being applied is pending, and applied by one request (`ApplyingPending`). `Became`, that each applied proposal is
one revision with the reviewed terms, is kept because a chain only grows.

**`BalanceProofs`, of `EarmarkedSavings`** (`SavingsTypeCorrect`, `SavingsKeepInStep`). The code sums what is earmarked
from the transfers; the invariant adds that this is what the buckets hold together (`InBuckets`), so that a transfer
changes two buckets by opposite amounts, that a goal that is not active holds nothing (`InactiveEmpty`), and that only stored
requests have moved money. The order of the goals needs lemmas about sequences: insertion and removal keep it
free of repetitions (`InsertKeepsOrder`, `WithoutKeepsOrder`), and an injective sequence is as long as it has elements, which is how the code tells
that a new order lists all active goals.

**`BalanceProofs`, of `PersonSettlements`** (`PeopleTypeCorrect`, `DebtsStayAddedUp`, `ExcessComesLast`). A settlement of all
receivables pays them in their order (`Place`). By induction along that order, what is taken up to a place is the
smaller of the cash and what is owed up to it, or all of the cash once the last unpaid one is among them (`TakenUpTo`). So
the whole sum is stored, and if any of it is excess, every receivable is paid off (`AllPaidOff`).

**`BalanceProofs`, of `IncomeSettlements`** (`IncomeTypeCorrect`, `IncomeStaysInStep`). `Chained` says that a stored request made one
revision of the chain it writes to, the one after the revision it expected, and that the chain is longer now. The
guard on the latest revision therefore excludes a second request with the same expectation. A receipt that was not there at first was recorded
by a stored request (`Recorded`), and its key refuses a second one. The two sums, of what a receipt gives and what an entitlement is
given, change at one receipt, and the guard of a settlement (`Attributable`) speaks of all the others.

**`PlanProofs`, of `LongTermTasks`** (`LongTermTypeCorrect`, `TasksStayAccounted`). A request creates at most one task, so the sums
over tasks are sums over requests, of which a step changes one summand.

**`CloseProofs`** (`CloseTypes`, `AppliesWithinOwed`, `ClosesConserveMoney`, `ConfirmedStillHolds`, `CloseIsAtomic`). A close reads the
adjustments still owed, computes what its surplus absorbs of each, and applies it several statements later.
`CloseInv` says that between these statements the adjustments it holds stay what they were and belong to no other close
(`Apart`, as it locks them), that what it is about to apply lies between zero and what is left of each, and adds up to what it offers
for routing (`Ledgered`). That the loop's result has this property is an induction along its steps (`AbsorbedSteps` and the lemmas
after it). `Balanced` and `WithinOwed` are then facts about sums with one summand changed at the commit.

`SeparateInv` says why the figures hold although the ledger is read in several statements: the anchor makes a close the only one of its month (`Anchors`),
its locks on the budgeted accounts conflict with those of postings (`Exclusive`, with `LockInv` of the journal), so
the entries that count and the net expense stay as they were read (`Current`). It needs the budgeted accounts to exist from the start, and
the two theorems that rest on it assume `Budgeted \subseteq FirstAccounts`; without that the property is false,
as `close_unprovisioned` shows.

`CloseIsAtomic` is the refinement. Module `JournalPosting` closes a month in one step that counts the entries committed by then. Its variables
are this module's, but for the locks, of which it sees those of the sessions. A step of a session is the same step there
(`StepRefines`, action by action), the statements of a close before its last one change nothing that module has, and the commit of a close is its
`CloseMonth`: by `SeparateInv` nobody holds a lock that it has to wait for, and what it counted is what is committed.

**`PlanProofs`, of `BudgetPlans`** (`Types`, `PlansFollow`). A snapshot may be older than the rows a
request writes, and nothing but the unique indexes stands between the two. `PlanInv`
says of every snapshot what holds of the database: it consists of whole chains (`Whole`)
of what was stored by its moment, with the incomes of that moment (`Viewing`, `Sound`). A
request that adds number `n + 1` to the chain of its snapshot therefore succeeds only if nothing was
stored since, and `NeverOlder`, of all pairs of revisions, follows for the new one.
`Basing` and `Holding` say what a request past its row lock holds and knows, which keeps
`ClosesOnLatest`: a plan being closed is not changed, since refreshes and voids need its row.

**`PlanProofs`, of `StatementReconciliation`** (`ReconciliationTyped`, `ReconciliationsStayInStep`, `ReadsInTheirTime`). What a
transaction stores it has read several statements before, under locks that cover part of it. `ReconciliationInv`
says per request what its locks keep (`GripsInStep`): who holds a statement holds it alone (`HeldApart`) and has its latest
revision, which its parts make up; who has read the chain has its last revision, or one that was voided since and is then
refused for its number; who has written also has the key, evidence that was real, and in a
statement's first reconciliation evidence that still is (`GripStands`). `EntriesInStep` says of the stored revisions
what the property says, and that each is what its request asked for and that a statement with revisions has a last one, as `LastEntry` is
a CHOOSE over the set. `EvidenceReal` and `EntriesAddUp` speak of revisions of splits and statements that were, so they
survive whatever those become (`Grown`). `ReadInItsTime` says of a finished reader what its several reads found;
`SeenAtItsTime` says it of one on the way, for the parts it has looked at, at revisions no older than the ones there were when it began.

**`CronProofs`, of `NotificationDispatch`** (`DispatchTypes`, `PushesOnce`, `RecordsReal`). A push is sent outside any
transaction, so the run that sends it may be dead, late or overtaken when its fate is
written down. `DispatchInv` says that a run between its two transactions holds the dispatch it
reserved, alone (`Owners`), that it has not been pushed before it is sent (`Uncalled`), and
that its answer is the one in its hands (`Answers`). A delivery gets a new dispatch only
after a retryable answer to every earlier one (`DispatchesInTurn`), an accepted push is never
recorded as retryable, and the settlement of a stale dispatch adds one attempt that is not retryable
either (`PushesDispatched`). So at most one push is accepted, by whichever run it was sent.

**`CronProofs`, of `CheckpointChain`** (`CheckpointsTyped`, `ReportsStayInLine`). A run looks once whether another
request has the instant of one it is about to report on, and stores the snapshot several transactions later. So `CollisionsUnresolved`
is not inductive: `AloneThrough` says it of the snapshots and of what any run has let through (`Through`). Of two runs
that let requests of one instant through, the later one would have found the other's. A run works through a list
of lists of requests, of which the proof needs that its elements were requested.

**`RecordProofs`, of `StatementImports`** (`ImportTypes`, `ImportsOnce`). What a row recorded or linked is decided by
its status, and whether it may is decided by the claim on its id. `ImportInv` connects the two: the claims are held by
exactly the rows with an id that are APPLIED or LINKED_EXISTING, each under the card or account the row is mapped to (`ClaimsHeld`), no two for one id
on one card (`ClaimsUnique`), each with a result (`ClaimsResolved`); a row that is ready is mapped to a card or account (`ReadyMapped`),
which its claim will be under, and keeps its mapping once it is terminal; a row whose batch is not staged
yet is nowhere (`StagedTogether`), so that a staging overwrites nothing. `TransactKeeps` is the one transaction all
the requests and both loops share.

Assumptions on constants are named in the modules and are the facts the code fixes:
account kinds are nested (`AccountAssumption`), payloads and requests have their types,
`None` is not a value and no row, the sets that sums range over (requests, closers, goals, receipts and so on) are finite, the event budget is even and
positive, `Keep` is positive, only plans of the first policy are closed on. A transfer of savings goes from one place to another
(`midas/service.ts` refuses others). Amounts of incomes are positive and revisions count from one
(`income/entitlements.ts`, `receipts.ts`), and the id of a receipt is fresh, so that only requests with one key, which are retries,
would create it. Shares and weights are natural numbers of cents. Nothing is assumed about the number of sessions,
keys, accounts, months, fields, values, days, visits or statements.

**Only model-checked.** Liveness (`WorkEnds`, `EveryCheckpointStored`, `OperationsEnd`):
fairness and ENABLED are beyond the prover. `BackendTypeOK` is the type invariant of whichever component a state of the composed model
exercises; the theorems on types say it component by component. The findings are counterexamples and need no proof.

## 6. What the models leave out

- Currency and format checks, decimal parsing, hashing: amounts are integers,
  a fingerprint is the content it hashes.
- The product's account creation; the provisioning of `verifyAssetAccount` in a
  canonical posting is part of the step that posts and may roll back.
- Several users: the service has one, and every unique key includes the user.
- Isolation other than READ COMMITTED, but for the snapshots of `BudgetPlans`; the previews only read.
- Export, encryption and verification of a backup's bytes: one step that may
  fail. Corruption of object metadata in R2.
- In reconciliations: their times (`occurredAt`) and the reader as of a past time; the amounts of the purchases the parts
  cite, which the code compares with nothing; the answer UNSEALED, since a revision and its parts are stored by one transaction. The
  trigger's checks of the parts of a revision, an insert each, are one step: evidence that changes between two of these inserts is
  left out. No property relates the evidence of
  two parts but in a statement's first reconciliation, which keeps the card, so that none of it changes.
- Dates of receipts, windows of income sources, instalment plans of card purchases,
  reward types without effect on the balance.

**Not modelled.** The map covers about a tenth of the lines the
repository's measure counts as implementation. Most of the rest is one of:

- a single script of 21,702 lines that exercises a live database
  (`scripts/pg-runtime-verify.ts`), other verification scripts, and the
  React frontend, of which only the apply loop acts on what is modelled;
- the HTTP routes: parsing, status codes and headers around the services;
- read sides: lists, reports, balances, budget analysis, behaviour recommendations, which compute from committed rows and change nothing;
- schema declarations, configuration, logging, database connection;
- pure parsing and formatting: import formats, decimals, calendars.

State-changing parts that are not modelled yet: the source snapshots and merchant aliases of campaigns, categories and templates.

## 7. Order of work

Done, in this order: the journal (everything posts to it), the month close (its
only other writer of locks), the canonical transactions with their register,
the backups, the notifications, savings and goals, authentication, imports,
checkpoints, cards, people, long-term tasks, rewards, income, shared purchases, budget plans, campaigns, reconciliations; proofs of the
journal, the canonical transactions, the backups, the enrolments, the cards, the plans, the
dispatches and the imports; lemmas on sums, and with them proofs of the savings, debts, incomes, rewards, tasks, shares, campaigns and
the money of the closes; the checkpoints; the month close implements the journal's; the canonical transactions implement the register;
the proofs of the reconciliations, and of the backups' properties as one.

Next:

1. The source snapshots and merchant aliases of campaigns, and the assignment of spending categories.
2. Several cards and people in one instance: reconciliations and settlements that lock rows of more than one of each.
