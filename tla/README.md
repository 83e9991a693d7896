# FlexPay: TLA+ models, checks and proofs

FlexPay pays the wages of workers in the UAE into a wallet: an employer's WPS
file becomes a payroll cycle, a worker may take part of the accrued wage in
advance, and what is left is credited when the cycle is settled. From the wallet
the worker pays bills, transfers, saves, remits and uses a card; a partner lends;
employers have a dashboard with a ledger and a payroll engine of its own. This
directory models the parts of the repository in which state changes in several
steps, and says what was checked with TLC and proved with TLAPS about them.

## The system

The backend (`src/src`) is one Node process or several over PostgreSQL (Prisma)
and Redis (Bull queues, caches). Every `prisma.$transaction` runs at READ
COMMITTED. So the actors that interleave are requests, webhooks, queue jobs and
cron jobs, and they meet in rows: a read is of what is committed at that
statement, an `UPDATE` holds its row to the end of its transaction, and what was
read before a transaction may be stale inside it. The dashboard
(`src/dashboard`) is one Node process over SQLite with queues, codes and refresh
tokens in its memory. The mobile application (`src/mobile`) calls the backend.

| Component | State | Operations | Meets | Correct when | Module |
|---|---|---|---|---|---|
| Payroll ingestion | `PayrollCycle`, `PayrollIntent` | `ingestSifFile`, `parseSif`, the anomaly screen | wage routing, KYC | a period has one cycle; file and intents add up | `SifUpload`, `PayrollRouting` |
| Wage routing | `Advance`, `LedgerEntry`, wallet | `reserveAdvance`, `settleCycle` | ingestion, gate, failsafe, reconciliation | ledger and wallet agree; the gross is accounted for; an advance is recovered once; a cycle settles whole | `PayrollRouting` |
| Reconciliation | `PayrollCycle.status` | `reconcileSettledCycles` (cron) | routing | a cycle is failed only for drift | `PayrollRouting` |
| Settlement policy | none | `apportionSettlement` | scoring engine | recovery within what is owed and 70 %, and the worker keeps the floor | `SettlementPolicy` |
| Cohort failsafe | `Company.ewaFailsafe*`, `AuditLog` | trip (canary sweep), clear (two people) | reserve | a breach is capped in the end; the trail tells the flag | `CohortFailsafe` |
| Compliance gate, KYC, sanctions | `Employee.status`, `ComplianceIncident`, `KycDocument` | verify, screen, ingest a list, rescreen, gate | reserve, registration | a block holds; a known incident stops an advance | `Identity` |
| Codes, devices | Redis codes, `Device` | OTP, register, step-up, bind, revoke | every API | a code lets one request in | `Identity` |
| Bill payment, its webhook | `BillPayment`, `EmployeeTransaction`, wallet | `payBill`, `refundFailedBill`, `settleBillPayment` | the biller's rail | one funded submission per key; failure refunds, once | `BillPayment` |
| Scheduled payroll | `ScheduledPayroll`, `Company.balance`, Bull jobs | `schedulePayroll`, `processPayroll`, `processDuePayrolls` | notifications, cron | everyone is paid once; no payroll is forgotten | `PayrollRun` |
| Wallet, P2P, referrals | wallet, transactions, `Referral` | `transfer`, `maybeReward` | all spenders | one transfer per key; one reward; no overdraft | `Transfers` |
| Savings | `SavingsGoal` | create, deposit, withdraw, monthly auto-save | wallet | saved and wallet are conserved | `Savings` |
| Remittance, MoneyHash webhook | transactions, Redis quotes | quote, `send`, status events | wallet, provider | what was sent is charged; failure refunds, once | `Remittance` |
| Cards, NymCard webhooks, cashback | `Card`, Redis velocity | freeze, tokenize, order, transaction, status, authorize | wallet, NymCard | row follows issuer; counters are today's; bursts declined | `Cards`, `Authorize` |
| Loans, score, FlexxPay webhook | `EwaLoan`, `creditScore` | `computeScore`, `requestAdvance`, `handleStatus` | lender | a loan follows the lender | `EwaLoan` |
| Dashboard payroll engine | queues in memory, `Payroll`, `ScheduledPayroll` | post, tick, process, retry | dashboard ledger | a run pays once; a schedule runs once a day | `DeskPayroll` |
| Dashboard money routes | `Balance`, `Transaction`, goals, loans, circles | transfer, remit, contribute, repay, pay a turn | each other | totals follow rows | `DeskLedger`, `DeskRoutes` |
| Dashboard sign-in | maps in memory, `User`, `Wallet` | ask, enter, register, refresh, log out | - | a code lets one in; one live token per login | `DeskSessions` |
| Mobile session | keychain, stores | sign in, call, refresh, step up, sign out | backend | a call is executed as its person | `MobileSession` |
| Idempotency middleware | Redis `idem:*` | look up, store | every money route, sign-in | a key's handler runs once; a mended retry is tried | `KeyedCalls` |
| Notifications, offers, ops-intel, scoring engine | rows, scores | batch jobs | - | arithmetic, delivery | - |

What is hard here: two transactions that read the same committed state; reads
before a transaction that are used in it; a status decided on a row that was read
earlier and written by id; side effects between and after commits (a rail, a
queue) that fail on their own; repeated, early and reordered webhooks; a process
that dies between two steps; keys and codes that are read in one step and
consumed in another; and retries of what was already done. `PROJECT.json` lists
each place with the properties about it.

## Modules

| Module | What it is |
|---|---|
| `PayrollRouting` | one cycle of one company: ingest, reserve, settle, reconcile |
| `WageRouting` | what `PayrollRouting` promises: settlement in one step |
| `BillPayment` | bills of one employee: calls, refunds, webhooks, the rail |
| `BillEscrow` | what `BillPayment` promises: one covered debit, at most one refund |
| `PayrollRun` | scheduled payrolls: rows, Bull jobs, sweep, crashes |
| `Handlers` | requests in progress, and which of them overlapped |
| `EmployeeWallet` | balances, rows of `EmployeeTransaction`, the day |
| `Transfers`, `Savings`, `Remittance`, `Cards`, `Authorize`, `EwaLoan` | the services on them |
| `MobileSession`, `KeyedCalls` | the phone's session; calls under one idempotency key |
| `WalletPlane` | their composition, its faults and its properties |
| `Identity`, `CohortFailsafe`, `SifUpload` | a person, a cohort, a company's files |
| `DeskLedger`, `DeskPayroll`, `DeskRoutes`, `DeskSessions` | the dashboard |
| `Platform` | their composition, its faults, fairness and properties |
| `SettlementPolicy` | a pure function; it has no behaviours to run, and its theorems are in `PayrollRouting_proofs` |
| `..._proofs` | theorems: of routing, bills, payroll runs, the wallet plane (`WalletPlane_proofs`, and `WalletMoney_proofs` for what rests on sums, and the types), the platform; `Handlers_proofs` has the lemmas about requests |
| `SumTheorems` | lemmas about sums over finite sets, sequences and counts |
| `MC...` | instances for TLC |

A module holds, in this order, its state, its operations, the step relation, the
properties, the inductive invariant and, last, statements of the repository's
documents that the code does not keep. A definition marked "Mutant" in its comment
is a plausible bug: no specification uses it, and putting it in the place of the
definition it precedes makes TLC report the property it is listed with.

The first three components were modelled statement by statement, with row and
advisory locks, because what goes wrong in them goes wrong inside transactions.
The others are modelled await by await: their transactions use relative updates
(`increment`, `decrement`) and unique indexes, so each is one step taken at its
commit, and what races is what was read before it.

### PayrollRouting

The state is the rows of one cycle: `cycle`, `intent`, `gross`, `advance`,
`wallet`. The ledger is kept as its sums by worker and type (`reserveSum`,
`settleSum`, `payrollSum`) and the number of ADVANCE_SETTLE entries per advance
(`settleCount`): no property looks at a single entry. Amounts are integers, in
fils; the code uses floats rounded to two places.

`reserveAdvance` is `RequestAdvance` (the controller's checks), then inside its
transaction `AcquireWorkerLock`, `EnforceCompliance`, `CheckLimits`,
`WriteAdvance`, `CommitAdvance`, or `AbortAdvance`. `CheckLimits` joins the reads
of the cycle, the intent and the company: of these only the cycle's status and
the failsafe flag change while a call runs, and no property tells their order
apart. `settleCycle` is `StartSettlement` (its read before the transaction), then
`ListIntents`, and for each intent `ReadIntent`, `ListAdvances`, for each advance
`CheckAdvance` and `SettleAdvance`, then `CreditResidual` and `RouteIntent`, and
`CommitSettlement`; every check that throws is `SettlementThrows`, and a crash, a
timeout or a deadlock victim is `AbortSettlement`. What a transaction has written
is in its `w...` variables until it commits. `AdvanceRowHeld`, `IntentRowHeld` and
`WalletRowHeld` are the row locks, for which other transactions wait.
`FindDrift` and `MarkDriftFailed` are the reconciliation job. `beside` is history and
no state of the code: the calls that were past their checks while a settlement ran.

Three facts of the code matter to a reader of the model. `settleCycle` has no
caller in the repository: an operator is assumed, who may call it at any time. A
worker without an intent in the cycle is refused an advance. The reconciliation
query compares the cycle's enum status with a text parameter
(`reconciliation.worker.ts:40`), which PostgreSQL refuses without a cast; the
model lets the job do what it is meant to do, which for the safety properties
only adds behaviours.

### BillPayment

The state is the wallet, the four facts about a bill that its rows hold (`bill`,
`txn`, `refund`, `ref`) and the rail's side of it (`rail`, `said`, `submits`).
`payBill` is `PayBill`, `Preflight` (the replay check outside the transaction),
`AcquireWalletLock`, `CheckBalance`, `CommitDebit` or `DuplicateKey` (the unique
key), `Submit` (every answer of the adapter, and an exception before or after the
request reached the rail), `StoreReference`. `refundFailedBill` is `LookUpRefund`,
then `HealBill`, `CommitRefund` or `DuplicateRefund`, for a call and for a webhook
alike. `Deliver` is the webhook's lookup, whose row the handler keeps in `snap`;
`SettleBill` is `settleBillPayment` on it; `DropUnknown` is the 202 for a reference
nobody knows. The rail is external: it decides once on what it accepted, may
reverse what it completed, and repeats verdicts in any order.

### PayrollRun

The state is the company's balance, each row's `status`, how often its workers
were `paid`, its Bull job, and where each process is in `processPayroll`.
`Schedule` takes a second argument: the enqueue after the commit may fail. `Find`,
`Claim`, `Pay`, `NotifyAll` and `Failure` are the statements of `processPayroll`;
`StartJob` and `Throws` are the job and its attempts, `StartSweep` and `NextDue` the
daily sweep, which the same queue runs, so that a process runs one of them at
a time (Bull's default concurrency). `Stalled` is Bull's own handling of a job whose
lock was not renewed. Time is not modelled: a payroll may be processed at any time
after it is scheduled. Employees cannot change once a payroll is scheduled, so all
credits of a payroll are one count. `raced` is history: the payrolls a process claimed
on a status that another had changed since it was read, which takes two processes.

### Handlers

A request is a record: `op` says which operation it is, `at` which await it stands
at, the other fields what it was called with and has read. `Arrives` adds the next
one and notes in `met` every pair that is in progress at once; `Becomes` and
`GoesTo` move it; one that has ended forgets what it held. Numbering requests as
they come and forgetting keep the state small. `Overlapped(m, n)` is what most
properties of the two compositions need: they say of a read-then-write race
exactly which requests it takes, so that everything else is excluded.

### The wallet plane

`EmployeeWallet` has the balances and the rows; `Posts` is a transaction's effect on
both and `Effect` what a row says happened to its employee's balance (the code
writes some debits as positive numbers). A `NoKey` row has no idempotency key; a
taken key makes the insert of a second one fail, and with it its transaction.

- `Transfers`: `transfer` is the replay check outside the transaction, the checks
  inside it before the first write, and the commit; the referral reward is
  launched inside the callback and not awaited (`FindReferral`, `PayReward`), so it
  is paid even where the commit is lost (`TransferIsLost`).
- `Savings`: deposit and withdrawal check before their transaction;
  `runMonthlyAutoSave` is one deposit after another and goes on after a refusal.
- `Remittance`: a quote is read and dropped in two steps; `send` calls MoneyHash
  before it debits; the webhook finds the row, looks for the refund's key and
  refunds. MoneyHash (external) decides, may reverse, and reports in any order.
- `Cards`: freeze, unfreeze and tokenize read the row, ask the issuer, write the row;
  the physical card is issued before the fee is charged; a transaction event reads
  the card, checks its key, computes the counter, commits, and then awards
  cashback under a monthly cap. `carried` remembers that the counter may hold what
  another day spent.
- `Authorize`: the fraud score in hundredths with the code's weights, against the
  velocity read from Redis; the velocity is counted after the answer in a read and
  a write. Its thresholds are constants, scaled so that two authorizations reach them.
- `EwaLoan`: the score of a day on the employee's row, the limit it gives, FlexxPay
  called before the row exists, and its reports early, late or twice.
- `MobileSession`: the keychain's three items written one by one, the interceptors'
  refresh and single retry, and the one step-up modal. The server is external.
- `KeyedCalls`: the idempotency middleware where `app.ts` mounts it, before
  authentication and the step-up code; the store of an answer, which nobody awaits
  and which may come late or fail; and the phone's retry of a refused call under the
  same key. `ran` remembers whose handler ran, `unheard` the calls that were answered
  with the refusal they had been mended for. Here a handler only runs or fails: what
  repeating it does is what the other modules say, which is why they let every
  repetition reach the service.

`WalletPlane` composes them; a behaviour is about one of the `Mixes`, that is, the
services whose requests meet on the same rows. Its faults are a request that dies at
any await, a lost commit, a lost answer of MoneyHash or FlexxPay, an error of
Redis (velocity, or an idempotency key that is not read or not stored), and the application being killed.

### The platform

- `Identity`: one person's row between login, registration with its card,
  documents, rescreening, and the chain in front of an advance (device, step-up
  code, status, incidents). A code is read in one step and deleted in another.
- `CohortFailsafe`: the canary sweep and the two-person clear, each reading the
  flag outside the transaction that writes it and its audit row.
- `SifUpload`: a file is a sequence of records; `Accepts` is the parser, `Anomalous`,
  `Outliers` and `Ghosts` the screen with the code's constants in integers;
  `ingestSifFile` is five steps, the last one transaction with its unique indexes.
- `DeskPayroll`: `calculateNextRunDate` as arithmetic on days, the queue and its
  processor with one job at a time, the scheduler's and the retry worker's ticks,
  which do not wait for the one before. A crash loses both queues.
- `DeskRoutes`: transfer and remittance check before they book; contributions,
  repayments and turns write what they computed from an earlier read.
- `DeskSessions`: codes with attempts and an hourly limit, registration of a person
  (user, then wallet) and of a company, rotation of refresh tokens, logout.

`Platform` composes them; a mix says how many requests of each kind a behaviour may
have. Its faults are errors, dying requests, and restarts.

## Runs

| Run | Bounds | What it shows |
|---|---|---|
| `routing` | 2 workers, 2 advances, 1 settlement at a time | all safety properties of routing, that it implements `WageRouting`, and that every transaction ends (391,992 states) |
| `routing_zero_sum` | 1 worker, 1 advance | violated: a settled ledger does not sum to zero |
| `routing_over_accrued` | 1 worker, 2 advances | violated: advances exceed what accrued |
| `routing_two_settlers` | 1 worker, 1 advance, 2 settlements | violated: an advance is settled twice |
| `bill` | 2 keys, 2 calls, 2 webhooks at once | all safety properties of bills, and that it implements `BillEscrow` (93,025 states) |
| `bill_replay` | 1 key, 2 calls, 1 webhook | violated: success without the rail |
| `bill_conflict` | 1 key, 2 calls, 2 webhooks | violated: a refunded bill is COMPLETED |
| `payroll` | 1 payroll, 2 processes, 3 attempts, 2 crashes | safety and liveness of payroll runs (47,769 states) |
| `payroll_failed` | 1 payroll, 1 process | violated: a FAILED payroll was paid, and is paid again |
| `wallet` | 3 requests, 9 mixes, 1 fault | twelve properties of the wallet plane (2.0 million states) |
| `keyed_step_up` | 1 key, 2 calls, each made up to three times | violated: a retry with the step-up code is answered with the stored refusal |
| `platform` | 3 requests, 19 mixes, 2 faults | nine safety properties of the platform and the failsafe's liveness (0.9 million states) |

Why the bounds are enough. The amounts sit at the limits.

- Routing: of a wage of 10 (buffer 10 %, fee 1) 8 is the most a worker may take, 2
  the most under the failsafe, so 8, 2, and 2+8 are allowed and 8+8 reaches the
  negative residual. Two workers are what `CycleAllOrNothing` needs, two advances of
  one worker what the lock and the sum over advances need. A settlement may be
  started again after it was aborted.
- Bills: one wallet of 7 with bills of 5 pays one of two bills, and either after a
  refund. A webhook slot handles any number of deliveries one after the other.
- Payroll: the two processes may both read the row before either claims it, or one finds
  it while the other pays, has paid, has stalled or has died, from the job and from
  the sweep. Three attempts are one retry of each process; two crashes may take both.
  Rows meet only in the list of a sweep and in the balance a payroll is scheduled against, which no
  property looks at; two rows on two processes have too many states for liveness, and the
  safety properties are proved for any number of either.
- Wallet plane: every race listed among the hazards is one of two requests, and the
  third is the one that sees its result (a replay, a report, a second day). Ann has
  3 and transfers 2 or 1 with a fee of 1, so one transfer empties her and two
  overdraw; the referral threshold of 2 separates the two. One quote, one goal, one
  card; events of one purchase, its refund and a second purchase; a second day
  for what is counted by day. A burst is 2 authorizations and a spike 1, where the code has 5
  and 3: the score only compares with them. The score of a loan (50 + 10 points,
  15 a default) is above the 60 needed without a default and below with one;
  the principals 42 and 43 are the limit of that score and one more. One key has two
  calls, each of which may be made three times (as it is, refreshed, with a code), so
  five repetitions meet one stored answer. One fault is
  what a single crash or lost message needs; services whose rows do not meet
  are in different mixes.
- Platform: two codes and two lists, so that one is overtaken by the next. Days 9
  and 28 of a month of 30 come one before and one after the 14th; of the five plans the
  biweekly ones with pay days 1 and 20 are those whose next run may not be ahead. Two
  faults are a failed payment and a crash. Seven files cover: two that agree with
  history, one with a component sum off by a fil, one whose trailer is off by more
  than a fil, an outlier in a known and in a new month, a ghost, two national ids
  of one holder, and a month that is none. `Earlier` gives zero to two cycles, since the
  screen needs two.

`CHECK_DEADLOCK` is off throughout: when every call is over and nobody asks for
anything, the system rests.

Fairness. `PayrollRouting` is fair to the statements of a running transaction,
which the database executes, and strongly fair to the wallet update, because
PostgreSQL queues those who wait for a row; nothing else (a request, an operator,
a crash, an officer) has to happen. `PayrollRun` is weakly fair to a process,
since the server runs; strongly fair to the sweep, since the cron fires every day
and takes whatever is PENDING; and strongly fair to the read and the claim of each
payroll, that is, the database does not refuse them for ever. `Platform` is weakly
fair to the steps of a canary sweep: `savings.job.ts:53` registers it as an hourly
cron, so one that can start does, and one that has started goes on. A sweep that
fails is a fault, of which there are finitely many. Failures, crashes and
Bull's stall check may happen and need not. `BillPayment` has no liveness
property: a bill whose process dies after the debit stays PENDING, as does one
whose webhook came before its reference was stored, and nothing in the code
recovers either. The same is true of the wallet plane's requests: nothing resumes
one that died, and none of its properties promise that it ends.

## What is proved

Every invariant and action property that a passing run checks is also a theorem; of
the forty properties only the three of liveness are not. The proofs
hold for every number of workers, requests, settlements, bills, calls, webhooks,
payrolls, processes, codes, lists, days, files and faults, and every amount, under the
named assumptions on the constants only, which TLC evaluates in every run:

- amounts are whole and not negative, and a request's is positive (`GrossIsPositive`,
  `AmountsArePositive`, `CostIsPositive`, `TotalIsPositive`, `PaymentsAreWhole`,
  `PriceIsNatural`, `EventsAreWhole`, `ScoresAreWhole`, `AmountsAreWhole`, and the
  opening balances): the schemas and validators refuse the others;
- names are apart and belong to somebody (`CallsAreNotDeliveries`, `NamesAreApart`,
  `QuotesAreNamed`, `GoalsAreOwned`, `CardIsHeld`, `ReferralsAreOfOthers`, `SenderIsUser`,
  `StaffAreUsers`, `SomebodyOrNobody`, `SnapshotsAreNames`, `HolderOfIsFunction`);
- bounds are numbers (`LimitsAreNatural`, `BoundsAreNatural`, `MaxRequestsIsNatural`,
  `MaxFaultsIsNatural`, `LastDayIsNatural`, `CodesAreNatural`, `DaysAreNatural`,
  `MonthsAreMonths`, `MixesCountRequests`);
- what was there before is what the code would have left (`BacklogIsOneRun`: one row per
  employee; `PlansAreAccepted`: a pay day the schedule route accepts; `TurnsAreNatural`,
  `TurnsAreAssigned`: one member per turn; `FilesAreFinite`; `EarlierWereIngested`: the
  cycles on record were accepted and screened one after the other).

Routing. Without any further assumption: the types, among them that no credited
residual is negative; that wallet and ledger agree; that advances only move
forward; and that a settlement leaves out only the advances of calls beside one (`NoneLeftOut`).
The first three do not need to know what a settlement has read. The last rests on
`BesideShape`: what a transaction has listed or written holds every RESERVED advance of
its worker that is not of a call beside it (`AdvancesSeen`), and a call past its checks while one
is in progress, or after it, is known (`CallsBeside`). The others need more, and
`routing_two_settlers` shows they are false when two settlements of one cycle
overlap; so they are proved of behaviours in which they do not
(`[]SerialSettlement`): the run `routing` has that by having one settler.
The invariant `IInv` says what a settlement has in hand: the intents still to do
and those routed make up the PENDING ones, a routed one's advances and residual add
up to its gross, one not yet reached has nothing. Neither `GrossAccounted` nor
`SettledExactlyOnce` is inductive without it, because the commit makes visible
what was gathered many steps before. From it follow `GrossIsAccounted`,
`SettledOnce`, `AllOrNothing`, and `Refinement`: every
step of the model is a step of `WageRouting` or leaves its state alone.
`RecoveredWasDrawn` compares the recovered sum with a sum over advances, so it also
asks that the requests be finitely many, and needs `BookInv`: the advances settled in
a transaction in progress are what its worker's recovery has grown by.

Bills. `IInv` says that a debited bill has one call that owns it
until it is answered for (and until then no webhook can find it, for the reference is not
stored), that one call holds the lock and what it read of the balance still
stands, and that a row held as FAILED has its refund. From it: no overdraft, one
funded submission, refunds to whoever is told FAILED, agreeing rows, and
`BillEscrow`. `SerialWebhooksSuffice` proves the converse of the run
`bill_conflict`: with webhooks of one bill handled one after the other no refunded
bill becomes COMPLETED.

Payroll. All of it for any number of processes. A PENDING row is unpaid and a COMPLETED
one paid (`StatusIsHonest`). Two processes may both read a row before either claims it;
unless that has happened to a payroll, one process at a time pays or notifies for it
(`ClaimsAreExclusive`), and it is paid again only by a run that found it FAILED
(`PaidAgainOnlyAfterFailure`). `RunShape` is what makes this inductive: while a process
has such a payroll in hand its row is PROCESSING, then COMPLETED, so that no other
reads a status it may claim, and until it pays the payroll is unpaid or was
FAILED. With one process no claim is ever stale (`OneProcessNeverRaces`).

Platform. All its safety properties, of the whole composition. They rest on
`HandlerInv` (`Handlers_proofs`): `met` holds every pair that is in progress at once,
and a request that has not come has met nobody. Most of the invariants then have one
shape: what a request has read still holds, or a request that was in progress beside
it has changed it since. It is inductive because whoever changes it now is in progress
beside every request that holds a reading.

- `IncidentsStopAdvances`, from `GateInv`: incidents are never closed here, so a
  request that has passed `ReadIncidents` came before the first of them.
- `TrailTellsFailsafe`, from `CohortInv`: what a sweep or a clear read of the flag is
  the flag after the first `saw` rows of the trail, so a row that repeats the one
  before has rows behind it.
- `BlocksHold`, from `BlockInv`: whoever still believes the person may be made ACTIVE
  read the row before the block, and so was in progress beside the request that
  opened the incident.
- `CodesLetInOnce`, from `CodeInv`: a code that has let a request in is no longer in
  Redis, and no other request holds it read, unless one that overlapped does.
- `SessionsFollowCodesHolds`, from `SessionInv`: a code that has let a
  request in is stored for no purpose; a login has one live token; the token a rotation
  or a logout is about still lives, unless one beside it ended it; a person
  without a wallet has an unfinished registration.
- `RunsOncePerDayHolds`, from `RunsInv`: after a tick queued a run the next run is ahead
  of the day, unless the tick has yet to move it, and a tick that is going to queue one
  of the same day met it. The arithmetic of the next run is a lemma over all pay days and month lengths.
- `PaidOncePerRunHolds`, from `EngineInv` and `PaidInv`, a counting argument: for a run
  and an employee, the payments made and the things that may still become one (a
  loop that has the employee to do, a failed row, a queued retry) are together at most
  one more than the faults. Every step moves one of them, turns one into a
  payment, or is a fault that makes one. It is why the property is inductive
  although a payment, its record and its retry are written in different steps.
- `DeskTotalsFollowRowsHolds`, from `DeskInv`: the balance, the goal, the loan and the
  circle equal what their rows make of them; what a route has read of them still
  holds when it writes, or a row of a request beside it is there.
- `CyclesAreAccountedHolds`, from `UploadInv`: what an upload screened passes against what
  is on record now, or a cycle of an overlapping upload is there; each cycle pays some
  rows of an accepted file, one for each holder, and the rows it does not
  pay were unknown when it came. The parser's component sums and trailer then give
  both bounds, within the fil it tolerates.

Wallet plane. All its safety properties, of the whole composition with its faults.
They rest on `HandlerInv` too, and on what a step may do to the rows: each
action either leaves the ledger alone, or adds rows of one request whose keys were free
(`AddsPlain`), or is one of the few that write what the property is about.

- `KeyMovesMoneyOnceHolds`, from `KeyInv`: the property is inductive once a transfer in
  progress is known to be between two people (`TransferInv`), because the unique index,
  not the replay check, is what decides.
- `RefundMirrorsFailureHolds`, from `RemitInv`: a send has at most one row and has written
  nothing while it is in progress, a refund has the key of its send, a row is FAILED
  together with its one refund, and a report in progress is of a verdict MoneyHash gave.
- `WorkOutsideIsChargedHolds`, from `ChargedInv`: what was sent belongs to a send that
  is about to debit, has debited or has died, and plastic to an order that is about to
  write its fee, has, has died or found the holder had one.
- `LedgerExplainsBalancesHolds`, from `MoneyInv`: besides the sums, which rows each request
  in progress has written so far, so that the rows of its next transaction are new ones.
- `OverdraftNeedsOverlapHolds`, from `FundsInv`: a request that has checked a balance is
  covered, that is, the money is still there or one that met it has taken from it.
- `OnceOnlyNeedsOverlapHolds`, from `OnceInv`, one part for each promise: `ReferralInv`
  (whoever is about to pay a reward has met those who paid it), `QuoteInv` (a quote
  read is unused, or used by one met), `CashbackInv` (a month's awards and one's own stay
  under the cap, or one met has been awarded), `KeyedInv` (while Redis works a
  handler that has run has its answer stored, on the way or in hand).
- `BurstsAreDeclinedHolds`, from `BurstInv`: while authorizations come one at a time, what
  was answered in the window is in the counter or in the hands of the one that counts.
- `CardFollowsIssuerHolds`, from `IssuerInv`: the row is the issuer's status, or the one
  request that changed it is about to write it.
- `SpentTodayIsTodaysHolds`, from `SpentInv`: the counter lies between today's events and
  today's purchases, and what an event in progress has read of it still does. Clamping
  at zero is why it is an interval.
- `LoansKeepTrackHolds`, from `LoanInv`: the score counts the defaults that are a day old,
  as does the one being computed; a disbursement is on the row or in the
  report about to be written.
- `SessionIsOnePersonsHolds`, from `PhoneInv`: while sign-ins have nothing beside them one
  person is in the items, in the requests and on screen; and while everything is done one
  thing at a time, items that differ from the screen are those the request in progress
  has yet to rewrite.
- `TypesHold`, from `TypesInv` and the parts of the invariants above: a counter below
  zero, a row of nobody's, or an answer for a call that was not made would each need
  a request that holds such a value first, so what the requests hold is typed too.

Settlement policy. `apportionSettlement` has no state, so what it promises is proved
of the function itself, in tenths of a fil so that the cap is exact: the worker keeps
the floor or the whole wage, and three tenths of it (`WorkerIsProtected`); no more is
recovered than owed or capped, and the parts add up to the wage and the debt within
the fil that rounding each of them costs (`NothingIsLost`); and a higher wage or debt
never lowers what is recovered (`RecoveryIsMonotone`).

Sums. The community modules define a sum over a set as a fold, that is, by recursion over
subsets. The library's induction theorems take a predicate as a parameter, which
the provers cannot instantiate, so `SumTheorems` does without them: a set of subsets of a
finite set that is not empty has a smallest member, and a smallest
counterexample is refuted. That gives that the fold exists and does not depend on the
order, and the laws that the proofs use: one element more, two parts, equal weights,
renaming, monotonicity.

Only model-checked: liveness, that is, `TransactionsEnd`, `PendingIsPickedUp` and
`BreachTrips`, because the provers do not reason about fairness and `ENABLED`.

## Where the code and its documents part

Seven runs have a statement of the repository as their property and find it violated:

- `routing_zero_sum`: the deltas of a settled cycle sum to the gross, not to the zero
  the reconciliation job and `invariants.ts:19-22` expect.
- `routing_over_accrued`: each advance is checked against the accrued wage alone, so
  several exceed it (`invariants.ts:9-12`).
- `routing_two_settlers`: two overlapping settlements settle one advance twice
  (`payroll-routing.service.ts:39-41`).
- `bill_replay`: a replay returns the PENDING row of a bill nobody submitted
  (`bill-payment.service.ts:48-51`).
- `bill_conflict`: a completed webhook beside a failed one marks a refunded bill
  COMPLETED (`bill-payment.service.ts:386-389`).
- `payroll_failed`: a notification that cannot be enqueued makes a paid payroll
  FAILED and has it paid again (`payroll.service.ts:224`, `README.md:141`).
- `keyed_step_up`: the middleware keeps refusals too, so a retry under the same key
  with the step-up code may get the stored 403 (`docs/SEED_DECK.md:211`).

What else was noticed while reading the code for the models, without a run of its own;
where a model lets it happen the module is named.

Wages and files.
- Of a file that agrees with the parser's grammar only in part, `wps-parser.service.ts`
  accepts a trailer before the header when there are no rows, and an upload with no row
  that matches an employee still takes its period (`SifUpload`).
- The anomaly screen says "deviates more than 2.5 standard deviations from the mean"
  (`sif-anomaly.service.ts:145,164`) but compares the distance with the mean plus 2.5
  deviations, so it is much laxer, and silent where the history does not vary
  (`SifUpload`). Head count is compared between rows of the file and stored intents.
  `knownIbans` and `employerP95Salary` are never passed in; `registerWpsPaymentMethod` is never called.
- Two VERIFIED documents of one employee make the whole ingest fail.
- `settleCycle` has no caller; the reconciliation query compares an enum with text.

Money of the employee.
- `mobile-api/remittance.service.ts:86-93` calls a double execution "structurally
  impossible"; the lock of a quote is read and deleted in two calls (`Remittance`).
- `nymcard-card.webhook.ts:312` relies on cashback being de-duplicated; it is not, and a
  purchase that is both cleared and settled debits twice (`Cards`). Any update of a
  card row hides that its counters are yesterday's (`:214-216`).
- A burst of authorizations should "decline on its own"
  (`fraud-scorer.service.ts:78-80`), but its weight of 0.6 is below the threshold of 0.82 (`Authorize`).
- The balance the authorization decides by is cached for 30 seconds, and nothing that
  moves money invalidates it.
- A referral reward is paid although the transfer that earned it was rolled back
  (`Transfers`); `walletService.credit` has no caller.
- FlexxPay's report on an advance whose row is not yet created is acknowledged and
  lost (`EwaLoan`).

Identity and sessions.
- Registration's card sets the account ACTIVE whatever it is by then; a login without a
  name stores its code again, perhaps over a newer one (`Identity`).
  `step-up-otp.ts:67` says a code is true "exactly once"; it is read and deleted in two calls.
- `registerComplianceCrons` is never called, so the nightly rescreening never runs.
- `app.ts:110-114` mounts `idempotency` before any router authenticates, so its
  subject is always `anon` and its path relative to the mount, although
  `idempotency.ts:15-16` says "Scoped to the authenticated subject".
- `tokenManager.ts:93` says the backend rotates refresh tokens; the old ones stay good
  and `/auth/logout` revokes nothing (`MobileSession`). A refresh that fails for any
  reason, the network included, signs the person out, and a wrong code's 401 is
  answered with a refresh.
- `usePayBill.ts:25-27` says the key changes with the form; it does not.
- The phone's `payBill` sends the key in the header only (`bills.ts:60-64`), while
  `payBillSchema` asks for it in the body (`bill-payment.controller.ts:47`) and nothing
  between the two copies it, so the phone's bill payments are refused before the service.
- No screen calls the `reset` of the phone's wallet stores, at sign out neither.

Dashboard.
- Nothing imports the scheduler and the retry worker, so a posted payroll is queued and
  never run unless they are started from elsewhere, as `DeskPayroll` assumes.
- A BIWEEKLY plan with a pay day of 15 or more, or of 1 to 3 in a month that goes on
  28 days later, may compute a next run that is not in the future; a tick that holds such a plan while it is
  patched moves the new one by it (`IsLateBiweekly`, `LatePlanLingers`); ticks overlap although `payroll-scheduler.ts:74` says they do not.
- A retry's mark may overwrite COMPLETED or FAILED and leave the record PENDING for good;
  an employee without a wallet is left PENDING; an error of the audit row after
  a committed payment produces a FAILED record that is paid again (`DeskPayroll`).
- Turns of a circle are counted from zero by the payment and from one by the seed;
  savings and loans are written from what was read before, and neither debits a
  balance (`DeskRoutes`).
- A company registration spends its code before it looks at the fields; a person whose
  wallet could not be created stays without one; two refreshes with one token leave
  one caller with a token that is dead (`DeskSessions`). Nothing deactivates a user.

## Not modelled

- Screens, pages, components, seeds, scripts, assets and routes that only read: they
  keep no state that two actors share. They are most of the repository's lines.
- The arithmetic of the scoring engine, the liquidity forecaster, personalization and
  metrics: figures over tables, by which nothing in `src/` decides but through a limit
  that is a constant here (`DcseLimit`, `Points`).
- Of the settlement policy `distributeRecoveryFifo`, which nothing calls, and the list
  of binding gates.
- Notifications and offers: delivery and ranking. That an enqueue may fail is part of `PayrollRun`.
- Rate limits, validation, cryptography, the prompt filter, the hash chain of the ledger: pure
  functions of a request or counters no property depends on. Wiring and configuration.
- Of the card component the cached balance of the authorization, the shipping event and
  revealing a card's number. Of the middleware the second `idempotency` some routers mount.
- Dashboard libraries nobody imports (event bus, idempotency, transfer validator, the
  NymCard service, the error handler).
- Errors at three places where no property would tell them: a notification of the dashboard's
  payroll job that fails after the schedule has moved (`DeskPayroll`); the keychain's own errors
  in `tokenManager.ts:49` (`MobileSession`); and that two refresh tokens made for one user in
  the same millisecond are one string, where `DeskSessions` names a token by its request.
- Real time: days are numbers, time limits may elapse at any point, and what
  expires does so nondeterministically or not within a behaviour (a key's 24 hours).

## Plan

In this order: the cached balance of the authorization beside the other spenders;
the
dashboard's top-up beside its transfers; and the abstract specification of a
wallet, one balance and one row per operation, which the wallet plane should
implement as `BillPayment` does `BillEscrow`: the invariants that prove its
properties (`MoneyInv`, `FundsInv`) are what that refinement would rest on.
