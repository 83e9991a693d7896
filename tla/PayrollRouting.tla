--------------------------- MODULE PayrollRouting ---------------------------
(***************************************************************************)
(* The WPS routing plane: one payroll cycle of one company.                *)
(*                                                                         *)
(*   - an employer file is ingested into a cycle with one payroll intent   *)
(*     per matched worker (payroll-ingestion.service.ts);                  *)
(*   - workers take advances against their intent (reserveAdvance);        *)
(*   - an operator settles the cycle (settleCycle), all workers in one     *)
(*     database transaction;                                               *)
(*   - a cron job reconciles settled cycles against the ledger.            *)
(*                                                                         *)
(* Every prisma.$transaction runs at PostgreSQL's default isolation, READ  *)
(* COMMITTED: each statement reads what is committed when it starts, an    *)
(* UPDATE holds its row until the transaction ends and makes any other     *)
(* UPDATE of that row wait, and a rollback leaves nothing behind.  So a    *)
(* transaction is a sequence of steps, one per statement that another      *)
(* transaction can come between; what it has written is kept apart (the    *)
(* w... variables) and becomes visible when it commits.                    *)
(*                                                                         *)
(* Amounts are integers, in fils.  The ledger is kept as its sums by       *)
(* worker and entry type, plus the number of ADVANCE_SETTLE entries each   *)
(* advance has; the cycle's part of the wallet is kept, not the rest.      *)
(***************************************************************************)
EXTENDS Integers, FiniteSets

CONSTANTS
  Workers,        \* the company's employees
  Requests,       \* calls of requestAdvance, each the id of the row it creates
  Settlers,       \* concurrent calls of settleCycle
  GrossAmounts,   \* the salaries a file may carry
  Amounts,        \* the amounts a worker may ask for
  DcseLimit,      \* score.maxEWAAmount, the credit engine's ceiling
  BufferPercent,  \* Company.hrLagBufferPercent, after normaliseBuffer
  Fee             \* EWA_FIXED_FEE

ASSUME GrossIsPositive == GrossAmounts \subseteq (Nat \ {0})
ASSUME AmountsArePositive == Amounts \subseteq (Nat \ {0})
ASSUME LimitsAreNatural ==
  /\ DcseLimit \in Nat
  /\ Fee \in Nat
  /\ BufferPercent \in 0..99

None == "NONE"

VARIABLES
  cycle,        \* PayrollCycle.status, "NONE" before the file is ingested
  intent,       \* PayrollIntent.status of each worker, "NONE" for no row
  gross,        \* PayrollIntent.grossAmount
  blocked,      \* the compliance gate would refuse the worker
  failsafe,     \* Company.ewaFailsafeActive
  owner,        \* Advance.employeeId
  amount,       \* Advance.amount
  advance,      \* Advance.status, "NONE" before the row is committed
  reserveSum,   \* the sum of ADVANCE_RESERVE deltas of each worker
  settleSum,    \* minus the sum of ADVANCE_SETTLE deltas
  payrollSum,   \* the sum of PAYROLL_FULL and PAYROLL_RESIDUAL deltas
  settleCount,  \* how many ADVANCE_SETTLE entries each advance has
  wallet,       \* Employee.walletBalance, the part this cycle has moved
  rpc,          \* where each reserveAdvance call is
  spc,          \* where each settleCycle call is
  todo,         \* the intents the settlement has still to settle
  cur,          \* the worker whose intent is being settled
  batch,        \* the RESERVED advances read and not yet settled
  curAdv,       \* the advance being settled
  wAdvance,     \* advances this transaction has set to SETTLED
  wSettle,      \* ... and their total for each worker (totalSettled)
  wPay,         \* residuals this transaction has added to wallets
  wRouted,      \* intents this transaction has set to ROUTED
  drift,        \* reconcileSettledCycles has found drift in the cycle
  beside        \* history: calls past their checks while a settlement ran

cycleVars == <<cycle, intent, gross>>
ledgerVars == <<reserveSum, settleSum, payrollSum, settleCount, wallet>>
riskVars == <<blocked, failsafe>>
requestVars == <<owner, amount, rpc>>
txVars == <<todo, cur, batch, curAdv, wAdvance, wSettle, wPay, wRouted>>
vars == <<cycleVars, ledgerVars, riskVars, requestVars, advance, spc, txVars, drift, beside>>

CycleStatus == {None, "INTENTS_READY", "SETTLED", "FAILED"}
IntentStatus == {None, "PENDING", "ROUTED"}
AdvanceStatus == {None, "RESERVED", "SETTLED"}
RequestPc == {"idle", "waiting", "locked", "gated", "checked", "written", "refused", "done"}
SettlePc == {"idle", "started", "next", "read", "advances", "settling", "credited"}

(* Mutant: a session lock, which the end of the transaction does not free. *)
LockHeldBySession == {"locked", "gated", "checked", "written", "refused", "done"}

(* A reserveAdvance call inside its transaction, holding the worker's lock. *)
LockHeld == {"locked", "gated", "checked", "written"}

(* ... and past its checks: it will commit, whatever is settled meanwhile. *)
PastChecks(r) == rpc[r] \in {"checked", "written"}

(* A settleCycle call inside its transaction. *)
InTx(s) == spc[s] \in SettlePc \ {"idle"}

TypeOK ==
  /\ cycle \in CycleStatus
  /\ intent \in [Workers -> IntentStatus]
  /\ gross \in [Workers -> Nat]
  /\ blocked \in [Workers -> BOOLEAN]
  /\ failsafe \in BOOLEAN
  /\ owner \in [Requests -> Workers \cup {None}]
  /\ amount \in [Requests -> Nat]
  /\ advance \in [Requests -> AdvanceStatus]
  /\ reserveSum \in [Workers -> Nat]
  /\ settleSum \in [Workers -> Nat]
  /\ payrollSum \in [Workers -> Nat]
  /\ settleCount \in [Requests -> Nat]
  /\ wallet \in [Workers -> Nat]
  /\ rpc \in [Requests -> RequestPc]
  /\ spc \in [Settlers -> SettlePc]
  /\ todo \in [Settlers -> SUBSET Workers]
  /\ cur \in [Settlers -> Workers \cup {None}]
  /\ batch \in [Settlers -> SUBSET Requests]
  /\ curAdv \in [Settlers -> Requests \cup {None}]
  /\ wAdvance \in [Settlers -> SUBSET Requests]
  /\ wSettle \in [Settlers -> [Workers -> Nat]]
  /\ wPay \in [Settlers -> [Workers -> Nat]]
  /\ wRouted \in [Settlers -> SUBSET Workers]
  /\ drift \in BOOLEAN
  /\ beside \in SUBSET Requests

-----------------------------------------------------------------------------
(* Limits.  Math.round of a whole number of fils is the nearest integer.   *)

RoundPercent(n, percent) == (n * percent + 50) \div 100

Least(a, b) == IF a <= b THEN a ELSE b

(* effectiveAccruedCap: a tripped cohort may take a fifth of what accrued. *)
FailsafeCap(accrued) == RoundPercent(accrued, 20)

(* computeAvailableLimit: the buffered, fee-net ceiling. *)
AvailableLimit(accrued) ==
  LET net == RoundPercent(Least(DcseLimit, accrued), 100 - BufferPercent) - Fee
  IN  IF net > 0 THEN net ELSE 0

(* accruedAmount is written once, at ingest, with the gross of the row. *)
Accrued(e) == gross[e]

(* The gates of reserveAdvance on the amount, in the order of the code. *)
WithinLimits(e, a) ==
  /\ a <= Accrued(e)
  /\ failsafe => a <= FailsafeCap(Accrued(e))
  /\ a <= AvailableLimit(Accrued(e))

-----------------------------------------------------------------------------
(* Row locks held by uncommitted transactions. *)

AdvanceRowHeld(r) == \E s \in Settlers : r \in wAdvance[s]
IntentRowHeld(e) == \E s \in Settlers : e \in wRouted[s]
WalletRowHeld(e) ==
  \/ \E s \in Settlers : wPay[s][e] > 0
  \/ \E r \in Requests : owner[r] = e /\ rpc[r] = "written"

Zero == [e \in Workers |-> 0]

Init ==
  /\ cycle = None
  /\ intent = [e \in Workers |-> None]
  /\ gross = Zero
  /\ blocked = [e \in Workers |-> FALSE]
  /\ failsafe = FALSE
  /\ owner = [r \in Requests |-> None]
  /\ amount = [r \in Requests |-> 0]
  /\ advance = [r \in Requests |-> None]
  /\ reserveSum = Zero
  /\ settleSum = Zero
  /\ payrollSum = Zero
  /\ settleCount = [r \in Requests |-> 0]
  /\ wallet = Zero
  /\ rpc = [r \in Requests |-> "idle"]
  /\ spc = [s \in Settlers |-> "idle"]
  /\ todo = [s \in Settlers |-> {}]
  /\ cur = [s \in Settlers |-> None]
  /\ batch = [s \in Settlers |-> {}]
  /\ curAdv = [s \in Settlers |-> None]
  /\ wAdvance = [s \in Settlers |-> {}]
  /\ wSettle = [s \in Settlers |-> Zero]
  /\ wPay = [s \in Settlers |-> Zero]
  /\ wRouted = [s \in Settlers |-> {}]
  /\ drift = FALSE
  /\ beside = {}

(***************************************************************************)
(* Ingestion and the risk flags other components set.                      *)
(***************************************************************************)

(* ingestSifFile: the cycle and the intents of the matched workers in one  *)
(* transaction; a second file for the period finds the cycle and is        *)
(* refused.                                                                *)
Ingest(matched, salary) ==
  /\ cycle = None
  /\ cycle' = "INTENTS_READY"
  /\ intent' = [e \in Workers |-> IF e \in matched THEN "PENDING" ELSE None]
  /\ gross' = [e \in Workers |-> IF e \in matched THEN salary[e] ELSE 0]
  /\ UNCHANGED <<ledgerVars, riskVars, requestVars, advance, spc, txVars, drift, beside>>

(* A compliance incident opens on a worker, or the officer clears it. *)
ComplianceChange(e) ==
  /\ blocked' = [blocked EXCEPT ![e] = ~ @]
  /\ UNCHANGED <<cycleVars, ledgerVars, failsafe, requestVars, advance, spc, txVars, drift, beside>>

(* The cohort canary trips, or two officers clear it. *)
FailsafeChange ==
  /\ failsafe' = ~ failsafe
  /\ UNCHANGED <<cycleVars, ledgerVars, blocked, requestVars, advance, spc, txVars, drift, beside>>

(***************************************************************************)
(* reserveAdvance, called by requestAdvance.                               *)
(***************************************************************************)

(* The controller's own checks, before the transaction: a live cycle and   *)
(* the credit engine's limit.                                              *)
RequestAdvance(r, e, a) ==
  /\ rpc[r] = "idle"
  /\ cycle = "INTENTS_READY"
  /\ a <= DcseLimit
  /\ owner' = [owner EXCEPT ![r] = e]
  /\ amount' = [amount EXCEPT ![r] = a]
  /\ rpc' = [rpc EXCEPT ![r] = "waiting"]
  /\ UNCHANGED <<cycleVars, ledgerVars, riskVars, advance, spc, txVars, drift, beside>>

(* pg_advisory_xact_lock(worker, EWA_RESERVATION). *)
AcquireWorkerLock(r) ==
  /\ rpc[r] = "waiting"
  /\ \A q \in Requests : owner[q] = owner[r] => rpc[q] \notin LockHeld
  /\ rpc' = [rpc EXCEPT ![r] = "locked"]
  /\ UNCHANGED <<cycleVars, ledgerVars, riskVars, owner, amount, advance, spc, txVars, drift, beside>>

(* enforceComplianceForAdvance. *)
EnforceCompliance(r) ==
  /\ rpc[r] = "locked"
  /\ rpc' = [rpc EXCEPT ![r] = IF blocked[owner[r]] THEN "refused" ELSE "gated"]
  /\ UNCHANGED <<cycleVars, ledgerVars, riskVars, owner, amount, advance, spc, txVars, drift, beside>>

(* Mutant: the controller's check of the cycle, before the lock, is enough. *)
OpenAtTheCall == TRUE

Open == cycle \notin {"SETTLED", "FAILED"}

(* The cycle, the intent and the company are read and the amount gated. *)
CheckLimits(r) ==
  LET ok == /\ Open
            /\ intent[owner[r]] # None
            /\ WithinLimits(owner[r], amount[r])
  IN  /\ rpc[r] = "gated"
      /\ rpc' = [rpc EXCEPT ![r] = IF ok THEN "checked" ELSE "refused"]
      /\ beside' = beside \cup {q \in {r} : ok /\ \E s \in Settlers : InTx(s)}
      /\ UNCHANGED <<cycleVars, ledgerVars, riskVars, owner, amount, advance, spc, txVars, drift>>

(* The two inserts, which wait for nobody, and the wallet update, which    *)
(* waits for the row of the employee.                                      *)
WriteAdvance(r) ==
  /\ rpc[r] = "checked"
  /\ ~ WalletRowHeld(owner[r])
  /\ rpc' = [rpc EXCEPT ![r] = "written"]
  /\ UNCHANGED <<cycleVars, ledgerVars, riskVars, owner, amount, advance, spc, txVars, drift, beside>>

(* Mutant: a commit may be played again. *)
MayCommitAgain(r) == rpc[r] \in {"written", "done"}

MayCommit(r) == rpc[r] = "written"

CommitAdvance(r) ==
  /\ MayCommit(r)
  /\ rpc' = [rpc EXCEPT ![r] = "done"]
  /\ advance' = [advance EXCEPT ![r] = "RESERVED"]
  /\ reserveSum' = [reserveSum EXCEPT ![owner[r]] = @ + amount[r]]
  /\ wallet' = [wallet EXCEPT ![owner[r]] = @ + amount[r]]
  /\ UNCHANGED <<cycleVars, settleSum, payrollSum, settleCount, riskVars,
                 owner, amount, spc, txVars, drift, beside>>

(* The connection is lost or the transaction times out: a rollback. *)
AbortAdvance(r) ==
  /\ rpc[r] \in LockHeld
  /\ rpc' = [rpc EXCEPT ![r] = "refused"]
  /\ UNCHANGED <<cycleVars, ledgerVars, riskVars, owner, amount, advance, spc, txVars, drift, beside>>

(***************************************************************************)
(* settleCycle, settleIntent and settleAdvanceAgainstIntent.               *)
(***************************************************************************)

(* The status of the cycle is read before the transaction begins, and not  *)
(* again.                                                                  *)
StartSettlement(s) ==
  /\ spc[s] = "idle"
  /\ cycle = "INTENTS_READY"
  /\ spc' = [spc EXCEPT ![s] = "started"]
  /\ beside' = beside \cup {r \in Requests : PastChecks(r)}
  /\ UNCHANGED <<cycleVars, ledgerVars, riskVars, requestVars, advance, txVars, drift>>

(* Mutant: only the workers with something to recover are listed. *)
PendingWithAdvances ==
  {e \in Workers : intent[e] = "PENDING" /\ reserveSum[e] > 0}

PendingIntents == {e \in Workers : intent[e] = "PENDING"}

(* The PENDING intents, as the transaction's first statement sees them. *)
ListIntents(s) ==
  /\ spc[s] = "started"
  /\ todo' = [todo EXCEPT ![s] = PendingIntents]
  /\ spc' = [spc EXCEPT ![s] = "next"]
  /\ UNCHANGED <<cycleVars, ledgerVars, riskVars, requestVars, advance, drift, beside,
                 cur, batch, curAdv, wAdvance, wSettle, wPay, wRouted>>

(* settleIntent reads the intent again: it must still be PENDING. *)
ReadIntent(s, e) ==
  /\ spc[s] = "next"
  /\ e \in todo[s]
  /\ intent[e] = "PENDING"
  /\ cur' = [cur EXCEPT ![s] = e]
  /\ spc' = [spc EXCEPT ![s] = "read"]
  /\ UNCHANGED <<cycleVars, ledgerVars, riskVars, requestVars, advance, drift, beside,
                 todo, batch, curAdv, wAdvance, wSettle, wPay, wRouted>>

(* Mutant: the filter on the employee is forgotten. *)
ReservedByAnyone(s) == {r \in Requests : advance[r] = "RESERVED"} \ wAdvance[s]

ReservedAdvances(s) == {r \in Requests : owner[r] = cur[s] /\ advance[r] = "RESERVED"}

(* ... and lists the worker's RESERVED advances. *)
ListAdvances(s) ==
  /\ spc[s] = "read"
  /\ batch' = [batch EXCEPT ![s] = ReservedAdvances(s)]
  /\ spc' = [spc EXCEPT ![s] = "advances"]
  /\ UNCHANGED <<cycleVars, ledgerVars, riskVars, requestVars, advance, drift, beside,
                 todo, cur, curAdv, wAdvance, wSettle, wPay, wRouted>>

(* settleAdvanceAgainstIntent reads the advance again and checks I5 and I1. *)
CheckAdvance(s, r) ==
  /\ spc[s] = "advances"
  /\ r \in batch[s]
  /\ advance[r] = "RESERVED"
  /\ amount[r] <= Accrued(cur[s])
  /\ curAdv' = [curAdv EXCEPT ![s] = r]
  /\ spc' = [spc EXCEPT ![s] = "settling"]
  /\ UNCHANGED <<cycleVars, ledgerVars, riskVars, requestVars, advance, drift, beside,
                 todo, cur, batch, wAdvance, wSettle, wPay, wRouted>>

(* ... then updates it, by id alone, and writes the ADVANCE_SETTLE entry. *)
SettleAdvance(s) ==
  LET r == curAdv[s] IN
  /\ spc[s] = "settling"
  /\ ~ AdvanceRowHeld(r)
  /\ wAdvance' = [wAdvance EXCEPT ![s] = @ \cup {r}]
  /\ wSettle' = [wSettle EXCEPT ![s][cur[s]] = @ + amount[r]]
  /\ batch' = [batch EXCEPT ![s] = @ \ {r}]
  /\ spc' = [spc EXCEPT ![s] = "advances"]
  /\ UNCHANGED <<cycleVars, ledgerVars, riskVars, requestVars, advance, drift, beside,
                 todo, cur, curAdv, wPay, wRouted>>

(* Mutant: what was settled is not subtracted. *)
ResidualGross(s) == gross[cur[s]]

Residual(s) == gross[cur[s]] - wSettle[s][cur[s]]

(* Mutant: no check that the residual is not negative. *)
CoversAnything(s) == TRUE

CoversAdvances(s) == Residual(s) >= 0

(* The residual, when there is one, goes to the wallet and the ledger. *)
CreditResidual(s) ==
  LET e == cur[s] IN
  /\ spc[s] = "advances"
  /\ batch[s] = {}
  /\ CoversAdvances(s)
  /\ Residual(s) > 0 => ~ WalletRowHeld(e)
  /\ wPay' = [wPay EXCEPT ![s][e] = Residual(s)]
  /\ spc' = [spc EXCEPT ![s] = "credited"]
  /\ UNCHANGED <<cycleVars, ledgerVars, riskVars, requestVars, advance, drift, beside,
                 todo, cur, batch, curAdv, wAdvance, wSettle, wRouted>>

RouteIntent(s) ==
  /\ spc[s] = "credited"
  /\ ~ IntentRowHeld(cur[s])
  /\ wRouted' = [wRouted EXCEPT ![s] = @ \cup {cur[s]}]
  /\ todo' = [todo EXCEPT ![s] = @ \ {cur[s]}]
  /\ spc' = [spc EXCEPT ![s] = "next"]
  /\ UNCHANGED <<cycleVars, ledgerVars, riskVars, requestVars, advance, drift, beside,
                 cur, batch, curAdv, wAdvance, wSettle, wPay>>

(* The transaction is over: its writes are forgotten. *)
EndSettlement(s) ==
  /\ spc' = [spc EXCEPT ![s] = "idle"]
  /\ todo' = [todo EXCEPT ![s] = {}]
  /\ batch' = [batch EXCEPT ![s] = {}]
  /\ wAdvance' = [wAdvance EXCEPT ![s] = {}]
  /\ wSettle' = [wSettle EXCEPT ![s] = Zero]
  /\ wPay' = [wPay EXCEPT ![s] = Zero]
  /\ wRouted' = [wRouted EXCEPT ![s] = {}]
  /\ cur' = [cur EXCEPT ![s] = None]
  /\ curAdv' = [curAdv EXCEPT ![s] = None]

(* Mutant: the settled advances stay RESERVED. *)
StatusKept(s, r) == advance[r]

StatusAfter(s, r) == IF r \in wAdvance[s] THEN "SETTLED" ELSE advance[r]

(* Mutant: the wallet gets the gross, the ledger the residual. *)
GrossCredit(s, e) == IF e \in wRouted[s] THEN gross[e] ELSE 0

WalletCredit(s, e) == wPay[s][e]

(* The cycle becomes SETTLED and everything written becomes visible. *)
CommitSettlement(s) ==
  /\ spc[s] = "next"
  /\ todo[s] = {}
  /\ cycle' = "SETTLED"
  /\ intent' = [e \in Workers |-> IF e \in wRouted[s] THEN "ROUTED" ELSE intent[e]]
  /\ advance' = [r \in Requests |-> StatusAfter(s, r)]
  /\ settleCount' = [r \in Requests |-> settleCount[r] + (IF r \in wAdvance[s] THEN 1 ELSE 0)]
  /\ settleSum' = [e \in Workers |-> settleSum[e] + wSettle[s][e]]
  /\ payrollSum' = [e \in Workers |-> payrollSum[e] + wPay[s][e]]
  /\ wallet' = [e \in Workers |-> wallet[e] + WalletCredit(s, e)]
  /\ EndSettlement(s)
  /\ UNCHANGED <<gross, reserveSum, riskVars, requestVars, drift, beside>>

(* One of the checks throws: the intent is no longer PENDING, the advance  *)
(* no longer RESERVED or above what accrued, the residual negative.        *)
SettlementThrows(s) ==
  /\ \/ /\ spc[s] = "next"
        /\ \E e \in todo[s] : intent[e] # "PENDING"
     \/ /\ spc[s] = "advances"
        /\ \E r \in batch[s] : advance[r] # "RESERVED" \/ amount[r] > Accrued(cur[s])
     \/ /\ spc[s] = "advances"
        /\ batch[s] = {}
        /\ ~ CoversAdvances(s)
  /\ EndSettlement(s)
  /\ UNCHANGED <<cycleVars, ledgerVars, riskVars, requestVars, advance, drift, beside>>

(* A crash, a lost connection, the ten-minute timeout, or the victim of a  *)
(* deadlock between two settlements.                                       *)
AbortSettlement(s) ==
  /\ InTx(s)
  /\ EndSettlement(s)
  /\ UNCHANGED <<cycleVars, ledgerVars, riskVars, requestVars, advance, drift, beside>>

(***************************************************************************)
(* reconcileSettledCycles: a query, then an update that tests nothing.     *)
(***************************************************************************)

Net(e) == reserveSum[e] - settleSum[e] + payrollSum[e]

(* DRIFT_TOLERANCE: one fils. *)
Drifts(e) == Net(e) > 1 \/ Net(e) < -1

FindDrift ==
  /\ cycle = "SETTLED"
  /\ ~ drift
  /\ \E e \in Workers : Drifts(e)
  /\ drift' = TRUE
  /\ UNCHANGED <<cycleVars, ledgerVars, riskVars, requestVars, advance, spc, txVars, beside>>

MarkDriftFailed ==
  /\ drift
  /\ drift' = FALSE
  /\ cycle' = "FAILED"
  /\ UNCHANGED <<intent, gross, ledgerVars, riskVars, requestVars, advance, spc, txVars, beside>>

-----------------------------------------------------------------------------
ReserveStep(r) ==
  \/ AcquireWorkerLock(r)
  \/ EnforceCompliance(r)
  \/ CheckLimits(r)
  \/ WriteAdvance(r)
  \/ CommitAdvance(r)

SettleStep(s) ==
  \/ ListIntents(s)
  \/ \E e \in Workers : ReadIntent(s, e)
  \/ ListAdvances(s)
  \/ \E r \in Requests : CheckAdvance(s, r)
  \/ SettleAdvance(s)
  \/ CreditResidual(s)
  \/ RouteIntent(s)
  \/ CommitSettlement(s)
  \/ SettlementThrows(s)

Next ==
  \/ \E m \in SUBSET Workers, g \in [Workers -> GrossAmounts] : Ingest(m, g)
  \/ \E e \in Workers : ComplianceChange(e)
  \/ FailsafeChange
  \/ \E r \in Requests, e \in Workers, a \in Amounts : RequestAdvance(r, e, a)
  \/ \E r \in Requests : ReserveStep(r) \/ AbortAdvance(r)
  \/ \E s \in Settlers : StartSettlement(s) \/ SettleStep(s) \/ AbortSettlement(s)
  \/ FindDrift
  \/ MarkDriftFailed

Spec == Init /\ [][Next]_vars

(* The database gets round to every statement of a transaction it runs and *)
(* grants a lock that stays free; nothing obliges a worker, an operator,   *)
(* an officer or a crash to act.  Settlements may be started and aborted   *)
(* without end, so the wallet row is free again and again and not for      *)
(* good: PostgreSQL queues the waiters of a row, hence strong fairness.    *)
Fairness ==
  /\ \A r \in Requests : WF_vars(ReserveStep(r)) /\ SF_vars(WriteAdvance(r))
  /\ \A s \in Settlers : WF_vars(SettleStep(s))

FairSpec == Spec /\ Fairness

-----------------------------------------------------------------------------
(***************************************************************************)
(* Properties.                                                             *)
(***************************************************************************)

(* Every wallet movement of the cycle has its ledger entries: the balance  *)
(* is what reservations and payroll credits add up to, at every commit.    *)
WalletMatchesLedger ==
  \A e \in Workers : wallet[e] = reserveSum[e] + payrollSum[e]

(* What settleIntent's comment calls "fully accounted for": once an intent *)
(* is ROUTED, the advances recovered from it and the residual credited add *)
(* up to its gross; before, nothing has been taken or paid.                *)
GrossAccounted ==
  \A e \in Workers :
    settleSum[e] + payrollSum[e] = IF intent[e] = "ROUTED" THEN gross[e] ELSE 0

(* An advance is recovered once and only by being SETTLED: exactly one     *)
(* ADVANCE_SETTLE entry if it is SETTLED, none if it is not.               *)
SettledExactlyOnce ==
  \A r \in Requests : settleCount[r] = IF advance[r] = "SETTLED" THEN 1 ELSE 0

(* "The cycle either settles entirely or not at all": no committed state   *)
(* has some intents of the cycle routed and others pending, and intents    *)
(* are routed exactly when the cycle has been settled.                     *)
CycleAllOrNothing ==
  \A e \in Workers :
    /\ intent[e] = "PENDING" => cycle = "INTENTS_READY"
    /\ intent[e] = "ROUTED" => cycle \in {"SETTLED", "FAILED"}

(* Recovery never takes from a worker's pay more than the worker was given *)
(* in advances, committed or still to commit.                              *)
RecoveredWasAdvanced ==
  \A e \in Workers : settleSum[e] <= reserveSum[e]

(* A settlement leaves no advance behind but those it could not see: one   *)
(* still RESERVED though its worker's intent is ROUTED was asked for by a  *)
(* call that was past its checks while a settlement ran.  However late a   *)
(* call gets the worker lock, it reserves nothing on a settled cycle.      *)
LeftOutCameBeside ==
  \A r \in Requests :
    advance[r] = "RESERVED" /\ intent[owner[r]] = "ROUTED" => r \in beside

(* I5: no back-transition of an advance, and no change of one after it is  *)
(* SETTLED; the ledger only grows.                                         *)
AdvanceForwardOnly ==
  [][/\ \A r \in Requests :
          advance'[r] # advance[r] =>
            \/ advance[r] = None /\ advance'[r] = "RESERVED"
            \/ advance[r] = "RESERVED" /\ advance'[r] = "SETTLED"
     /\ \A e \in Workers : /\ reserveSum'[e] >= reserveSum[e]
                           /\ settleSum'[e] >= settleSum[e]
                           /\ payrollSum'[e] >= payrollSum[e]]_vars

(* Whoever waits for the worker lock or a row gets it: every transaction   *)
(* that begins commits or rolls back.                                      *)
TransactionsEnd ==
  /\ \A r \in Requests : rpc[r] = "waiting" ~> rpc[r] \in {"refused", "done"}
  /\ \A s \in Settlers : spc[s] = "started" ~> spc[s] = "idle"

(* The routing plane implements the promise of WageRouting: settlement is  *)
(* one step that pays everyone, whatever its transaction was interleaved   *)
(* with, and every other commit is one worker's advance.                   *)
Phase ==
  CASE cycle = None -> "none"
    [] cycle = "INTENTS_READY" -> "open"
    [] cycle = "SETTLED" -> "paid"
    [] cycle = "FAILED" -> "frozen"

Promise == INSTANCE WageRouting WITH
  phase <- Phase,
  advanced <- reserveSum,
  recovered <- settleSum,
  paid <- payrollSum

KeepsPromise == Promise!Spec

-----------------------------------------------------------------------------
(***************************************************************************)
(* The inductive invariant: what holds between two statements of any       *)
(* transaction, as long as no two settlements of the cycle overlap.        *)
(***************************************************************************)

SerialSettlement == \A s, t \in Settlers : InTx(s) /\ InTx(t) => s = t

(* An intent is there to be settled, or settled, as its cycle says; one    *)
(* that was never created has no pay.                                      *)
CycleShape ==
  /\ drift => cycle = "SETTLED"
  /\ \A e \in Workers :
       /\ intent[e] = "PENDING" => cycle = "INTENTS_READY"
       /\ intent[e] = "ROUTED" => cycle \in {"SETTLED", "FAILED"}
       /\ intent[e] = None => gross[e] = 0

(* A call carries its worker and amount from its start, is within the      *)
(* accrual once checked, and its row exists exactly when it has committed. *)
RequestShape ==
  \A r \in Requests :
    /\ rpc[r] # "idle" => /\ owner[r] \in Workers
                          /\ amount[r] \in Amounts
                          /\ cycle # None
    /\ rpc[r] \in {"checked", "written"} => amount[r] <= gross[owner[r]]
    /\ advance[r] = None <=> rpc[r] # "done"

AtIntent == {"read", "advances", "settling", "credited"}

(* A settlement at an intent, or at an advance, is at one of its list.     *)
PointersSet ==
  \A s \in Settlers :
    /\ spc[s] \in AtIntent => cur[s] \in todo[s]
    /\ spc[s] = "settling" => curAdv[s] \in batch[s]

(* What a settlement has in hand adds up worker by worker: nothing for the *)
(* intents to come, the whole gross for those it has routed.               *)
SettlementShape(s) ==
  /\ InTx(s) => cycle = "INTENTS_READY"
  /\ spc[s] \in {"idle", "started"} =>
       /\ todo[s] = {}
       /\ wRouted[s] = {}
  /\ ~ (spc[s] \in {"idle", "started"}) =>
       \A e \in Workers : intent[e] = "PENDING" <=> e \in todo[s] \cup wRouted[s]
  /\ todo[s] \cap wRouted[s] = {}
  /\ spc[s] \in {"idle", "started"} => wAdvance[s] = {} /\ batch[s] = {}
  /\ \A r \in wAdvance[s] \cup batch[s] : advance[r] = "RESERVED"
  /\ \A e \in Workers :
       IF e \in wRouted[s] \/ (spc[s] = "credited" /\ e = cur[s])
       THEN wPay[s][e] + wSettle[s][e] = gross[e]
       ELSE /\ wPay[s][e] = 0
            /\ ~ (spc[s] \in AtIntent /\ e = cur[s]) => wSettle[s][e] = 0
  /\ spc[s] = "read" => wSettle[s][cur[s]] = 0

(* A settlement, in what it has read or written, misses no RESERVED advance *)
(* but of calls beside it, and a call past its checks beside it is known.  *)
(* This holds of overlapping settlements too.                              *)
AdvancesSeen(s) ==
  /\ ~ InTx(s) => wRouted[s] = {}
  /\ spc[s] = "credited" => batch[s] = {}
  /\ \A r \in Requests : advance[r] = "RESERVED" =>
       /\ owner[r] \in wRouted[s] => r \in beside \cup wAdvance[s]
       /\ spc[s] \in {"advances", "settling", "credited"} /\ owner[r] = cur[s] =>
            r \in beside \cup wAdvance[s] \cup batch[s]

OwnersKnown == \A r \in Requests : rpc[r] # "idle" => owner[r] \in Workers

CallsBeside ==
  \A r \in Requests :
    PastChecks(r) /\ (cycle \in {"SETTLED", "FAILED"} \/ \E s \in Settlers : InTx(s)) =>
      r \in beside

BesideShape ==
  /\ \A e \in Workers : intent[e] = "ROUTED" => cycle \in {"SETTLED", "FAILED"}
  /\ drift => cycle = "SETTLED"
  /\ OwnersKnown
  /\ CallsBeside
  /\ \A s \in Settlers : AdvancesSeen(s)
  /\ LeftOutCameBeside

(* The typed state and every shape, with the accounting they carry.        *)
IInv ==
  /\ TypeOK
  /\ PointersSet
  /\ CycleShape
  /\ RequestShape
  /\ \A s \in Settlers : SettlementShape(s)
  /\ WalletMatchesLedger
  /\ GrossAccounted
  /\ SettledExactlyOnce

-----------------------------------------------------------------------------
(* What the documentation of the code says and the code does not do.       *)

(* I3 as invariants.ts, settleIntent and the reconciliation worker state   *)
(* it: after a cycle is settled the deltas of every worker sum to zero.    *)
LedgerNetsToZero ==
  cycle = "SETTLED" => \A e \in Workers : Net(e) = 0

(* I1 as invariants.ts states it: "the user can never receive (or owe)     *)
(* more than they have already earned".                                    *)
AdvancesWithinAccrued ==
  \A e \in Workers : reserveSum[e] <= Accrued(e)
=============================================================================
