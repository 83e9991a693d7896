---------------------------- MODULE DeskPayroll ----------------------------
(***************************************************************************)
(* The dashboard's payroll engine (dashboard/src/jobs): a queue in memory, *)
(* the processor that pays a company's staff, the scheduler that queues a  *)
(* run when it is due, and the worker that retries failed records, in one  *)
(* process that has loaded them.  Each salary is one unit.                 *)
(*                                                                         *)
(* Days are counted from the first of a month and every month has          *)
(* MonthLength days.  A tick comes after 2 AM, the hour runs are due.      *)
(***************************************************************************)
EXTENDS DeskLedger, Sequences

CONSTANTS
  Staff,        \* the active employees of the company
  Walletless,   \* those of them whose user has no wallet
  Plans,        \* the frequencies and pay days a schedule may have
  MonthLength,
  Days,         \* bound: the days on which something happens
  Backlog       \* the payroll records there are before the first request

ASSUME StaffAreUsers == Staff \subseteq Users /\ Walletless \subseteq Staff
ASSUME DaysAreNatural == Days \subseteq Nat
ASSUME MonthsAreMonths == MonthLength \in 28..31

(* The backlog is one earlier run: it has at most one row for a user. *)
ASSUME BacklogIsOneRun ==
  \A rows \in Backlog :
    /\ rows \in Seq([job : {0}, user : Users, tries : Nat,
                      status : {"PENDING", "PROCESSING", "COMPLETED", "FAILED"}])
    /\ \A r, s \in DOMAIN rows : rows[r].user = rows[s].user => r = s

(* What POST and PATCH /api/payroll/schedules accept. *)
ASSUME PlansAreAccepted ==
  \A plan \in Plans : plan.frequency \in {"WEEKLY", "BIWEEKLY", "MONTHLY"} /\ plan.payDay \in 1..28

MaxAttempts == 3

VARIABLES
  jobs,      \* payrollQueue, the jobs in the order they were added
  records,   \* the rows of Payroll; "tries" is the attempt its failureReason names, or 1
  retries,   \* retryQueue, the jobs in the order they were added
  schedule,  \* the row of ScheduledPayroll
  day

payrollVars == <<jobs, records, retries, schedule, day>>

(* calculateNextRunDate *)
Weekday(d) == (d % 7) + 1
DayOfMonth(d) == (d % MonthLength) + 1
SetDate(d, date) == d - DayOfMonth(d) + date

NextWeekly(payDay, d) ==
  IF payDay > Weekday(d) THEN d + payDay - Weekday(d) ELSE d + payDay - Weekday(d) + 7

NextBiweekly(payDay, d) ==
  LET later == IF payDay + 14 > 28 THEN payDay - 14 ELSE payDay + 14
      run == SetDate(d, IF DayOfMonth(d) >= payDay THEN later ELSE payDay)
  IN IF run <= d THEN run + 14 ELSE run

NextMonthly(payDay, d) ==
  IF DayOfMonth(d) >= payDay THEN SetDate(d, payDay) + MonthLength ELSE SetDate(d, payDay)

NextRun(plan, d) ==
  CASE plan.frequency = "WEEKLY" -> NextWeekly(plan.payDay, d)
    [] plan.frequency = "BIWEEKLY" -> NextBiweekly(plan.payDay, d)
    [] plan.frequency = "MONTHLY" -> NextMonthly(plan.payDay, d)

InitPayroll ==
  /\ jobs = <<>>
  /\ records \in Backlog
  /\ retries = <<>>
  /\ day = 0
  /\ \E plan \in Plans : schedule = [plan |-> plan, active |-> TRUE, next |-> NextRun(plan, 0)]

DayPasses ==
  /\ \E d \in Days : d > day /\ day' = d
  /\ UNCHANGED <<handlerVars, deskVars, jobs, records, retries, schedule>>

(***************************************************************************)
(* Adding runs: POST /api/payroll, and the scheduler's tick, which moves   *)
(* nextRunAt after it has queued.  Ticks may overlap: the interval does    *)
(* not wait for the one before.                                            *)
(***************************************************************************)
(* A biweekly plan whose next run may not be ahead of the day it is counted *)
(* on: the pay day is after the 14th, or four weeks after it the month goes *)
(* on.                                                                      *)
IsLateBiweekly(plan) ==
  plan.frequency = "BIWEEKLY" /\ (plan.payDay > 14 \/ plan.payDay + 28 <= MonthLength)

Queued(n, plan) ==
  Append(jobs, [from |-> n, day |-> day, late |-> IsLateBiweekly(plan), scheduled |-> Is(n, "tick", "queues"),
                at |-> "waiting", attempts |-> 0, todo |-> {}])

PostRun ==
  /\ Arrives([op |-> "post", at |-> "queues"])
  /\ UNCHANGED <<deskVars, payrollVars>>

QueuePosted(n) ==
  /\ Is(n, "post", "queues")
  /\ jobs' = Queued(n, schedule.plan)
  /\ GoesTo(n, "done")
  /\ UNCHANGED <<deskVars, records, retries, schedule, day>>

Tick ==
  /\ Arrives([op |-> "tick", at |-> "finds due"])
  /\ UNCHANGED <<deskVars, payrollVars>>

FindDue(n) ==
  /\ Is(n, "tick", "finds due")
  /\ IF schedule.active /\ schedule.next <= day
       THEN Becomes(n, [op |-> "tick", at |-> "queues", plan |-> schedule.plan])
       ELSE GoesTo(n, "done")
  /\ UNCHANGED <<deskVars, payrollVars>>

QueueDue(n) ==
  /\ Is(n, "tick", "queues")
  /\ jobs' = Queued(n, request[n].plan)
  /\ GoesTo(n, "moves next run")
  /\ UNCHANGED <<deskVars, records, retries, schedule, day>>

(* Mutant: the next run is counted from the one that was due. *)
FromLastRun(d) == schedule.next - 1
FromToday(d) == d

MoveNextRun(n) ==
  /\ Is(n, "tick", "moves next run")
  /\ schedule' = [schedule EXCEPT !.next = NextRun(request[n].plan, FromToday(day))]
  /\ GoesTo(n, "done")
  /\ UNCHANGED <<deskVars, jobs, records, retries, day>>

(* PATCH /api/payroll/schedules/[id] *)
PatchPlan ==
  /\ \E plan \in Plans \ {schedule.plan} :
       schedule' = [schedule EXCEPT !.plan = plan, !.next = NextRun(plan, day)]
  /\ Arrives([op |-> "patch", at |-> "done"])
  /\ UNCHANGED <<deskVars, jobs, records, retries, day>>

PatchActive ==
  /\ schedule' = [schedule EXCEPT !.active = ~@]
  /\ Arrives([op |-> "patch", at |-> "done"])
  /\ UNCHANGED <<deskVars, jobs, records, retries, day>>

(***************************************************************************)
(* processCompanyPayroll, one job at a time.  A payment is a transaction   *)
(* of its own; an error after it, while the audit row is written, is       *)
(* handled as if the payment had failed.                                   *)
(***************************************************************************)
JobTo(j, at) == jobs' = [jobs EXCEPT ![j].at = at]
Working == {j \in DOMAIN jobs : jobs[j].at \in {"pays", "logs", "records failure"}}
Record(j, e, status) == [job |-> j, user |-> e, status |-> status, tries |-> 1]

JobStarts(j) ==
  /\ jobs[j].at \in {"waiting", "delayed"}
  /\ Working = {}
  /\ \A i \in DOMAIN jobs : jobs[i].at = "waiting" /\ jobs[j].at = "waiting" => j <= i
  /\ jobs' = [jobs EXCEPT ![j].at = "pays", ![j].todo = Staff]
  /\ UNCHANGED <<handlerVars, deskVars, records, retries, schedule, day>>

Salary(by, record, e) == {Entry(by, e, "SALARY_CREDIT", 0, 1, <<"record", record>>)}

(* The first of todo, in the order of the query. *)
Current(j) == CHOOSE e \in jobs[j].todo : TRUE

Pays(j) ==
  LET e == Current(j) IN
  /\ jobs[j].at = "pays" /\ jobs[j].todo # {}
  /\ e \notin Walletless
  /\ Books(Salary(<<"job", j>>, Len(records) + 1, e))
  /\ records' = Append(records, Record(j, e, "COMPLETED"))
  /\ JobTo(j, "logs")
  /\ UNCHANGED <<handlerVars, retries, schedule, day>>

HasNoWallet(j) ==
  /\ jobs[j].at = "pays" /\ jobs[j].todo # {}
  /\ Current(j) \in Walletless
  /\ JobTo(j, "records failure")
  /\ UNCHANGED <<handlerVars, deskVars, records, retries, schedule, day>>

Logs(j) ==
  /\ jobs[j].at = "logs"
  /\ jobs' = [jobs EXCEPT ![j].at = "pays", ![j].todo = @ \ {Current(j)}]
  /\ UNCHANGED <<handlerVars, deskVars, records, retries, schedule, day>>

(* The transaction, or the audit row after it, fails. *)
EmployeeFails(j) ==
  /\ \/ jobs[j].at = "pays" /\ jobs[j].todo # {}
     \/ jobs[j].at = "logs"
  /\ JobTo(j, "records failure")
  /\ UNCHANGED <<handlerVars, deskVars, records, retries, schedule, day>>

RecordsFailure(j) ==
  /\ jobs[j].at = "records failure"
  /\ records' = Append(records, Record(j, Current(j), "FAILED"))
  /\ jobs' = [jobs EXCEPT ![j].at = "pays", ![j].todo = @ \ {Current(j)}]
  /\ UNCHANGED <<handlerVars, deskVars, retries, schedule, day>>

FailureIsNotRecorded(j) ==
  /\ jobs[j].at = "records failure"
  /\ jobs' = [jobs EXCEPT ![j].at = "pays", ![j].todo = @ \ {Current(j)}]
  /\ UNCHANGED <<handlerVars, deskVars, records, retries, schedule, day>>

(* The schedule is moved once more, the company is told. *)
JobCompletes(j) ==
  /\ jobs[j].at = "pays" /\ jobs[j].todo = {}
  /\ JobTo(j, "completed")
  /\ IF jobs[j].scheduled
       THEN schedule' = [schedule EXCEPT !.next = NextRun(schedule.plan, day)]
       ELSE UNCHANGED schedule
  /\ UNCHANGED <<handlerVars, deskVars, records, retries, day>>

(* An error outside the loop; the queue starts the job again from nothing. *)
JobFails(j) ==
  /\ jobs[j].at = "pays" /\ jobs[j].todo \in {{}, Staff}
  /\ jobs' = [jobs EXCEPT ![j].attempts = @ + 1,
                          ![j].at = IF jobs[j].attempts + 1 < MaxAttempts THEN "delayed" ELSE "failed"]
  /\ UNCHANGED <<handlerVars, deskVars, records, retries, schedule, day>>

JobSteps(j) ==
  \/ JobStarts(j) \/ Pays(j) \/ HasNoWallet(j) \/ Logs(j) \/ RecordsFailure(j) \/ JobCompletes(j)

(***************************************************************************)
(* retryFailedJobs: every 15 minutes, and not waiting for the one before.  *)
(***************************************************************************)
RetryTick ==
  /\ Arrives([op |-> "retry tick", at |-> "lists failed"])
  /\ UNCHANGED <<deskVars, payrollVars>>

ListFailed(n) ==
  LET failed == {r \in DOMAIN records : records[r].status = "FAILED"} IN
  /\ Is(n, "retry tick", "lists failed")
  /\ IF failed = {}
       THEN GoesTo(n, "done")
       ELSE Becomes(n, [op |-> "retry tick", at |-> "counts attempts", todo |-> failed])
  /\ UNCHANGED <<deskVars, payrollVars>>

First(todo) == Min(todo)

(* The record at hand is done with. *)
NextFailed(n) ==
  LET rest == request[n].todo \ {First(request[n].todo)} IN
  IF rest = {} THEN GoesTo(n, "done")
               ELSE Becomes(n, [op |-> "retry tick", at |-> "counts attempts", todo |-> rest])

(* The backoff has passed, the job is queued and may start at once. *)
QueueRetry(n) ==
  LET r == First(request[n].todo) IN
  /\ Is(n, "retry tick", "counts attempts")
  /\ records[r].tries < MaxAttempts
  /\ retries' = Append(retries, [record |-> r, by |-> n, at |-> "waiting"])
  /\ Becomes(n, [op |-> "retry tick", at |-> "marks pending", todo |-> request[n].todo,
                 attempt |-> records[r].tries + 1])
  /\ UNCHANGED <<deskVars, jobs, records, schedule, day>>

BackoffHolds(n) ==
  /\ Is(n, "retry tick", "counts attempts")
  /\ records[First(request[n].todo)].tries < MaxAttempts
  /\ NextFailed(n)
  /\ UNCHANGED <<deskVars, payrollVars>>

(* escalatePayroll: the new failureReason names no attempt any more. *)
Escalate(n) ==
  LET r == First(request[n].todo) IN
  /\ Is(n, "retry tick", "counts attempts")
  /\ records[r].tries >= MaxAttempts
  /\ records' = [records EXCEPT ![r].tries = 1]
  /\ NextFailed(n)
  /\ UNCHANGED <<deskVars, jobs, retries, schedule, day>>

(* Mutant: the record stays FAILED while its retry is queued. *)
StaysFailed(row) == row
MarkedPending(row) == [row EXCEPT !.status = "PENDING"]

(* The job may have ended by now; what it has written is overwritten. *)
MarkPending(n) ==
  LET r == First(request[n].todo) IN
  /\ Is(n, "retry tick", "marks pending")
  /\ records' = [records EXCEPT ![r] = [MarkedPending(@) EXCEPT !.tries = request[n].attempt]]
  /\ NextFailed(n)
  /\ UNCHANGED <<deskVars, jobs, retries, schedule, day>>

RequestSteps(n) ==
  \/ QueuePosted(n) \/ FindDue(n) \/ QueueDue(n) \/ MoveNextRun(n)
  \/ ListFailed(n) \/ QueueRetry(n) \/ BackoffHolds(n) \/ Escalate(n) \/ MarkPending(n)

(***************************************************************************)
(* processSingleEmployeePayroll, up to three at a time                     *)
(***************************************************************************)
RetryTo(k, at) == retries' = [retries EXCEPT ![k].at = at]

RetryReads(k) ==
  LET row == records[retries[k].record] IN
  /\ retries[k].at = "waiting"
  /\ Cardinality({i \in DOMAIN retries : retries[i].at \in {"resets", "credits"}}) < 3
  /\ RetryTo(k, IF row.status = "COMPLETED" \/ row.user \in Walletless THEN "failed" ELSE "resets")
  /\ UNCHANGED <<handlerVars, deskVars, jobs, records, schedule, day>>

RetryResets(k) ==
  /\ retries[k].at = "resets"
  /\ records' = [records EXCEPT ![retries[k].record] = [@ EXCEPT !.status = "PROCESSING", !.tries = 1]]
  /\ RetryTo(k, "credits")
  /\ UNCHANGED <<handlerVars, deskVars, jobs, schedule, day>>

RetryCredits(k) ==
  LET r == retries[k].record IN
  /\ retries[k].at = "credits"
  /\ Books(Salary(<<"retry", k>>, r, records[r].user))
  /\ records' = [records EXCEPT ![r].status = "COMPLETED"]
  /\ RetryTo(k, "completed")
  /\ UNCHANGED <<handlerVars, jobs, schedule, day>>

RetryFails(k) ==
  /\ retries[k].at = "credits"
  /\ records' = [records EXCEPT ![retries[k].record] = [@ EXCEPT !.status = "FAILED", !.tries = 1]]
  /\ RetryTo(k, "failed")
  /\ UNCHANGED <<handlerVars, deskVars, jobs, schedule, day>>

RetrySteps(k) == RetryReads(k) \/ RetryResets(k) \/ RetryCredits(k)

(* The process restarts: both queues and the ticks were in its memory. *)
Crash ==
  /\ jobs' = [j \in DOMAIN jobs |->
       IF jobs[j].at \in {"completed", "failed"} THEN jobs[j] ELSE [jobs[j] EXCEPT !.at = "lost"]]
  /\ retries' = [k \in DOMAIN retries |->
       IF retries[k].at \in {"completed", "failed"} THEN retries[k] ELSE [retries[k] EXCEPT !.at = "lost"]]
  /\ request' = [n \in Requests |->
       IF n \in Busy THEN [op |-> request[n].op, at |-> "died"] ELSE request[n]]
  /\ UNCHANGED <<met, deskVars, records, schedule, day>>
============================================================================
