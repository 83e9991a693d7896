----------------------------- MODULE PayrollRun -----------------------------
(***************************************************************************)
(* Scheduled payrolls of one company (payroll.service.ts, payroll.job.ts): *)
(* schedulePayroll writes a row and asks Bull for a delayed job; the job   *)
(* and the daily sweep both call processPayroll, which reads the row,      *)
(* claims it, pays everyone in one transaction and then enqueues the       *)
(* notifications.  An error on the way makes the row FAILED and goes to    *)
(* Bull, which tries the job again.                                        *)
(*                                                                         *)
(* Each server process runs one job of the queue at a time.  That a        *)
(* payroll is due is not modelled: a run may start at any time after the   *)
(* row is written.  Bull is external: a job whose process has died, or has *)
(* not renewed its lock, is given out once more (maxStalledCount).         *)
(***************************************************************************)
EXTENDS Integers

CONSTANTS
  Payrolls,     \* rows of scheduled_payrolls
  Processes,    \* server processes
  Total,        \* totalAmount of each payroll
  Opening,      \* the balance of the company
  MaxAttempts,  \* attempts of a job, 5 in bull.ts
  MaxCrashes    \* bound: processes die this often

ASSUME TotalIsPositive == Total \in [Payrolls -> Nat \ {0}]
ASSUME NamesAreApart ==
  /\ "NONE" \notin Payrolls
  /\ Processes \cap {"none", "waiting", "gone"} = {}
ASSUME BoundsAreNatural ==
  /\ Opening \in Nat
  /\ MaxAttempts \in Nat \ {0}
  /\ MaxCrashes \in Nat

None == "NONE"

VARIABLES
  balance,   \* Company.balance
  status,    \* ScheduledPayroll.status, "NONE" for no row
  paid,      \* how often the workers of the payroll have been credited
  raced,     \* history: payrolls claimed on a status that was no longer theirs
  job,       \* its Bull job: "none", "waiting", "gone" or the process it runs in
  attempts,  \* attemptsMade of the job
  stalls,    \* how often it has been given out again
  pc,        \* where each process is in processPayroll
  cur,       \* the payroll it processes
  snap,      \* the status it has read
  sweeping,  \* the call comes from the sweep
  due,       \* the payrolls the sweep has still to process
  crashes

rowVars == <<balance, status, paid, raced>>
queueVars == <<job, attempts, stalls>>
runVars == <<pc, cur, snap, sweeping, due>>
vars == <<rowVars, queueVars, runVars, crashes>>

Statuses == {None, "PENDING", "PROCESSING", "COMPLETED", "FAILED"}

TypeOK ==
  /\ balance \in Int
  /\ status \in [Payrolls -> Statuses]
  /\ paid \in [Payrolls -> Nat]
  /\ raced \in SUBSET Payrolls
  /\ job \in [Payrolls -> {"none", "waiting", "gone"} \cup Processes]
  /\ attempts \in [Payrolls -> 0..MaxAttempts]
  /\ stalls \in [Payrolls -> 0..1]
  /\ pc \in [Processes -> {"idle", "next", "find", "claim", "pay", "notify"}]
  /\ cur \in [Processes -> Payrolls \cup {None}]
  /\ snap \in [Processes -> Statuses]
  /\ sweeping \in [Processes -> BOOLEAN]
  /\ due \in [Processes -> SUBSET Payrolls]
  /\ crashes \in 0..MaxCrashes

Init ==
  /\ balance = Opening
  /\ status = [p \in Payrolls |-> None]
  /\ paid = [p \in Payrolls |-> 0]
  /\ raced = {}
  /\ job = [p \in Payrolls |-> "none"]
  /\ attempts = [p \in Payrolls |-> 0]
  /\ stalls = [p \in Payrolls |-> 0]
  /\ pc = [k \in Processes |-> "idle"]
  /\ cur = [k \in Processes |-> None]
  /\ snap = [k \in Processes |-> None]
  /\ sweeping = [k \in Processes |-> FALSE]
  /\ due = [k \in Processes |-> {}]
  /\ crashes = 0

(***************************************************************************)
(* schedulePayroll: the balance must cover the total now; nothing is held  *)
(* back.  The job is asked for after the commit: if that fails, or the     *)
(* process dies first, the row is there and the job is not.                *)
(***************************************************************************)
Schedule(p, enqueued) ==
  /\ status[p] = None
  /\ balance >= Total[p]
  /\ status' = [status EXCEPT ![p] = "PENDING"]
  /\ job' = [job EXCEPT ![p] = IF enqueued THEN "waiting" ELSE "none"]
  /\ UNCHANGED <<balance, paid, raced, attempts, stalls, runVars, crashes>>

(***************************************************************************)
(* How a process comes to call processPayroll, and what becomes of the     *)
(* job, or the sweep, when the call is over.                               *)
(***************************************************************************)

StartJob(k, p) ==
  /\ pc[k] = "idle"
  /\ job[p] = "waiting"
  /\ job' = [job EXCEPT ![p] = k]
  /\ pc' = [pc EXCEPT ![k] = "find"]
  /\ cur' = [cur EXCEPT ![k] = p]
  /\ UNCHANGED <<rowVars, attempts, stalls, snap, sweeping, due, crashes>>

(* Mutant: the sweep takes the rows whose job failed, not the PENDING ones. *)
Unfinished == {p \in Payrolls : status[p] = "FAILED"}

Pending == {p \in Payrolls : status[p] = "PENDING"}

(* processDuePayrolls: the PENDING rows, at 02:00 every day. *)
StartSweep(k) ==
  /\ pc[k] = "idle"
  /\ Pending # {}
  /\ pc' = [pc EXCEPT ![k] = "next"]
  /\ sweeping' = [sweeping EXCEPT ![k] = TRUE]
  /\ due' = [due EXCEPT ![k] = Pending]
  /\ UNCHANGED <<rowVars, queueVars, cur, snap, crashes>>

NextDue(k, p) ==
  /\ pc[k] = "next"
  /\ p \in due[k]
  /\ due' = [due EXCEPT ![k] = @ \ {p}]
  /\ cur' = [cur EXCEPT ![k] = p]
  /\ pc' = [pc EXCEPT ![k] = "find"]
  /\ UNCHANGED <<rowVars, queueVars, snap, sweeping, crashes>>

(* The process goes on with its sweep or is free again. *)
CallEnds(k) ==
  /\ cur' = [cur EXCEPT ![k] = None]
  /\ snap' = [snap EXCEPT ![k] = None]
  /\ pc' = [pc EXCEPT ![k] = IF due[k] = {} THEN "idle" ELSE "next"]
  /\ sweeping' = [sweeping EXCEPT ![k] = due[k] # {}]
  /\ UNCHANGED <<due, stalls, crashes>>

(* The process still holds the lock of the job it runs. *)
HoldsJob(k) == ~ sweeping[k] /\ job[cur[k]] = k

Returns(k) ==
  /\ job' = IF HoldsJob(k) THEN [job EXCEPT ![cur[k]] = "gone"] ELSE job
  /\ UNCHANGED attempts
  /\ CallEnds(k)

(* Mutant: a job is tried again without end. *)
ForEver(p) == "waiting"

Again(p) == IF attempts[p] + 1 < MaxAttempts THEN "waiting" ELSE "gone"

(* The sweep notes an error and goes on; a job is tried again. *)
Throws(k) ==
  LET p == cur[k] IN
  /\ job' = IF HoldsJob(k) THEN [job EXCEPT ![p] = Again(p)] ELSE job
  /\ attempts' = IF HoldsJob(k) THEN [attempts EXCEPT ![p] = @ + 1] ELSE attempts
  /\ CallEnds(k)

(***************************************************************************)
(* processPayroll.                                                         *)
(***************************************************************************)

(* Mutant: a row that is COMPLETED is taken as well. *)
Busy(p) == status[p] = "PROCESSING"

(* Mutant: a row that is PROCESSING is taken as well. *)
Finished(p) == status[p] = "COMPLETED"

Settled(p) == status[p] \in {"COMPLETED", "PROCESSING"}

(* A row that is COMPLETED or PROCESSING is left alone, and the job is done. *)
Find(k) ==
  /\ pc[k] = "find"
  /\ IF Settled(cur[k])
     THEN Returns(k)
     ELSE /\ pc' = [pc EXCEPT ![k] = "claim"]
          /\ snap' = [snap EXCEPT ![k] = status[cur[k]]]
          /\ UNCHANGED <<queueVars, cur, sweeping, due, crashes>>
  /\ UNCHANGED rowVars

(* The update is by id: it does not look at the status again, which may no *)
(* longer be the one that was read.                                        *)
Claim(k) ==
  /\ pc[k] = "claim"
  /\ raced' = raced \cup {p \in {cur[k]} : status[p] # snap[k]}
  /\ status' = [status EXCEPT ![cur[k]] = "PROCESSING"]
  /\ pc' = [pc EXCEPT ![k] = "pay"]
  /\ UNCHANGED <<balance, paid, queueVars, cur, snap, sweeping, due, crashes>>

(* The company pays, every worker is credited, the row is COMPLETED. *)
Pay(k) ==
  LET p == cur[k] IN
  /\ pc[k] = "pay"
  /\ balance' = balance - Total[p]
  /\ paid' = [paid EXCEPT ![p] = @ + 1]
  /\ status' = [status EXCEPT ![p] = "COMPLETED"]
  /\ pc' = [pc EXCEPT ![k] = "notify"]
  /\ UNCHANGED <<raced, queueVars, cur, snap, sweeping, due, crashes>>

NotifyAll(k) ==
  /\ pc[k] = "notify"
  /\ Returns(k)
  /\ UNCHANGED rowVars

(* Mutant: the reason is recorded on a row that stays as it was read. *)
StatusRead(k) == snap[k]

StatusFailed(k) == "FAILED"

(* The transaction rolls back, or a notification cannot be enqueued after  *)
(* it has committed: either makes the row FAILED and goes to the caller.   *)
Failure(k) ==
  /\ pc[k] \in {"pay", "notify"}
  /\ status' = [status EXCEPT ![cur[k]] = StatusFailed(k)]
  /\ Throws(k)
  /\ UNCHANGED <<balance, paid, raced>>

(* A statement outside the transaction fails: the read, the claim, or the  *)
(* update that would have made the row FAILED.                             *)
StatementFails(k) ==
  /\ pc[k] \in {"find", "claim", "pay", "notify"}
  /\ Throws(k)
  /\ UNCHANGED rowVars

(* The process dies; a transaction it had open rolls back. *)
Crash(k) ==
  /\ pc[k] # "idle"
  /\ crashes < MaxCrashes
  /\ crashes' = crashes + 1
  /\ pc' = [pc EXCEPT ![k] = "idle"]
  /\ cur' = [cur EXCEPT ![k] = None]
  /\ snap' = [snap EXCEPT ![k] = None]
  /\ sweeping' = [sweeping EXCEPT ![k] = FALSE]
  /\ due' = [due EXCEPT ![k] = {}]
  /\ UNCHANGED <<rowVars, queueVars>>

(* Bull takes an active job for stalled, whether its process is dead or    *)
(* only slow: the first time it is given out again, then it is failed.     *)
Stalled(p) ==
  /\ job[p] \in Processes
  /\ IF stalls[p] = 0
     THEN /\ job' = [job EXCEPT ![p] = "waiting"]
          /\ stalls' = [stalls EXCEPT ![p] = 1]
     ELSE /\ job' = [job EXCEPT ![p] = "gone"]
          /\ UNCHANGED stalls
  /\ UNCHANGED <<rowVars, attempts, runVars, crashes>>

-----------------------------------------------------------------------------
Process(k) ==
  \/ \E p \in Payrolls : StartJob(k, p) \/ NextDue(k, p)
  \/ StartSweep(k)
  \/ Find(k)
  \/ Claim(k)
  \/ Pay(k)
  \/ NotifyAll(k)

Next ==
  \/ \E p \in Payrolls, enqueued \in BOOLEAN : Schedule(p, enqueued)
  \/ \E k \in Processes : Process(k) \/ Failure(k) \/ StatementFails(k) \/ Crash(k)
  \/ \E p \in Payrolls : Stalled(p)

Spec == Init /\ [][Next]_vars

(* The server runs, the cron fires every day while a row is PENDING, and   *)
(* the database does not refuse the claim of a payroll for ever.  Nothing  *)
(* obliges the company, a failure, a crash or Bull's stall check.          *)
Fairness ==
  \A k \in Processes :
    /\ WF_vars(Process(k))
    /\ SF_vars(StartSweep(k))
    /\ \A p \in Payrolls : /\ SF_vars(cur[k] = p /\ Find(k))
                           /\ SF_vars(cur[k] = p /\ Claim(k))

FairSpec == Spec /\ Fairness

-----------------------------------------------------------------------------
(***************************************************************************)
(* Properties.                                                             *)
(***************************************************************************)

(* A payroll that workers were already paid for is paid again only by a    *)
(* run that found it FAILED, or after a run claimed it on a status that    *)
(* another had changed since it was read: no crash, stalled job or sweep   *)
(* alone pays it twice, and with one server process nothing else does.     *)
RepaidOnlyAfterFailure ==
  [][\A p \in Payrolls :
       paid[p] > 0 /\ paid'[p] # paid[p] =>
         \/ p \in raced
         \/ \E k \in Processes : cur[k] = p /\ snap[k] = "FAILED"]_vars

(* Process k is in the payment or the notifications of p. *)
Owns(k, p) == pc[k] \in {"pay", "notify"} /\ cur[k] = p

(* The claim, which tests nothing, is exclusive unless the read it relies  *)
(* on has gone stale: a job that was given out again, or a sweep, does not *)
(* work on a payroll that another process is paying or has yet to notify.  *)
ClaimIsExclusive ==
  \A p \in Payrolls \ raced, k, l \in Processes : Owns(k, p) /\ Owns(l, p) => k = l

(* A row shows what happened to the money: PENDING is unpaid, COMPLETED is *)
(* paid; what is neither needs a look.                                     *)
StatusTellsPayment ==
  \A p \in Payrolls :
    /\ status[p] = "PENDING" => paid[p] = 0
    /\ status[p] = "COMPLETED" => paid[p] > 0

(* "If the queue enqueue fails, the daily cron sweep will still pick the   *)
(* row up": no payroll stays PENDING, with or without a job, though        *)
(* processes crash and statements fail.                                    *)
PendingIsPickedUp ==
  \A p \in Payrolls : status[p] = "PENDING" ~> status[p] # "PENDING"

-----------------------------------------------------------------------------
(***************************************************************************)
(* The inductive invariants.                                               *)
(***************************************************************************)

(* Nobody works on a row that is not there, and a job that may still run   *)
(* has an attempt left.                                                    *)
RowShape ==
  /\ \A p \in Payrolls :
       /\ status[p] = None => /\ paid[p] = 0
                              /\ attempts[p] = 0
                              /\ job[p] = "none"
                              /\ \A k \in Processes : cur[k] # p /\ p \notin due[k]
       /\ job[p] \in {"waiting"} \cup Processes => attempts[p] < MaxAttempts
  /\ \A k \in Processes :
       pc[k] \in {"find", "claim", "pay", "notify"} => cur[k] \in Payrolls

(* What a process does with a payroll whose claims were made on the status *)
(* as it was: the row says so, and it is unpaid until it is paid, unless   *)
(* it was FAILED.                                                          *)
RunShape ==
  \A k \in Processes :
    /\ pc[k] = "claim" => snap[k] \in {"PENDING", "FAILED"}
    /\ pc[k] = "pay" /\ cur[k] \notin raced =>
         /\ status[cur[k]] = "PROCESSING"
         /\ snap[k] = "FAILED" \/ paid[cur[k]] = 0
    /\ pc[k] = "notify" /\ cur[k] \notin raced => status[cur[k]] = "COMPLETED"

IInv ==
  /\ TypeOK
  /\ RowShape
  /\ StatusTellsPayment
  /\ RunShape
  /\ ClaimIsExclusive

-----------------------------------------------------------------------------
(* What the documentation of the code says and the code does not do.       *)

(* What the README lists as the mitigation of a failed job, another        *)
(* attempt, takes for granted: a payroll with a failureReason was not paid. *)
FailedIsUnpaid ==
  \A p \in Payrolls : status[p] = "FAILED" => paid[p] = 0
=============================================================================
