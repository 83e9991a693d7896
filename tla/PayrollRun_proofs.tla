-------------------------- MODULE PayrollRun_proofs --------------------------
(***************************************************************************)
(* Proofs about PayrollRun, for any number of server processes: what the   *)
(* status of a row tells about the money, and that a payroll is worked on  *)
(* by two processes, or paid again without having been found FAILED, only  *)
(* after a claim on a stale read; and that one process makes no such claim. *)
(***************************************************************************)
EXTENDS PayrollRun, TLAPS

RowInv == TypeOK /\ RowShape /\ StatusTellsPayment

USE TotalIsPositive, NamesAreApart, BoundsAreNatural DEF None

LEMMA RowInit == Init => RowInv
  BY DEF Init, RowInv, TypeOK, RowShape, StatusTellsPayment, Statuses

(* How a call that is over leaves the queue and the process. *)
LEMMA CallOver ==
  ASSUME NEW k \in Processes, TypeOK, RowShape, cur[k] \in Payrolls,
         Returns(k) \/ Throws(k)
  PROVE  /\ attempts' \in [Payrolls -> 0..MaxAttempts]
         /\ job' \in [Payrolls -> {"none", "waiting", "gone"} \cup Processes]
         /\ cur' \in [Processes -> Payrolls \cup {None}]
         /\ pc' \in [Processes -> {"idle", "next", "find", "claim", "pay", "notify"}]
         /\ snap' \in [Processes -> Statuses]
         /\ sweeping' \in [Processes -> BOOLEAN]
         /\ UNCHANGED <<due, stalls, crashes>>
         /\ pc'[k] \in {"idle", "next"}
         /\ cur'[k] = None
         /\ \A l \in Processes \ {k} : pc'[l] = pc[l] /\ cur'[l] = cur[l] /\ snap'[l] = snap[l]
         /\ \A p \in Payrolls \ {cur[k]} : job'[p] = job[p] /\ attempts'[p] = attempts[p]
         /\ job'[cur[k]] \in {"waiting"} \cup Processes => attempts'[cur[k]] < MaxAttempts
  <1>1. attempts[cur[k]] \in 0..MaxAttempts
    BY DEF TypeOK
  <1>2. HoldsJob(k) => attempts[cur[k]] < MaxAttempts
    BY DEF RowShape, HoldsJob
  <1>3. CASE Returns(k)
    BY <1>1, <1>3 DEF Returns, CallEnds, HoldsJob, TypeOK, RowShape, Statuses
  <1>4. CASE Throws(k)
    <2>1. /\ attempts' \in [Payrolls -> 0..MaxAttempts]
          /\ \A p \in Payrolls \ {cur[k]} : job'[p] = job[p] /\ attempts'[p] = attempts[p]
          /\ job' \in [Payrolls -> {"none", "waiting", "gone"} \cup Processes]
          /\ job'[cur[k]] \in {"waiting"} \cup Processes => attempts'[cur[k]] < MaxAttempts
      <3>1. CASE HoldsJob(k)
        BY <1>1, <1>2, <1>4, <3>1 DEF Throws, Again, TypeOK
      <3>2. CASE ~ HoldsJob(k)
        BY <1>4, <3>2 DEF Throws, Again, TypeOK, RowShape
      <3> QED BY <3>1, <3>2
    <2>2. CallEnds(k)
      BY <1>4 DEF Throws, Again
    <2> QED BY <2>1, <2>2 DEF CallEnds, TypeOK, Statuses
  <1> QED BY <1>3, <1>4

(***************************************************************************)
(* The steps of a process, one lemma for those that touch rows or queue.   *)
(***************************************************************************)

LEMMA RowStep == RowInv /\ [Next]_vars => RowInv'
  <1> SUFFICES ASSUME RowInv, [Next]_vars PROVE RowInv'
    OBVIOUS
  <1> USE DEF RowInv
  <1>1. ASSUME NEW p \in Payrolls, NEW enqueued \in BOOLEAN, Schedule(p, enqueued)
        PROVE  RowInv'
    BY <1>1 DEF Schedule, TypeOK, RowShape, StatusTellsPayment, Statuses, runVars
  <1>2. ASSUME NEW k \in Processes, NEW p \in Payrolls, StartJob(k, p)
        PROVE  RowInv'
    BY <1>2 DEF StartJob, TypeOK, RowShape, StatusTellsPayment, Statuses, rowVars
  <1>3. ASSUME NEW k \in Processes, NEW p \in Payrolls, NextDue(k, p)
        PROVE  RowInv'
    BY <1>3 DEF NextDue, TypeOK, RowShape, StatusTellsPayment, Statuses, rowVars, queueVars
  <1>4. ASSUME NEW k \in Processes, StartSweep(k)
        PROVE  RowInv'
    BY <1>4 DEF StartSweep, Pending, TypeOK, RowShape, StatusTellsPayment, Statuses, rowVars, queueVars
  <1>5. ASSUME NEW k \in Processes, Find(k)
        PROVE  RowInv'
    <2>1. cur[k] \in Payrolls
      BY <1>5 DEF Find, Settled, RowShape
    <2>2. CASE status[cur[k]] \in {"COMPLETED", "PROCESSING"}
      <3>1. Returns(k) /\ UNCHANGED rowVars
        BY <1>5, <2>2 DEF Find, Settled
      <3> QED BY <2>1, <3>1, CallOver DEF TypeOK, RowShape, StatusTellsPayment, rowVars
    <2>3. CASE ~ (status[cur[k]] \in {"COMPLETED", "PROCESSING"})
      BY <1>5, <2>1, <2>3 DEF Find, Settled, TypeOK, RowShape, StatusTellsPayment, rowVars, queueVars
    <2> QED BY <2>2, <2>3
  <1>6. ASSUME NEW k \in Processes, Claim(k)
        PROVE  RowInv'
    BY <1>6 DEF Claim, TypeOK, RowShape, StatusTellsPayment, Statuses, queueVars
  <1>7. ASSUME NEW k \in Processes, Pay(k)
        PROVE  RowInv'
    BY <1>7 DEF Pay, TypeOK, RowShape, StatusTellsPayment, Statuses, queueVars
  <1>8. ASSUME NEW k \in Processes, NotifyAll(k)
        PROVE  RowInv'
    <2>1. cur[k] \in Payrolls /\ Returns(k) /\ UNCHANGED rowVars
      BY <1>8 DEF NotifyAll, RowShape
    <2> QED BY <2>1, CallOver DEF TypeOK, RowShape, StatusTellsPayment, rowVars
  <1>9. ASSUME NEW k \in Processes, Failure(k)
        PROVE  RowInv'
    <2>1. /\ cur[k] \in Payrolls
          /\ Throws(k)
          /\ status' = [status EXCEPT ![cur[k]] = "FAILED"]
          /\ UNCHANGED <<balance, paid, raced>>
      BY <1>9 DEF Failure, StatusFailed, RowShape
    <2> QED BY <2>1, CallOver DEF TypeOK, RowShape, StatusTellsPayment, Statuses
  <1>10. ASSUME NEW k \in Processes, StatementFails(k)
        PROVE  RowInv'
    <2>1. cur[k] \in Payrolls /\ Throws(k) /\ UNCHANGED rowVars
      BY <1>10 DEF StatementFails, RowShape
    <2> QED BY <2>1, CallOver DEF TypeOK, RowShape, StatusTellsPayment, rowVars
  <1>11. ASSUME NEW k \in Processes, Crash(k)
        PROVE  RowInv'
    BY <1>11 DEF Crash, TypeOK, RowShape, StatusTellsPayment, Statuses, rowVars, queueVars
  <1>12. ASSUME NEW p \in Payrolls, Stalled(p)
        PROVE  RowInv'
    BY <1>12 DEF Stalled, TypeOK, RowShape, StatusTellsPayment, rowVars, runVars
  <1>13. CASE UNCHANGED vars
    BY <1>13 DEF vars, rowVars, queueVars, runVars, TypeOK, RowShape, StatusTellsPayment
  <1> QED
    BY <1>1, <1>2, <1>3, <1>4, <1>5, <1>6, <1>7, <1>8, <1>9, <1>10, <1>11, <1>12, <1>13
       DEF Next, Process

LEMMA RowInductive == Spec => []RowInv
  <1> QED BY RowInit, RowStep, PTL DEF Spec

(* Every variable keeps its type: no job is tried more than MaxAttempts    *)
(* times, whatever stalls, crashes and sweeps come between.                *)
THEOREM TypeCorrect == Spec => []TypeOK
  <1>1. RowInv => TypeOK
    BY DEF RowInv
  <1> QED BY <1>1, RowInductive, PTL

(* For any number of processes a PENDING payroll is unpaid and a COMPLETED *)
(* one paid.                                                               *)
THEOREM StatusIsHonest == Spec => []StatusTellsPayment
  <1>1. RowInv => StatusTellsPayment
    BY DEF RowInv
  <1> QED BY <1>1, RowInductive, PTL

(***************************************************************************)
(* Claims, payments and notifications of several processes.                *)
(***************************************************************************)

RunInv == RunShape /\ ClaimIsExclusive

LEMMA RunInit == Init => RunInv
  BY DEF Init, RunInv, RunShape, ClaimIsExclusive, Owns

(* A call that is over leaves the others where they are, and the payroll   *)
(* it had to nobody, unless a claim on it was stale.                       *)
LEMMA CallLeaves ==
  ASSUME RowInv, RunInv, NEW k \in Processes, cur[k] \in Payrolls,
         Returns(k) \/ Throws(k),
         UNCHANGED <<paid, raced>>,
         \/ UNCHANGED status
         \/ Owns(k, cur[k]) /\ status' = [status EXCEPT ![cur[k]] = "FAILED"]
  PROVE  RunInv'
  <1> USE DEF RowInv, RunInv
  <1>1. /\ pc'[k] \in {"idle", "next"}
        /\ \A l \in Processes \ {k} : pc'[l] = pc[l] /\ cur'[l] = cur[l] /\ snap'[l] = snap[l]
    BY CallOver
  <1>2. ClaimIsExclusive'
    BY <1>1 DEF ClaimIsExclusive, Owns
  <1>3. ASSUME NEW l \in Processes, pc'[l] \in {"claim", "pay", "notify"}
        PROVE  /\ l # k /\ pc'[l] = pc[l] /\ cur'[l] = cur[l] /\ snap'[l] = snap[l]
               /\ cur[l] \in Payrolls
    BY <1>1, <1>3 DEF RowShape
  <1>4. ASSUME NEW l \in Processes, pc'[l] \in {"pay", "notify"}, cur[l] \notin raced
        PROVE  status'[cur[l]] = status[cur[l]]
    <2>1. CASE UNCHANGED status
      BY <2>1
    <2>2. CASE Owns(k, cur[k]) /\ status' = [status EXCEPT ![cur[k]] = "FAILED"]
      <3>1. Owns(l, cur[l]) /\ l # k /\ cur[l] \in Payrolls
        BY <1>3, <1>4 DEF Owns
      <3>2. cur[l] # cur[k]
        BY <1>4, <2>2, <3>1 DEF ClaimIsExclusive
      <3> QED BY <2>2, <3>1, <3>2 DEF TypeOK
    <2> QED BY <2>1, <2>2
  <1>5. RunShape'
    BY <1>3, <1>4 DEF RunShape
  <1> QED BY <1>2, <1>5

LEMMA RunStep ==
  ASSUME RowInv, RunInv, [Next]_vars
  PROVE  RunInv'
  <1> USE DEF RowInv, RunInv, RunShape, ClaimIsExclusive, Owns
  <1>1. ASSUME NEW p \in Payrolls, NEW enqueued \in BOOLEAN, Schedule(p, enqueued)
        PROVE  RunInv'
    BY <1>1 DEF Schedule, runVars, RowShape, TypeOK
  <1>2. ASSUME NEW k \in Processes,
               \/ \E p \in Payrolls : StartJob(k, p) \/ NextDue(k, p)
               \/ StartSweep(k)
        PROVE  RunInv'
    BY <1>2 DEF StartJob, NextDue, StartSweep, Pending, TypeOK, rowVars
  <1>3. ASSUME NEW k \in Processes, Find(k)
        PROVE  RunInv'
    <2>1. cur[k] \in Payrolls
      BY <1>3 DEF Find, Settled, RowShape
    <2>2. CASE status[cur[k]] \in {"COMPLETED", "PROCESSING"}
      <3>1. Returns(k) /\ UNCHANGED rowVars
        BY <1>3, <2>2 DEF Find, Settled
      <3> QED BY <2>1, <3>1, CallLeaves DEF rowVars
    <2>3. CASE ~ (status[cur[k]] \in {"COMPLETED", "PROCESSING"})
      <3>1. status[cur[k]] \in {"PENDING", "FAILED"}
        BY <2>1, <2>3 DEF TypeOK, RowShape, Statuses
      <3> QED BY <1>3, <2>3, <3>1 DEF Find, Settled, TypeOK, rowVars
    <2> QED BY <2>2, <2>3
  <1>4. ASSUME NEW k \in Processes, Claim(k)
        PROVE  RunInv'
    <2>1. /\ pc[k] = "claim" /\ cur[k] \in Payrolls
          /\ pc' = [pc EXCEPT ![k] = "pay"]
          /\ status' = [status EXCEPT ![cur[k]] = "PROCESSING"]
          /\ UNCHANGED <<paid, cur, snap>>
          /\ raced \subseteq raced'
          /\ cur[k] \notin raced' => status[cur[k]] = snap[k]
      BY <1>4 DEF Claim, RowShape
    <2>2. ASSUME cur[k] \notin raced'
          PROVE  /\ \A l \in Processes : ~ Owns(l, cur[k])
                 /\ snap[k] = "FAILED" \/ paid[cur[k]] = 0
      BY <2>1, <2>2 DEF StatusTellsPayment
    <2>3. ASSUME NEW l \in Processes \ {k}, pc'[l] \in {"pay", "notify"}, cur'[l] \notin raced'
          PROVE  /\ pc'[l] = pc[l] /\ cur[l] # cur[k] /\ cur[l] \in Payrolls
                 /\ status'[cur[l]] = status[cur[l]]
      <3>1. pc'[l] = pc[l] /\ cur'[l] = cur[l] /\ cur[l] \in Payrolls
        BY <2>1, <2>3 DEF TypeOK, RowShape
      <3>2. cur[l] # cur[k]
        BY <2>1, <2>2, <2>3, <3>1
      <3> QED BY <2>1, <3>1, <3>2 DEF TypeOK
    <2>4. ClaimIsExclusive'
      BY <2>1, <2>2, <2>3 DEF TypeOK
    <2>5. RunShape'
      BY <2>1, <2>2, <2>3 DEF TypeOK
    <2> QED BY <2>4, <2>5
  <1>5. ASSUME NEW k \in Processes, Pay(k)
        PROVE  RunInv'
    <2>1. /\ pc[k] = "pay" /\ cur[k] \in Payrolls
          /\ pc' = [pc EXCEPT ![k] = "notify"]
          /\ status' = [status EXCEPT ![cur[k]] = "COMPLETED"]
          /\ paid' = [paid EXCEPT ![cur[k]] = @ + 1]
          /\ UNCHANGED <<raced, cur, snap>>
      BY <1>5 DEF Pay, RowShape
    <2>2. ASSUME NEW l \in Processes \ {k}, pc'[l] \in {"pay", "notify"}, cur[l] \notin raced
          PROVE  /\ pc'[l] = pc[l]
                 /\ status'[cur[l]] = status[cur[l]] /\ paid'[cur[l]] = paid[cur[l]]
      <3>1. pc'[l] = pc[l] /\ cur[l] \in Payrolls
        BY <2>1, <2>2 DEF TypeOK, RowShape
      <3>2. cur[l] # cur[k]
        BY <2>1, <2>2, <3>1
      <3> QED BY <2>1, <3>1, <3>2 DEF TypeOK
    <2>3. ClaimIsExclusive'
      BY <2>1 DEF TypeOK
    <2>4. RunShape'
      BY <2>1, <2>2 DEF TypeOK
    <2> QED BY <2>3, <2>4
  <1>6. ASSUME NEW k \in Processes, NotifyAll(k) \/ Failure(k) \/ StatementFails(k)
        PROVE  RunInv'
    <2>1. /\ cur[k] \in Payrolls
          /\ Returns(k) \/ Throws(k)
          /\ UNCHANGED <<paid, raced>>
          /\ \/ UNCHANGED status
             \/ Owns(k, cur[k]) /\ status' = [status EXCEPT ![cur[k]] = "FAILED"]
      BY <1>6 DEF NotifyAll, Failure, StatusFailed, StatementFails, RowShape, rowVars
    <2> QED BY <2>1, CallLeaves
  <1>7. ASSUME NEW k \in Processes, Crash(k)
        PROVE  RunInv'
    BY <1>7 DEF Crash, TypeOK, rowVars
  <1>8. ASSUME NEW p \in Payrolls, Stalled(p)
        PROVE  RunInv'
    BY <1>8 DEF Stalled, rowVars, runVars
  <1>9. CASE UNCHANGED vars
    BY <1>9 DEF vars, rowVars, runVars
  <1> QED
    BY <1>1, <1>2, <1>3, <1>4, <1>5, <1>6, <1>7, <1>8, <1>9 DEF Next, Process

(* The inductive invariant, whatever the number of processes.              *)
THEOREM Inductive == Spec => []IInv
  <1>1. RowInv /\ RunInv /\ [Next]_vars => RunInv'
    BY RunStep
  <1>2. RowInv /\ RunInv => IInv
    BY DEF RowInv, RunInv, IInv
  <1> QED BY <1>1, <1>2, RunInit, RowInductive, PTL DEF Spec

(* Two processes pay, or notify for, one payroll at a time only after one  *)
(* of them claimed it on a status the other had changed.                   *)
THEOREM ClaimsAreExclusive == Spec => []ClaimIsExclusive
  <1>1. IInv => ClaimIsExclusive
    BY DEF IInv
  <1> QED BY <1>1, Inductive, PTL

(* Only Pay credits anyone, and the process that pays has the row in hand. *)
LEMMA PaysInHand ==
  ASSUME RowInv, RunShape, [Next]_vars, NEW p \in Payrolls,
         paid[p] > 0, paid'[p] # paid[p]
  PROVE  p \in raced \/ \E k \in Processes : cur[k] = p /\ snap[k] = "FAILED"
  <1>1. PICK k \in Processes : Pay(k)
    BY DEF Next, Process, Schedule, StartJob, NextDue, StartSweep, Pending, Find, Settled, Claim, NotifyAll,
           Failure, StatusFailed, StatementFails, Crash, Stalled, rowVars, vars
  <1>2. cur[k] = p
    BY <1>1 DEF Pay, RowInv, TypeOK
  <1>3. p \in raced \/ snap[k] = "FAILED"
    BY <1>1, <1>2 DEF Pay, RunShape
  <1> QED BY <1>2, <1>3

(* Neither a crash nor a stalled job nor a sweep nor any mixture of them   *)
(* pays a payroll a second time: a run that found it FAILED does, or one   *)
(* of two that met between the read and the claim.                         *)
THEOREM PaidAgainOnlyAfterFailure == Spec => RepaidOnlyAfterFailure
  <1>1. IInv /\ [Next]_vars =>
          [\A p \in Payrolls :
             paid[p] > 0 /\ paid'[p] # paid[p] =>
               \/ p \in raced
               \/ \E k \in Processes : cur[k] = p /\ snap[k] = "FAILED"]_vars
    BY PaysInHand DEF IInv, RowInv
  <1> QED BY <1>1, Inductive, PTL DEF Spec, RepaidOnlyAfterFailure

(***************************************************************************)
(* One server process.                                                     *)
(***************************************************************************)

OneProcessOnly == \A k, l \in Processes : k = l

(* What a process is about to claim on is still what it read.              *)
Fresh ==
  /\ raced = {}
  /\ \A k \in Processes : pc[k] = "claim" => status[cur[k]] = snap[k]

LEMMA FreshStep ==
  ASSUME OneProcessOnly, RowInv, Fresh, [Next]_vars
  PROVE  Fresh'
  <1> USE DEF RowInv, Fresh
  <1>1. ASSUME NEW p \in Payrolls, NEW enqueued \in BOOLEAN, Schedule(p, enqueued)
        PROVE  Fresh'
    BY <1>1 DEF Schedule, runVars, RowShape, TypeOK
  <1>2. ASSUME NEW k \in Processes,
               \/ \E p \in Payrolls : StartJob(k, p) \/ NextDue(k, p)
               \/ StartSweep(k)
               \/ Crash(k)
        PROVE  Fresh'
    BY <1>2 DEF StartJob, NextDue, StartSweep, Pending, Crash, TypeOK, rowVars, OneProcessOnly
  <1>3. ASSUME NEW k \in Processes, Find(k)
        PROVE  Fresh'
    <2>1. cur[k] \in Payrolls /\ UNCHANGED rowVars
      BY <1>3 DEF Find, Settled, RowShape
    <2>2. CASE status[cur[k]] \in {"COMPLETED", "PROCESSING"}
      <3>1. Returns(k)
        BY <1>3, <2>2 DEF Find, Settled
      <3> QED BY <2>1, <3>1, CallOver DEF OneProcessOnly, rowVars
    <2>3. CASE ~ (status[cur[k]] \in {"COMPLETED", "PROCESSING"})
      BY <1>3, <2>1, <2>3 DEF Find, Settled, TypeOK, rowVars, OneProcessOnly
    <2> QED BY <2>2, <2>3
  <1>4. ASSUME NEW k \in Processes, Claim(k) \/ Pay(k)
        PROVE  Fresh'
    BY <1>4 DEF Claim, Pay, TypeOK, OneProcessOnly
  <1>5. ASSUME NEW k \in Processes, NotifyAll(k) \/ Failure(k) \/ StatementFails(k)
        PROVE  Fresh'
    <2>1. cur[k] \in Payrolls /\ (Returns(k) \/ Throws(k)) /\ UNCHANGED raced
      BY <1>5 DEF NotifyAll, Failure, StatusFailed, StatementFails, RowShape, rowVars
    <2> QED BY <2>1, CallOver DEF OneProcessOnly
  <1>6. ASSUME NEW p \in Payrolls, Stalled(p)
        PROVE  Fresh'
    BY <1>6 DEF Stalled, rowVars, runVars
  <1>7. CASE UNCHANGED vars
    BY <1>7 DEF vars, rowVars, runVars
  <1> QED
    BY <1>1, <1>2, <1>3, <1>4, <1>5, <1>6, <1>7 DEF Next, Process

(* With one process no claim is ever made on a stale read, and so only a   *)
(* run that found a payroll FAILED pays it again.                          *)
THEOREM OneProcessNeverRaces ==
  ASSUME OneProcessOnly PROVE Spec => [](raced = {})
  <1>1. Init => Fresh
    BY DEF Init, Fresh
  <1>2. RowInv /\ Fresh /\ [Next]_vars => Fresh'
    BY FreshStep
  <1>3. Fresh => raced = {}
    BY DEF Fresh
  <1> QED BY <1>1, <1>2, <1>3, RowInductive, PTL DEF Spec
=============================================================================
