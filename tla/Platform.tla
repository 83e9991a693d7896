------------------------------ MODULE Platform ------------------------------
(***************************************************************************)
(* The parts of the platform beside the wallet plane: the identity of an   *)
(* employee, the failsafe of a cohort, the upload of salary files, and the *)
(* company dashboard with its payroll engine, its money routes on one      *)
(* ledger and its sign-in.  A behaviour is about one mix of requests.      *)
(***************************************************************************)
EXTENDS Identity, CohortFailsafe, SifUpload, DeskPayroll, DeskRoutes, DeskSessions

Ops == {"login", "kyc", "rescreen", "advance", "clear", "post", "tick", "patch", "retry tick",
        "transfer", "remit", "contribute", "repay", "pay turn", "upload",
        "ask", "enter", "refresh", "logout"}

CONSTANTS
  Mixes,      \* bound: how many requests of each kind one behaviour may have
  MaxFaults   \* bound: errors, crashes and deaths of requests

ASSUME MixesCountRequests == Mixes \subseteq [Ops -> Nat]

VARIABLES mix, faults

deskPlaneVars == <<deskVars, payrollVars, routeVars, sessionVars>>
vars == <<handlerVars, personVars, cohortVars, sifVars, deskPlaneVars, mix, faults>>

Has(ops) == \E op \in ops : mix[op] > 0
May(op) == Cardinality({n \in Requests : SameOp(n, op)}) < mix[op]

Init ==
  /\ InitHandlers
  /\ InitIdentity
  /\ InitCohortFailsafe
  /\ InitDesk
  /\ InitPayroll
  /\ InitRoutes
  /\ InitSifUpload
  /\ InitSessions
  /\ mix \in Mixes
  /\ faults = 0
  \* A part the behaviour is not about starts in one state.
  /\ Has({"login", "kyc", "rescreen", "advance"}) \/ status = "none"
  /\ Has({"tick"}) \/ schedule.plan = CHOOSE plan \in Plans : TRUE
  /\ (Has({"retry tick"}) /\ ~Has({"post"})) \/ records = <<>>
  /\ Has({"upload"}) \/ (cycles = <<>> /\ identified = CHOOSE ids \in KnownFirst : TRUE)
  /\ Has({"enter", "refresh"}) \/ person = "none"
  /\ Has({"enter"}) \/ otps = [p \in Purposes |-> NoOtp]

PersonFrame == UNCHANGED <<cohortVars, sifVars, deskPlaneVars>>
CohortFrame == UNCHANGED <<personVars, sifVars, deskPlaneVars>>
UploadFrame == UNCHANGED <<personVars, cohortVars, deskPlaneVars>>
PayrollFrame == UNCHANGED <<personVars, cohortVars, sifVars, routeVars, sessionVars>>
RouteFrame == UNCHANGED <<personVars, cohortVars, sifVars, payrollVars, sessionVars>>
SessionFrame == UNCHANGED <<personVars, cohortVars, sifVars, deskVars, payrollVars, routeVars>>

LoginNext ==
  /\ \/ Has({"login"}) /\ SendLoginCode
     \/ May("login") /\ \E code \in 1..codes, named \in BOOLEAN : Login(code, named)
     \/ \E n \in Requests : LoginSteps(n)
  /\ PersonFrame

ScreeningNext ==
  /\ \/ Has({"kyc", "rescreen"}) /\ IngestList
     \/ May("rescreen") /\ Rescreen
     \/ May("kyc") /\ \E verified \in BOOLEAN : SubmitDocument(verified)
     \/ \E n \in Requests : KycSteps(n) \/ RescreenSteps(n)
  /\ PersonFrame

AdvanceNext ==
  /\ \/ Has({"advance"}) /\ (SendStepCode \/ RevokeDevice)
     \/ May("advance") /\ \E code \in 1..codes : Advance(code)
     \/ \E n \in Requests : AdvanceSteps(n)
  /\ PersonFrame

CodesNext == CodeExpires /\ PersonFrame

CohortNext ==
  /\ \/ Has({"clear"}) /\ (RatioMoves \/ \E c \in Canaries : SweepSteps(c))
     \/ May("clear") /\ \E a, b \in Approvers : Clear(a, b)
     \/ \E n \in Requests : ClearSteps(n)
  /\ CohortFrame

PayrollNext ==
  /\ \/ Has({"tick"}) /\ DayPasses
     \/ May("tick") /\ Tick
     \/ May("patch") /\ (PatchPlan \/ PatchActive)
     \/ May("post") /\ PostRun
     \/ May("retry tick") /\ RetryTick
     \/ \E n \in Requests : RequestSteps(n)
     \/ \E j \in DOMAIN jobs : JobSteps(j)
     \/ \E k \in DOMAIN retries : RetrySteps(k)
  /\ PayrollFrame

RouteNext ==
  /\ \/ \E amount \in Amounts :
          \/ May("transfer") /\ Transfer(amount)
          \/ May("remit") /\ Remit(amount)
          \/ May("contribute") /\ Contribute(amount)
          \/ May("repay") /\ Repay(amount)
     \/ May("pay turn") /\ PayTurn
     \/ \E n \in Requests : RouteSteps(n)
  /\ RouteFrame

UploadNext ==
  /\ \/ Has({"upload"}) /\ VerifyWorker
     \/ May("upload") /\ \E file \in Files : Upload(file)
     \/ \E n \in Requests : UploadSteps(n)
  /\ UploadFrame

SessionNext ==
  /\ \/ Has({"ask"}) /\ (HourPasses \/ OtpExpires)
     \/ May("ask") /\ \E purpose \in Purposes : Ask(purpose)
     \/ May("enter") /\ \E purpose \in Purposes, code \in 0..sent, firm \in BOOLEAN :
                          (firm => purpose = "REGISTER") /\ Enter(purpose, code, firm)
     \/ May("refresh") /\ \E token \in given : Refresh(token)
     \/ May("logout") /\ \E token \in given : Logout(token)
     \/ \E n \in Requests : SessionSteps(n)
  /\ SessionFrame

(* The process of one request dies, and with it the request. *)
Dies(n) ==
  /\ n \in Busy
  /\ GoesTo(n, "died")
  /\ UNCHANGED <<personVars, cohortVars, sifVars, deskPlaneVars>>

Fault ==
  /\ faults < MaxFaults
  /\ faults' = faults + 1
  /\ UNCHANGED mix
  /\ \/ Has({"tick"}) /\ \E n \in Requests : Dies(n)
     \/ (\E c \in Canaries : SweepFails(c)) /\ CohortFrame
     \/ /\ Has({"post", "retry tick"})
        /\ \/ \E j \in DOMAIN jobs : EmployeeFails(j) \/ FailureIsNotRecorded(j) \/ JobFails(j)
           \/ \E k \in DOMAIN retries : RetryFails(k)
           \/ Crash
        /\ PayrollFrame
     \/ /\ Has({"enter", "refresh"})
        /\ (\E n \in Requests : WalletIsNotCreated(n)) \/ Restart
        /\ SessionFrame

Next ==
  \/ /\ \/ LoginNext \/ ScreeningNext \/ AdvanceNext \/ CodesNext \/ CohortNext
        \/ UploadNext \/ PayrollNext \/ RouteNext \/ SessionNext
     /\ UNCHANGED <<mix, faults>>
  \/ Fault

(* The cron runs a sweep every night: one that can go on does, in the end. *)
SweepGoesOn(c) == Has({"clear"}) /\ SweepSteps(c) /\ CohortFrame /\ UNCHANGED <<mix, faults>>
Fairness == \A c \in Canaries : WF_vars(SweepGoesOn(c))

Spec == Init /\ [][Next]_vars
FairSpec == Spec /\ Fairness

(***************************************************************************)
(* Properties                                                              *)
(***************************************************************************)

(* A login or step-up code lets two requests through only if one of them   *)
(* was in progress beside another of its kind: the code is read and        *)
(* deleted in two steps, and a call without a name puts it back.           *)
CodeUsedOnce ==
  \A u, v \in uses : u.op = v.op /\ u.code = v.code /\ u.by # v.by =>
    \E n \in Requests : SameOp(n, u.op) /\ (Overlapped(n, u.by) \/ Overlapped(n, v.by))

(* A blocked account leaves BLOCKED only by a request, a promotion or the  *)
(* card of a registration, that was in progress beside the screening that  *)
(* blocked it, or beside another that had.                                 *)
BlockHolds ==
  [][(status = "BLOCKED" /\ status' # "BLOCKED") =>
       \E n \in Requests, b \in incidents : request'[n] # request[n] /\ Overlapped(n, b)]_vars

(* An incident known when an advance is asked for stops it, even where a   *)
(* late promotion has made the account ACTIVE again.                       *)
KnownIncidentStopsAdvance == \A a \in advances : ~a.known

(* The flag says what the last row of the audit trail says and carries a   *)
(* reason; a trip is logged twice in a row, or a clear, only by one that   *)
(* had read the flag before the other wrote; two people made each clear.   *)
FailsafeTrail ==
  /\ failsafe.active <=> (trail # <<>> /\ trail[Len(trail)].action = "TRIPPED")
  /\ failsafe.active => failsafe.reason
  /\ \A i \in DOMAIN trail :
       /\ trail[i].action = "CLEARED" => i > 1 /\ Cardinality(trail[i].by) = 2
       /\ i > 1 /\ trail[i].action = trail[i - 1].action => trail[i].behind > 0

(* A cohort above the threshold is capped in the end, unless it recovers   *)
(* first: no late refresh, failure or clear leaves it out for good.        *)
BreachTrips == breach ~> (failsafe.active \/ ~breach)

SalariesOf(j, e) ==
  {row \in entries : row.type = "SALARY_CREDIT" /\ row.user = e /\ records[row.ref[2]].job = j}
TicksOverlap(op) ==
  \E m, n \in Requests : Overlapped(m, n) /\ SameOp(m, op) /\ SameOp(n, op)

(* A run pays an employee once; each error or crash can pay an employee    *)
(* once more, and only two overlapping retry ticks can do worse.           *)
PaidOncePerRun ==
  \A j \in 0..Len(jobs), e \in Staff :
    Cardinality(SalariesOf(j, e)) > 1 + faults => TicksOverlap("retry tick")

(* A tick that ran a biweekly plan whose next run is not ahead was in      *)
(* progress beside the request that replaced the plan.                     *)
LatePlanLingers ==
  \E k \in DOMAIN jobs, p \in Requests :
    jobs[k].scheduled /\ jobs[k].late /\ SameOp(p, "patch") /\ Overlapped(p, jobs[k].from)

(* A schedule is run twice in a day only by overlapping ticks, by one that *)
(* died before it moved the next run, or because the next run of a         *)
(* biweekly plan is not ahead: one of the two ran such a plan, or a tick   *)
(* that still held such a plan has put its next run over the new one's.    *)
RunsOncePerDay ==
  \A i, j \in DOMAIN jobs :
    (i # j /\ jobs[i].scheduled /\ jobs[j].scheduled /\ jobs[i].day = jobs[j].day) =>
      \/ jobs[i].late \/ jobs[j].late
      \/ Overlapped(jobs[i].from, jobs[j].from)
      \/ LatePlanLingers
      \/ faults > 0

(* What a cycle owes its workers and what the file pays to those without   *)
(* a verified identity or a wage vehicle when it came add up to the file's *)
(* trailer, but for a fil: nobody who was known is left out, and nobody is *)
(* paid beyond it.  And a file the screen blocks against the cycles before *)
(* it has become one only beside another upload.                           *)
CyclesAreAccounted ==
  \A i \in DOMAIN cycles :
    LET c == cycles[i]
        before == {cycles[j] : j \in 1..(i - 1)}
        unknown == {row \in SalaryRows(c.file) :
                      row.id \notin c.known \/ HolderOf[row.id] \notin Payable} IN
    /\ CycleTotal(c) <= TrailerOf(c.file).total + Fil
    /\ TrailerOf(c.file).total <= CycleTotal(c) + TotalPay(unknown) + Fil
    /\ Blocked(SalaryRows(c.file), History(before)) => \E d \in before : Overlapped(c.by, d.by)

(* A code lets one request in.  A login has one refresh token at a time,   *)
(* none after it was logged out with it unless a refresh was in progress,  *)
(* and the token it was last given works unless another request was in     *)
(* progress with the refresh that gave it, or the process has restarted.   *)
(* An account has a wallet, unless its registration goes on or has died.   *)
SessionsFollowCodes ==
  /\ \A u, v \in entered : u.code = v.code => u = v
  /\ \A t, u \in live : t.login = u.login => t = u
  /\ \A e \in ended : (e.fresh /\ \E t \in live : t.login = e.login) =>
       \E n \in Requests : SameOp(n, "refresh") /\ Overlapped(n, e.by)
  /\ \A t \in given \ (live \cup spent) :
       \/ faults > 0
       \/ \E n \in Requests : Overlapped(n, t.by)
  /\ purse \/ person = "none" \/ \E n \in Requests :
       SameOp(n, "enter") /\ request[n].at \in {"creates wallet", "died"}

Total(rows) == SumFunction([row \in rows |-> row.amount])
DebitsOf(u) == {row \in entries : row.user = u /\ row.takes > 0}
SomeOverlap(rows) == \E r, s \in rows : r.by # s.by /\ Overlapped(r.by[2], s.by[2])
TurnsPaid == {row \in entries : row.type = "SPEND"}

(* Every balance is what its rows made of it and is overdrawn only by      *)
(* overlapping debits; a goal holds its contributions and a loan owes what *)
(* is not repaid unless two of them overlapped; no turn of a circle is     *)
(* paid twice in a round unless two payments overlapped.                   *)
DeskTotalsFollowRows ==
  /\ \A u \in Users :
       /\ balance[u] = DeskOpening[u] + GivenTo(u, entries)
       /\ balance[u] < 0 => SomeOverlap(DebitsOf(u))
  /\ SomeOverlap(contributions) \/ savings.amount = Total(contributions)
  /\ SomeOverlap(repayments) \/ loan.owed = LoanAmount - Total(repayments)
  /\ SomeOverlap(TurnsPaid) \/ \A turn \in circle.paid :
       Cardinality({row \in TurnsPaid : row.ref[2] = turn}) = 1
============================================================================
