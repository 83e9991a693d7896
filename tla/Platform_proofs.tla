-------------------------- MODULE Platform_proofs --------------------------
(***************************************************************************)
(* Proofs about Platform, for any number of requests, sweeps, days, users  *)
(* and faults: known incidents stop advances, a block holds, a code lets   *)
(* in one request, sessions follow codes, the failsafe follows its audit   *)
(* trail, a schedule runs once in a day, a run pays an employee once, the  *)
(* dashboard's totals follow its rows, and a cycle is what its file owes.  *)
(***************************************************************************)
EXTENDS Platform, Handlers_proofs, SumTheorems

(***************************************************************************)
(* What each group of actions does to the requests.                        *)
(***************************************************************************)
LEMMA LoginRequests == ASSUME HandlerInv, LoginNext PROVE HandlerStep({"login"})
  <1>1. CASE SendLoginCode
    BY <1>1, HandlersRest DEF SendLoginCode
  <1>2. CASE \E code \in 1..codes, named \in BOOLEAN : Login(code, named)
    <2>1. PICK code, named : Login(code, named)
      BY <1>2
    <2> DEFINE r == [op |-> "login", at |-> "reads code", code |-> code, named |-> named]
    <2>2. IsRequest(r) /\ r # NotYet /\ r.op = "login"
      BY DEF IsRequest, NotYet
    <2>3. Arrives(r)
      BY <2>1 DEF Login, PersonArrives
    <2> QED BY <2>2, <2>3, Arriving
  <1>3. CASE \E n \in Requests : LoginSteps(n)
    <2>1. PICK n \in Requests : LoginSteps(n)
      BY <1>3
    <2>2. n \in Busy /\ request[n].op = "login"
      BY <2>1, IsBusy DEF LoginSteps, ReadLoginCode, DropLoginCode, FindAccount, StoreCodeAgain,
                          Register, CardActivates, CardFails, SignIn, Ended
    <2>3. Proceeds(n)
      BY <2>1 DEF LoginSteps, ReadLoginCode, DropLoginCode, FindAccount, StoreCodeAgain,
                  Register, CardActivates, CardFails, SignIn, Moves, Proceeds
    <2> QED BY <2>2, <2>3, Proceeding
  <1> QED BY <1>1, <1>2, <1>3 DEF LoginNext

LEMMA ScreeningRequests == ASSUME HandlerInv, ScreeningNext PROVE HandlerStep({"kyc", "rescreen"})
  <1>1. CASE IngestList
    BY <1>1, HandlersRest DEF IngestList
  <1>2. CASE Rescreen
    <2> DEFINE r == [op |-> "rescreen", at |-> "lists accounts"]
    <2>1. IsRequest(r) /\ r # NotYet /\ r.op = "rescreen"
      BY DEF IsRequest, NotYet
    <2>2. Arrives(r)
      BY <1>2 DEF Rescreen, PersonArrives
    <2> QED BY <2>1, <2>2, Arriving
  <1>3. CASE \E verified \in BOOLEAN : SubmitDocument(verified)
    <2>1. PICK verified : SubmitDocument(verified)
      BY <1>3
    <2> DEFINE r == [op |-> "kyc", at |-> "reads account", verified |-> verified]
    <2>2. IsRequest(r) /\ r # NotYet /\ r.op = "kyc"
      BY DEF IsRequest, NotYet
    <2>3. Arrives(r)
      BY <2>1 DEF SubmitDocument, PersonArrives
    <2> QED BY <2>2, <2>3, Arriving
  <1>4. CASE \E n \in Requests : KycSteps(n)
    <2>1. PICK n \in Requests : KycSteps(n)
      BY <1>4
    <2>2. n \in Busy /\ request[n].op = "kyc"
      BY <2>1, IsBusy DEF KycSteps, ReadAccount, ExtractorFails, ScreenDocument, CommitDocument, Ended
    <2>3. Proceeds(n)
      <3>1. CASE ReadAccount(n)
        BY <2>2, <3>1 DEF ReadAccount, Proceeds, IsRequest, NotYet
      <3>2. CASE ScreenDocument(n)
        BY <2>2, <3>2 DEF ScreenDocument, Proceeds, IsRequest, NotYet
      <3>3. CASE ExtractorFails(n) \/ CommitDocument(n)
        BY <3>3 DEF ExtractorFails, CommitDocument, Moves, Proceeds
      <3> QED BY <2>1, <3>1, <3>2, <3>3 DEF KycSteps
    <2> QED BY <2>2, <2>3, Proceeding
  <1>5. CASE \E n \in Requests : RescreenSteps(n)
    <2>1. PICK n \in Requests : RescreenSteps(n)
      BY <1>5
    <2>2. n \in Busy /\ request[n].op = "rescreen"
      BY <2>1, IsBusy DEF RescreenSteps, ListAccounts, ScreenAccount, LookForIncident, OpenIncident, Ended
    <2>3. Proceeds(n)
      <3>1. CASE ListAccounts(n)
        BY <2>2, <3>1 DEF ListAccounts, Proceeds, IsRequest, NotYet
      <3>2. CASE ScreenAccount(n) \/ LookForIncident(n) \/ OpenIncident(n)
        BY <3>2 DEF ScreenAccount, LookForIncident, OpenIncident, Moves, Proceeds
      <3> QED BY <2>1, <3>1, <3>2 DEF RescreenSteps
    <2> QED BY <2>2, <2>3, Proceeding
  <1> QED BY <1>1, <1>2, <1>3, <1>4, <1>5 DEF ScreeningNext

LEMMA AdvanceRequests == ASSUME HandlerInv, AdvanceNext PROVE HandlerStep({"advance"})
  <1>1. CASE SendStepCode \/ RevokeDevice
    BY <1>1, HandlersRest DEF SendStepCode, RevokeDevice
  <1>2. CASE \E code \in 1..codes : Advance(code)
    <2>1. PICK code : Advance(code)
      BY <1>2
    <2> DEFINE r == [op |-> "advance", at |-> "finds device", code |-> code, known |-> incidents # {}]
    <2>2. IsRequest(r) /\ r # NotYet /\ r.op = "advance"
      BY DEF IsRequest, NotYet
    <2>3. Arrives(r)
      BY <2>1 DEF Advance, PersonArrives
    <2> QED BY <2>2, <2>3, Arriving
  <1>3. CASE \E n \in Requests : AdvanceSteps(n)
    <2>1. PICK n \in Requests : AdvanceSteps(n)
      BY <1>3
    <2>2. n \in Busy /\ request[n].op = "advance"
      BY <2>1, IsBusy DEF AdvanceSteps, FindDevice, BindDevice, ReadStepCode, DropStepCode,
                          ReadStatus, ReadIncidents, Reserve, Ended
    <2>3. Proceeds(n)
      BY <2>1 DEF AdvanceSteps, FindDevice, BindDevice, ReadStepCode, DropStepCode,
                  ReadStatus, ReadIncidents, Reserve, Moves, Proceeds
    <2> QED BY <2>2, <2>3, Proceeding
  <1> QED BY <1>1, <1>2, <1>3 DEF AdvanceNext

LEMMA CohortRequests == ASSUME HandlerInv, CohortNext PROVE HandlerStep({"clear"})
  <1>1. CASE RatioMoves \/ \E c \in Canaries : SweepSteps(c)
    <2>1. UNCHANGED handlerVars
      BY <1>1 DEF RatioMoves, SweepSteps, SweepCompiles, SweepReads, Refreshes, Trips
    <2> QED BY <2>1, HandlersRest
  <1>2. CASE \E a, b \in Approvers : Clear(a, b)
    <2>1. PICK a, b \in Approvers : Clear(a, b)
      BY <1>2
    <2> DEFINE r == [op |-> "clear", at |-> "checks approvers", by |-> {a, b}]
    <2>2. IsRequest(r) /\ r # NotYet /\ r.op = "clear"
      BY DEF IsRequest, NotYet
    <2>3. Arrives(r)
      BY <2>1 DEF Clear
    <2> QED BY <2>2, <2>3, Arriving
  <1>3. CASE \E n \in Requests : ClearSteps(n)
    <2>1. PICK n \in Requests : ClearSteps(n)
      BY <1>3
    <2>2. n \in Busy /\ request[n].op = "clear"
      BY <2>1, IsBusy DEF ClearSteps, CheckApprovers, ReadFlag, WriteClear, Ended
    <2>3. Proceeds(n)
      <3>1. CASE ReadFlag(n)
        BY <2>2, <3>1 DEF ReadFlag, Proceeds, IsRequest, NotYet
      <3>2. CASE CheckApprovers(n) \/ WriteClear(n)
        BY <3>2 DEF CheckApprovers, WriteClear, Proceeds
      <3> QED BY <2>1, <3>1, <3>2 DEF ClearSteps
    <2> QED BY <2>2, <2>3, Proceeding
  <1> QED BY <1>1, <1>2, <1>3 DEF CohortNext

PayrollOps == {"post", "tick", "patch", "retry tick"}
RouteOps == {"transfer", "remit", "contribute", "repay", "pay turn"}
SessionOps == {"ask", "enter", "refresh", "logout"}

LEMMA PayrollRequests == ASSUME HandlerInv, PayrollNext PROVE HandlerStep(PayrollOps)
  <1>1. CASE DayPasses \/ (\E j \in DOMAIN jobs : JobSteps(j)) \/ (\E k \in DOMAIN retries : RetrySteps(k))
    <2>1. UNCHANGED handlerVars
      BY <1>1 DEF DayPasses, JobSteps, JobStarts, Pays, HasNoWallet, Logs, RecordsFailure, JobCompletes,
                  RetrySteps, RetryReads, RetryResets, RetryCredits
    <2> QED BY <2>1, HandlersRest
  <1>2. CASE Tick \/ PatchPlan \/ PatchActive \/ PostRun \/ RetryTick
    <2>1. Enters(PayrollOps)
      BY <1>2 DEF Enters, Tick, PatchPlan, PatchActive, PostRun, RetryTick, IsRequest, NotYet, PayrollOps
    <2> QED BY <2>1, Arriving DEF Enters
  <1>3. CASE \E n \in Requests : RequestSteps(n)
    <2>1. PICK n \in Requests : RequestSteps(n)
      BY <1>3
    <2>2. n \in Busy /\ request[n].op \in PayrollOps
      BY <2>1, IsBusy DEF RequestSteps, QueuePosted, FindDue, QueueDue, MoveNextRun,
                          ListFailed, QueueRetry, BackoffHolds, Escalate, MarkPending, Ended, PayrollOps
    <2>3. CASE QueuePosted(n) \/ QueueDue(n) \/ MoveNextRun(n)
      BY <2>2, <2>3, Proceeding DEF QueuePosted, QueueDue, MoveNextRun, Proceeds
    <2>4. CASE FindDue(n)
      <3>1. Proceeds(n)
        BY <2>4 DEF FindDue, Proceeds, Is, IsRequest, NotYet
      <3> QED BY <2>2, <3>1, Proceeding
    <2>5. CASE ListFailed(n)
      <3>1. Proceeds(n)
        BY <2>5 DEF ListFailed, Proceeds, Is, IsRequest, NotYet
      <3> QED BY <2>2, <3>1, Proceeding
    <2>6. CASE QueueRetry(n)
      <3>1. Proceeds(n)
        BY <2>6 DEF QueueRetry, Proceeds, Is, IsRequest, NotYet
      <3> QED BY <2>2, <3>1, Proceeding
    <2>7. CASE BackoffHolds(n) \/ Escalate(n) \/ MarkPending(n)
      <3>1. NextFailed(n) /\ request[n].op = "retry tick"
        BY <2>7 DEF BackoffHolds, Escalate, MarkPending, Is
      <3>2. Proceeds(n)
        BY <3>1 DEF NextFailed, Proceeds, IsRequest, NotYet
      <3> QED BY <2>2, <3>2, Proceeding
    <2> QED BY <2>1, <2>3, <2>4, <2>5, <2>6, <2>7 DEF RequestSteps
  <1> QED BY <1>1, <1>2, <1>3 DEF PayrollNext

LEMMA RouteRequests == ASSUME HandlerInv, RouteNext PROVE HandlerStep(RouteOps)
  <1>1. CASE \/ \E amount \in Amounts : Transfer(amount) \/ Remit(amount) \/ Contribute(amount) \/ Repay(amount)
             \/ PayTurn
    <2>1. Enters(RouteOps)
      BY <1>1 DEF Enters, Transfer, Remit, Contribute, Repay, PayTurn, RouteArrives, IsRequest, NotYet, RouteOps
    <2> QED BY <2>1, Arriving DEF Enters
  <1>2. CASE \E n \in Requests : RouteSteps(n)
    <2>1. PICK n \in Requests : RouteSteps(n)
      BY <1>2
    <2>2. n \in Busy /\ request[n].op \in RouteOps
      <3>1. CASE ReadBalance(n)
        BY <3>1 DEF ReadBalance, Busy, Ended, RouteOps
      <3>2. CASE ~ReadBalance(n)
        BY <2>1, <3>2, IsBusy DEF RouteSteps, BookTransfer, BookRemittance, ReadGoal, WriteGoal, ReadLoan,
                                  WriteLoan, ReadCircle, WriteCircle, Ended, RouteOps
      <3> QED BY <3>1, <3>2
    <2>3. CASE BookTransfer(n) \/ BookRemittance(n) \/ WriteGoal(n) \/ WriteLoan(n) \/ WriteCircle(n)
      BY <2>2, <2>3, Proceeding DEF BookTransfer, BookRemittance, WriteGoal, WriteLoan, WriteCircle, Proceeds
    <2>4. CASE ReadBalance(n) \/ ReadGoal(n) \/ ReadLoan(n) \/ ReadCircle(n)
      <3>1. CASE GoesTo(n, "refused")
        BY <2>2, <3>1, Proceeding DEF Proceeds
      <3>2. CASE \E r : IsRequest(r) /\ r # NotYet /\ r.op = request[n].op /\ Becomes(n, r)
        BY <2>2, <3>2, Proceeding DEF Proceeds
      <3> QED BY <2>4, <3>1, <3>2
              DEF ReadBalance, ReadGoal, ReadLoan, ReadCircle, Decides, Is, IsRequest, NotYet
    <2> QED BY <2>1, <2>3, <2>4 DEF RouteSteps
  <1> QED BY <1>1, <1>2 DEF RouteNext

LEMMA UploadRequests == ASSUME HandlerInv, UploadNext PROVE HandlerStep({"upload"})
  <1>1. CASE VerifyWorker
    BY <1>1, HandlersRest DEF VerifyWorker
  <1>2. CASE \E file \in Files : Upload(file)
    <2>1. Enters({"upload"})
      BY <1>2 DEF Enters, Upload, IsRequest, NotYet
    <2> QED BY <2>1, Arriving DEF Enters
  <1>3. CASE \E n \in Requests : UploadSteps(n)
    <2>1. PICK n \in Requests : UploadSteps(n)
      BY <1>3
    <2>2. n \in Busy /\ request[n].op = "upload"
      BY <2>1 DEF UploadSteps, LookUpFile, ReadHistory, Screen, MatchWorkers, WriteCycle, SifStep, Busy, Ended
    <2>3. Proceeds(n)
      <3>1. CASE LookUpFile(n) \/ Screen(n) \/ WriteCycle(n)
        BY <3>1 DEF LookUpFile, Screen, WriteCycle, Proceeds
      <3>2. CASE ReadHistory(n)
        BY <2>2, <3>2 DEF ReadHistory, Proceeds, IsRequest, NotYet
      <3>3. CASE MatchWorkers(n)
        BY <2>2, <3>3 DEF MatchWorkers, Proceeds, IsRequest, NotYet
      <3> QED BY <2>1, <3>1, <3>2, <3>3 DEF UploadSteps
    <2> QED BY <2>2, <2>3, Proceeding
  <1> QED BY <1>1, <1>2, <1>3 DEF UploadNext

LEMMA SessionRequests == ASSUME HandlerInv, SessionNext PROVE HandlerStep(SessionOps)
  <1>1. CASE HourPasses \/ OtpExpires
    BY <1>1, HandlersRest DEF HourPasses, OtpExpires
  <1>2. CASE \/ \E purpose \in Purposes : Ask(purpose)
             \/ \E purpose \in Purposes, code \in 0..sent, firm \in BOOLEAN : Enter(purpose, code, firm)
             \/ \E token \in given : Refresh(token) \/ Logout(token)
    <2>1. Enters(SessionOps)
      BY <1>2 DEF Enters, Ask, Enter, Refresh, Logout, SessionArrives, IsRequest, NotYet, SessionOps
    <2> QED BY <2>1, Arriving DEF Enters
  <1>3. CASE \E n \in Requests : SessionSteps(n)
    <2>1. PICK n \in Requests : SessionSteps(n)
      BY <1>3
    <2>2. n \in Busy /\ request[n].op \in SessionOps
      BY <2>1 DEF SessionSteps, CountAsk, LookUpPhone, CheckOtp, FindUser, CreateUser, CreateWallet,
                  LookUpCompany, CreateCompany, IssueToken, CheckToken, Rotate, RemoveToken,
                  SessionStep, Busy, Ended, SessionOps
    <2>3. Proceeds(n)
      <3>1. CASE CountAsk(n) \/ LookUpPhone(n)
        BY <3>1 DEF CountAsk, LookUpPhone, Proceeds
      <3>2. CASE CheckOtp(n)
        <4>1. GoesTo(n, "refused") \/ GoesTo(n, NextOf(request[n]))
          BY <3>2 DEF CheckOtp
        <4>2. NextOf(request[n]) \in {"looks up company", "creates user", "finds user"}
          BY DEF NextOf
        <4> QED BY <4>1, <4>2 DEF Proceeds
      <3>3. CASE FindUser(n) \/ CreateUser(n) \/ CreateWallet(n) \/ LookUpCompany(n) \/ CreateCompany(n)
        BY <3>3 DEF FindUser, CreateUser, CreateWallet, LookUpCompany, CreateCompany, Proceeds
      <3>4. CASE IssueToken(n) \/ CheckToken(n) \/ Rotate(n) \/ RemoveToken(n)
        BY <3>4 DEF IssueToken, CheckToken, Rotate, RemoveToken, Proceeds
      <3> QED BY <2>1, <3>1, <3>2, <3>3, <3>4 DEF SessionSteps
    <2> QED BY <2>2, <2>3, Proceeding
  <1> QED BY <1>1, <1>2, <1>3 DEF SessionNext

LEMMA CrashRequests == ASSUME HandlerInv, Crash \/ Restart PROVE Killing
  <1> DEFINE dead(n) == [op |-> request[n].op, at |-> "died"]
  <1>1. \A n \in Requests : request'[n] = IF n \in Busy THEN dead(n) ELSE request[n]
    BY DEF Crash, Restart
  <1>2. request' = [n \in Requests |-> request'[n]] /\ met' = met
    BY DEF Crash, Restart
  <1>3. \A n \in Requests : /\ dead(n).at = "died" /\ dead(n).op = request[n].op
                            /\ dead(n) # NotYet /\ IsRequest(dead(n))
    BY DEF IsRequest, NotYet
  <1> HIDE DEF dead
  <1>4. RequestShape'
    BY <1>1, <1>2, <1>3 DEF HandlerInv, RequestShape, IsRequest
  <1>5. Busy' = {}
    BY <1>1, <1>3 DEF Busy, Ended
  <1> QED BY <1>1, <1>2, <1>3, <1>4, <1>5 DEF Killing, HandlerInv, BusyMet

LEMMA FaultRequests == ASSUME HandlerInv, Fault PROVE Killing
  <1>1. CASE \E n \in Requests : Dies(n) \/ WalletIsNotCreated(n)
    <2>1. PICK n \in Busy : GoesTo(n, "died") /\ request[n] # NotYet
      <3>1. NotYet.at \in Ended
        BY DEF NotYet, Ended
      <3>2. PICK n \in Requests : Dies(n) \/ WalletIsNotCreated(n)
        BY <1>1
      <3>3. n \in Busy /\ GoesTo(n, "died")
        BY <3>2 DEF Dies, WalletIsNotCreated, SessionStep, Busy, Ended
      <3> QED BY <3>1, <3>3 DEF Busy
    <2>2. /\ HandlerStep({request[n].op})
          /\ request'[n].at = "died" /\ request'[n].op = request[n].op
      BY <2>1, Going
    <2>3. met' = met /\ \A m \in Requests \ {n} : request'[m] = request[m]
      BY <2>1 DEF GoesTo, Becomes, HandlerInv, RequestShape
    <2> QED BY <2>1, <2>2, <2>3 DEF HandlerStep, Killing, Busy
  <1>2. CASE Crash \/ Restart
    BY <1>2, CrashRequests
  <1>3. CASE /\ UNCHANGED handlerVars
    <2>1. HandlerStep(Ops)
      BY <1>3, HandlersRest
    <2> QED BY <1>3, <2>1 DEF Killing, HandlerStep, handlerVars
  <1>4. \/ \E n \in Requests : Dies(n) \/ WalletIsNotCreated(n)
        \/ Crash \/ Restart
        \/ UNCHANGED handlerVars
    BY DEF Fault, SweepFails, EmployeeFails, FailureIsNotRecorded, JobFails, RetryFails
  <1> QED BY <1>1, <1>2, <1>3, <1>4

(***************************************************************************)
(* Requests keep their shape, and their operation, in every step.          *)
(***************************************************************************)
LEMMA StepKeepsRequests ==
  ASSUME HandlerInv, [Next]_vars
  PROVE  HandlerInv' /\ met \subseteq met' /\ OpsKept
  <1>1. ASSUME NEW ops, HandlerStep(ops) PROVE HandlerInv' /\ met \subseteq met' /\ OpsKept
    BY <1>1 DEF HandlerStep, OpsKept
  <1>2. CASE LoginNext
    BY <1>1, <1>2, LoginRequests
  <1>3. CASE ScreeningNext
    BY <1>1, <1>3, ScreeningRequests
  <1>4. CASE AdvanceNext
    BY <1>1, <1>4, AdvanceRequests
  <1>5. CASE CohortNext
    BY <1>1, <1>5, CohortRequests
  <1>6. CASE PayrollNext
    BY <1>1, <1>6, PayrollRequests
  <1>7. CASE RouteNext
    BY <1>1, <1>7, RouteRequests
  <1>8. CASE CodesNext \/ UNCHANGED vars
    <2>1. UNCHANGED handlerVars
      BY <1>8 DEF CodesNext, CodeExpires, vars
    <2> QED BY <1>1, <2>1, HandlersRest
  <1>9. CASE Fault
    BY <1>9, FaultRequests DEF Killing, OpsKept
  <1>10. CASE UploadNext
    BY <1>1, <1>10, UploadRequests
  <1>11. CASE SessionNext
    BY <1>1, <1>11, SessionRequests
  <1> QED BY <1>2, <1>3, <1>4, <1>5, <1>6, <1>7, <1>8, <1>9, <1>10, <1>11 DEF Next

(* Two requests for one operation stay so, and stay overlapped. *)
LEMMA SameOpKept ==
  ASSUME HandlerInv, [Next]_vars, NEW n \in Requests, NEW op, SameOp(n, op)
  PROVE  SameOp(n, op)'
  BY StepKeepsRequests DEF OpsKept, SameOp

(* Of the groups of actions only its own moves a request for op. *)
LEMMA OnlyItsGroup ==
  ASSUME HandlerInv, [Next]_vars
  PROVE  /\ LoginNext \/ Untouched("login")
         /\ ScreeningNext \/ Untouched("kyc")
         /\ AdvanceNext \/ Untouched("advance")
         /\ CohortNext \/ Untouched("clear")
  <1> DEFINE All == {"login", "kyc", "advance", "clear"}
  <1>1. ASSUME NEW ops, HandlerStep(ops), NEW op \in All, op \notin ops PROVE Untouched(op)
    BY <1>1, OthersUntouched
  <1>2. CASE LoginNext \/ ScreeningNext \/ AdvanceNext \/ CohortNext \/ UploadNext
    BY <1>1, <1>2, LoginRequests, ScreeningRequests, AdvanceRequests, CohortRequests, UploadRequests
  <1>3. CASE PayrollNext \/ RouteNext \/ SessionNext
    <2>1. \A op \in All : op \notin PayrollOps /\ op \notin RouteOps /\ op \notin SessionOps
      BY DEF PayrollOps, RouteOps, SessionOps
    <2> QED BY <1>1, <1>3, <2>1, PayrollRequests, RouteRequests, SessionRequests
  <1>4. CASE CodesNext \/ UNCHANGED vars
    <2>1. UNCHANGED handlerVars
      BY <1>4 DEF CodesNext, CodeExpires, vars
    <2>2. HandlerStep({})
      BY <2>1, HandlersRest
    <2> QED BY <1>1, <2>2
  <1>5. CASE Fault
    BY <1>5, FaultRequests, KilledOnly
  <1> QED BY <1>2, <1>3, <1>4, <1>5 DEF Next

(* A fault leaves the person and, but for a failing sweep, the cohort. *)
LEMMA FaultFrame == ASSUME Fault PROVE UNCHANGED personVars /\ UNCHANGED <<failsafe, trail>>
  BY DEF Fault, Dies, CohortFrame, PayrollFrame, SessionFrame, SweepFails, cohortVars

(* What the company does leaves the person as they are. *)
CompanyNext == CohortNext \/ UploadNext \/ PayrollNext \/ RouteNext \/ SessionNext

LEMMA CompanyLeavesPerson == ASSUME CompanyNext PROVE UNCHANGED personVars
  BY DEF CompanyNext, CohortNext, CohortFrame, UploadNext, UploadFrame, PayrollNext, PayrollFrame,
         RouteNext, RouteFrame, SessionNext, SessionFrame

(***************************************************************************)
(* KnownIncidentStopsAdvance                                               *)
(***************************************************************************)

(* A request that came in with an incident known has not passed the gate. *)
KnownIsStopped(n) ==
  LET r == request[n] IN
  /\ {"known", "code"} \subseteq DOMAIN r
  /\ r.known => incidents # {}
  /\ r.at = "reserves" => ~r.known

GateInv ==
  /\ \A n \in Busy : request[n].op = "advance" => KnownIsStopped(n)
  /\ KnownIncidentStopsAdvance

LEMMA GateInit == Init => GateInv
  <1> SUFFICES ASSUME Init PROVE GateInv
    OBVIOUS
  <1>1. Busy = {}
    BY DEF Init, InitHandlers, Busy, Ended, NotYet
  <1> QED BY <1>1 DEF Init, InitIdentity, GateInv, KnownIncidentStopsAdvance

LEMMA IncidentsGrow == ASSUME [Next]_vars PROVE incidents \subseteq incidents'
  <1>1. CASE ScreeningNext
    BY <1>1 DEF ScreeningNext, IngestList, Rescreen, SubmitDocument, PersonArrives, KycSteps, RescreenSteps,
                ReadAccount, ExtractorFails, ScreenDocument, CommitDocument, ListAccounts, ScreenAccount,
                LookForIncident, OpenIncident, Moves, personVars, screenVars
  <1>2. CASE LoginNext
    BY <1>2 DEF LoginNext, SendLoginCode, Login, PersonArrives, LoginSteps, ReadLoginCode, DropLoginCode,
                FindAccount, StoreCodeAgain, SignIn, Register, CardActivates, CardFails, Moves, personVars,
                screenVars
  <1>3. CASE AdvanceNext
    BY <1>3 DEF AdvanceNext, SendStepCode, RevokeDevice, Advance, PersonArrives, AdvanceSteps, FindDevice,
                BindDevice, ReadStepCode, DropStepCode, ReadStatus, ReadIncidents, Reserve, Moves,
                personVars, screenVars
  <1>4. CASE CodesNext \/ CompanyNext \/ UNCHANGED vars
    BY <1>4, CompanyLeavesPerson DEF CodesNext, CodeExpires, vars, personVars, screenVars
  <1>5. CASE Fault
    BY <1>5, FaultFrame DEF personVars, screenVars
  <1> QED BY <1>1, <1>2, <1>3, <1>4, <1>5 DEF Next, CompanyNext

(* Only Reserve grants an advance. *)
LEMMA AdvancesElsewhere == ASSUME [Next]_vars PROVE AdvanceNext \/ UNCHANGED advances
  <1>1. CASE ScreeningNext
    BY <1>1 DEF ScreeningNext, IngestList, Rescreen, SubmitDocument, PersonArrives, KycSteps, RescreenSteps,
                ReadAccount, ExtractorFails, ScreenDocument, CommitDocument, ListAccounts, ScreenAccount,
                LookForIncident, OpenIncident, Moves, personVars
  <1>2. CASE LoginNext
    BY <1>2 DEF LoginNext, SendLoginCode, Login, PersonArrives, LoginSteps, ReadLoginCode, DropLoginCode,
                FindAccount, StoreCodeAgain, SignIn, Register, CardActivates, CardFails, Moves, personVars
  <1>3. CASE CodesNext \/ CompanyNext \/ UNCHANGED vars
    BY <1>3, CompanyLeavesPerson DEF CodesNext, CodeExpires, vars, personVars
  <1>4. CASE Fault
    BY <1>4, FaultFrame DEF personVars
  <1> QED BY <1>1, <1>2, <1>3, <1>4 DEF Next, CompanyNext

LEMMA GateStep == ASSUME HandlerInv, GateInv, [Next]_vars PROVE GateInv'
  <1>1. HandlerInv' /\ incidents \subseteq incidents'
    BY StepKeepsRequests, IncidentsGrow
  <1>2. CASE Untouched("advance") /\ UNCHANGED advances
    <2>1. \A n \in Busy' : request'[n].op = "advance" => n \in Busy /\ request'[n] = request[n]
      <3>1. \A n \in Busy' : request'[n] # NotYet /\ request'[n].at # "died"
        BY BusyIsLive
      <3> QED BY <1>2, <3>1 DEF Untouched, SameOp, Busy
    <2> QED BY <1>1, <1>2, <2>1 DEF GateInv, KnownIsStopped, KnownIncidentStopsAdvance
  <1>3. CASE AdvanceNext /\ (SendStepCode \/ RevokeDevice)
    <2>1. request' = request /\ incidents' = incidents /\ advances' = advances
      BY <1>3 DEF SendStepCode, RevokeDevice, handlerVars, screenVars
    <2>2. Busy' = Busy
      BY <2>1 DEF Busy
    <2>3. \A n \in Busy' : request'[n].op = "advance" => KnownIsStopped(n)'
      BY <2>1, <2>2 DEF GateInv, KnownIsStopped
    <2> QED BY <2>1, <2>3 DEF GateInv, KnownIncidentStopsAdvance
  <1>4. CASE AdvanceNext /\ \E code \in 1..codes : Advance(code)
    <2>1. PICK code : Advance(code)
      BY <1>4
    <2> DEFINE r == [op |-> "advance", at |-> "finds device", code |-> code, known |-> incidents # {}]
    <2>2. IsRequest(r) /\ r # NotYet /\ r.op \in {"advance"} /\ Arrives(r) /\ UNCHANGED personVars
      BY <2>1 DEF IsRequest, NotYet, Advance, PersonArrives
    <2>3. PICK n \in Requests : request'[n] = r /\ \A m \in Requests \ {n} : request'[m] = request[m]
      BY <2>2, Arriving
    <2>4. {"known", "code"} \subseteq DOMAIN r /\ r.known = (incidents # {}) /\ r.at = "finds device"
      OBVIOUS
    <2>5. incidents' = incidents /\ advances' = advances
      BY <2>2 DEF personVars, screenVars
    <2> HIDE DEF r
    <2>7. KnownIsStopped(n)'
      BY <2>3, <2>4, <2>5 DEF KnownIsStopped
    <2>6. \A m \in Busy' : request'[m].op = "advance" => KnownIsStopped(m)'
      <3> SUFFICES ASSUME NEW m \in Busy', request'[m].op = "advance", m # n PROVE KnownIsStopped(m)'
        BY <2>7
      <3>1. m \in Busy /\ request'[m] = request[m]
        BY <2>3 DEF Busy
      <3> QED BY <2>5, <3>1 DEF GateInv, KnownIsStopped
    <2> QED BY <2>5, <2>6 DEF GateInv, KnownIncidentStopsAdvance
  <1>5. CASE AdvanceNext /\ \E n \in Requests : AdvanceSteps(n)
    <2>1. PICK n \in Requests : AdvanceSteps(n)
      BY <1>5
    <2>2. n \in Busy /\ request[n].op = "advance"
      BY <2>1, IsBusy DEF AdvanceSteps, FindDevice, BindDevice, ReadStepCode, DropStepCode,
                          ReadStatus, ReadIncidents, Reserve, Ended
    <2>3. KnownIsStopped(n)
      BY <2>2 DEF GateInv
    <2>4. PICK at : GoesTo(n, at) /\ at # "not yet" /\ (at = "reserves" => ~request[n].known)
      BY <2>1, <2>3 DEF AdvanceSteps, FindDevice, BindDevice, ReadStepCode, DropStepCode,
                        ReadStatus, ReadIncidents, Reserve, Moves, HasIncident, KnownIsStopped
    <2>5. \A m \in Requests \ {n} : request'[m] = request[m]
      BY <2>4 DEF GoesTo, Becomes, HandlerInv, RequestShape
    <2>6. n \in Busy' => KnownIsStopped(n)'
      <3> SUFFICES ASSUME n \in Busy' PROVE KnownIsStopped(n)'
        OBVIOUS
      <3>1. request'[n].at = at
        BY <2>2, <2>4, Going
      <3>2. at \notin Ended
        BY <3>1 DEF Busy
      <3>3. DOMAIN request'[n] = DOMAIN request[n] /\ request'[n].known = request[n].known
        BY <2>2, <2>3, <2>4, <3>2, Going DEF KnownIsStopped
      <3> QED BY <1>1, <2>3, <2>4, <3>1, <3>3 DEF KnownIsStopped
    <2>7. KnownIncidentStopsAdvance'
      <3>1. CASE Reserve(n)
        BY <2>3, <3>1 DEF Reserve, Is, KnownIsStopped, GateInv, KnownIncidentStopsAdvance
      <3>2. CASE UNCHANGED advances
        BY <3>2 DEF GateInv, KnownIncidentStopsAdvance
      <3> QED BY <2>1, <3>1, <3>2 DEF AdvanceSteps, FindDevice, BindDevice, ReadStepCode, DropStepCode,
                                      ReadStatus, ReadIncidents, Moves, personVars
    <2> QED BY <1>1, <2>5, <2>6, <2>7 DEF GateInv, KnownIsStopped, Busy
  <1> QED BY <1>2, <1>3, <1>4, <1>5, OnlyItsGroup, AdvancesElsewhere, AdvanceRequests DEF AdvanceNext

(* No advance is granted to a request that came in when an incident was    *)
(* known: incidents are never closed, and the gate reads them last.        *)
THEOREM IncidentsStopAdvances == Spec => []KnownIncidentStopsAdvance
  <1>1. Init => HandlerInv /\ GateInv
    BY HandlersInit, GateInit DEF Init
  <1>2. HandlerInv /\ GateInv /\ [Next]_vars => (HandlerInv /\ GateInv)'
    BY StepKeepsRequests, GateStep
  <1>3. GateInv => KnownIncidentStopsAdvance
    BY DEF GateInv
  <1> QED BY <1>1, <1>2, <1>3, PTL DEF Spec

(***************************************************************************)
(* FailsafeTrail                                                           *)
(***************************************************************************)

Rows == [action : {"TRIPPED", "CLEARED"}, behind : Int, by : SUBSET Approvers]

(* A sweep about to trip has seen the flag down; it is still down unless   *)
(* the trail has grown.                                                    *)
SweepInv(c) ==
  /\ sweep[c].saw \in 0..Len(trail)
  /\ sweep[c].at = "trips" /\ sweep[c].saw = Len(trail) => ~failsafe.active

(* A clear past the two-person rule is by two; it has seen the flag up.    *)
ClearInv(n) ==
  LET r == request[n] IN
  /\ "by" \in DOMAIN r /\ r.by \subseteq Approvers
  /\ r.at = "checks approvers" => \E a, b \in Approvers : r.by = {a, b}
  /\ r.at # "checks approvers" => Cardinality(r.by) = 2
  /\ r.at = "clears" =>
       /\ "saw" \in DOMAIN r
       /\ r.saw \in 1..Len(trail)
       /\ r.saw = Len(trail) => failsafe.active

CohortInv ==
  /\ failsafe \in [active : BOOLEAN, reason : BOOLEAN]
  /\ trail \in Seq(Rows)
  /\ sweep = [c \in Canaries |-> sweep[c]]
  /\ \A c \in Canaries : SweepInv(c)
  /\ \A n \in Busy : request[n].op = "clear" => ClearInv(n)
  /\ FailsafeTrail

LEMMA TwoApprovers == ASSUME NEW a, NEW b, a # b PROVE Cardinality({a, b}) = 2
  <1>1. IsFiniteSet({a}) /\ Cardinality({a}) = 1
    BY FS_Singleton
  <1>2. b \notin {a} /\ {a} \cup {b} = {a, b}
    OBVIOUS
  <1>3. Cardinality({a} \cup {b}) = Cardinality({a}) + 1
    BY <1>1, <1>2, FS_AddElement
  <1> QED BY <1>1, <1>2, <1>3

LEMMA CohortInit == Init => CohortInv
  <1> SUFFICES ASSUME Init PROVE CohortInv
    OBVIOUS
  <1>1. Busy = {}
    <2>1. NotYet.at \in Ended
      BY DEF NotYet, Ended
    <2> QED BY <2>1 DEF Init, InitHandlers, Busy
  <1>2. /\ failsafe = [active |-> FALSE, reason |-> FALSE] /\ trail = <<>>
        /\ sweep = [c \in Canaries |-> NoSweep]
    BY DEF Init, InitCohortFailsafe
  <1>3. FailsafeTrail
    BY <1>2 DEF FailsafeTrail
  <1> QED BY <1>1, <1>2, <1>3 DEF CohortInv, SweepInv, NoSweep

LEMMA EmptySeq == Len(<<>>) = 0 /\ DOMAIN <<>> = {}
  OBVIOUS

(* A transaction: the trail grows by a row and the flag follows it.        *)
LEMMA WritingKeepsTrail ==
  ASSUME CohortInv, NEW action \in {"TRIPPED", "CLEARED"}, NEW saw \in 0..Len(trail),
         NEW by \in SUBSET Approvers, Writes(action, saw, by),
         action = "CLEARED" => saw >= 1 /\ Cardinality(by) = 2,
         saw = Len(trail) => failsafe.active = (action = "CLEARED")
  PROVE  /\ failsafe' \in [active : BOOLEAN, reason : BOOLEAN]
         /\ trail' \in Seq(Rows) /\ Len(trail') = Len(trail) + 1
         /\ FailsafeTrail'
  <1> DEFINE row == [action |-> action, behind |-> Len(trail) - saw, by |-> by]
  <1>1. Len(trail) \in Nat /\ row \in Rows /\ trail \in Seq(Rows)
    BY DEF CohortInv, Rows
  <1>2. /\ trail' \in Seq(Rows) /\ Len(trail') = Len(trail) + 1
        /\ trail'[Len(trail) + 1] = row
        /\ \A i \in 1..Len(trail) : trail'[i] = trail[i]
        /\ DOMAIN trail' = 1..(Len(trail) + 1) /\ DOMAIN trail = 1..Len(trail)
    BY <1>1 DEF Writes
  <1>3. failsafe' = [active |-> action = "TRIPPED", reason |-> action = "TRIPPED"]
    BY DEF Writes
  <1>4. /\ row.action = action /\ row.behind = Len(trail) - saw /\ row.by = by
    OBVIOUS
  <1> HIDE DEF row
  <1>5. failsafe.active <=> (trail # <<>> /\ trail[Len(trail)].action = "TRIPPED")
    BY DEF CohortInv, FailsafeTrail
  <1>6. trail' # <<>> /\ Len(trail) + 1 \in DOMAIN trail'
    <2>3. Len(trail) \in Nat => Len(trail) + 1 \in 1..(Len(trail) + 1)
      OBVIOUS
    <2>1. Len(trail) + 1 \in DOMAIN trail'
      BY <1>1, <1>2, <2>3, Zenon
    <2>2. trail' = <<>> => DOMAIN trail' = {}
      BY EmptySeq
    <2> QED BY <2>1, <2>2
  <1>7. ASSUME NEW i \in DOMAIN trail'
        PROVE  /\ trail'[i].action = "CLEARED" => i > 1 /\ Cardinality(trail'[i].by) = 2
               /\ i > 1 /\ trail'[i].action = trail'[i - 1].action => trail'[i].behind > 0
    <2>1. CASE i \in 1..Len(trail)
      <3>1. trail'[i] = trail[i]
        BY <1>2, <2>1
      <3>2. i > 1 => i - 1 \in 1..Len(trail)
        BY <1>1, <2>1
      <3>3. i > 1 => trail'[i - 1] = trail[i - 1]
        BY <1>2, <3>2
      <3>4. i \in DOMAIN trail
        BY <1>2, <2>1
      <3>5. /\ trail[i].action = "CLEARED" => i > 1 /\ Cardinality(trail[i].by) = 2
            /\ i > 1 /\ trail[i].action = trail[i - 1].action => trail[i].behind > 0
        BY <3>4 DEF CohortInv, FailsafeTrail
      <3> QED BY <3>1, <3>3, <3>5
    <2>2. CASE i = Len(trail) + 1
      <3>1. trail'[i] = row
        BY <1>2, <2>2
      <3>2. i > 1 => trail # <<>> /\ trail'[i - 1] = trail[Len(trail)]
        <4>1. i > 1 => Len(trail) \in 1..Len(trail) /\ i - 1 = Len(trail)
          BY <1>1, <2>2
        <4> QED BY <1>2, <4>1, EmptySeq
      <3>3. row.action = "CLEARED" => i > 1 /\ Cardinality(row.by) = 2
        BY <1>1, <1>4, <2>2
      <3>4. i > 1 /\ row.action = trail[Len(trail)].action => row.behind > 0
        <4> SUFFICES ASSUME i > 1, row.action = trail[Len(trail)].action, saw = Len(trail) PROVE FALSE
          BY <1>1, <1>4
        <4> QED BY <1>4, <1>5, <3>2
      <3> QED BY <3>1, <3>2, <3>3, <3>4
    <2>3. i \in 1..(Len(trail) + 1)
      BY <1>2
    <2>4. i \in 1..Len(trail) \/ i = Len(trail) + 1
      BY <1>1, <2>3
    <2> QED BY <2>1, <2>2, <2>4
  <1>8. failsafe'.active <=> (trail' # <<>> /\ trail'[Len(trail')].action = "TRIPPED")
    BY <1>1, <1>2, <1>3, <1>4, <1>6
  <1> QED BY <1>2, <1>3, <1>7, <1>8 DEF FailsafeTrail

(* What is known of sweeps and clears survives a longer trail: none of     *)
(* them has seen all of it.                                                *)
LEMMA LongerTrail ==
  ASSUME CohortInv, trail' \in Seq(Rows), Len(trail') = Len(trail) + 1
  PROVE  /\ \A c \in Canaries : sweep'[c] = sweep[c] => SweepInv(c)'
         /\ \A n \in Busy : request[n].op = "clear" /\ request'[n] = request[n] => ClearInv(n)'
  <1>1. Len(trail) \in Nat
    BY DEF CohortInv
  <1>2. ASSUME NEW c \in Canaries, sweep'[c] = sweep[c] PROVE SweepInv(c)'
    BY <1>1, <1>2 DEF CohortInv, SweepInv
  <1>3. ASSUME NEW n \in Busy, request[n].op = "clear", request'[n] = request[n] PROVE ClearInv(n)'
    <2>1. ClearInv(n)
      BY <1>3 DEF CohortInv
    <2>2. request[n].at = "clears" => request[n].saw \in 1..Len(trail') /\ request[n].saw # Len(trail')
      BY <1>1, <2>1 DEF ClearInv
    <2> QED BY <1>3, <2>1, <2>2 DEF ClearInv
  <1> QED BY <1>2, <1>3

LEMMA SameTrail ==
  ASSUME CohortInv, trail' = trail, failsafe' = failsafe
  PROVE  /\ failsafe' \in [active : BOOLEAN, reason : BOOLEAN] /\ trail' \in Seq(Rows)
         /\ FailsafeTrail'
         /\ \A c \in Canaries : sweep'[c] = sweep[c] => SweepInv(c)'
         /\ \A n \in Busy : request[n].op = "clear" /\ request'[n] = request[n] => ClearInv(n)'
  <1>1. failsafe' \in [active : BOOLEAN, reason : BOOLEAN] /\ trail' \in Seq(Rows)
    BY DEF CohortInv
  <1>2. FailsafeTrail'
    BY DEF CohortInv, FailsafeTrail
  <1>3. ASSUME NEW c \in Canaries, sweep'[c] = sweep[c] PROVE SweepInv(c)'
    BY <1>3 DEF CohortInv, SweepInv
  <1>4. ASSUME NEW n \in Busy, request[n].op = "clear", request'[n] = request[n] PROVE ClearInv(n)'
    <2>1. ClearInv(n)
      BY <1>4 DEF CohortInv
    <2> QED BY <1>4, <2>1 DEF ClearInv
  <1> QED BY <1>1, <1>2, <1>3, <1>4

LEMMA SweepKeepsCohort ==
  ASSUME HandlerInv, CohortInv, NEW c \in Canaries, SweepSteps(c) \/ SweepFails(c) PROVE CohortInv'
  <1>1. UNCHANGED request
    BY DEF SweepSteps, SweepCompiles, SweepReads, Refreshes, Trips, SweepFails, handlerVars
  <1>2. Busy' = Busy
    BY <1>1 DEF Busy
  <1>3. Len(trail) \in Nat /\ DOMAIN sweep = Canaries
    BY DEF CohortInv
  <1>4. ASSUME UNCHANGED <<failsafe, trail>>, NEW at, NEW saw \in 0..Len(trail),
               sweep' = [sweep EXCEPT ![c] = [at |-> at, saw |-> saw]],
               at = "trips" => ~failsafe.active
        PROVE  CohortInv'
    <2>1. sweep' = [d \in Canaries |-> sweep'[d]] /\ \A d \in Canaries : SweepInv(d)'
      BY <1>3, <1>4 DEF CohortInv, SweepInv
    <2> QED BY <1>1, <1>2, <1>4, <2>1, SameTrail DEF CohortInv
  <1>5. CASE Refreshes(c)
    <2>1. /\ failsafe' \in [active : BOOLEAN, reason : BOOLEAN]
          /\ failsafe'.active = failsafe.active /\ failsafe'.reason
          /\ trail' = trail
      BY <1>5 DEF Refreshes, CohortInv
    <2>2. sweep' = [d \in Canaries |-> sweep'[d]] /\ \A d \in Canaries : SweepInv(d)'
      BY <1>3, <1>5, <2>1 DEF Refreshes, SweepTo, CohortInv, SweepInv
    <2>3. \A n \in Busy' : request'[n].op = "clear" => ClearInv(n)'
      BY <1>1, <1>2, <2>1 DEF CohortInv, ClearInv
    <2> QED BY <2>1, <2>2, <2>3 DEF CohortInv, FailsafeTrail
  <1>6. CASE Trips(c)
    <2>1. /\ Writes("TRIPPED", sweep[c].saw, {}) /\ SweepInv(c)
          /\ sweep[c].at = "trips" /\ sweep' = [sweep EXCEPT ![c] = [at |-> "idle", saw |-> 0]]
      BY <1>6 DEF Trips, SweepTo, CohortInv
    <2>2. /\ failsafe' \in [active : BOOLEAN, reason : BOOLEAN]
          /\ trail' \in Seq(Rows) /\ Len(trail') = Len(trail) + 1 /\ FailsafeTrail'
      <3>1. failsafe.active \in BOOLEAN
        BY DEF CohortInv
      <3>2. sweep[c].saw = Len(trail) => failsafe.active = ("TRIPPED" = "CLEARED")
        BY <2>1, <3>1 DEF SweepInv
      <3> QED BY <2>1, <3>2, WritingKeepsTrail DEF SweepInv
    <2>3. sweep' = [d \in Canaries |-> sweep'[d]] /\ \A d \in Canaries : SweepInv(d)'
      <3>1. sweep' = [d \in Canaries |-> sweep'[d]]
        BY <1>3, <2>1 DEF CohortInv
      <3>2. sweep'[c].saw = 0 /\ sweep'[c].at = "idle" /\ \A d \in Canaries \ {c} : sweep'[d] = sweep[d]
        BY <1>3, <2>1
      <3>3. SweepInv(c)'
        BY <1>3, <2>2, <3>2 DEF SweepInv
      <3> QED BY <2>2, <3>1, <3>2, <3>3, LongerTrail
    <2>4. \A n \in Busy' : request'[n].op = "clear" => ClearInv(n)'
      BY <1>1, <1>2, <2>2, LongerTrail
    <2> QED BY <2>2, <2>3, <2>4 DEF CohortInv
  <1>7. CASE SweepCompiles(c) \/ SweepFails(c)
    <2>1. /\ UNCHANGED <<failsafe, trail>>
          /\ \/ sweep' = [sweep EXCEPT ![c] = [at |-> "reads flag", saw |-> 0]]
             \/ sweep' = [sweep EXCEPT ![c] = [at |-> "idle", saw |-> 0]]
      BY <1>7 DEF SweepCompiles, SweepFails, SweepTo, NoSweep
    <2>2. 0 \in 0..Len(trail) /\ "reads flag" # "trips" /\ "idle" # "trips"
      BY <1>3
    <2>3. CASE sweep' = [sweep EXCEPT ![c] = [at |-> "reads flag", saw |-> 0]]
      BY <1>4, <2>1, <2>2, <2>3
    <2>4. CASE sweep' = [sweep EXCEPT ![c] = [at |-> "idle", saw |-> 0]]
      BY <1>4, <2>1, <2>2, <2>4
    <2> QED BY <2>1, <2>3, <2>4
  <1>8. CASE SweepReads(c)
    <2>1. /\ UNCHANGED <<failsafe, trail>>
          /\ \/ sweep' = [sweep EXCEPT ![c] = [at |-> "refreshes", saw |-> Len(trail)]]
             \/ /\ sweep' = [sweep EXCEPT ![c] = [at |-> "trips", saw |-> Len(trail)]]
                /\ ~failsafe.active
      BY <1>8 DEF SweepReads, SweepTo, FlagIsSet
    <2> QED BY <1>3, <1>4, <2>1
  <1> QED BY <1>5, <1>6, <1>7, <1>8 DEF SweepSteps

LEMMA ClearKeepsCohort ==
  ASSUME HandlerInv, CohortInv, NEW n \in Requests, ClearSteps(n) PROVE CohortInv'
  <1>1. n \in Busy /\ request[n].op = "clear" /\ ClearInv(n)
    <2>1. n \in Busy /\ request[n].op = "clear"
      BY IsBusy DEF ClearSteps, CheckApprovers, ReadFlag, WriteClear, Ended
    <2> QED BY <2>1 DEF CohortInv
  <1>2. DOMAIN request = Requests /\ Len(trail) \in Nat
    BY DEF HandlerInv, RequestShape, CohortInv
  <1>3. \A m \in Requests \ {n} : request'[m] = request[m]
    BY <1>2 DEF ClearSteps, CheckApprovers, ReadFlag, WriteClear, GoesTo, Becomes
  <1>4. CASE CheckApprovers(n)
    <2>1. UNCHANGED cohortVars /\ request[n].at = "checks approvers"
      BY <1>4 DEF CheckApprovers, Is
    <2>2. n \in Busy' => ClearInv(n)'
      <3>1. CASE GoesTo(n, "reads flag") /\ \E a, b \in request[n].by : a # b
        <4>1. Cardinality(request[n].by) = 2
          <5>1. PICK a, b \in Approvers : request[n].by = {a, b}
            BY <1>1, <2>1 DEF ClearInv
          <5>2. a # b
            BY <3>1, <5>1
          <5>3. Cardinality({a, b}) = 2
            BY <5>2, TwoApprovers
          <5> QED BY <5>1, <5>3, Zenon
        <4>2. /\ request'[n].at = "reads flag" /\ DOMAIN request'[n] = DOMAIN request[n]
              /\ request'[n].by = request[n].by
          <5>1. "reads flag" \notin Ended /\ "reads flag" # "not yet"
            BY DEF Ended
          <5>2. "by" \in DOMAIN request[n] \ {"at"}
            BY <1>1 DEF ClearInv
          <5> QED BY <1>1, <3>1, <5>1, <5>2, Going
        <4>3. "by" \in DOMAIN request'[n] /\ request'[n].by \subseteq Approvers
              /\ Cardinality(request'[n].by) = 2
          BY <1>1, <4>1, <4>2 DEF ClearInv
        <4> QED BY <4>2, <4>3 DEF ClearInv
      <3>2. CASE GoesTo(n, "refused")
        BY <1>1, <3>2, Going DEF Busy, Ended
      <3> QED BY <1>4, <3>1, <3>2 DEF CheckApprovers
    <2>3. trail' = trail /\ failsafe' = failsafe /\ sweep' = sweep
      BY <2>1 DEF cohortVars
    <2>4. \A m \in Busy' : request'[m].op = "clear" => ClearInv(m)'
      <3>1. \A m \in Busy' : m = n \/ (m \in Busy /\ request'[m] = request[m])
        BY <1>3 DEF Busy
      <3> QED BY <2>2, <2>3, <3>1, SameTrail
    <2> QED BY <2>3, <2>4, SameTrail DEF CohortInv
  <1>5. CASE ReadFlag(n)
    <2>1. UNCHANGED cohortVars /\ request[n].at = "reads flag"
      BY <1>5 DEF ReadFlag, Is
    <2>2. n \in Busy' => ClearInv(n)'
      <3>1. CASE StillTripped /\ Becomes(n, [op |-> "clear", at |-> "clears", by |-> request[n].by,
                                             saw |-> Len(trail)])
        <4> DEFINE r == [op |-> "clear", at |-> "clears", by |-> request[n].by, saw |-> Len(trail)]
        <4>1. request'[n] = r
          BY <1>1, <1>2, <3>1 DEF Becomes, Busy
        <4>2. {"by", "saw"} \subseteq DOMAIN r /\ r.by = request[n].by /\ r.at = "clears" /\ r.saw = Len(trail)
          OBVIOUS
        <4> HIDE DEF r
        <4>3. failsafe.active /\ trail # <<>>
          BY <3>1 DEF StillTripped, CohortInv, FailsafeTrail
        <4>4. Len(trail) \in 1..Len(trail)
          BY <1>2, <4>3 DEF CohortInv
        <4> QED BY <1>1, <2>1, <4>1, <4>2, <4>3, <4>4 DEF ClearInv, cohortVars
      <3>2. CASE GoesTo(n, "done")
        BY <1>1, <3>2, Going DEF Busy, Ended
      <3> QED BY <1>5, <3>1, <3>2 DEF ReadFlag
    <2>3. trail' = trail /\ failsafe' = failsafe /\ sweep' = sweep
      BY <2>1 DEF cohortVars
    <2>4. \A m \in Busy' : request'[m].op = "clear" => ClearInv(m)'
      <3>1. \A m \in Busy' : m = n \/ (m \in Busy /\ request'[m] = request[m])
        BY <1>3 DEF Busy
      <3> QED BY <2>2, <2>3, <3>1, SameTrail
    <2> QED BY <2>3, <2>4, SameTrail DEF CohortInv
  <1>6. CASE WriteClear(n)
    <2>1. /\ Writes("CLEARED", request[n].saw, request[n].by) /\ request[n].at = "clears"
          /\ GoesTo(n, "done") /\ sweep' = sweep
      BY <1>6 DEF WriteClear, Is
    <2>2. /\ failsafe' \in [active : BOOLEAN, reason : BOOLEAN]
          /\ trail' \in Seq(Rows) /\ Len(trail') = Len(trail) + 1 /\ FailsafeTrail'
      <3>1. failsafe.active \in BOOLEAN
        BY DEF CohortInv
      <3>2. /\ request[n].saw \in 0..Len(trail) /\ request[n].saw >= 1
            /\ request[n].by \in SUBSET Approvers /\ Cardinality(request[n].by) = 2
            /\ request[n].saw = Len(trail) => failsafe.active = ("CLEARED" = "CLEARED")
        BY <1>1, <1>2, <2>1, <3>1 DEF ClearInv
      <3> QED BY <2>1, <3>2, WritingKeepsTrail
    <2>3. n \notin Busy'
      BY <1>1, <2>1, Going DEF Busy, Ended
    <2>4. \A m \in Busy' : request'[m].op = "clear" => ClearInv(m)'
      BY <1>3, <2>2, <2>3, LongerTrail DEF Busy
    <2>5. \A c \in Canaries : SweepInv(c)'
      BY <2>1, <2>2, LongerTrail
    <2> QED BY <2>1, <2>2, <2>4, <2>5 DEF CohortInv
  <1> QED BY <1>4, <1>5, <1>6 DEF ClearSteps

(* Nothing else touches the flag, the trail or a sweep.                    *)
LEMMA CohortElsewhere ==
  ASSUME [Next]_vars
  PROVE  \/ CohortNext
         \/ UNCHANGED <<failsafe, trail, sweep>>
         \/ \E c \in Canaries : SweepFails(c)
  <1>1. CASE LoginNext \/ ScreeningNext \/ AdvanceNext \/ CodesNext
    BY <1>1 DEF LoginNext, ScreeningNext, AdvanceNext, CodesNext, PersonFrame, cohortVars
  <1>2. CASE UploadNext \/ PayrollNext \/ RouteNext \/ SessionNext \/ UNCHANGED vars
    BY <1>2 DEF UploadNext, UploadFrame, PayrollNext, PayrollFrame, RouteNext, RouteFrame, SessionNext,
                SessionFrame, vars, cohortVars
  <1>3. CASE Fault
    BY <1>3 DEF Fault, Dies, PayrollFrame, SessionFrame, cohortVars
  <1> QED BY <1>1, <1>2, <1>3 DEF Next

LEMMA CohortStep == ASSUME HandlerInv, CohortInv, [Next]_vars PROVE CohortInv'
  <1>1. CASE \E c \in Canaries : SweepSteps(c) \/ SweepFails(c)
    BY <1>1, SweepKeepsCohort
  <1>2. CASE \E n \in Requests : ClearSteps(n)
    BY <1>2, ClearKeepsCohort
  <1>3. CASE \E a, b \in Approvers : Clear(a, b)
    <2>1. PICK a, b \in Approvers : Clear(a, b)
      BY <1>3
    <2> DEFINE r == [op |-> "clear", at |-> "checks approvers", by |-> {a, b}]
    <2>2. IsRequest(r) /\ r # NotYet /\ r.op \in {"clear"} /\ Arrives(r)
      BY <2>1 DEF IsRequest, NotYet, Clear
    <2>3. PICK n \in Requests : request'[n] = r /\ \A m \in Requests \ {n} : request'[m] = request[m]
      BY <2>2, Arriving
    <2>4. "by" \in DOMAIN r /\ r.by = {a, b} /\ r.at = "checks approvers"
      OBVIOUS
    <2> HIDE DEF r
    <2>5. failsafe' = failsafe /\ trail' = trail /\ sweep' = sweep
      BY <2>1 DEF Clear, cohortVars
    <2>6. ClearInv(n)'
      BY <2>3, <2>4, <2>5 DEF ClearInv
    <2>7. \A m \in Busy' : request'[m].op = "clear" => ClearInv(m)'
      <3>1. \A m \in Busy' : m = n \/ (m \in Busy /\ request'[m] = request[m])
        BY <2>3 DEF Busy
      <3> QED BY <2>5, <2>6, <3>1, SameTrail
    <2> QED BY <2>5, <2>7, SameTrail DEF CohortInv
  <1>4. CASE UNCHANGED <<failsafe, trail, sweep>> /\ Untouched("clear")
    <2>1. \A n \in Busy' : request'[n].op = "clear" => n \in Busy /\ request'[n] = request[n]
      BY <1>4, BusyIsLive DEF Untouched, SameOp, Busy
    <2> QED BY <1>4, <2>1, SameTrail DEF CohortInv
  <1>5. CASE CohortNext /\ RatioMoves
    <2>1. UNCHANGED <<failsafe, trail, sweep>> /\ UNCHANGED handlerVars
      BY <1>5 DEF RatioMoves
    <2>2. Untouched("clear")
      BY <2>1, HandlersRest, OthersUntouched DEF handlerVars, Untouched
    <2> QED BY <1>4, <2>1, <2>2
  <1>6. CohortNext => \/ RatioMoves
                      \/ \E c \in Canaries : SweepSteps(c)
                      \/ \E a, b \in Approvers : Clear(a, b)
                      \/ \E n \in Requests : ClearSteps(n)
    BY DEF CohortNext
  <1>7. CohortNext \/ Untouched("clear")
    BY OnlyItsGroup
  <1> QED BY <1>1, <1>2, <1>3, <1>4, <1>5, <1>6, <1>7, CohortElsewhere

(* The failsafe follows its audit trail, and two people made each clear,   *)
(* whatever sweeps, failures and clears meet.                              *)
THEOREM TrailTellsFailsafe == Spec => []FailsafeTrail
  <1>1. Init => HandlerInv /\ CohortInv
    BY HandlersInit, CohortInit DEF Init
  <1>2. HandlerInv /\ CohortInv /\ [Next]_vars => (HandlerInv /\ CohortInv)'
    BY StepKeepsRequests, CohortStep
  <1>3. CohortInv => FailsafeTrail
    BY DEF CohortInv
  <1> QED BY <1>1, <1>2, <1>3, PTL DEF Spec

(***************************************************************************)
(* BlockHolds                                                              *)
(***************************************************************************)

(* The request may still make the account ACTIVE.                          *)
CanPromote(n) ==
  LET r == request[n] IN
  \/ r.op = "login" /\ r.at = "issues card"
  \/ r.op = "kyc" /\ r.at = "screens" /\ r.saw = "PENDING_KYC"
  \/ r.op = "kyc" /\ r.at = "commits" /\ r.promotes /\ ~r.hit

(* Of a blocked account each such request was in progress beside the one   *)
(* that blocked it.                                                        *)
BlockInv ==
  status = "BLOCKED" =>
    \E b \in incidents : \A n \in Busy : CanPromote(n) => Overlapped(n, b)

(* One step of a login, in the terms of its place.                         *)
LEMMA LoginMoves ==
  ASSUME HandlerInv, NEW n \in Requests, LoginSteps(n)
  PROVE  /\ n \in Busy /\ request[n].op = "login" /\ incidents' = incidents
         /\ \A m \in Requests \ {n} : request'[m] = request[m]
         /\ \E at : GoesTo(n, at) /\ at # "not yet" /\ (at = "issues card" => status = "none")
         /\ status' # status => status = "none" \/ (status' = "ACTIVE" /\ CanPromote(n))
  <1>1. n \in Busy /\ request[n].op = "login"
    BY IsBusy DEF LoginSteps, ReadLoginCode, DropLoginCode, FindAccount, StoreCodeAgain,
                  Register, CardActivates, CardFails, SignIn, Ended
  <1>2. PICK at : GoesTo(n, at) /\ at # "not yet" /\ (at = "issues card" => status = "none")
    <2>a. \A at \in {"drops code", "refused", "finds account", "signs in", "done"} :
            at # "not yet" /\ at # "issues card"
      OBVIOUS
    <2>0. ASSUME NEW at, GoesTo(n, at), at # "not yet", at = "issues card" => status = "none"
          PROVE  \E to : GoesTo(n, to) /\ to # "not yet" /\ (to = "issues card" => status = "none")
      BY <2>0
    <2>1. CASE Register(n)
      <3>1. (GoesTo(n, "issues card") /\ status = "none") \/ GoesTo(n, "refused")
        BY <2>1 DEF Register
      <3> QED BY <3>1, <2>0, <2>a, Zenon
    <2>2. CASE FindAccount(n)
      <3> DEFINE at == CASE status = "BLOCKED" -> "refused"
                         [] status = "none" /\ request[n].named -> "registers"
                         [] status = "none" /\ ~request[n].named -> "stores code again"
                         [] OTHER -> "signs in"
      <3>1. GoesTo(n, at)
        BY <2>2 DEF FindAccount, Moves
      <3>2. at # "not yet" /\ at # "issues card"
        OBVIOUS
      <3> HIDE DEF at
      <3> QED BY <3>1, <3>2, <2>0
    <2>3. CASE ReadLoginCode(n)
      <3>1. GoesTo(n, "drops code") \/ GoesTo(n, "refused")
        BY <2>3 DEF ReadLoginCode, Moves
      <3> QED BY <3>1, <2>0, <2>a, Zenon
    <2>4. CASE DropLoginCode(n) \/ StoreCodeAgain(n)
      <3>1. GoesTo(n, "finds account") \/ GoesTo(n, "refused")
        BY <2>4 DEF DropLoginCode, StoreCodeAgain
      <3> QED BY <3>1, <2>0, <2>a, Zenon
    <2>5. CASE CardActivates(n) \/ CardFails(n) \/ SignIn(n)
      <3>1. GoesTo(n, "signs in") \/ GoesTo(n, "done")
        BY <2>5 DEF CardActivates, CardFails, SignIn, Moves
      <3> QED BY <3>1, <2>0, <2>a, Zenon
    <2> QED BY <2>1, <2>2, <2>3, <2>4, <2>5 DEF LoginSteps
  <1>3. \A m \in Requests \ {n} : request'[m] = request[m]
    BY <1>2 DEF GoesTo, Becomes, HandlerInv, RequestShape
  <1>4. incidents' = incidents
    BY DEF LoginSteps, ReadLoginCode, DropLoginCode, FindAccount, StoreCodeAgain,
           Register, CardActivates, CardFails, SignIn, Moves, personVars, screenVars
  <1>5. status' # status => status = "none" \/ (status' = "ACTIVE" /\ CanPromote(n))
    BY DEF LoginSteps, ReadLoginCode, DropLoginCode, FindAccount, StoreCodeAgain, Register,
           CardActivates, CardFails, SignIn, Moves, personVars, accountVars, CanPromote, Is
  <1> QED BY <1>1, <1>2, <1>3, <1>4, <1>5

(* And of a document.                                                      *)
LEMMA KycMoves ==
  ASSUME HandlerInv, NEW n \in Requests, KycSteps(n)
  PROVE  /\ n \in Busy /\ request[n].op = "kyc"
         /\ \A m \in Requests \ {n} : request'[m] = request[m]
         /\ status = "BLOCKED" /\ n \in Busy' /\ CanPromote(n)' => CanPromote(n)
         /\ \/ status' = status
            \/ status' = "BLOCKED" /\ n \in incidents' /\ n \notin Busy' /\ Proceeds(n)
            \/ status' = "ACTIVE" /\ CanPromote(n) /\ request'[n] # request[n]
  <1>1. n \in Busy /\ request[n].op = "kyc"
    BY IsBusy DEF KycSteps, ReadAccount, ExtractorFails, ScreenDocument, CommitDocument, Ended
  <1>2. DOMAIN request = Requests
    BY DEF HandlerInv, RequestShape
  <1>3. \A m \in Requests \ {n} : request'[m] = request[m]
    BY <1>2 DEF KycSteps, ReadAccount, ExtractorFails, ScreenDocument, CommitDocument, Moves, GoesTo, Becomes
  <1>4. CASE ReadAccount(n)
    <2> DEFINE r == [op |-> "kyc", at |-> "screens", verified |-> request[n].verified, saw |-> status]
    <2>1. request'[n] = r /\ status' = status
      BY <1>2, <1>4 DEF ReadAccount, Becomes, personVars, accountVars
    <2>2. r.op = "kyc" /\ r.at = "screens" /\ r.saw = status
      OBVIOUS
    <2> HIDE DEF r
    <2> QED BY <1>1, <1>3, <2>1, <2>2 DEF CanPromote
  <1>5. CASE ExtractorFails(n)
    <2>1. status' = status /\ n \notin Busy'
      BY <1>1, <1>5, Going DEF ExtractorFails, Moves, personVars, accountVars, Busy, Ended
    <2> QED BY <1>1, <1>3, <2>1
  <1>6. CASE ScreenDocument(n)
    <2> DEFINE r == [op |-> "kyc", at |-> "commits", hit |-> "passport" \in listed,
                     promotes |-> Promotes(request[n].verified, request[n].saw)]
    <2>1. request'[n] = r /\ status' = status /\ request[n].at = "screens"
      BY <1>2, <1>6 DEF ScreenDocument, Becomes, personVars, accountVars, Is
    <2>2. r.op = "kyc" /\ r.at = "commits" /\ (r.promotes => request[n].saw = "PENDING_KYC")
      BY DEF Promotes
    <2> HIDE DEF r
    <2> QED BY <1>1, <1>3, <2>1, <2>2 DEF CanPromote
  <1>7. CASE CommitDocument(n)
    <2>1. n \notin Busy' /\ request'[n].at = "done" /\ request[n].at = "commits"
      BY <1>1, <1>7, Going DEF CommitDocument, Busy, Ended, Is
    <2>2. \/ status' = status
          \/ status' = "BLOCKED" /\ n \in incidents'
          \/ status' = "ACTIVE" /\ CanPromote(n)
      BY <1>7 DEF CommitDocument, Is, CanPromote, accountVars
    <2>3. request'[n] # request[n]
      BY <2>1
    <2>4. Proceeds(n)
      BY <1>7 DEF CommitDocument, Proceeds
    <2> QED BY <1>1, <1>3, <2>1, <2>2, <2>3, <2>4
  <1> QED BY <1>4, <1>5, <1>6, <1>7 DEF KycSteps

(* What any step may do about a block.                                     *)
LEMMA BlockMoves ==
  ASSUME HandlerInv, [Next]_vars
  PROVE  /\ status = "BLOCKED" => \A n \in Busy' : CanPromote(n)' => n \in Busy /\ CanPromote(n)
         /\ \/ status' = status
            \/ status = "none" /\ status' = "PENDING_KYC"
            \/ status' = "BLOCKED" /\ \E b \in Busy \cap incidents' : b \notin Busy' /\ Proceeds(b)
            \/ status' = "ACTIVE" /\ \E n \in Busy : CanPromote(n) /\ request'[n] # request[n]
  <1> DEFINE Keeps == status = "BLOCKED" => \A n \in Busy' : CanPromote(n)' => n \in Busy /\ CanPromote(n)
  <1>1. ASSUME Untouched("login"), Untouched("kyc") PROVE Keeps
    <2> SUFFICES ASSUME NEW n \in Busy', CanPromote(n)' PROVE n \in Busy /\ CanPromote(n)
      OBVIOUS
    <2>1. SameOp(n, "login")' \/ SameOp(n, "kyc")'
      BY BusyIsLive DEF CanPromote, SameOp
    <2>2. request'[n] = request[n] /\ n \in Requests
      BY <1>1, <2>1, BusyIsLive DEF Untouched
    <2> QED BY <2>2 DEF CanPromote, Busy
  <1>2. CASE LoginNext /\ \E n \in Requests : LoginSteps(n)
    <2>1. PICK n \in Requests : LoginSteps(n)
      BY <1>2
    <2>2. PICK at : GoesTo(n, at) /\ at # "not yet" /\ (at = "issues card" => status = "none")
      BY <2>1, LoginMoves
    <2>3. /\ n \in Busy /\ request[n].op = "login"
          /\ \A m \in Requests \ {n} : request'[m] = request[m]
          /\ status' # status => status = "none" \/ (status' = "ACTIVE" /\ CanPromote(n))
      BY <2>1, LoginMoves
    <2>4. request'[n].at = at /\ request'[n].op = "login"
      BY <2>2, <2>3, Going
    <2>5. Keeps
      <3>1. status = "BLOCKED" => ~CanPromote(n)'
        BY <2>2, <2>4 DEF CanPromote
      <3>2. \A m \in Busy' \ {n} : m \in Busy /\ (CanPromote(m)' <=> CanPromote(m))
        BY <2>3 DEF Busy, CanPromote
      <3> QED BY <3>1, <3>2
    <2>6. status' = "ACTIVE" /\ CanPromote(n) => request'[n] # request[n] \/ status' = status
      <3> SUFFICES ASSUME status' = "ACTIVE", status' # status PROVE request'[n] # request[n]
        OBVIOUS
      <3>1. CardActivates(n)
        BY <2>1 DEF LoginSteps, ReadLoginCode, DropLoginCode, FindAccount, StoreCodeAgain, Register,
                    CardFails, SignIn, Moves, personVars, accountVars
      <3>2. request[n].at = "issues card" /\ GoesTo(n, "signs in")
        BY <3>1 DEF CardActivates, Is
      <3>3. request'[n].at = "signs in"
        BY <2>3, <3>2, Going
      <3> QED BY <3>2, <3>3
    <2>7. status = "none" => status' \in {"none", "PENDING_KYC", "ACTIVE"}
      BY <2>1 DEF LoginSteps, ReadLoginCode, DropLoginCode, FindAccount, StoreCodeAgain, Register, CardActivates,
                  CardFails, SignIn, Moves, personVars, accountVars
    <2>8. status = "none" /\ status' = "ACTIVE" => CanPromote(n)
      BY <2>1 DEF LoginSteps, ReadLoginCode, DropLoginCode, FindAccount, StoreCodeAgain, Register, CardActivates,
                  CardFails, SignIn, Moves, personVars, accountVars, Is, CanPromote
    <2> QED BY <2>3, <2>5, <2>6, <2>7, <2>8
  <1>3. CASE ScreeningNext /\ \E n \in Requests : KycSteps(n)
    <2>1. PICK n \in Requests : KycSteps(n)
      BY <1>3
    <2>2. Keeps
      <3>1. \A m \in Busy' \ {n} : m \in Busy /\ (CanPromote(m)' <=> CanPromote(m))
        BY <2>1, KycMoves DEF Busy, CanPromote
      <3>2. status = "BLOCKED" /\ n \in Busy' /\ CanPromote(n)' => n \in Busy /\ CanPromote(n)
        BY <2>1, KycMoves
      <3> QED BY <3>1, <3>2
    <2> QED BY <2>1, <2>2, KycMoves
  <1>4. CASE /\ LoginNext \/ ScreeningNext
             /\ ~\E n \in Requests : LoginSteps(n) \/ KycSteps(n)
    <2>1. status' = status
      BY <1>4 DEF LoginNext, SendLoginCode, Login, ScreeningNext, IngestList, Rescreen, SubmitDocument,
                  PersonArrives, RescreenSteps, ListAccounts, ScreenAccount, LookForIncident, OpenIncident,
                  Moves, personVars, accountVars
    <2>2. \A n \in Busy' : CanPromote(n)' => n \in Busy /\ request'[n] = request[n]
      <3>1. CASE \/ SendLoginCode
                 \/ IngestList
        BY <3>1 DEF SendLoginCode, IngestList, handlerVars, Busy
      <3>2. CASE \E n \in Requests : RescreenSteps(n)
        <4>1. PICK n \in Requests : RescreenSteps(n)
          BY <3>2
        <4>2. n \in Busy /\ request[n].op = "rescreen"
          BY <4>1, IsBusy DEF RescreenSteps, ListAccounts, ScreenAccount, LookForIncident, OpenIncident, Ended
        <4>3. \A m \in Requests \ {n} : request'[m] = request[m]
          BY <4>1 DEF RescreenSteps, ListAccounts, ScreenAccount, LookForIncident, OpenIncident, Moves, GoesTo,
                      Becomes, HandlerInv, RequestShape
        <4>4. request'[n].op = "rescreen"
          <5>1. OpsKept /\ request[n] # NotYet
            BY <4>2, StepKeepsRequests, BusyIsLive
          <5> QED BY <4>2, <5>1 DEF OpsKept
        <4> QED BY <4>3, <4>4 DEF Busy, CanPromote
      <3>3. CASE \/ \E code \in 1..codes, named \in BOOLEAN : Login(code, named)
                 \/ Rescreen
                 \/ \E verified \in BOOLEAN : SubmitDocument(verified)
        <4>1. PICK r : /\ IsRequest(r) /\ r # NotYet /\ Arrives(r)
                       /\ r.at \in {"reads code", "lists accounts", "reads account"}
          <5>1. ASSUME NEW code, NEW named, Login(code, named)
                PROVE  \E r : /\ IsRequest(r) /\ r # NotYet /\ Arrives(r)
                              /\ r.at \in {"reads code", "lists accounts", "reads account"}
            <6> DEFINE r == [op |-> "login", at |-> "reads code", code |-> code, named |-> named]
            <6>1. IsRequest(r) /\ r # NotYet /\ r.at = "reads code" /\ Arrives(r)
              BY <5>1 DEF Login, PersonArrives, IsRequest, NotYet
            <6> HIDE DEF r
            <6> QED BY <6>1
          <5>2. ASSUME NEW verified, SubmitDocument(verified)
                PROVE  \E r : /\ IsRequest(r) /\ r # NotYet /\ Arrives(r)
                              /\ r.at \in {"reads code", "lists accounts", "reads account"}
            <6> DEFINE r == [op |-> "kyc", at |-> "reads account", verified |-> verified]
            <6>1. IsRequest(r) /\ r # NotYet /\ r.at = "reads account" /\ Arrives(r)
              BY <5>2 DEF SubmitDocument, PersonArrives, IsRequest, NotYet
            <6> HIDE DEF r
            <6> QED BY <6>1
          <5>3. ASSUME Rescreen
                PROVE  \E r : /\ IsRequest(r) /\ r # NotYet /\ Arrives(r)
                              /\ r.at \in {"reads code", "lists accounts", "reads account"}
            <6> DEFINE r == [op |-> "rescreen", at |-> "lists accounts"]
            <6>1. IsRequest(r) /\ r # NotYet /\ r.at = "lists accounts" /\ Arrives(r)
              BY <5>3 DEF Rescreen, PersonArrives, IsRequest, NotYet
            <6> HIDE DEF r
            <6> QED BY <6>1
          <5> QED BY <3>3, <5>1, <5>2, <5>3
        <4>2. PICK n \in Requests : request'[n] = r /\ \A m \in Requests \ {n} : request'[m] = request[m]
          <5>1. r.op \in {r.op}
            OBVIOUS
          <5> QED BY <4>1, <5>1, Arriving
        <4> QED BY <4>1, <4>2 DEF Busy, CanPromote
      <3> QED BY <1>4, <3>1, <3>2, <3>3 DEF LoginNext, ScreeningNext
    <2> QED BY <2>1, <2>2 DEF CanPromote
  <1>5. CASE ~LoginNext /\ ~ScreeningNext
    <2>1. status' = status
      <3>1. CASE AdvanceNext
        BY <3>1 DEF AdvanceNext, SendStepCode, RevokeDevice, Advance, PersonArrives, AdvanceSteps, FindDevice,
                    BindDevice, ReadStepCode, DropStepCode, ReadStatus, ReadIncidents, Reserve, Moves,
                    personVars, accountVars
      <3>2. CASE CodesNext \/ CompanyNext \/ UNCHANGED vars
        BY <3>2, CompanyLeavesPerson DEF CodesNext, CodeExpires, vars, personVars, accountVars
      <3>3. CASE Fault
        BY <3>3, FaultFrame DEF personVars, accountVars
      <3> QED BY <1>5, <3>1, <3>2, <3>3 DEF Next, CompanyNext
    <2>2. Keeps
      BY <1>1, <1>5, OnlyItsGroup
    <2> QED BY <2>1, <2>2
  <1> QED BY <1>2, <1>3, <1>4, <1>5 DEF LoginNext, ScreeningNext

LEMMA BlockStep == ASSUME HandlerInv, BlockInv, [Next]_vars PROVE BlockInv'
  <1> SUFFICES ASSUME status' = "BLOCKED"
               PROVE  \E b \in incidents' : \A n \in Busy' : CanPromote(n)' => Overlapped(n, b)'
    BY DEF BlockInv
  <1>1. met \subseteq met' /\ incidents \subseteq incidents' /\ HandlerInv'
    BY StepKeepsRequests, IncidentsGrow
  <1>2. CASE status = "BLOCKED"
    <2>1. PICK b \in incidents : \A n \in Busy : CanPromote(n) => Overlapped(n, b)
      BY <1>2 DEF BlockInv
    <2>2. \A n \in Busy' : CanPromote(n)' => Overlapped(n, b)'
      BY <1>1, <1>2, <2>1, BlockMoves DEF Overlapped
    <2> QED BY <1>1, <2>1, <2>2
  <1>3. CASE status # "BLOCKED"
    <2>1. PICK b \in Busy \cap incidents' : b \notin Busy' /\ Proceeds(b)
      BY <1>3, BlockMoves
    <2>2. \A n \in Busy' : n \in Busy /\ n # b
      <3>1. \A m \in Requests \ {b} : request'[m] = request[m]
        BY <2>1 DEF Proceeds, GoesTo, Becomes, HandlerInv, RequestShape
      <3> QED BY <2>1, <3>1 DEF Busy
    <2>3. \A n \in Busy' : Overlapped(n, b)'
      BY <1>1, <2>1, <2>2 DEF HandlerInv, BusyMet, Overlapped
    <2> QED BY <2>1, <2>3
  <1> QED BY <1>2, <1>3

LEMMA BlockLeft ==
  ASSUME HandlerInv, BlockInv, [Next]_vars
  PROVE  (status = "BLOCKED" /\ status' # "BLOCKED") =>
           \E n \in Requests, b \in incidents : request'[n] # request[n] /\ Overlapped(n, b)
  <1> SUFFICES ASSUME status = "BLOCKED", status' # "BLOCKED"
               PROVE  \E n \in Requests, b \in incidents : request'[n] # request[n] /\ Overlapped(n, b)
    OBVIOUS
  <1>1. PICK n \in Busy : CanPromote(n) /\ request'[n] # request[n]
    BY BlockMoves
  <1>2. PICK b \in incidents : Overlapped(n, b)
    BY <1>1 DEF BlockInv
  <1> QED BY <1>1, <1>2, BusyIsLive

(* A blocked account is released only by a request that was in progress    *)
(* beside the screening that blocked it.                                   *)
THEOREM BlocksHold == Spec => BlockHolds
  <1>1. Init => HandlerInv /\ BlockInv
    BY HandlersInit DEF Init, InitIdentity, BlockInv
  <1>2. HandlerInv /\ BlockInv /\ [Next]_vars => (HandlerInv /\ BlockInv)'
    BY StepKeepsRequests, BlockStep
  <1>3. HandlerInv /\ BlockInv /\ [Next]_vars =>
          [(status = "BLOCKED" /\ status' # "BLOCKED") =>
             \E n \in Requests, b \in incidents : request'[n] # request[n] /\ Overlapped(n, b)]_vars
    BY BlockLeft
  <1> QED BY <1>1, <1>2, <1>3, PTL DEF Spec, BlockHolds

(***************************************************************************)
(* CodeUsedOnce                                                            *)
(***************************************************************************)
CodedOps == {"login", "advance"}
CodeOf(op) == IF op = "login" THEN loginCode ELSE stepCode

(* Another request for op was in progress beside n.                        *)
Tainted(n, op) == \E m \in Requests : SameOp(m, op) /\ Overlapped(m, n)

(* The login is past the deletion of its code.                             *)
Passed(n) ==
  /\ request[n].op = "login"
  /\ request[n].at \in {"finds account", "registers", "issues card", "signs in", "stores code again"}

(* The request has compared its code and may still be let in by it.        *)
HoldsCode(n, op) == request[n].op = op /\ (request[n].at = "drops code" \/ Passed(n))

AsksWithCode(n) == "code" \in DOMAIN request[n] /\ request[n].code \in 1..codes

(* A code that has let in a request, alone, is gone, and nobody holds it.  *)
CodeInv ==
  /\ codes \in Nat /\ loginCode \in 0..codes /\ stepCode \in 0..codes
  /\ \A n \in Busy : request[n].op \in CodedOps => AsksWithCode(n)
  /\ \A n \in Busy : Passed(n) => Tainted(n, "login") \/ loginCode # request[n].code
  /\ \A u \in uses :
       /\ u.op \in CodedOps /\ u.by \in Requests /\ u.code \in 1..codes
       /\ \/ Tainted(u.by, u.op)
          \/ /\ CodeOf(u.op) # u.code
             /\ \A m \in Busy : HoldsCode(m, u.op) => request[m].code # u.code
  /\ CodeUsedOnce

LEMMA CodeInit == Init => CodeInv
  <1> SUFFICES ASSUME Init PROVE CodeInv
    OBVIOUS
  <1>1. Busy = {}
    <2>1. NotYet.at \in Ended
      BY DEF NotYet, Ended
    <2> QED BY <2>1 DEF Init, InitHandlers, Busy
  <1>2. codes = 0 /\ loginCode = 0 /\ stepCode = 0 /\ uses = {}
    BY DEF Init, InitIdentity
  <1> QED BY <1>1, <1>2 DEF CodeInv, CodeUsedOnce

LEMMA TaintStays ==
  ASSUME HandlerInv, [Next]_vars, NEW n, NEW op, Tainted(n, op) PROVE Tainted(n, op)'
  <1>1. PICK m \in Requests : SameOp(m, op) /\ Overlapped(m, n)
    BY DEF Tainted
  <1>2. SameOp(m, op)' /\ Overlapped(m, n)'
    BY <1>1, StepKeepsRequests DEF OpsKept, SameOp, Overlapped
  <1> QED BY <1>2 DEF Tainted

(* Two busy requests for op taint each other.                              *)
LEMMA BusyTaint ==
  ASSUME HandlerInv, NEW n \in Busy, NEW m \in Busy, m # n PROVE Tainted(n, request[m].op)
  BY BusyIsLive DEF HandlerInv, BusyMet, Tainted, SameOp

(* The request goes on with its code, or has just come in with one.        *)
CarriesCode(n) ==
  \/ /\ n \in Busy /\ request'[n].op = request[n].op
     /\ "code" \in DOMAIN request'[n] /\ request'[n].code = request[n].code
     /\ \A op \in CodedOps : HoldsCode(n, op)' => HoldsCode(n, op) \/ request[n].code = CodeOf(op)
     /\ Passed(n)' => Passed(n) \/ loginCode' = 0
  \/ /\ "code" \in DOMAIN request'[n] /\ request'[n].code \in 1..codes'
     /\ \A op \in CodedOps : ~HoldsCode(n, op)'
     /\ ~Passed(n)'

(* A step that lets nobody in and puts no code back.                       *)
LEMMA QuietCodes ==
  ASSUME HandlerInv, CodeInv, [Next]_vars, uses' = uses,
         \/ codes' = codes /\ loginCode' \in {loginCode, 0} /\ stepCode' \in {stepCode, 0}
         \/ codes' = codes + 1 /\ loginCode' \in {loginCode, codes + 1} /\ stepCode' \in {stepCode, codes + 1},
         \A n \in Busy' : request'[n].op \in CodedOps => CarriesCode(n)
  PROVE  CodeInv'
  <1>1. /\ codes' \in Nat /\ loginCode' \in 0..codes' /\ stepCode' \in 0..codes'
        /\ \A c \in 1..codes : c \in 1..codes' /\ (loginCode # c => loginCode' # c) /\ (stepCode # c => stepCode' # c)
    BY DEF CodeInv
  <1>2. \A n \in Busy' : request'[n].op \in CodedOps => AsksWithCode(n)'
    <2> SUFFICES ASSUME NEW n \in Busy', request'[n].op \in CodedOps PROVE AsksWithCode(n)'
      OBVIOUS
    <2>1. CarriesCode(n)
      OBVIOUS
    <2>2. n \in Busy /\ request'[n].op = request[n].op => request[n].code \in 1..codes
      BY DEF CodeInv, AsksWithCode
    <2> QED BY <1>1, <2>1, <2>2 DEF CarriesCode, AsksWithCode
  <1>3. ASSUME NEW n \in Busy', Passed(n)' PROVE Tainted(n, "login")' \/ loginCode' # request'[n].code
    <2>1. CarriesCode(n) /\ request'[n].op \in CodedOps
      BY <1>3 DEF Passed, CodedOps
    <2>2. /\ n \in Busy /\ request[n].op \in CodedOps /\ request'[n].code = request[n].code
          /\ Passed(n) \/ loginCode' = 0
      BY <1>3, <2>1 DEF CarriesCode
    <2>3. request[n].code \in 1..codes
      BY <2>2 DEF CodeInv, AsksWithCode
    <2>4. Passed(n) => Tainted(n, "login") \/ loginCode # request[n].code
      BY <2>2 DEF CodeInv
    <2>5. 0 \notin 1..codes
      BY DEF CodeInv
    <2> QED BY <1>1, <2>2, <2>3, <2>4, <2>5, TaintStays
  <1>4. ASSUME NEW u \in uses'
        PROVE  /\ u.op \in CodedOps /\ u.by \in Requests /\ u.code \in 1..codes'
               /\ \/ Tainted(u.by, u.op)'
                  \/ /\ CodeOf(u.op)' # u.code
                     /\ \A m \in Busy' : HoldsCode(m, u.op)' => request'[m].code # u.code
    <2>1. /\ u.op \in CodedOps /\ u.by \in Requests /\ u.code \in 1..codes
          /\ \/ Tainted(u.by, u.op)
             \/ /\ CodeOf(u.op) # u.code
                /\ \A m \in Busy : HoldsCode(m, u.op) => request[m].code # u.code
      BY <1>4 DEF CodeInv
    <2>2. CodeOf(u.op) # u.code => CodeOf(u.op)' # u.code
      BY <1>1, <2>1 DEF CodeOf
    <2>3. ASSUME CodeOf(u.op) # u.code,
                 \A m \in Busy : HoldsCode(m, u.op) => request[m].code # u.code,
                 NEW m \in Busy', HoldsCode(m, u.op)'
          PROVE  request'[m].code # u.code
      <3>1. CarriesCode(m)
        BY <2>1, <2>3 DEF HoldsCode
      <3> QED BY <2>1, <2>3, <3>1 DEF CarriesCode
    <2> QED BY <1>1, <2>1, <2>2, <2>3, TaintStays
  <1>5. CodeUsedOnce'
    BY TaintStays DEF CodeInv, CodeUsedOnce, Tainted
  <1> QED BY <1>1, <1>2, <1>3, <1>4, <1>5 DEF CodeInv

(* The request n is let in by its code, which is gone by then.             *)
LEMMA LettingIn ==
  ASSUME HandlerInv, CodeInv, [Next]_vars,
         NEW n \in Busy, NEW op \in CodedOps, HoldsCode(n, op),
         codes' = codes, loginCode' \in {loginCode, 0}, stepCode' \in {stepCode, 0},
         uses' = uses \cup {[op |-> op, code |-> request[n].code, by |-> n]},
         \A m \in Requests \ {n} : request'[m] = request[m],
         n \in Busy' => request'[n].op = op /\ AsksWithCode(n)' /\ ~HoldsCode(n, op)',
         Tainted(n, op) \/ CodeOf(op)' # request[n].code
  PROVE  CodeInv'
  <1> DEFINE new == [op |-> op, code |-> request[n].code, by |-> n]
  <1>1. /\ codes' \in Nat /\ loginCode' \in 0..codes' /\ stepCode' \in 0..codes'
        /\ \A c \in 1..codes : c \in 1..codes' /\ (loginCode # c => loginCode' # c) /\ (stepCode # c => stepCode' # c)
    BY DEF CodeInv
  <1>2. request[n].op = op /\ request[n].code \in 1..codes /\ n \in Requests
    BY BusyIsLive DEF HoldsCode, CodeInv, AsksWithCode
  <1>3. \A m \in Busy' \ {n} : m \in Busy /\ request'[m] = request[m]
    BY DEF Busy
  <1>4. \A m \in Busy' : request'[m].op \in CodedOps => AsksWithCode(m)'
    BY <1>1, <1>3 DEF CodeInv, AsksWithCode
  <1>5. ~Passed(n)' \/ n \notin Busy'
    BY DEF HoldsCode, Passed
  <1>6. ASSUME NEW m \in Busy', Passed(m)' PROVE Tainted(m, "login")' \/ loginCode' # request'[m].code
    <2>1. m \in Busy /\ request'[m] = request[m] /\ Passed(m)
      BY <1>3, <1>5, <1>6 DEF Passed
    <2>2. Tainted(m, "login") \/ loginCode # request[m].code
      BY <2>1 DEF CodeInv
    <2>3. request[m].code \in 1..codes
      BY <2>1 DEF CodeInv, AsksWithCode, Passed, CodedOps
    <2> QED BY <1>1, <2>1, <2>2, <2>3, TaintStays
  <1>7. ASSUME NEW u \in uses, ~Tainted(u.by, u.op)
        PROVE  /\ CodeOf(u.op)' # u.code
               /\ \A m \in Busy' : HoldsCode(m, u.op)' => request'[m].code # u.code
    <2>1. /\ u.op \in CodedOps /\ u.code \in 1..codes /\ CodeOf(u.op) # u.code
          /\ \A m \in Busy : HoldsCode(m, u.op) => request[m].code # u.code
      BY <1>7 DEF CodeInv
    <2>2. CodeOf(u.op)' # u.code
      BY <1>1, <2>1 DEF CodeOf
    <2>3. \A m \in Busy' : HoldsCode(m, u.op)' => m # n
      BY DEF HoldsCode
    <2>4. \A m \in Busy' \ {n} : m \in Busy /\ (HoldsCode(m, u.op)' => HoldsCode(m, u.op))
      BY <1>3 DEF HoldsCode, Passed
    <2>5. \A m \in Busy' : HoldsCode(m, u.op)' => request'[m].code # u.code
      BY <1>3, <2>1, <2>3, <2>4
    <2> QED BY <2>2, <2>5
  <1>8. new.op = op /\ new.code = request[n].code /\ new.by = n
    OBVIOUS
  <1>9. uses' = uses \cup {new}
    OBVIOUS
  <1> HIDE DEF new
  <1>10. ASSUME ~Tainted(n, op)
         PROVE  \A m \in Busy' : ~HoldsCode(m, op)'
    <2>1. \A m \in Busy' \ {n} : request[m].op # op
      BY <1>3, <1>10, BusyTaint
    <2> QED BY <1>3, <2>1 DEF HoldsCode
  <1>11. ASSUME NEW u \in uses'
         PROVE  /\ u.op \in CodedOps /\ u.by \in Requests /\ u.code \in 1..codes'
                /\ \/ Tainted(u.by, u.op)'
                   \/ /\ CodeOf(u.op)' # u.code
                      /\ \A m \in Busy' : HoldsCode(m, u.op)' => request'[m].code # u.code
    <2>1. CASE u \in uses
      BY <1>1, <1>7, <2>1, TaintStays DEF CodeInv
    <2>2. CASE u = new
      BY <1>1, <1>2, <1>8, <1>10, <2>2, TaintStays
    <2> QED BY <1>9, <2>1, <2>2
  <1>12. ASSUME NEW u \in uses, u.op = op, u.code = request[n].code PROVE Tainted(u.by, u.op)'
    <2>1. Tainted(u.by, u.op)
      BY <1>12 DEF CodeInv
    <2> QED BY <2>1, TaintStays
  <1>13. CodeUsedOnce'
    <2> SUFFICES ASSUME NEW u \in uses', NEW v \in uses', u.op = v.op, u.code = v.code, u.by # v.by
                 PROVE  Tainted(u.by, u.op)' \/ Tainted(v.by, u.op)'
      BY DEF CodeUsedOnce, Tainted
    <2>1. CASE u \in uses /\ v \in uses
      <3>1. Tainted(u.by, u.op) \/ Tainted(v.by, u.op)
        BY <2>1 DEF CodeInv, CodeUsedOnce, Tainted
      <3> QED BY <3>1, TaintStays
    <2>2. CASE u \in uses /\ v = new
      BY <1>8, <1>12, <2>2
    <2>3. CASE u = new /\ v \in uses
      BY <1>8, <1>12, <2>3
    <2> QED BY <1>9, <2>1, <2>2, <2>3
  <1> QED BY <1>1, <1>4, <1>6, <1>11, <1>13 DEF CodeInv

(* A call without a name puts the code back: it is let in by nobody yet,   *)
(* and the other logins in progress are tainted by this one.               *)
LEMMA PuttingBack ==
  ASSUME HandlerInv, CodeInv, [Next]_vars, NEW n \in Busy, StoreCodeAgain(n), n \notin Busy'
  PROVE  CodeInv'
  <1>1. /\ request[n].op = "login" /\ Passed(n) /\ HoldsCode(n, "login")
        /\ loginCode' = request[n].code /\ UNCHANGED <<stepCode, codes, uses>>
    BY DEF StoreCodeAgain, Is, Passed, HoldsCode
  <1>2. request[n].code \in 1..codes
    BY <1>1 DEF CodeInv, AsksWithCode, CodedOps
  <1>3. \A m \in Requests \ {n} : request'[m] = request[m]
    BY DEF StoreCodeAgain, GoesTo, Becomes, HandlerInv, RequestShape
  <1>4. \A m \in Busy' : m \in Busy /\ m # n /\ request'[m] = request[m]
    BY <1>3 DEF Busy
  <1>5. codes' \in Nat /\ loginCode' \in 0..codes' /\ stepCode' \in 0..codes'
    BY <1>1, <1>2 DEF CodeInv
  <1>6. \A m \in Busy' : request'[m].op \in CodedOps => AsksWithCode(m)'
    BY <1>1, <1>4 DEF CodeInv, AsksWithCode
  <1>7. \A m \in Busy' : Passed(m)' => Tainted(m, "login")'
    BY <1>1, <1>4, BusyTaint, TaintStays
  <1>8. ASSUME NEW u \in uses'
        PROVE  /\ u.op \in CodedOps /\ u.by \in Requests /\ u.code \in 1..codes'
               /\ \/ Tainted(u.by, u.op)'
                  \/ /\ CodeOf(u.op)' # u.code
                     /\ \A m \in Busy' : HoldsCode(m, u.op)' => request'[m].code # u.code
    <2>1. /\ u.op \in CodedOps /\ u.by \in Requests /\ u.code \in 1..codes
          /\ \/ Tainted(u.by, u.op)
             \/ /\ CodeOf(u.op) # u.code
                /\ \A m \in Busy : HoldsCode(m, u.op) => request[m].code # u.code
      BY <1>1, <1>8 DEF CodeInv
    <2>2. CASE Tainted(u.by, u.op)
      BY <1>1, <2>1, <2>2, TaintStays
    <2>3. CASE /\ CodeOf(u.op) # u.code
               /\ \A m \in Busy : HoldsCode(m, u.op) => request[m].code # u.code
      <3>1. CodeOf(u.op)' # u.code
        BY <1>1, <2>1, <2>3 DEF CodeOf
      <3>2. \A m \in Busy' : HoldsCode(m, u.op)' => HoldsCode(m, u.op)
        BY <1>4 DEF HoldsCode, Passed
      <3> QED BY <1>1, <1>4, <2>1, <2>3, <3>1, <3>2
    <2> QED BY <2>1, <2>2, <2>3
  <1>9. CodeUsedOnce'
    BY <1>1, TaintStays DEF CodeInv, CodeUsedOnce, Tainted
  <1> QED BY <1>5, <1>6, <1>7, <1>8, <1>9 DEF CodeInv

(* A step that moves no request for a code.                                *)
LEMMA CodesRest ==
  ASSUME CodeInv, Untouched("login"), Untouched("advance")
  PROVE  \A n \in Busy' : request'[n].op \in CodedOps => CarriesCode(n)
  <1> SUFFICES ASSUME NEW n \in Busy', request'[n].op \in CodedOps PROVE CarriesCode(n)
    OBVIOUS
  <1>1. request'[n] = request[n] /\ n \in Requests
    BY BusyIsLive DEF Untouched, SameOp, CodedOps
  <1>2. n \in Busy
    BY <1>1 DEF Busy
  <1>3. AsksWithCode(n)
    BY <1>1, <1>2 DEF CodeInv
  <1> QED BY <1>1, <1>2, <1>3 DEF CarriesCode, AsksWithCode, HoldsCode, Passed

(* A step in which only the request n, for a code, goes on to at.          *)
LEMMA OneGoesOn ==
  ASSUME HandlerInv, CodeInv, NEW n \in Busy, request[n].op \in CodedOps,
         NEW at, at # "not yet", GoesTo(n, at)
  PROVE  /\ \A m \in Requests \ {n} : request'[m] = request[m]
         /\ at \in Ended => n \notin Busy'
         /\ request'[n].at = at /\ request'[n].op = request[n].op
         /\ at \notin Ended => "code" \in DOMAIN request'[n] /\ request'[n].code = request[n].code
         /\ \A m \in Busy' \ {n} : request'[m].op \in CodedOps => CarriesCode(m)
  <1>1. \A m \in Requests \ {n} : request'[m] = request[m]
    BY DEF GoesTo, Becomes, HandlerInv, RequestShape
  <1>2. request'[n].at = at /\ request'[n].op = request[n].op
    BY Going
  <1>3. "code" \in DOMAIN request[n] \ {"at"}
    BY DEF CodeInv, AsksWithCode
  <1>4. at \notin Ended => "code" \in DOMAIN request'[n] /\ request'[n].code = request[n].code
    BY <1>3, Going
  <1>5. at \in Ended => n \notin Busy'
    BY <1>2 DEF Busy
  <1>6. ASSUME NEW m \in Busy' \ {n}, request'[m].op \in CodedOps PROVE CarriesCode(m)
    <2>1. m \in Busy /\ request'[m] = request[m]
      BY <1>1 DEF Busy
    <2>2. AsksWithCode(m)
      BY <1>6, <2>1 DEF CodeInv
    <2> QED BY <2>1, <2>2 DEF CarriesCode, AsksWithCode, HoldsCode, Passed
  <1> QED BY <1>1, <1>2, <1>4, <1>5, <1>6

LEMMA LoginKeepsCodes ==
  ASSUME HandlerInv, CodeInv, [Next]_vars, NEW n \in Requests, LoginSteps(n) PROVE CodeInv'
  <1>1. n \in Busy /\ request[n].op = "login" /\ request[n].op \in CodedOps
    BY LoginMoves DEF CodedOps
  <1>2. ASSUME UNCHANGED <<codes, stepCode, uses>>, loginCode' \in {loginCode, 0},
               NEW at, at # "not yet", GoesTo(n, at),
               \/ at \in Ended
               \/ at = "drops code" /\ request[n].code = loginCode
               \/ at \notin Ended \cup {"drops code"} /\ (Passed(n) \/ (loginCode' = 0 /\ HoldsCode(n, "login")))
        PROVE  CodeInv'
    <2>1. n \in Busy' => CarriesCode(n)
      <3> SUFFICES ASSUME n \in Busy' PROVE CarriesCode(n)
        OBVIOUS
      <3>1. /\ at \notin Ended /\ request'[n].at = at /\ request'[n].op = "login"
            /\ "code" \in DOMAIN request'[n] /\ request'[n].code = request[n].code
        BY <1>1, <1>2, OneGoesOn
      <3>2. HoldsCode(n, "login") \/ request[n].code = loginCode
        BY <1>1, <1>2, <3>1 DEF HoldsCode
      <3>3. Passed(n)' => Passed(n) \/ loginCode' = 0
        BY <1>2, <3>1 DEF Passed
      <3>4. \A op \in CodedOps : HoldsCode(n, op)' => op = "login"
        BY <3>1 DEF HoldsCode
      <3> QED BY <1>1, <3>1, <3>2, <3>3, <3>4 DEF CarriesCode, CodeOf
    <2>2. \A m \in Busy' : request'[m].op \in CodedOps => CarriesCode(m)
      BY <1>1, <1>2, <2>1, OneGoesOn
    <2> QED BY <1>2, <2>2, QuietCodes
  <1>3. CASE ReadLoginCode(n)
    <2>1. /\ UNCHANGED <<codes, stepCode, uses, loginCode>>
          /\ \/ GoesTo(n, "drops code") /\ request[n].code = loginCode
             \/ GoesTo(n, "refused")
      BY <1>3 DEF ReadLoginCode, Moves, personVars, codeVars
    <2> QED BY <1>2, <2>1 DEF Ended
  <1>4. CASE DropLoginCode(n)
    <2>1. /\ UNCHANGED <<codes, stepCode, uses>> /\ loginCode' = 0
          /\ GoesTo(n, "finds account") /\ HoldsCode(n, "login")
      BY <1>4 DEF DropLoginCode, Dropped, Is, HoldsCode
    <2> QED BY <1>2, <2>1 DEF Ended
  <1>5. CASE FindAccount(n)
    <2> DEFINE at == CASE status = "BLOCKED" -> "refused"
                       [] status = "none" /\ request[n].named -> "registers"
                       [] status = "none" /\ ~request[n].named -> "stores code again"
                       [] OTHER -> "signs in"
    <2>1. UNCHANGED <<codes, stepCode, uses, loginCode>> /\ GoesTo(n, at) /\ Passed(n)
      BY <1>5 DEF FindAccount, Moves, Is, Passed, personVars, codeVars
    <2>2. at # "not yet" /\ (at \in Ended \/ at \notin Ended \cup {"drops code"})
      BY DEF Ended
    <2> HIDE DEF at
    <2> QED BY <1>2, <2>1, <2>2
  <1>6. CASE StoreCodeAgain(n)
    <2>1. GoesTo(n, "refused") /\ "refused" \in Ended
      BY <1>6 DEF StoreCodeAgain, Ended
    <2>2. n \notin Busy'
      BY <1>1, <2>1, OneGoesOn
    <2> QED BY <1>1, <1>6, <2>2, PuttingBack
  <1>7. CASE Register(n) \/ CardActivates(n) \/ CardFails(n)
    <2>1. /\ UNCHANGED <<codes, stepCode, uses, loginCode>> /\ Passed(n)
          /\ GoesTo(n, "issues card") \/ GoesTo(n, "refused") \/ GoesTo(n, "signs in")
      BY <1>7 DEF Register, CardActivates, CardFails, Moves, Is, Passed, personVars, codeVars
    <2> QED BY <1>2, <2>1 DEF Ended
  <1>8. CASE SignIn(n)
    <2>1. /\ UNCHANGED <<codes, stepCode, loginCode>> /\ Passed(n) /\ HoldsCode(n, "login")
          /\ uses' = uses \cup {[op |-> "login", code |-> request[n].code, by |-> n]}
          /\ GoesTo(n, "done") /\ "done" \in Ended
      BY <1>8 DEF SignIn, Is, Passed, HoldsCode, Ended
    <2>2. n \notin Busy' /\ \A m \in Requests \ {n} : request'[m] = request[m]
      BY <1>1, <2>1, OneGoesOn
    <2>3. Tainted(n, "login") \/ CodeOf("login")' # request[n].code
      BY <1>1, <2>1 DEF CodeInv, CodeOf
    <2>4. "login" \in CodedOps /\ codes' = codes /\ loginCode' \in {loginCode, 0} /\ stepCode' \in {stepCode, 0}
      BY <2>1 DEF CodedOps
    <2> QED BY <1>1, <2>1, <2>2, <2>3, <2>4, LettingIn
  <1> QED BY <1>3, <1>4, <1>5, <1>6, <1>7, <1>8 DEF LoginSteps

LEMMA AdvanceKeepsCodes ==
  ASSUME HandlerInv, CodeInv, [Next]_vars, NEW n \in Requests, AdvanceSteps(n) PROVE CodeInv'
  <1>1. n \in Busy /\ request[n].op = "advance" /\ request[n].op \in CodedOps
    BY IsBusy DEF AdvanceSteps, FindDevice, BindDevice, ReadStepCode, DropStepCode,
                  ReadStatus, ReadIncidents, Reserve, Ended, CodedOps
  <1>2. ASSUME UNCHANGED <<codes, stepCode, uses, loginCode>>,
               NEW at, at # "not yet", GoesTo(n, at),
               at = "drops code" => request[n].code = stepCode
        PROVE  CodeInv'
    <2>1. n \in Busy' => CarriesCode(n)
      <3> SUFFICES ASSUME n \in Busy' PROVE CarriesCode(n)
        OBVIOUS
      <3>1. /\ at \notin Ended /\ request'[n].at = at /\ request'[n].op = "advance"
            /\ "code" \in DOMAIN request'[n] /\ request'[n].code = request[n].code
        BY <1>1, <1>2, OneGoesOn
      <3>2. \A op \in CodedOps : HoldsCode(n, op)' => op = "advance" /\ at = "drops code"
        BY <3>1 DEF HoldsCode, Passed
      <3>3. ~Passed(n)'
        BY <3>1 DEF Passed
      <3> QED BY <1>1, <1>2, <3>1, <3>2, <3>3 DEF CarriesCode, CodeOf
    <2>2. \A m \in Busy' : request'[m].op \in CodedOps => CarriesCode(m)
      BY <1>1, <1>2, <2>1, OneGoesOn
    <2> QED BY <1>2, <2>2, QuietCodes
  <1>3. CASE DropStepCode(n)
    <2>1. /\ UNCHANGED <<codes, loginCode>> /\ stepCode' = 0 /\ HoldsCode(n, "advance")
          /\ uses' = uses \cup {[op |-> "advance", code |-> request[n].code, by |-> n]}
          /\ GoesTo(n, "reads status") /\ "reads status" \notin Ended
      BY <1>3 DEF DropStepCode, Is, HoldsCode, Ended
    <2>2. /\ \A m \in Requests \ {n} : request'[m] = request[m]
          /\ request'[n].at = "reads status" /\ request'[n].op = "advance"
          /\ "code" \in DOMAIN request'[n] /\ request'[n].code = request[n].code
      BY <1>1, <2>1, OneGoesOn
    <2>3. request[n].code \in 1..codes /\ 0 \notin 1..codes
      BY <1>1 DEF CodeInv, AsksWithCode
    <2>4. AsksWithCode(n)' /\ ~HoldsCode(n, "advance")' /\ CodeOf("advance")' # request[n].code
      BY <2>1, <2>2, <2>3 DEF AsksWithCode, HoldsCode, Passed, CodeOf
    <2>5. /\ "advance" \in CodedOps /\ codes' = codes
          /\ loginCode' \in {loginCode, 0} /\ stepCode' \in {stepCode, 0}
      BY <2>1 DEF CodedOps
    <2> QED BY <1>1, <2>1, <2>2, <2>4, <2>5, LettingIn
  <1>4. CASE ReadStepCode(n)
    <2>1. /\ UNCHANGED <<codes, stepCode, uses, loginCode>>
          /\ \/ GoesTo(n, "drops code") /\ request[n].code = stepCode
             \/ GoesTo(n, "refused")
      BY <1>4 DEF ReadStepCode, Moves, personVars, codeVars
    <2> QED BY <1>2, <2>1
  <1>5. CASE FindDevice(n)
    <2>1. /\ UNCHANGED <<codes, stepCode, uses, loginCode>>
          /\ GoesTo(n, "refused") \/ GoesTo(n, "binds device") \/ GoesTo(n, "reads code")
      BY <1>5 DEF FindDevice, Moves, personVars, codeVars
    <2> QED BY <1>2, <2>1
  <1>6. CASE BindDevice(n) \/ ReadStatus(n)
    <2>1. /\ UNCHANGED <<codes, stepCode, uses, loginCode>>
          /\ GoesTo(n, "refused") \/ GoesTo(n, "reads code") \/ GoesTo(n, "reads incidents")
      BY <1>6 DEF BindDevice, ReadStatus, Moves, personVars, codeVars
    <2> QED BY <1>2, <2>1
  <1>7. CASE ReadIncidents(n) \/ Reserve(n)
    <2>1. /\ UNCHANGED <<codes, stepCode, uses, loginCode>>
          /\ GoesTo(n, "refused") \/ GoesTo(n, "reserves") \/ GoesTo(n, "done")
      BY <1>7 DEF ReadIncidents, Reserve, Moves, personVars, codeVars
    <2> QED BY <1>2, <2>1
  <1> QED BY <1>3, <1>4, <1>5, <1>6, <1>7 DEF AdvanceSteps

(* A request comes in with a code that has been sent.                      *)
LEMMA AskingKeepsCodes ==
  ASSUME HandlerInv, CodeInv, [Next]_vars, UNCHANGED codeVars,
         NEW r, IsRequest(r), r # NotYet, Arrives(r),
         "code" \in DOMAIN r, r.code \in 1..codes, r.at \in {"reads code", "finds device"}
  PROVE  CodeInv'
  <1>1. codes' = codes /\ loginCode' = loginCode /\ stepCode' = stepCode /\ uses' = uses
    BY DEF codeVars
  <1>2. PICK n \in Requests : request'[n] = r /\ \A m \in Requests \ {n} : request'[m] = request[m]
    <2>1. r.op \in {r.op}
      OBVIOUS
    <2> QED BY <2>1, Arriving
  <1>3. CarriesCode(n)
    BY <1>1, <1>2 DEF CarriesCode, HoldsCode, Passed
  <1>4. ASSUME NEW m \in Busy', m # n, request'[m].op \in CodedOps PROVE CarriesCode(m)
    <2>1. m \in Busy /\ request'[m] = request[m]
      BY <1>2, <1>4 DEF Busy
    <2>2. AsksWithCode(m)
      BY <1>4, <2>1 DEF CodeInv
    <2> QED BY <2>1, <2>2 DEF CarriesCode, AsksWithCode, HoldsCode, Passed
  <1> QED BY <1>1, <1>3, <1>4, QuietCodes

LEMMA CodesElsewhere ==
  ASSUME [Next]_vars PROVE LoginNext \/ AdvanceNext \/ CodesNext \/ UNCHANGED codeVars
  <1>1. CASE ScreeningNext
    BY <1>1 DEF ScreeningNext, IngestList, Rescreen, SubmitDocument, PersonArrives, KycSteps, RescreenSteps,
                ReadAccount, ExtractorFails, ScreenDocument, CommitDocument, ListAccounts, ScreenAccount,
                LookForIncident, OpenIncident, Moves, personVars
  <1>2. CASE CompanyNext \/ UNCHANGED vars
    BY <1>2, CompanyLeavesPerson DEF vars, personVars
  <1>3. CASE Fault
    BY <1>3, FaultFrame DEF personVars
  <1> QED BY <1>1, <1>2, <1>3 DEF Next, CompanyNext

LEMMA CodeStep == ASSUME HandlerInv, CodeInv, [Next]_vars PROVE CodeInv'
  <1>1. CASE \E n \in Requests : LoginSteps(n)
    BY <1>1, LoginKeepsCodes
  <1>2. CASE \E n \in Requests : AdvanceSteps(n)
    BY <1>2, AdvanceKeepsCodes
  <1>3. CASE SendLoginCode \/ SendStepCode \/ RevokeDevice \/ CodeExpires
    <2>1. /\ uses' = uses
          /\ \/ codes' = codes /\ loginCode' \in {loginCode, 0} /\ stepCode' \in {stepCode, 0}
             \/ codes' = codes + 1 /\ loginCode' \in {loginCode, codes + 1} /\ stepCode' \in {stepCode, codes + 1}
      BY <1>3 DEF SendLoginCode, SendStepCode, RevokeDevice, CodeExpires, codeVars
    <2>2. UNCHANGED handlerVars
      BY <1>3 DEF SendLoginCode, SendStepCode, RevokeDevice, CodeExpires
    <2>3. Untouched("login") /\ Untouched("advance")
      BY <2>2 DEF handlerVars, Untouched
    <2> QED BY <2>1, <2>3, CodesRest, QuietCodes
  <1>4. ASSUME NEW code \in 1..codes, NEW named, Login(code, named) PROVE CodeInv'
    <2> DEFINE r == [op |-> "login", at |-> "reads code", code |-> code, named |-> named]
    <2>1. IsRequest(r) /\ r # NotYet /\ "code" \in DOMAIN r /\ r.code = code /\ r.at = "reads code"
      BY DEF IsRequest, NotYet
    <2>2. Arrives(r) /\ UNCHANGED codeVars
      BY <1>4 DEF Login, PersonArrives, personVars
    <2> HIDE DEF r
    <2> QED BY <2>1, <2>2, AskingKeepsCodes
  <1>5. ASSUME NEW code \in 1..codes, Advance(code) PROVE CodeInv'
    <2> DEFINE r == [op |-> "advance", at |-> "finds device", code |-> code, known |-> incidents # {}]
    <2>1. IsRequest(r) /\ r # NotYet /\ "code" \in DOMAIN r /\ r.code = code /\ r.at = "finds device"
      BY DEF IsRequest, NotYet
    <2>2. Arrives(r) /\ UNCHANGED codeVars
      BY <1>5 DEF Advance, PersonArrives, personVars
    <2> HIDE DEF r
    <2> QED BY <2>1, <2>2, AskingKeepsCodes
  <1>6. CASE UNCHANGED codeVars /\ ~LoginNext /\ ~AdvanceNext
    <2>1. Untouched("login") /\ Untouched("advance")
      BY <1>6, OnlyItsGroup
    <2>2. uses' = uses /\ codes' = codes /\ loginCode' = loginCode /\ stepCode' = stepCode
      BY <1>6 DEF codeVars
    <2> QED BY <2>1, <2>2, CodesRest, QuietCodes
  <1>7. /\ LoginNext => \/ SendLoginCode
                        \/ \E code \in 1..codes, named \in BOOLEAN : Login(code, named)
                        \/ \E n \in Requests : LoginSteps(n)
        /\ AdvanceNext => \/ SendStepCode \/ RevokeDevice
                          \/ \E code \in 1..codes : Advance(code)
                          \/ \E n \in Requests : AdvanceSteps(n)
        /\ CodesNext => CodeExpires
    BY DEF LoginNext, AdvanceNext, CodesNext
  <1> QED BY <1>1, <1>2, <1>3, <1>4, <1>5, <1>6, <1>7, CodesElsewhere

(* A code lets in two requests only if one of them overlapped another of   *)
(* its kind, although it is read and deleted in two steps and may be put   *)
(* back in between.                                                        *)
THEOREM CodesLetInOnce == Spec => []CodeUsedOnce
  <1>1. Init => HandlerInv /\ CodeInv
    BY HandlersInit, CodeInit DEF Init
  <1>2. HandlerInv /\ CodeInv /\ [Next]_vars => (HandlerInv /\ CodeInv)'
    BY StepKeepsRequests, CodeStep
  <1>3. CodeInv => CodeUsedOnce
    BY DEF CodeInv
  <1> QED BY <1>1, <1>2, <1>3, PTL DEF Spec

(***************************************************************************)
(* The dashboard's sign-in: codes, refresh tokens, and the wallet of a new *)
(* account.                                                                *)
(***************************************************************************)
OtpInv ==
  /\ sent \in Nat
  /\ otps = [p \in Purposes |-> otps[p]]
  /\ \A p \in Purposes : otps[p] = NoOtp \/ (otps[p].code \in 1..sent /\ otps[p].tries \in Nat)
  /\ \A p, q \in Purposes : otps[p] # NoOtp /\ otps[q] # NoOtp /\ otps[p].code = otps[q].code => p = q
  /\ \A u \in entered : u.code \in 1..sent /\ \A p \in Purposes : otps[p] # NoOtp => otps[p].code # u.code
  /\ \A u, v \in entered : u.code = v.code => u = v

(* No token of a login is live, or a refresh has met the request.          *)
GoneOr(login, n) ==
  \/ \A t \in live : t.login # login
  \/ \E m \in Requests : SameOp(m, "refresh") /\ Overlapped(m, n)

Logged(login) == login = 0 \/ (login \in Requests /\ SameOp(login, "enter") /\ request[login].at = "done")

TokenInv ==
  /\ faults \in Nat
  /\ live \subseteq given
  /\ \A t \in given : Logged(t.login)
  /\ \A t, u \in live : t.login = u.login => t = u
  /\ \A e \in ended : Logged(e.login) /\ (e.fresh => GoneOr(e.login, e.by))
  /\ \A t \in given \ (live \cup spent) : faults > 0 \/ \E n \in Requests : Overlapped(n, t.by)

(* What a request in progress has been called with and knows. *)
Carries(n) ==
  LET r == request[n] IN
  r # NotYet /\ r.at \notin Ended =>
    /\ r.op \in {"ask", "enter"} => "purpose" \in DOMAIN r /\ r.purpose \in Purposes
    /\ r.op \in {"refresh", "logout"} => "token" \in DOMAIN r /\ r.token \in given
    /\ r.op = "logout" => "fresh" \in DOMAIN r

TokenSeen(n) ==
  LET r == request[n] IN
  /\ SameOp(n, "refresh") /\ r.at = "rotates" =>
       r.token \in live \/ faults > 0 \/ \E m \in Requests : Overlapped(m, n)
  /\ SameOp(n, "logout") /\ r.at \notin Ended => (r.fresh => r.token \in live \/ GoneOr(r.token.login, n))

Unfinished(n) == SameOp(n, "enter") /\ request[n].at \in {"creates wallet", "died"}
PurseInv == purse \/ person = "none" \/ \E n \in Requests : Unfinished(n)

SessionInv ==
  /\ OtpInv /\ TokenInv /\ PurseInv
  /\ \A n \in Requests : Carries(n) /\ TokenSeen(n)

LEMMA SessionsAreRight == SessionInv => SessionsFollowCodes
  BY DEF SessionInv, OtpInv, TokenInv, PurseInv, SessionsFollowCodes, GoneOr, Unfinished

LEMMA SessionsStart == Init => SessionInv
  <1> SUFFICES ASSUME Init PROVE SessionInv
    OBVIOUS
  <1>1. \A n \in Requests : request[n] = NotYet
    BY DEF Init, InitHandlers
  <1>2. \A n \in Requests : Carries(n) /\ TokenSeen(n)
    BY <1>1 DEF Carries, TokenSeen, SameOp
  <1>3. OtpInv
    <2>1. /\ otps \in [Purposes -> {NoOtp, [code |-> 1, tries |-> 2]}] /\ sent = 1 /\ entered = {}
          /\ \A p, q \in Purposes : otps[p] # NoOtp /\ otps[q] # NoOtp => p = q
      BY DEF Init, InitSessions
    <2> QED BY <2>1 DEF OtpInv, NoOtp
  <1>4. TokenInv
    <2>1. faults = 0 /\ live \in {{}, {Token(0, 0)}} /\ given = live /\ spent = {} /\ ended = {}
      BY DEF Init, InitSessions
    <2> QED BY <2>1 DEF TokenInv, Token, Logged
  <1>5. PurseInv
    BY DEF Init, InitSessions, PurseInv
  <1> QED BY <1>2, <1>3, <1>4, <1>5 DEF SessionInv

(* A step that leaves the sign-in as it is: requests of other operations   *)
(* move, and any request may die.                                          *)
SessionsRest ==
  /\ met \subseteq met' /\ OpsKept
  /\ \A n \in Requests :
       \/ request'[n] = request[n]
       \/ n \in Busy /\ request'[n] # NotYet /\ request'[n].at = "died" /\ request'[n].op = request[n].op
       \/ request'[n] # NotYet /\ request'[n].op \notin SessionOps /\ request[n].at # "done"
            /\ ~Unfinished(n)

LEMMA OthersRestSessions ==
  ASSUME HandlerInv, NEW ops, HandlerStep(ops), ops \cap SessionOps = {} PROVE SessionsRest
  <1>1. "enter" \in SessionOps /\ "done" \in Ended
    BY DEF SessionOps, Ended
  <1>2. NotYet.at # "done"
    BY NotYetEnded
  <1> QED BY <1>1, <1>2, BusyIsLive DEF HandlerStep, SessionsRest, OpsKept, Unfinished, SameOp, Busy

LEMMA KillingRestsSessions == ASSUME HandlerInv, Killing PROVE SessionsRest
  BY DEF Killing, SessionsRest, OpsKept

(* What a request knows of the tokens stays true while they do not move.   *)
LEMMA GoneStays ==
  ASSUME OpsKept, met \subseteq met', NEW login, NEW n, GoneOr(login, n), \A t \in live' : t.login = login => t \in live
  PROVE  GoneOr(login, n)'
  <1>1. ASSUME NEW m \in Requests, SameOp(m, "refresh"), Overlapped(m, n) PROVE GoneOr(login, n)'
    <2>1. SameOp(m, "refresh")'
      BY <1>1, SameOpStays
    <2> QED BY <1>1, <2>1 DEF GoneOr, Overlapped
  <1> QED BY <1>1 DEF GoneOr

LEMMA LoggedStays ==
  ASSUME OpsKept, \A n \in Requests : request[n].at = "done" => request'[n] = request[n], NEW login, Logged(login)
  PROVE  Logged(login)'
  BY DEF Logged, SameOp, OpsKept

(* The tokens do not move. *)
LEMMA TokensRest ==
  ASSUME TokenInv, UNCHANGED tokenVars, faults' \in Nat, faults > 0 => faults' > 0, OpsKept, met \subseteq met',
         \A n \in Requests : request[n].at = "done" => request'[n] = request[n]
  PROVE  TokenInv'
  <1>1. UNCHANGED <<live, given, spent, ended>>
    BY DEF tokenVars
  <1>2. \A login : Logged(login) => Logged(login)'
    BY LoggedStays
  <1>3. \A login, n : GoneOr(login, n) => GoneOr(login, n)'
    BY <1>1, GoneStays
  <1>4. \A e \in ended' : Logged(e.login)' /\ (e.fresh => GoneOr(e.login, e.by)')
    BY <1>1, <1>2, <1>3 DEF TokenInv
  <1>5. \A t \in given' \ (live' \cup spent') : faults' > 0 \/ \E n \in Requests : Overlapped(n, t.by)'
    BY <1>1 DEF TokenInv, Overlapped
  <1>6. \A t \in given' : Logged(t.login)'
    BY <1>1, <1>2 DEF TokenInv
  <1> QED BY <1>1, <1>4, <1>5, <1>6 DEF TokenInv

LEMMA SeenStays ==
  ASSUME TokenInv, UNCHANGED tokenVars, faults' \in Nat, faults > 0 => faults' > 0, OpsKept, met \subseteq met',
         NEW n \in Requests, request'[n] = request[n], Carries(n), TokenSeen(n)
  PROVE  Carries(n)' /\ TokenSeen(n)'
  <1>1. UNCHANGED <<live, given, spent, ended>>
    BY DEF tokenVars
  <1>2. Carries(n)'
    BY <1>1 DEF Carries
  <1>3. \A login : GoneOr(login, n) => GoneOr(login, n)'
    BY <1>1, GoneStays
  <1>4. TokenSeen(n)'
    BY <1>1, <1>3 DEF TokenSeen, SameOp, Overlapped
  <1> QED BY <1>2, <1>4

LEMMA RestKeepsSessions ==
  ASSUME SessionInv, UNCHANGED sessionVars, faults' \in Nat, faults > 0 => faults' > 0, SessionsRest
  PROVE  SessionInv'
  <1>1. UNCHANGED <<person, purse, otps, sent, entered, tokenVars>>
    BY DEF sessionVars, userVars, otpVars
  <1>2. OpsKept /\ met \subseteq met' /\ \A n \in Requests : request[n].at = "done" => request'[n] = request[n]
    BY DEF SessionsRest, Busy, Ended
  <1>3. TokenInv'
    BY <1>1, <1>2, TokensRest DEF SessionInv
  <1>4. OtpInv'
    BY <1>1 DEF SessionInv, OtpInv
  <1>5. PurseInv'
    <2>1. \A n \in Requests : Unfinished(n) => Unfinished(n)'
      BY <1>2 DEF SessionsRest, OpsKept, Unfinished, SameOp
    <2> QED BY <1>1, <2>1 DEF SessionInv, PurseInv
  <1>6. ASSUME NEW n \in Requests PROVE Carries(n)' /\ TokenSeen(n)'
    <2>1. CASE request'[n] = request[n]
      BY <1>1, <1>2, <2>1, SeenStays DEF SessionInv
    <2>2. CASE request'[n].at = "died"
      BY <2>2 DEF Carries, TokenSeen, Ended
    <2>3. CASE request'[n].op \notin SessionOps
      BY <2>3 DEF Carries, TokenSeen, SameOp, SessionOps
    <2> QED BY <2>1, <2>2, <2>3 DEF SessionsRest
  <1> QED BY <1>3, <1>4, <1>5, <1>6 DEF SessionInv

(***************************************************************************)
(* The steps of the sign-in.                                               *)
(***************************************************************************)
LEMMA SessionGoes ==
  ASSUME HandlerInv, NEW n \in Requests, SessionSteps(n)
  PROVE  /\ n \in Busy /\ request[n].op \in SessionOps /\ request[n] # NotYet
         /\ HandlerStep(SessionOps) /\ OpsKept /\ met \subseteq met'
         /\ \A m \in Requests : request[m].at = "done" => request'[m] = request[m]
         /\ \E at : /\ at # "not yet" /\ GoesTo(n, at)
                    /\ request'[n] # NotYet /\ request'[n].at = at /\ request'[n].op = request[n].op
                    /\ \A m \in Requests \ {n} : request'[m] = request[m]
                    /\ at \notin Ended => /\ DOMAIN request'[n] = DOMAIN request[n]
                                          /\ \A f \in DOMAIN request[n] \ {"at"} : request'[n][f] = request[n][f]
  <1>1. n \in Busy /\ request[n].op \in SessionOps
    BY DEF SessionSteps, CountAsk, LookUpPhone, CheckOtp, FindUser, CreateUser, CreateWallet,
           LookUpCompany, CreateCompany, IssueToken, CheckToken, Rotate, RemoveToken,
           SessionStep, Busy, Ended, SessionOps
  <1>2. PICK at : at # "not yet" /\ GoesTo(n, at)
    <2>1. CASE CountAsk(n) \/ LookUpPhone(n)
      BY <2>1 DEF CountAsk, LookUpPhone
    <2>2. CASE CheckOtp(n)
      <3>1. GoesTo(n, "refused") \/ GoesTo(n, NextOf(request[n]))
        BY <2>2 DEF CheckOtp
      <3>2. NextOf(request[n]) \in {"looks up company", "creates user", "finds user"}
        BY DEF NextOf
      <3> QED BY <3>1, <3>2
    <2>3. CASE FindUser(n) \/ CreateUser(n) \/ CreateWallet(n) \/ LookUpCompany(n) \/ CreateCompany(n)
      BY <2>3 DEF FindUser, CreateUser, CreateWallet, LookUpCompany, CreateCompany
    <2>4. CASE IssueToken(n) \/ CheckToken(n) \/ Rotate(n) \/ RemoveToken(n)
      BY <2>4 DEF IssueToken, CheckToken, Rotate, RemoveToken
    <2> QED BY <2>1, <2>2, <2>3, <2>4 DEF SessionSteps
  <1>3. HandlerStep(SessionOps)
    BY <1>1, <1>2, Going
  <1>4. request[n] # NotYet /\ request[n].at # "done"
    BY <1>1, NotYetEnded DEF Busy, Ended
  <1>5. /\ request'[n] # NotYet /\ request'[n].at = at /\ request'[n].op = request[n].op
        /\ \A m \in Requests \ {n} : request'[m] = request[m]
        /\ at \notin Ended => /\ DOMAIN request'[n] = DOMAIN request[n]
                              /\ \A f \in DOMAIN request[n] \ {"at"} : request'[n][f] = request[n][f]
    BY <1>1, <1>2, GoingOn
  <1>6. OpsKept /\ met \subseteq met'
    BY <1>3 DEF HandlerStep, OpsKept
  <1>7. \A m \in Requests : request[m].at = "done" => request'[m] = request[m]
    BY <1>4, <1>5
  <1> QED BY <1>1, <1>2, <1>3, <1>4, <1>5, <1>6, <1>7

(* What it was called with it carries on. *)
LEMMA CarriesOn ==
  ASSUME HandlerInv, NEW n \in Requests, SessionSteps(n), given \subseteq given',
         \A m \in Requests : Carries(m)
  PROVE  \A m \in Requests : Carries(m)'
  <1>1. /\ n \in Busy /\ request[n] # NotYet
        /\ \A m \in Requests \ {n} : request'[m] = request[m]
    BY SessionGoes
  <1>2. PICK at : /\ request'[n].at = at /\ request'[n].op = request[n].op
                  /\ at \notin Ended => /\ DOMAIN request'[n] = DOMAIN request[n]
                                        /\ \A f \in DOMAIN request[n] \ {"at"} : request'[n][f] = request[n][f]
    BY SessionGoes
  <1>3. Carries(n)'
    BY <1>1, <1>2 DEF Carries, Busy
  <1>4. \A m \in Requests \ {n} : Carries(m)'
    BY <1>1 DEF Carries
  <1> QED BY <1>3, <1>4

(* The steps before a token is made or removed. *)
EarlySteps(n) ==
  \/ CountAsk(n) \/ LookUpPhone(n) \/ CheckOtp(n) \/ FindUser(n) \/ CreateUser(n) \/ CreateWallet(n)
  \/ LookUpCompany(n) \/ CreateCompany(n) \/ CheckToken(n)

LEMMA EarlyKeepsTokens ==
  ASSUME HandlerInv, SessionInv, NEW n \in Requests, EarlySteps(n), UNCHANGED faults
  PROVE  TokenInv' /\ \A m \in Requests : Carries(m)' /\ TokenSeen(m)'
  <1>0. SessionSteps(n)
    BY DEF EarlySteps, SessionSteps
  <1>1. UNCHANGED tokenVars
    BY DEF EarlySteps, CountAsk, LookUpPhone, CheckOtp, FindUser, CreateUser, CreateWallet, LookUpCompany,
           CreateCompany, CheckToken, sessionVars
  <1>2. OpsKept /\ met \subseteq met' /\ \A m \in Requests : request[m].at = "done" => request'[m] = request[m]
    BY <1>0, SessionGoes
  <1>3. faults' \in Nat /\ TokenInv
    BY DEF SessionInv, TokenInv
  <1>4. TokenInv'
    BY <1>1, <1>2, <1>3, TokensRest
  <1>5. \A m \in Requests \ {n} : request'[m] = request[m]
    BY <1>0, SessionGoes
  <1>6. \A m \in Requests \ {n} : TokenSeen(m)'
    BY <1>1, <1>2, <1>3, <1>5, SeenStays DEF SessionInv
  <1>7. \A m \in Requests : Carries(m)'
    <2>1. given' = given
      BY <1>1 DEF tokenVars
    <2> QED BY <1>0, <2>1, CarriesOn DEF SessionInv
  <1>8. TokenSeen(n)'
    <2>1. CASE CheckToken(n)
      <3>1. PICK at \in {"rotates", "refused"} : GoesTo(n, at) /\ (at = "rotates" => request[n].token \in live)
        BY <2>1 DEF CheckToken
      <3>2. n \in Busy /\ at # "not yet" /\ "rotates" \notin Ended
        BY <1>0, <3>1, SessionGoes DEF Ended
      <3>3. /\ request'[n].at = at /\ request'[n].op = request[n].op
            /\ at \notin Ended => \A f \in DOMAIN request[n] \ {"at"} : request'[n][f] = request[n][f]
        BY <3>1, <3>2, GoingOn
      <3>4. request[n].op = "refresh" /\ "token" \in DOMAIN request[n]
        BY <1>0, <2>1, <3>2, SessionGoes DEF CheckToken, SessionStep, SessionInv, Carries, Busy
      <3>5. live' = live
        BY <1>1 DEF tokenVars
      <3> QED BY <3>1, <3>2, <3>3, <3>4, <3>5 DEF TokenSeen, SameOp
    <2>2. CASE ~CheckToken(n)
      <3>1. request[n].op \in {"ask", "enter"}
        BY <2>2 DEF EarlySteps, CountAsk, LookUpPhone, CheckOtp, FindUser, CreateUser, CreateWallet, LookUpCompany,
           CreateCompany, SessionStep
      <3>2. request'[n].op = request[n].op
        BY <1>0, SessionGoes
      <3> QED BY <3>1, <3>2 DEF TokenSeen, SameOp
    <2> QED BY <2>1, <2>2
  <1> QED BY <1>4, <1>6, <1>7, <1>8

LEMMA PurseKept ==
  ASSUME HandlerInv, PurseInv, NEW n \in Requests, SessionSteps(n) PROVE PurseInv'
  <1>1. /\ n \in Busy /\ request[n] # NotYet
        /\ \A m \in Requests \ {n} : request'[m] = request[m]
    BY SessionGoes
  <1>2. \A m \in Requests \ {n} : Unfinished(m) => Unfinished(m)'
    BY <1>1 DEF Unfinished, SameOp
  <1>3. CASE CreateUser(n)
    <2>1. CASE GoesTo(n, "creates wallet")
      <3>1. request'[n] # NotYet /\ request'[n].at = "creates wallet" /\ request'[n].op = "enter"
        BY <1>1, <1>3, <2>1, GoingOn DEF CreateUser, SessionStep
      <3> QED BY <3>1 DEF PurseInv, Unfinished, SameOp
    <2>2. CASE ~GoesTo(n, "creates wallet")
      <3>1. UNCHANGED <<person, purse>> /\ ~Unfinished(n)
        BY <1>3, <2>2 DEF CreateUser, SessionStep, Unfinished
      <3> QED BY <1>2, <3>1 DEF PurseInv
    <2> QED BY <2>1, <2>2
  <1>4. CASE CreateWallet(n) \/ purse'
    BY <1>4 DEF CreateWallet, PurseInv
  <1>5. CASE ~CreateUser(n) /\ ~CreateWallet(n) /\ ~purse'
    <2>1. UNCHANGED <<person, purse>>
      BY <1>5 DEF SessionSteps, CountAsk, LookUpPhone, CheckOtp, FindUser, LookUpCompany, CreateCompany, IssueToken,
                  CheckToken, Rotate, RemoveToken, sessionVars, userVars
    <2>2. ~Unfinished(n)
      BY <1>1, <1>5 DEF SessionSteps, CountAsk, LookUpPhone, CheckOtp, FindUser, LookUpCompany, CreateCompany,
                  IssueToken, CheckToken, Rotate, RemoveToken, SessionStep, Unfinished, SameOp
    <2> QED BY <1>2, <2>1, <2>2 DEF PurseInv
  <1> QED BY <1>3, <1>4, <1>5

(***************************************************************************)
(* Codes: each is stored for one purpose and removed before it lets in.    *)
(***************************************************************************)
LEMMA OtpStored ==
  ASSUME OtpInv, NEW purpose \in Purposes, StoresOtp(purpose), UNCHANGED entered PROVE OtpInv'
  <1>1. otps'[purpose] = [code |-> sent + 1, tries |-> 0] /\ \A p \in Purposes \ {purpose} : otps'[p] = otps[p]
    BY DEF StoresOtp, OtpInv
  <1>2. otps' = [p \in Purposes |-> otps'[p]]
    BY DEF StoresOtp, OtpInv
  <1>3. otps'[purpose].code = sent + 1 /\ otps'[purpose].tries = 0
    BY <1>1
  <1>4. sent' = sent + 1 /\ sent \in Nat
    BY DEF StoresOtp, OtpInv
  <1> HIDE DEF StoresOtp
  <1>5. \A p \in Purposes : otps'[p] = NoOtp \/ (otps'[p].code \in 1..sent' /\ otps'[p].tries \in Nat)
    BY <1>1, <1>3, <1>4 DEF OtpInv
  <1>6. ASSUME NEW p \in Purposes, NEW q \in Purposes, otps'[p] # NoOtp, otps'[q] # NoOtp,
               otps'[p].code = otps'[q].code
        PROVE  p = q
    BY <1>1, <1>3, <1>4, <1>6 DEF OtpInv
  <1>7. ASSUME NEW u \in entered'
        PROVE  u.code \in 1..sent' /\ \A p \in Purposes : otps'[p] # NoOtp => otps'[p].code # u.code
    BY <1>1, <1>3, <1>4 DEF OtpInv
  <1> QED BY <1>2, <1>4, <1>5, <1>6, <1>7 DEF OtpInv

LEMMA OtpRemoved ==
  ASSUME OtpInv, UNCHANGED sent, NEW purpose \in Purposes, otps' = [otps EXCEPT ![purpose] = NoOtp],
         NEW n, NEW code,
         \/ UNCHANGED entered
         \/ /\ otps[purpose] # NoOtp /\ otps[purpose].code = code
            /\ entered' = entered \cup {[by |-> n, code |-> code]}
  PROVE  OtpInv'
  <1>1. otps'[purpose] = NoOtp /\ \A p \in Purposes \ {purpose} : otps'[p] = otps[p]
    BY DEF OtpInv
  <1>2. otps' = [p \in Purposes |-> otps'[p]]
    BY DEF OtpInv
  <1>3. CASE UNCHANGED entered
    BY <1>1, <1>2, <1>3 DEF OtpInv
  <1>4. CASE /\ otps[purpose] # NoOtp /\ otps[purpose].code = code
             /\ entered' = entered \cup {[by |-> n, code |-> code]}
    <2> DEFINE new == [by |-> n, code |-> code]
    <2>1. new.code = code /\ entered' = entered \cup {new}
      BY <1>4
    <2> HIDE DEF new
    <2>2. code \in 1..sent /\ \A u \in entered : u.code # code
      BY <1>4 DEF OtpInv
    <2>3. \A p \in Purposes : otps'[p] # NoOtp => otps'[p].code # code
      BY <1>1, <1>4 DEF OtpInv
    <2>4. \A u \in entered' : u.code \in 1..sent /\ \A p \in Purposes : otps'[p] # NoOtp => otps'[p].code # u.code
      BY <1>1, <2>1, <2>2, <2>3 DEF OtpInv
    <2>5. \A u, v \in entered' : u.code = v.code => u = v
      BY <2>1, <2>2 DEF OtpInv
    <2> QED BY <1>1, <1>2, <2>4, <2>5 DEF OtpInv
  <1> QED BY <1>3, <1>4

LEMMA OtpMissed ==
  ASSUME OtpInv, UNCHANGED <<sent, entered>>, NEW purpose \in Purposes, otps[purpose] # NoOtp,
         otps' = [otps EXCEPT ![purpose].tries = otps[purpose].tries + 1]
  PROVE  OtpInv'
  <1>1. otps[purpose].code \in 1..sent /\ otps[purpose].tries \in Nat
    BY DEF OtpInv
  <1> DEFINE otp == [otps[purpose] EXCEPT !.tries = otps[purpose].tries + 1]
  <1>2. otps'[purpose] = otp /\ \A p \in Purposes \ {purpose} : otps'[p] = otps[p]
    BY DEF OtpInv
  <1>3. otps' = [p \in Purposes |-> otps'[p]]
    BY DEF OtpInv
  <1>4. otp.code = otps[purpose].code
    OBVIOUS
  <1>5. otp = NoOtp \/ otp.tries \in Nat
    <2>1. CASE "tries" \in DOMAIN otps[purpose]
      BY <1>1, <2>1
    <2>2. CASE "tries" \notin DOMAIN otps[purpose]
      BY <2>2 DEF OtpInv
    <2> QED BY <2>1, <2>2
  <1> HIDE DEF otp
  <1> QED BY <1>1, <1>2, <1>3, <1>4, <1>5 DEF OtpInv

LEMMA OtpKept ==
  ASSUME HandlerInv, SessionInv, NEW n \in Requests, SessionSteps(n) PROVE OtpInv'
  <1>1. n \in Busy /\ request[n] # NotYet /\ OtpInv
    BY SessionGoes DEF SessionInv
  <1>2. CASE CountAsk(n) \/ LookUpPhone(n)
    <2>1. request[n].purpose \in Purposes
      BY <1>1, <1>2 DEF CountAsk, LookUpPhone, SessionStep, SessionInv, Carries, Busy
    <2>2. entered' = entered /\ (StoresOtp(request[n].purpose) \/ UNCHANGED <<otps, sent>>)
      BY <1>2 DEF CountAsk, LookUpPhone
    <2>3. PICK purpose \in Purposes : purpose = request[n].purpose
      BY <2>1
    <2>4. CASE UNCHANGED <<otps, sent>>
      BY <1>1, <2>2, <2>4 DEF OtpInv
    <2> QED BY <1>1, <2>2, <2>3, <2>4, OtpStored
  <1>3. CASE CheckOtp(n)
    <2>1. request[n].purpose \in Purposes
      BY <1>1, <1>3 DEF CheckOtp, SessionStep, SessionInv, Carries, Busy
    <2>2. PICK purpose \in Purposes : purpose = request[n].purpose
      BY <2>1
    <2>3. PICK code : code = request[n].code
      OBVIOUS
    <2>4. sent' = sent
      BY <1>3 DEF CheckOtp
    <2>5. CASE otps[purpose] = NoOtp
      <3>1. UNCHANGED <<otps, entered>>
        BY <1>3, <2>2, <2>5 DEF CheckOtp
      <3> QED BY <1>1, <2>4, <3>1 DEF OtpInv
    <2>6. CASE otps[purpose] # NoOtp
      <3>1. PICK tries \in Nat : tries = otps[purpose].tries + 1
        BY <1>1, <2>6 DEF OtpInv
      <3>2. CASE tries > OtpAttempts
        <4>0. ~(tries <= OtpAttempts)
          BY <3>2 DEF OtpAttempts
        <4>1. otps' = [otps EXCEPT ![purpose] = NoOtp] /\ UNCHANGED entered
          BY <1>3, <2>2, <2>6, <3>1, <3>2, <4>0 DEF CheckOtp
        <4> QED BY <1>1, <2>4, <4>1, OtpRemoved
      <3>3. CASE ~(tries > OtpAttempts) /\ otps[purpose].code # code
        <4>0. tries <= OtpAttempts
          BY <3>3 DEF OtpAttempts
        <4>1. otps' = [otps EXCEPT ![purpose].tries = otps[purpose].tries + 1] /\ UNCHANGED entered
          BY <1>3, <2>2, <2>3, <2>6, <3>1, <3>3, <4>0 DEF CheckOtp
        <4> QED BY <1>1, <2>4, <2>6, <4>1, OtpMissed
      <3>4. CASE ~(tries > OtpAttempts) /\ otps[purpose].code = code
        <4>1. /\ otps' = [otps EXCEPT ![purpose] = NoOtp]
              /\ entered' = entered \cup {[by |-> n, code |-> code]}
          BY <1>3, <2>2, <2>3, <2>6, <3>1, <3>4 DEF CheckOtp
        <4> QED BY <1>1, <2>4, <2>6, <3>4, <4>1, OtpRemoved
      <3> QED BY <3>2, <3>3, <3>4
    <2> QED BY <2>5, <2>6
  <1>4. CASE ~CountAsk(n) /\ ~LookUpPhone(n) /\ ~CheckOtp(n)
    <2>1. UNCHANGED <<otps, sent, entered>>
      BY <1>4 DEF SessionSteps, FindUser, CreateUser, CreateWallet, LookUpCompany, CreateCompany, IssueToken,
                  CheckToken, Rotate, RemoveToken, sessionVars, otpVars
    <2> QED BY <1>1, <2>1 DEF OtpInv
  <1> QED BY <1>2, <1>3, <1>4

(***************************************************************************)
(* Tokens: a request makes or removes one.                                 *)
(***************************************************************************)
LEMMA TokenFields == \A login, by : Token(login, by).login = login /\ Token(login, by).by = by
  BY DEF Token

LEMMA IssueKeepsTokens ==
  ASSUME HandlerInv, SessionInv, NEW n \in Requests, IssueToken(n), UNCHANGED faults
  PROVE  TokenInv' /\ \A m \in Requests : Carries(m)' /\ TokenSeen(m)'
  <1>0. SessionSteps(n)
    BY DEF SessionSteps
  <1>1. PICK new : new = Token(n, n) /\ new.login = n /\ new.by = n
    BY TokenFields
  <1>2. /\ live' = live \cup {new} /\ given' = given \cup {new} /\ GoesTo(n, "done")
        /\ UNCHANGED <<spent, ended, faults>> /\ TokenInv
    BY <1>1 DEF IssueToken, SessionInv
  <1>3. /\ OpsKept /\ met \subseteq met' /\ n \in Busy /\ request[n].op = "enter" /\ request[n].at # "done"
        /\ \A m \in Requests : request[m].at = "done" => request'[m] = request[m]
        /\ \A m \in Requests \ {n} : request'[m] = request[m]
    BY <1>0, SessionGoes DEF IssueToken, SessionStep
  <1>4. request'[n].at = "done" /\ request'[n].op = "enter" /\ request'[n] # NotYet
    BY <1>2, <1>3, GoingOn
  <1>5. \A login : Logged(login) => Logged(login)' /\ login # n
    <2>1. \A login : Logged(login) => Logged(login)'
      BY <1>3, LoggedStays
    <2>2. ~Logged(n)
      BY <1>3 DEF Logged, Requests
    <2> QED BY <2>1, <2>2
  <1>6. Logged(n)'
    BY <1>4 DEF Logged, SameOp
  <1>7. ASSUME NEW login, Logged(login), NEW m, GoneOr(login, m) PROVE GoneOr(login, m)'
    <2>1. \A t \in live' : t.login = login => t \in live
      BY <1>1, <1>2, <1>5, <1>7
    <2> QED BY <1>3, <1>7, <2>1, GoneStays
  <1>8. TokenInv'
    <2>1. \A t, u \in live' : t.login = u.login => t = u
      BY <1>1, <1>2, <1>5 DEF TokenInv
    <2>2. \A e \in ended' : Logged(e.login)' /\ (e.fresh => GoneOr(e.login, e.by)')
      BY <1>2, <1>5, <1>7 DEF TokenInv
    <2>3. \A t \in given' \ (live' \cup spent') : faults' > 0 \/ \E m \in Requests : Overlapped(m, t.by)'
      BY <1>2, <1>3 DEF TokenInv, Overlapped
    <2>4. \A t \in given' : Logged(t.login)'
      BY <1>1, <1>2, <1>5, <1>6 DEF TokenInv
    <2>5. live' \subseteq given'
      BY <1>2 DEF TokenInv
    <2> QED BY <1>2, <2>1, <2>2, <2>3, <2>4, <2>5 DEF TokenInv
  <1>9. \A m \in Requests : Carries(m)'
    BY <1>0, <1>2, CarriesOn DEF SessionInv
  <1>10. ASSUME NEW m \in Requests PROVE TokenSeen(m)'
    <2>1. CASE m = n
      BY <1>4, <2>1 DEF TokenSeen, SameOp
    <2>2. CASE m # n
      <3>1. request'[m] = request[m] /\ TokenSeen(m)
        BY <1>3, <2>2 DEF SessionInv
      <3>2. SameOp(m, "logout") /\ request[m].at \notin Ended => Logged(request[m].token.login)
        BY DEF SessionInv, Carries, TokenInv, SameOp
      <3>3. ASSUME SameOp(m, "logout"), request[m].at \notin Ended, GoneOr(request[m].token.login, m)
            PROVE  GoneOr(request[m].token.login, m)'
        <4>1. PICK login : login = request[m].token.login
          OBVIOUS
        <4>2. GoneOr(login, m)'
          BY <1>7, <3>2, <3>3, <4>1
        <4> QED BY <3>1, <4>1, <4>2 DEF GoneOr
      <3> QED BY <1>2, <1>3, <3>1, <3>3 DEF TokenSeen, SameOp, Overlapped
    <2> QED BY <2>1, <2>2
  <1> QED BY <1>8, <1>9, <1>10

(* Any two requests in progress have met. *)
LEMMA BesideOthers ==
  ASSUME HandlerInv, NEW n \in Busy, met \subseteq met', NEW m \in Busy, m # n
  PROVE  Overlapped(n, m)' /\ Overlapped(m, n)'
  BY DEF HandlerInv, BusyMet, Overlapped

LEMMA RotateKeepsTokens ==
  ASSUME HandlerInv, SessionInv, NEW n \in Requests, Rotate(n), UNCHANGED faults
  PROVE  TokenInv' /\ \A m \in Requests : Carries(m)' /\ TokenSeen(m)'
  <1>0. SessionSteps(n)
    BY DEF SessionSteps
  <1>1. /\ OpsKept /\ met \subseteq met' /\ n \in Busy /\ request[n].op = "refresh" /\ request[n].at = "rotates"
        /\ request[n] # NotYet
        /\ \A m \in Requests : request[m].at = "done" => request'[m] = request[m]
        /\ \A m \in Requests \ {n} : request'[m] = request[m]
    BY <1>0, SessionGoes DEF Rotate, SessionStep
  <1>2. PICK old \in given : old = request[n].token
    BY <1>1 DEF SessionInv, Carries, Busy
  <1>3. PICK new : new = Token(old.login, n) /\ new.login = old.login /\ new.by = n
    BY TokenFields
  <1>4. /\ live' = Rotated(old, new) /\ given' = given \cup {new} /\ spent' = spent \cup ({old} \cap live)
        /\ UNCHANGED <<ended, faults>> /\ GoesTo(n, "done") /\ TokenInv
    BY <1>2, <1>3 DEF Rotate, SessionInv
  <1>5. request'[n].at = "done" /\ request'[n].op = "refresh" /\ request'[n] # NotYet
    BY <1>1, <1>4, GoingOn
  <1>6. \A login : Logged(login) => Logged(login)'
    BY <1>1, LoggedStays
  <1>7. ASSUME NEW login, NEW m, GoneOr(login, m) PROVE GoneOr(login, m)'
    <2>1. CASE \A t \in live : t.login # login
      <3>1. \A t \in live' : t.login # login
        BY <1>3, <1>4, <2>1 DEF Rotated
      <3> QED BY <3>1 DEF GoneOr
    <2>2. ASSUME NEW l \in Requests, SameOp(l, "refresh"), Overlapped(l, m) PROVE GoneOr(login, m)'
      <3>1. SameOp(l, "refresh")' /\ Overlapped(l, m)'
        BY <1>1, <2>2, SameOpStays DEF Overlapped
      <3> QED BY <3>1 DEF GoneOr
    <2> QED BY <1>7, <2>1, <2>2 DEF GoneOr
  <1>8. TokenInv'
    <2>1. \A t, u \in live' : t.login = u.login => t = u
      BY <1>3, <1>4 DEF TokenInv, Rotated
    <2>2. \A e \in ended' : Logged(e.login)' /\ (e.fresh => GoneOr(e.login, e.by)')
      BY <1>4, <1>6, <1>7 DEF TokenInv
    <2>3. ASSUME NEW t \in given' \ (live' \cup spent') PROVE faults' > 0 \/ \E m \in Requests : Overlapped(m, t.by)'
      <3>1. CASE t = new /\ old \notin live
        BY <1>1, <1>2, <1>3, <1>4, <3>1 DEF SessionInv, TokenSeen, SameOp, Overlapped
      <3>2. CASE old \in live \/ t # new
        <4>1. t \in given \ (live \cup spent)
          BY <1>4, <2>3, <3>2 DEF Rotated
        <4> QED BY <1>1, <1>4, <4>1 DEF TokenInv, Overlapped
      <3> QED BY <3>1, <3>2
    <2>4. \A t \in given' : Logged(t.login)'
      BY <1>3, <1>4, <1>6 DEF TokenInv
    <2>5. live' \subseteq given'
      BY <1>4 DEF TokenInv, Rotated
    <2> QED BY <1>4, <2>1, <2>2, <2>3, <2>4, <2>5 DEF TokenInv
  <1>9. \A m \in Requests : Carries(m)'
    BY <1>0, <1>4, CarriesOn DEF SessionInv
  <1>10. ASSUME NEW m \in Requests PROVE TokenSeen(m)'
    <2>1. CASE m = n
      BY <1>5, <2>1 DEF TokenSeen, SameOp
    <2>2. CASE m # n /\ m \in Busy
      <3>1. Overlapped(n, m)'
        BY <1>1, <2>2, BesideOthers
      <3>2. SameOp(n, "refresh")'
        BY <1>5 DEF SameOp
      <3> QED BY <3>1, <3>2 DEF TokenSeen, GoneOr
    <2>3. CASE m # n /\ m \notin Busy
      BY <1>1, <2>3 DEF TokenSeen, Busy, Ended
    <2> QED BY <2>1, <2>2, <2>3
  <1> QED BY <1>8, <1>9, <1>10

LEMMA RemoveKeepsTokens ==
  ASSUME HandlerInv, SessionInv, NEW n \in Requests, RemoveToken(n), UNCHANGED faults
  PROVE  TokenInv' /\ \A m \in Requests : Carries(m)' /\ TokenSeen(m)'
  <1>0. SessionSteps(n)
    BY DEF SessionSteps
  <1>1. /\ OpsKept /\ met \subseteq met' /\ n \in Busy /\ request[n].op = "logout" /\ request[n].at \notin Ended
        /\ request[n] # NotYet
        /\ \A m \in Requests : request[m].at = "done" => request'[m] = request[m]
        /\ \A m \in Requests \ {n} : request'[m] = request[m]
    BY <1>0, SessionGoes DEF RemoveToken, SessionStep, Busy
  <1>2. PICK old \in given : old = request[n].token
    BY <1>1 DEF SessionInv, Carries
  <1> DEFINE new == [login |-> old.login, by |-> n, fresh |-> request[n].fresh]
  <1>13. new.login = old.login /\ new.by = n /\ new.fresh = request[n].fresh /\ ended' = ended \cup {new}
    BY <1>2 DEF RemoveToken
  <1>4. /\ live' = live \ {old} /\ spent' = spent \cup ({old} \cap live)
        /\ UNCHANGED <<given, faults>> /\ GoesTo(n, "done") /\ TokenInv
    BY <1>2 DEF RemoveToken, SessionInv
  <1> HIDE DEF new
  <1>3. PICK e : e.login = old.login /\ e.by = n /\ e.fresh = request[n].fresh /\ ended' = ended \cup {e}
    BY <1>13
  <1>5. request'[n].at = "done" /\ request'[n].op = "logout" /\ request'[n] # NotYet
    BY <1>1, <1>4, GoingOn
  <1>6. \A login : Logged(login) => Logged(login)'
    BY <1>1, LoggedStays
  <1>7. \A login, m : GoneOr(login, m) => GoneOr(login, m)'
    BY <1>1, <1>4, GoneStays
  <1>8. ASSUME old \in live, NEW m PROVE GoneOr(old.login, m)'
    <2>1. \A t \in live' : t.login # old.login
      BY <1>4, <1>8 DEF TokenInv
    <2>2. PICK login : login = old.login
      OBVIOUS
    <2> QED BY <2>1, <2>2 DEF GoneOr
  <1>9. e.fresh => GoneOr(e.login, e.by)'
    <2>1. PICK login : login = old.login
      OBVIOUS
    <2>2. e.fresh /\ old \notin live => GoneOr(login, n)'
      BY <1>1, <1>2, <1>3, <1>7, <2>1 DEF SessionInv, TokenSeen, SameOp
    <2>3. old \in live => GoneOr(login, n)'
      BY <1>8, <2>1
    <2> QED BY <1>3, <2>1, <2>2, <2>3
  <1>10. TokenInv'
    <2>1. \A t, u \in live' : t.login = u.login => t = u
      BY <1>4 DEF TokenInv
    <2>2. \A f \in ended' : Logged(f.login)' /\ (f.fresh => GoneOr(f.login, f.by)')
      BY <1>2, <1>3, <1>4, <1>6, <1>7, <1>9 DEF TokenInv
    <2>3. \A t \in given' \ (live' \cup spent') : faults' > 0 \/ \E m \in Requests : Overlapped(m, t.by)'
      BY <1>1, <1>4 DEF TokenInv, Overlapped
    <2>4. \A t \in given' : Logged(t.login)'
      BY <1>4, <1>6 DEF TokenInv
    <2>5. live' \subseteq given'
      BY <1>4 DEF TokenInv
    <2> QED BY <1>4, <2>1, <2>2, <2>3, <2>4, <2>5 DEF TokenInv
  <1>11. \A m \in Requests : Carries(m)'
    BY <1>0, <1>4, CarriesOn DEF SessionInv
  <1>12. ASSUME NEW m \in Requests PROVE TokenSeen(m)'
    <2>1. CASE m = n
      BY <1>5, <2>1 DEF TokenSeen, SameOp, Ended
    <2>2. CASE m # n /\ m \in Busy
      <3>1. Overlapped(n, m)'
        BY <1>1, <2>2, BesideOthers
      <3>2. ASSUME SameOp(m, "logout"), request[m].fresh, request[m].at \notin Ended
            PROVE  request[m].token \in live' \/ GoneOr(request[m].token.login, m)'
        <4>1. PICK login : login = request[m].token.login
          OBVIOUS
        <4>2. request[m].token \in live \/ GoneOr(login, m)
          BY <3>2, <4>1 DEF SessionInv, TokenSeen
        <4>3. request[m].token = old /\ old \in live => GoneOr(login, m)'
          BY <1>8, <4>1
        <4>4. GoneOr(login, m) => GoneOr(login, m)'
          BY <1>7
        <4>5. request[m].token \in live' \/ GoneOr(login, m)'
          BY <1>4, <4>2, <4>3, <4>4
        <4>6. request'[m] = request[m]
          BY <1>1, <2>2
        <4> QED BY <4>1, <4>5, <4>6 DEF GoneOr
      <3> QED BY <1>1, <2>2, <3>1, <3>2 DEF TokenSeen, SameOp
    <2>3. CASE m # n /\ m \notin Busy
      BY <1>1, <2>3 DEF TokenSeen, Busy, Ended
    <2> QED BY <2>1, <2>2, <2>3
  <1> QED BY <1>10, <1>11, <1>12

(* A request of the sign-in comes in. *)
LEMMA SessionArrival ==
  ASSUME HandlerInv, SessionInv, UNCHANGED faults, NEW r, r # NotYet, IsRequest(r), r.at \notin Ended \cup {"rotates"},
         r.op \in SessionOps, SessionArrives(r),
         r.op \in {"ask", "enter"} => "purpose" \in DOMAIN r /\ r.purpose \in Purposes,
         r.op \in {"refresh", "logout"} => "token" \in DOMAIN r /\ r.token \in given,
         r.op = "logout" => "fresh" \in DOMAIN r /\ (r.fresh => r.token \in live)
  PROVE  SessionInv'
  <1>1. Arrives(r) /\ UNCHANGED sessionVars
    BY DEF SessionArrives
  <1>2. /\ HandlerStep(SessionOps)
        /\ \E n \in Requests : /\ request[n] = NotYet /\ request'[n] = r
                               /\ \A m \in Requests \ {n} : request'[m] = request[m]
    BY <1>1, Arriving
  <1>3. PICK n \in Requests : /\ request[n] = NotYet /\ request'[n] = r
                              /\ \A m \in Requests \ {n} : request'[m] = request[m]
    BY <1>2
  <1>4. /\ OpsKept /\ met \subseteq met'
        /\ \A m \in Requests : request[m].at = "done" => request'[m] = request[m]
    BY <1>2, <1>3, NotYetEnded DEF HandlerStep, OpsKept
  <1>5. UNCHANGED <<person, purse, otps, sent, entered, live, given, tokenVars>>
    BY <1>1 DEF sessionVars, userVars, otpVars, tokenVars
  <1>6. TokenInv'
    BY <1>4, <1>5, TokensRest DEF SessionInv, TokenInv
  <1>7. OtpInv'
    BY <1>5 DEF SessionInv, OtpInv
  <1>8. PurseInv'
    <2>1. \A m \in Requests : Unfinished(m) => Unfinished(m)'
      BY <1>3 DEF Unfinished, SameOp
    <2> QED BY <1>5, <2>1 DEF SessionInv, PurseInv
  <1>9. \A m \in Requests \ {n} : Carries(m)' /\ TokenSeen(m)'
    BY <1>3, <1>4, <1>5, SeenStays DEF SessionInv, TokenInv
  <1>10. Carries(n)' /\ TokenSeen(n)'
    BY <1>3, <1>5 DEF Carries, TokenSeen, SameOp
  <1> QED BY <1>3, <1>6, <1>7, <1>8, <1>9, <1>10 DEF SessionInv

LEMMA SessionNextKeeps == ASSUME HandlerInv, SessionInv, SessionNext, UNCHANGED faults PROVE SessionInv'
  <1>1. ASSUME NEW n \in Requests, SessionSteps(n) PROVE SessionInv'
    <2>1. OtpInv' /\ PurseInv'
      BY <1>1, OtpKept, PurseKept DEF SessionInv
    <2>2. TokenInv' /\ \A m \in Requests : Carries(m)' /\ TokenSeen(m)'
      BY <1>1, EarlyKeepsTokens, IssueKeepsTokens, RotateKeepsTokens, RemoveKeepsTokens DEF SessionSteps, EarlySteps
    <2> QED BY <2>1, <2>2 DEF SessionInv
  <1>2. ASSUME NEW purpose \in Purposes, Ask(purpose) PROVE SessionInv'
    <2> DEFINE r == [op |-> "ask", at |-> "is counted", purpose |-> purpose]
    <2>1. /\ IsRequest(r) /\ r # NotYet /\ r.op = "ask" /\ r.at \notin Ended \cup {"rotates"}
          /\ "purpose" \in DOMAIN r /\ r.purpose = purpose /\ r.op \in SessionOps
      BY DEF IsRequest, NotYet, Ended, SessionOps
    <2>2. SessionArrives(r)
      BY <1>2 DEF Ask
    <2> HIDE DEF r
    <2> QED BY <2>1, <2>2, SessionArrival
  <1>3. ASSUME NEW purpose \in Purposes, NEW code, NEW firm, Enter(purpose, code, firm) PROVE SessionInv'
    <2> DEFINE r == [op |-> "enter", at |-> "checks code", purpose |-> purpose, code |-> code, firm |-> firm]
    <2>1. /\ IsRequest(r) /\ r # NotYet /\ r.op = "enter" /\ r.at \notin Ended \cup {"rotates"}
          /\ "purpose" \in DOMAIN r /\ r.purpose = purpose /\ r.op \in SessionOps
      BY DEF IsRequest, NotYet, Ended, SessionOps
    <2>2. SessionArrives(r)
      BY <1>3 DEF Enter
    <2> HIDE DEF r
    <2> QED BY <2>1, <2>2, SessionArrival
  <1>4. ASSUME NEW token \in given, Refresh(token) PROVE SessionInv'
    <2> DEFINE r == [op |-> "refresh", at |-> "checks token", token |-> token]
    <2>1. /\ IsRequest(r) /\ r # NotYet /\ r.op = "refresh" /\ r.at \notin Ended \cup {"rotates"}
          /\ "token" \in DOMAIN r /\ r.token = token /\ r.op \in SessionOps
      BY DEF IsRequest, NotYet, Ended, SessionOps
    <2>2. SessionArrives(r)
      BY <1>4 DEF Refresh
    <2> HIDE DEF r
    <2> QED BY <2>1, <2>2, SessionArrival
  <1>5. ASSUME NEW token \in given, Logout(token) PROVE SessionInv'
    <2> DEFINE r == [op |-> "logout", at |-> "is audited", token |-> token, fresh |-> token \in live]
    <2>1. /\ IsRequest(r) /\ r # NotYet /\ r.op = "logout" /\ r.at \notin Ended \cup {"rotates"}
          /\ "token" \in DOMAIN r /\ r.token = token /\ r.op \in SessionOps
      BY DEF IsRequest, NotYet, Ended, SessionOps
    <2>2. SessionArrives(r)
      BY <1>5 DEF Logout
    <2>3. "fresh" \in DOMAIN r /\ (r.fresh => r.token \in live)
      OBVIOUS
    <2> HIDE DEF r
    <2> QED BY <2>1, <2>2, <2>3, SessionArrival
  <1>6. CASE HourPasses \/ OtpExpires
    <2>1. UNCHANGED <<handlerVars, userVars, tokenVars, sent, entered>>
      BY <1>6 DEF HourPasses, OtpExpires
    <2>2. HandlerStep({})
      BY <2>1, HandlersRest
    <2>3. SessionsRest
      BY <2>2, OthersRestSessions
    <2>4. OpsKept /\ met \subseteq met' /\ \A n \in Requests : request'[n] = request[n]
      BY <2>1, <2>3 DEF SessionsRest, handlerVars
    <2>5. TokenInv' /\ \A n \in Requests : Carries(n)' /\ TokenSeen(n)'
      BY <2>1, <2>4, TokensRest, SeenStays DEF SessionInv, TokenInv
    <2>6. PurseInv'
      BY <2>1, <2>4 DEF SessionInv, PurseInv, Unfinished, SameOp, userVars
    <2>7. OtpInv'
      <3>1. CASE HourPasses
        BY <3>1 DEF HourPasses, SessionInv, OtpInv
      <3>2. CASE OtpExpires
        <4>1. PICK p \in Purposes : otps' = [otps EXCEPT ![p] = NoOtp]
          BY <3>2 DEF OtpExpires
        <4> QED BY <2>1, <4>1, OtpRemoved DEF SessionInv
      <3> QED BY <1>6, <3>1, <3>2
    <2> QED BY <2>5, <2>6, <2>7 DEF SessionInv
  <1> QED BY <1>1, <1>2, <1>3, <1>4, <1>5, <1>6 DEF SessionNext

LEMMA FaultKeepsSessions == ASSUME HandlerInv, SessionInv, Fault PROVE SessionInv'
  <1>1. SessionsRest
    BY FaultRequests, KillingRestsSessions
  <1>2. faults' \in Nat /\ faults' > 0
    <2>1. faults \in Nat /\ faults' = faults + 1
      BY DEF Fault, SessionInv, TokenInv
    <2> QED BY <2>1
  <1>3. CASE Restart
    <2>1. /\ otps' = [p \in Purposes |-> NoOtp] /\ live' = {}
          /\ UNCHANGED <<person, purse, sent, entered, given, spent, ended>>
      BY <1>3 DEF Restart, userVars
    <2>2. OpsKept /\ met \subseteq met' /\ \A n \in Requests : request[n].at = "done" => request'[n] = request[n]
      BY <1>1 DEF SessionsRest, Busy, Ended
    <2>3. \A login : Logged(login) => Logged(login)'
      BY <2>2, LoggedStays
    <2>4. \A login, n : GoneOr(login, n)'
      BY <2>1 DEF GoneOr
    <2>5. TokenInv'
      BY <1>2, <2>1, <2>3, <2>4 DEF SessionInv, TokenInv
    <2>6. OtpInv'
      BY <2>1 DEF SessionInv, OtpInv
    <2>7. PurseInv'
      <3>1. \A n \in Requests : Unfinished(n) => Unfinished(n)'
        BY <1>1 DEF SessionsRest, OpsKept, Unfinished, SameOp
      <3> QED BY <2>1, <3>1 DEF SessionInv, PurseInv
    <2>8. ASSUME NEW n \in Requests PROVE Carries(n)' /\ TokenSeen(n)'
      <3>1. TokenSeen(n)'
        BY <1>2, <2>4 DEF TokenSeen
      <3>2. Carries(n)'
        <4>1. CASE request'[n] = request[n]
          BY <2>1, <4>1 DEF SessionInv, Carries
        <4>2. CASE request'[n].at = "died"
          BY <4>2 DEF Carries, Ended
        <4>3. CASE request'[n].op \notin SessionOps
          BY <4>3 DEF Carries, SessionOps
        <4> QED BY <1>1, <4>1, <4>2, <4>3 DEF SessionsRest
      <3> QED BY <3>1, <3>2
    <2> QED BY <2>5, <2>6, <2>7, <2>8 DEF SessionInv
  <1>4. CASE ~Restart
    <2>1. UNCHANGED sessionVars
      BY <1>4 DEF Fault, Dies, deskPlaneVars, CohortFrame, PayrollFrame, WalletIsNotCreated
    <2> QED BY <1>1, <1>2, <2>1, RestKeepsSessions
  <1> QED BY <1>3, <1>4

LEMMA SessionsGoOn == ASSUME HandlerInv, SessionInv, [Next]_vars PROVE SessionInv'
  <1>1. faults \in Nat
    BY DEF SessionInv, TokenInv
  <1>2. CASE /\ LoginNext \/ ScreeningNext \/ AdvanceNext \/ CohortNext \/ UploadNext \/ PayrollNext \/ RouteNext
             /\ UNCHANGED faults
    <2>1. UNCHANGED sessionVars
      BY <1>2 DEF LoginNext, ScreeningNext, AdvanceNext, CohortNext, UploadNext, PayrollNext, RouteNext, PersonFrame,
                  CohortFrame, UploadFrame, PayrollFrame, RouteFrame, deskPlaneVars
    <2>2. PICK ops : HandlerStep(ops) /\ ops \cap SessionOps = {}
      <3>1. \A ops \in {{"login"}, {"kyc", "rescreen"}, {"advance"}, {"clear"}, {"upload"}, PayrollOps, RouteOps} :
              ops \cap SessionOps = {}
        BY DEF SessionOps, PayrollOps, RouteOps
      <3>2. PICK ops \in {{"login"}, {"kyc", "rescreen"}, {"advance"}, {"clear"}, {"upload"}, PayrollOps, RouteOps} :
              HandlerStep(ops)
        BY <1>2, LoginRequests, ScreeningRequests, AdvanceRequests, CohortRequests, UploadRequests, PayrollRequests,
           RouteRequests
      <3> QED BY <3>1, <3>2
    <2> QED BY <1>1, <1>2, <2>1, <2>2, OthersRestSessions, RestKeepsSessions
  <1>3. CASE (CodesNext /\ UNCHANGED faults) \/ UNCHANGED vars
    <2>1. UNCHANGED <<handlerVars, sessionVars, faults>>
      BY <1>3 DEF CodesNext, CodeExpires, PersonFrame, deskPlaneVars, vars
    <2>2. HandlerStep({})
      BY <2>1, HandlersRest
    <2> QED BY <1>1, <2>1, <2>2, OthersRestSessions, RestKeepsSessions
  <1> QED BY <1>2, <1>3, FaultKeepsSessions, SessionNextKeeps DEF Next

(* For any number of sign-ins: a one-time code lets one request in, a      *)
(* login has one refresh token, none after its logout, a token that was    *)
(* answered with works, and an account has its wallet, but for requests    *)
(* that met, restarts and requests that died (dashboard/src/lib/auth.ts).  *)
THEOREM SessionsFollowCodesHolds == Spec => []SessionsFollowCodes
  <1>1. Init => HandlerInv /\ SessionInv
    BY HandlersInit, SessionsStart DEF Init
  <1>2. HandlerInv /\ SessionInv /\ [Next]_vars => (HandlerInv /\ SessionInv)'
    BY StepKeepsRequests, SessionsGoOn
  <1> QED BY <1>1, <1>2, SessionsAreRight, PTL DEF Spec

(***************************************************************************)
(* The dashboard's scheduled runs: a schedule is run once in a day.        *)
(***************************************************************************)
LEMMA DayOfMonthRange == ASSUME NEW d \in Nat PROVE DayOfMonth(d) \in 1..MonthLength /\ MonthLength \in 28..31
  <1>1. MonthLength \in 28..31
    BY MonthsAreMonths
  <1>2. MonthLength = 28 \/ MonthLength = 29 \/ MonthLength = 30 \/ MonthLength = 31
    BY <1>1
  <1>3. CASE MonthLength = 28
    BY <1>3 DEF DayOfMonth
  <1>4. CASE MonthLength = 29
    BY <1>4 DEF DayOfMonth
  <1>5. CASE MonthLength = 30
    BY <1>5 DEF DayOfMonth
  <1>6. CASE MonthLength = 31
    BY <1>6 DEF DayOfMonth
  <1> QED BY <1>1, <1>2, <1>3, <1>4, <1>5, <1>6

(* calculateNextRunDate: the next run is ahead, but for those plans. *)
LEMMA NextRunIsAhead ==
  ASSUME NEW plan \in Plans, NEW d \in Nat
  PROVE  /\ NextRun(plan, d) \in Int
         /\ ~IsLateBiweekly(plan) => NextRun(plan, d) > d
  <1>1. plan.frequency \in {"WEEKLY", "BIWEEKLY", "MONTHLY"} /\ plan.payDay \in 1..28
    BY PlansAreAccepted
  <1>2. DayOfMonth(d) \in 1..MonthLength /\ MonthLength \in 28..31
    BY DayOfMonthRange
  <1>3. CASE plan.frequency = "WEEKLY"
    <2>1. Weekday(d) \in 1..7
      BY DEF Weekday
    <2>2. NextRun(plan, d) = NextWeekly(plan.payDay, d)
      BY <1>3 DEF NextRun
    <2> QED BY <1>1, <1>3, <2>1, <2>2 DEF NextWeekly
  <1>4. CASE plan.frequency = "BIWEEKLY"
    <2>1. NextRun(plan, d) = NextBiweekly(plan.payDay, d)
      BY <1>4 DEF NextRun
    <2>2. ~IsLateBiweekly(plan) => plan.payDay <= 14 /\ plan.payDay + 28 > MonthLength
      BY <1>1, <1>2, <1>4 DEF IsLateBiweekly
    <2> QED BY <1>1, <1>2, <2>1, <2>2 DEF NextBiweekly, SetDate
  <1>5. CASE plan.frequency = "MONTHLY"
    <2>1. NextRun(plan, d) = NextMonthly(plan.payDay, d)
      BY <1>5 DEF NextRun
    <2> QED BY <1>1, <1>2, <2>1 DEF NextMonthly, SetDate
  <1> QED BY <1>1, <1>3, <1>4, <1>5

JobStates == {"waiting", "pays", "logs", "records failure", "completed", "delayed", "failed", "lost"}
Job == [from : Requests, day : Nat, late : BOOLEAN, scheduled : BOOLEAN, at : JobStates, attempts : Int, todo : SUBSET Staff]

RunsShape ==
  /\ jobs \in Seq(Job)
  /\ day \in Nat /\ faults \in Nat
  /\ schedule \in [plan : Plans, active : BOOLEAN, next : Int]
  /\ \A i \in DOMAIN jobs : jobs[i].day <= day

HasRun(n) == SameOp(n, "tick") /\ request[n].at \in {"moves next run", "done", "died"}
Patched(n) == \E p \in Requests : SameOp(p, "patch") /\ Overlapped(p, n)

(* What a tick holds of the plan it read. *)
PlanHeld(n) ==
  SameOp(n, "tick") =>
    /\ request[n].at = "died" => faults > 0
    /\ request[n].at \in {"queues", "moves next run"} =>
         /\ "plan" \in DOMAIN request[n] /\ request[n].plan \in Plans
         /\ request[n].plan = schedule.plan \/ Patched(n)
    /\ request[n].at = "moves next run" =>
         \E i \in DOMAIN jobs :
           jobs[i].from = n /\ jobs[i].scheduled /\ jobs[i].late = IsLateBiweekly(request[n].plan)

Excused == IsLateBiweekly(schedule.plan) \/ LatePlanLingers \/ faults > 0
Ahead == schedule.next > day \/ Excused

(* A tick that ran the schedule has moved it on. *)
MovedOn(i) == request[jobs[i].from].at = "done" => schedule.next > jobs[i].day \/ Excused

(* A tick that is going to run it today has met those that have. *)
IsFirst(i, n) ==
  SameOp(n, "tick") /\ request[n].at = "queues" /\ jobs[i].day = day =>
    \/ jobs[i].late \/ IsLateBiweekly(request[n].plan)
    \/ Overlapped(jobs[i].from, n)
    \/ LatePlanLingers \/ faults > 0

RunsInv ==
  /\ RunsShape
  /\ \A n \in Requests : PlanHeld(n)
  /\ \A i \in DOMAIN jobs : jobs[i].scheduled =>
       /\ HasRun(jobs[i].from)
       /\ MovedOn(i)
       /\ \A n \in Requests : IsFirst(i, n)
  /\ RunsOncePerDay

LEMMA RunsStart == Init => RunsInv
  <1> SUFFICES ASSUME Init PROVE RunsInv
    OBVIOUS
  <1>1. jobs = <<>> /\ day = 0 /\ faults = 0
    BY DEF Init, InitPayroll
  <1>2. DOMAIN jobs = {} /\ jobs \in Seq(Job)
    BY <1>1
  <1>3. schedule \in [plan : Plans, active : BOOLEAN, next : Int]
    <2>1. PICK plan \in Plans : schedule = [plan |-> plan, active |-> TRUE, next |-> NextRun(plan, 0)]
      BY DEF Init, InitPayroll
    <2>2. NextRun(plan, 0) \in Int
      BY NextRunIsAhead
    <2> QED BY <2>1, <2>2
  <1>4. \A n \in Requests : PlanHeld(n)
    BY DEF Init, InitHandlers, PlanHeld, SameOp
  <1> QED BY <1>1, <1>2, <1>3, <1>4 DEF RunsInv, RunsShape, RunsOncePerDay

(***************************************************************************)
(* Steps that add no run.                                                  *)
(***************************************************************************)
JobsKept ==
  /\ jobs' \in Seq(Job) /\ DOMAIN jobs' = DOMAIN jobs
  /\ \A i \in DOMAIN jobs :
       /\ jobs'[i].from = jobs[i].from /\ jobs'[i].day = jobs[i].day
       /\ jobs'[i].late = jobs[i].late /\ jobs'[i].scheduled = jobs[i].scheduled

(* A new next run is ahead, and a new plan comes by a request of its own. *)
ScheduleMoves ==
  /\ schedule' \in [plan : Plans, active : BOOLEAN, next : Int]
  /\ schedule'.plan = schedule.plan \/ (Ahead' /\ \A n \in Requests \cap Busy : Patched(n)')
  /\ schedule'.next = schedule.next \/ Ahead'

(* No request comes to where it queues a run. *)
TickRests(n) ==
  \/ request'[n] = request[n]
  \/ ~SameOp(n, "tick")'
  \/ request'[n].at = "died" /\ faults' > 0
  \/ request'[n].at \in {"finds due", "done"} /\ ~HasRun(n)
  \/ request'[n].at = "done" /\ Ahead'

RunsRest ==
  /\ JobsKept /\ ScheduleMoves /\ day' = day
  /\ faults' \in Nat /\ faults <= faults'
  /\ OpsKept /\ met \subseteq met'
  /\ \A n \in Requests : TickRests(n)

LEMMA LingersStays ==
  ASSUME LatePlanLingers, OpsKept, met \subseteq met', DOMAIN jobs \subseteq DOMAIN jobs',
         \A i \in DOMAIN jobs : jobs'[i].from = jobs[i].from /\ jobs'[i].late = jobs[i].late /\ jobs'[i].scheduled = jobs[i].scheduled
  PROVE  LatePlanLingers'
  <1>1. PICK k \in DOMAIN jobs, p \in Requests :
          jobs[k].scheduled /\ jobs[k].late /\ SameOp(p, "patch") /\ Overlapped(p, jobs[k].from)
    BY DEF LatePlanLingers
  <1>2. SameOp(p, "patch")'
    BY <1>1, SameOpStays
  <1>3. k \in DOMAIN jobs' /\ jobs'[k].scheduled /\ jobs'[k].late /\ Overlapped(p, jobs[k].from)'
    BY <1>1 DEF Overlapped
  <1> QED BY <1>1, <1>2, <1>3 DEF LatePlanLingers

LEMMA PatchedStays ==
  ASSUME OpsKept, met \subseteq met', NEW n, Patched(n) PROVE Patched(n)'
  <1>1. PICK p \in Requests : SameOp(p, "patch") /\ Overlapped(p, n)
    BY DEF Patched
  <1>2. SameOp(p, "patch")' /\ Overlapped(p, n)'
    BY <1>1, SameOpStays DEF Overlapped
  <1> QED BY <1>2 DEF Patched

LEMMA RestKeepsRuns ==
  ASSUME HandlerInv, RunsInv, RunsRest PROVE RunsInv'
  <1>1. /\ JobsKept /\ ScheduleMoves /\ day' = day
        /\ faults' \in Nat /\ faults <= faults' /\ (faults > 0 => faults' > 0)
        /\ OpsKept /\ met \subseteq met'
        /\ RunsShape
    BY DEF RunsRest, RunsInv, RunsShape
  <1>2. RunsShape'
    BY <1>1 DEF RunsShape, JobsKept, ScheduleMoves
  <1>3. LatePlanLingers => LatePlanLingers'
    BY <1>1, LingersStays DEF JobsKept
  <1>4. \A n : Patched(n) => Patched(n)'
    BY <1>1, PatchedStays
  <1>5. Excused => Excused' \/ Ahead'
    BY <1>1, <1>3 DEF Excused, ScheduleMoves
  <1>6. ASSUME NEW n \in Requests PROVE PlanHeld(n)'
    <2> SUFFICES ASSUME SameOp(n, "tick")' PROVE PlanHeld(n)'
      BY DEF PlanHeld
    <2>1. CASE request'[n] = request[n]
      <3>1. SameOp(n, "tick") /\ PlanHeld(n)
        BY <2>1 DEF SameOp, RunsInv
      <3>2. request[n].at \in {"queues", "moves next run"} => n \in Busy
        BY DEF Busy, Ended
      <3>3. request[n].at \in {"queues", "moves next run"} => request[n].plan = schedule'.plan \/ Patched(n)'
        BY <1>1, <1>4, <3>1, <3>2 DEF ScheduleMoves, PlanHeld
      <3>4. request[n].at = "moves next run" =>
              \E i \in DOMAIN jobs' :
                jobs'[i].from = n /\ jobs'[i].scheduled /\ jobs'[i].late = IsLateBiweekly(request[n].plan)
        BY <1>1, <3>1 DEF PlanHeld, JobsKept
      <3> QED BY <1>1, <2>1, <3>1, <3>3, <3>4 DEF PlanHeld
    <2>2. CASE request'[n].at = "died" /\ faults' > 0
      BY <2>2 DEF PlanHeld
    <2>3. CASE request'[n].at \in {"finds due", "done"}
      BY <2>3 DEF PlanHeld
    <2> QED BY <2>1, <2>2, <2>3 DEF RunsRest, TickRests
  <1>7. ASSUME NEW i \in DOMAIN jobs', jobs'[i].scheduled
        PROVE  (HasRun(jobs[i].from) /\ MovedOn(i) /\ \A n \in Requests : IsFirst(i, n))'
    <2>0. i \in DOMAIN jobs /\ jobs[i] \in Job
      BY <1>1, <1>7 DEF JobsKept, RunsShape
    <2> PICK m \in Requests : m = jobs[i].from
      BY <2>0 DEF Job
    <2>1. /\ i \in DOMAIN jobs /\ jobs[i].scheduled /\ jobs'[i].from = m
          /\ jobs'[i].day = jobs[i].day /\ jobs'[i].late = jobs[i].late
          /\ jobs[i].day \in Nat /\ jobs[i].day <= day
      BY <1>1, <1>7, <2>0 DEF JobsKept, RunsShape, Job
    <2>2. HasRun(m) /\ MovedOn(i) /\ \A n \in Requests : IsFirst(i, n)
      BY <2>1 DEF RunsInv
    <2>3. SameOp(m, "tick")'
      BY <1>1, <2>1, <2>2, SameOpStays DEF HasRun
    <2>4. \/ request'[m] = request[m]
          \/ request'[m].at = "died" /\ faults' > 0
          \/ request'[m].at = "done" /\ Ahead'
      BY <2>1, <2>2, <2>3 DEF RunsRest, TickRests
    <2>5. HasRun(m)'
      BY <2>2, <2>3, <2>4 DEF HasRun
    <2>6. Ahead' => schedule'.next > jobs[i].day \/ Excused'
      BY <1>1, <1>2, <2>1 DEF Ahead, RunsShape
    <2>7. request'[m].at = "done" => schedule'.next > jobs[i].day \/ Excused'
      <3>1. CASE request'[m] = request[m]
        <4>1. request[m].at = "done" => schedule.next > jobs[i].day \/ Excused
          BY <2>2 DEF MovedOn
        <4> QED BY <1>1, <1>5, <2>6, <3>1, <4>1 DEF ScheduleMoves
      <3>2. CASE request'[m].at = "died"
        BY <3>2
      <3> QED BY <2>4, <2>6, <3>1, <3>2
    <2>8. MovedOn(i)'
      BY <2>1, <2>7 DEF MovedOn
    <2>9. ASSUME NEW n \in Requests PROVE IsFirst(i, n)'
      <3> SUFFICES ASSUME SameOp(n, "tick")', request'[n].at = "queues" PROVE IsFirst(i, n)'
        BY DEF IsFirst
      <3>1. request'[n] = request[n]
        BY DEF RunsRest, TickRests
      <3>2. IsFirst(i, n) /\ SameOp(n, "tick")
        BY <2>2, <3>1 DEF SameOp
      <3> QED BY <1>1, <1>3, <2>1, <3>1, <3>2 DEF IsFirst, Overlapped
    <2> QED BY <2>1, <2>5, <2>8, <2>9
  <1>8. RunsOncePerDay'
    <2> SUFFICES ASSUME NEW i \in DOMAIN jobs', NEW j \in DOMAIN jobs',
                        i # j, jobs'[i].scheduled, jobs'[j].scheduled, jobs'[i].day = jobs'[j].day
                 PROVE  \/ jobs'[i].late \/ jobs'[j].late
                        \/ {jobs'[i].from, jobs'[j].from} \in met'
                        \/ LatePlanLingers' \/ faults' > 0
      BY DEF RunsOncePerDay, Overlapped
    <2> QED BY <1>1, <1>3 DEF RunsInv, RunsOncePerDay, JobsKept, Overlapped
  <1> QED BY <1>1, <1>2, <1>6, <1>7, <1>8 DEF RunsInv

(***************************************************************************)
(* The steps of the engine.                                                *)
(***************************************************************************)
LEMMA JobIsWritten ==
  ASSUME RunsShape, NEW j \in DOMAIN jobs, NEW job \in Job, jobs' = [jobs EXCEPT ![j] = job],
         job.from = jobs[j].from, job.day = jobs[j].day, job.late = jobs[j].late, job.scheduled = jobs[j].scheduled
  PROVE  JobsKept
  BY DEF RunsShape, JobsKept

LEMMA JobStays == ASSUME RunsShape, UNCHANGED jobs PROVE JobsKept
  BY DEF RunsShape, JobsKept

(* What a job may become. *)
JobOf(j, at, todo, attempts) == [jobs[j] EXCEPT !.at = at, !.todo = todo, !.attempts = attempts]

LEMMA JobFields ==
  ASSUME RunsShape, NEW j \in DOMAIN jobs, NEW at \in JobStates, NEW todo \in SUBSET Staff, NEW attempts \in Int,
         jobs' = [jobs EXCEPT ![j] = JobOf(j, at, todo, attempts)]
  PROVE  JobsKept
  <1>1. jobs[j] \in Job
    BY DEF RunsShape
  <1> DEFINE job == JobOf(j, at, todo, attempts)
  <1>2. /\ job \in Job
        /\ job.from = jobs[j].from /\ job.day = jobs[j].day /\ job.late = jobs[j].late /\ job.scheduled = jobs[j].scheduled
    BY <1>1 DEF Job, JobOf
  <1> QED BY <1>2, JobIsWritten

LEMMA JobMoves ==
  ASSUME RunsShape, NEW j \in DOMAIN jobs, JobSteps(j) \/ EmployeeFails(j) \/ FailureIsNotRecorded(j) \/ JobFails(j)
  PROVE  JobsKept /\ UNCHANGED <<handlerVars, day>> /\ (UNCHANGED schedule \/ JobCompletes(j))
  <1>1. UNCHANGED <<handlerVars, day>> /\ (UNCHANGED schedule \/ JobCompletes(j))
    <2>1. CASE JobStarts(j) \/ Logs(j) \/ RecordsFailure(j) \/ JobFails(j)
      BY <2>1 DEF JobStarts, Logs, RecordsFailure, JobFails
    <2>2. CASE Pays(j) \/ HasNoWallet(j) \/ EmployeeFails(j) \/ FailureIsNotRecorded(j)
      BY <2>2 DEF Pays, HasNoWallet, EmployeeFails, FailureIsNotRecorded
    <2>3. CASE JobCompletes(j)
      BY <2>3 DEF JobCompletes
    <2> QED BY <2>1, <2>2, <2>3 DEF JobSteps
  <1> SUFFICES JobsKept
    BY <1>1
  <1>2. jobs[j] \in Job /\ jobs[j].todo \in SUBSET Staff /\ jobs[j].attempts \in Int /\ jobs[j].at \in JobStates
    <2>1. jobs[j] \in Job
      BY DEF RunsShape
    <2> QED BY <2>1 DEF Job
  <1>3. ASSUME NEW at \in JobStates, JobTo(j, at) PROVE JobsKept
    <2>1. jobs' = [jobs EXCEPT ![j] = JobOf(j, at, jobs[j].todo, jobs[j].attempts)]
      BY <1>2, <1>3 DEF JobTo, JobOf, Job, RunsShape
    <2> QED BY <1>2, <2>1, JobFields
  <1>4. ASSUME NEW at \in JobStates, NEW todo \in SUBSET Staff, jobs' = [jobs EXCEPT ![j].at = at, ![j].todo = todo]
        PROVE  JobsKept
    <2>1. jobs' = [jobs EXCEPT ![j] = JobOf(j, at, todo, jobs[j].attempts)]
      BY <1>2, <1>4 DEF JobOf, Job, RunsShape
    <2> QED BY <1>2, <2>1, JobFields
  <1>5. CASE Pays(j) \/ HasNoWallet(j) \/ EmployeeFails(j) \/ JobCompletes(j)
    <2>1. PICK at \in {"logs", "records failure", "completed"} : JobTo(j, at)
      BY <1>5 DEF Pays, HasNoWallet, EmployeeFails, JobCompletes
    <2>2. at \in JobStates
      BY <2>1 DEF JobStates
    <2> QED BY <1>3, <2>1, <2>2
  <1>6. CASE JobStarts(j)
    <2>1. "pays" \in JobStates /\ Staff \in SUBSET Staff
      BY DEF JobStates
    <2> QED BY <1>4, <1>6, <2>1 DEF JobStarts
  <1>7. CASE Logs(j) \/ RecordsFailure(j) \/ FailureIsNotRecorded(j)
    <2> DEFINE todo == jobs[j].todo \ {Current(j)}
    <2>1. jobs' = [jobs EXCEPT ![j].at = "pays", ![j].todo = todo]
      BY <1>2, <1>7 DEF Logs, RecordsFailure, FailureIsNotRecorded, Job, RunsShape
    <2>2. todo \in SUBSET Staff /\ "pays" \in JobStates
      BY <1>2 DEF JobStates
    <2> HIDE DEF todo
    <2> QED BY <1>4, <2>1, <2>2
  <1>8. CASE JobFails(j)
    <2> DEFINE at == IF jobs[j].attempts + 1 < MaxAttempts THEN "delayed" ELSE "failed"
    <2>1. jobs' = [jobs EXCEPT ![j] = JobOf(j, at, jobs[j].todo, jobs[j].attempts + 1)]
      BY <1>2, <1>8 DEF JobFails, JobOf, Job, RunsShape
    <2>2. at \in JobStates
      BY DEF JobStates
    <2>3. jobs[j].attempts + 1 \in Int
      BY <1>2
    <2> HIDE DEF at
    <2> QED BY <1>2, <2>1, <2>2, <2>3, JobFields
  <1> QED BY <1>5, <1>6, <1>7, <1>8 DEF JobSteps

LEMMA CrashKeepsJobs == ASSUME RunsShape, Crash PROVE JobsKept
  <1>1. DOMAIN jobs = 1..Len(jobs) /\ Len(jobs) \in Nat /\ \A j \in DOMAIN jobs : jobs[j] \in Job
    BY DEF RunsShape
  <1> DEFINE next(j) == IF jobs[j].at \in {"completed", "failed"} THEN jobs[j] ELSE [jobs[j] EXCEPT !.at = "lost"]
  <1>2. jobs' = [j \in DOMAIN jobs |-> next(j)]
    BY DEF Crash
  <1>3. \A j \in DOMAIN jobs : /\ next(j) \in Job
          /\ next(j).from = jobs[j].from /\ next(j).day = jobs[j].day
          /\ next(j).late = jobs[j].late /\ next(j).scheduled = jobs[j].scheduled
    <2> TAKE j \in DOMAIN jobs
    <2>1. jobs[j] \in Job
      BY <1>1
    <2>2. CASE jobs[j].at \in {"completed", "failed"}
      BY <2>1, <2>2
    <2>3. CASE jobs[j].at \notin {"completed", "failed"}
      <3>1. next(j) = [jobs[j] EXCEPT !.at = "lost"]
        BY <2>3
      <3> HIDE DEF next
      <3> QED BY <2>1, <3>1 DEF Job, JobStates
    <2> QED BY <2>2, <2>3
  <1> HIDE DEF next
  <1>4. jobs' \in Seq(Job)
    <2>1. jobs \in Seq(Job) /\ jobs' = [j \in DOMAIN jobs |-> jobs'[j]] /\ \A j \in DOMAIN jobs : jobs'[j] \in Job
      BY <1>2, <1>3 DEF RunsShape
    <2> QED BY <2>1, SameLength
  <1> QED BY <1>2, <1>3, <1>4 DEF JobsKept

LEMMA DayItself == ASSUME day \in Nat PROVE day <= day
  OBVIOUS

LEMMA NewJob ==
  ASSUME NEW n \in Requests, day \in Nat, NEW plan, NEW scheduled \in BOOLEAN
  PROVE  [from |-> n, day |-> day, late |-> IsLateBiweekly(plan), scheduled |-> scheduled,
          at |-> "waiting", attempts |-> 0, todo |-> {}] \in Job
  <1>1. IsLateBiweekly(plan) \in BOOLEAN
    BY DEF IsLateBiweekly
  <1>2. "waiting" \in JobStates
    BY DEF JobStates
  <1> QED BY <1>1, <1>2 DEF Job

LEMMA JobIsAdded ==
  ASSUME RunsShape, NEW job \in Job, jobs' = Append(jobs, job), NEW k, k = Len(jobs) + 1
  PROVE  /\ jobs' \in Seq(Job) /\ DOMAIN jobs' = DOMAIN jobs \cup {k} /\ k \notin DOMAIN jobs
         /\ jobs'[k] = job /\ \A i \in DOMAIN jobs : jobs'[i] = jobs[i] /\ jobs[i] \in Job
  <1>1. jobs \in Seq(Job)
    BY DEF RunsShape
  <1> HIDE DEF Job
  <1> QED BY <1>1, AppendAdds

(* A run is added by the request n, a tick or a person's. *)
LEMMA QueueKeepsRuns ==
  ASSUME HandlerInv, RunsInv, NEW n \in Busy, NEW job \in Job, jobs' = Append(jobs, job),
         job.from = n, job.day = day, UNCHANGED <<schedule, day, faults>>, OpsKept, met \subseteq met',
         \A m \in Requests \ {n} : request'[m] = request[m],
         job.scheduled =>
           /\ SameOp(n, "tick") /\ request[n].at = "queues" /\ request'[n].at = "moves next run"
           /\ "plan" \in DOMAIN request'[n] /\ request'[n].plan = request[n].plan
           /\ job.late = IsLateBiweekly(request[n].plan),
         ~job.scheduled => ~SameOp(n, "tick") /\ ~SameOp(n, "tick")'
  PROVE  RunsInv'
  <1> PICK k : k = Len(jobs) + 1
    OBVIOUS
  <1>0. n \in Requests /\ RunsShape
    BY DEF Busy, RunsInv
  <1>1. /\ jobs' \in Seq(Job) /\ DOMAIN jobs' = DOMAIN jobs \cup {k} /\ k \notin DOMAIN jobs
        /\ jobs'[k] = job /\ \A i \in DOMAIN jobs : jobs'[i] = jobs[i] /\ jobs[i] \in Job
    BY <1>0, JobIsAdded
  <1>2. RunsShape'
    <2>1. \A i \in DOMAIN jobs : jobs'[i].day <= day
      BY <1>0, <1>1 DEF RunsShape
    <2>2. jobs'[k].day <= day
      <3>1. day \in Nat
        BY <1>0 DEF RunsShape
      <3>2. jobs'[k].day = day
        BY <1>1
      <3>3. day <= day
        BY <3>1, DayItself
      <3> QED BY <3>2, <3>3
    <2> QED BY <1>0, <1>1, <2>1, <2>2 DEF RunsShape
  <1>3. LatePlanLingers => LatePlanLingers'
    BY <1>1, LingersStays
  <1>4. \A m : Patched(m) => Patched(m)'
    BY PatchedStays
  <1>5. Excused => Excused'
    BY <1>3 DEF Excused
  <1>6. ASSUME NEW m \in Requests PROVE PlanHeld(m)'
    <2>1. CASE m # n
      <3>1. request'[m] = request[m] /\ PlanHeld(m)
        BY <2>1 DEF RunsInv
      <3>2. \A i \in DOMAIN jobs : i \in DOMAIN jobs' /\ jobs'[i] = jobs[i]
        BY <1>1
      <3>3. request'[m].at = "moves next run" /\ SameOp(m, "tick")' =>
              \E i \in DOMAIN jobs' : jobs'[i].from = m /\ jobs'[i].scheduled
                                      /\ jobs'[i].late = IsLateBiweekly(request'[m].plan)
        <4>3. PICK late : late = IsLateBiweekly(request[m].plan)
          OBVIOUS
        <4> SUFFICES ASSUME request'[m].at = "moves next run", SameOp(m, "tick")'
                     PROVE  \E i \in DOMAIN jobs' : jobs'[i].from = m /\ jobs'[i].scheduled
                                      /\ jobs'[i].late = IsLateBiweekly(request[m].plan)
          BY <3>1
        <4>1. PICK i \in DOMAIN jobs : jobs[i].from = m /\ jobs[i].scheduled /\ jobs[i].late = late
          BY <3>1, <4>3 DEF PlanHeld, SameOp
        <4> QED BY <3>2, <4>1, <4>3
      <3> QED BY <1>4, <3>1, <3>3 DEF PlanHeld, SameOp
    <2>2. CASE m = n /\ job.scheduled
      <3>1. PlanHeld(n) /\ SameOp(n, "tick") /\ request[n].at = "queues"
        BY <1>0, <2>2 DEF RunsInv
      <3>2. k \in DOMAIN jobs' /\ jobs'[k].from = n /\ jobs'[k].scheduled /\ jobs'[k].late = IsLateBiweekly(request[n].plan)
        BY <1>1, <2>2
      <3> QED BY <1>4, <2>2, <3>1, <3>2 DEF PlanHeld
    <2>3. CASE m = n /\ ~job.scheduled
      BY <2>3 DEF PlanHeld
    <2> QED BY <2>1, <2>2, <2>3
  <1>7. ASSUME NEW i \in DOMAIN jobs, jobs[i].scheduled
        PROVE  /\ (HasRun(jobs[i].from) /\ MovedOn(i) /\ \A m \in Requests : IsFirst(i, m))'
               /\ IsFirst(i, n)
    <2>1. jobs'[i] = jobs[i] /\ jobs[i] \in Job
      BY <1>1, <1>7
    <2> PICK f \in Requests : f = jobs[i].from
      BY <2>1 DEF Job
    <2>2. HasRun(f) /\ MovedOn(i) /\ \A m \in Requests : IsFirst(i, m)
      BY <1>7 DEF RunsInv
    <2>3. f # n
      BY <2>2 DEF HasRun
    <2>4. request'[f] = request[f]
      BY <2>3
    <2>5. HasRun(f)'
      BY <2>2, <2>4 DEF HasRun, SameOp
    <2>6. MovedOn(i)'
      BY <1>5, <2>1, <2>2, <2>4 DEF MovedOn
    <2>7. ASSUME NEW m \in Requests PROVE IsFirst(i, m)'
      <3>1. CASE m = n
        BY <3>1 DEF IsFirst
      <3>2. CASE m # n
        BY <1>3, <2>1, <2>2, <3>2 DEF IsFirst, SameOp, Overlapped
      <3> QED BY <3>1, <3>2
    <2> QED BY <1>0, <2>1, <2>2, <2>5, <2>6, <2>7
  <1>8. ASSUME job.scheduled PROVE (HasRun(jobs[k].from) /\ MovedOn(k) /\ \A m \in Requests : IsFirst(k, m))'
    <2>1. HasRun(n)'
      BY <1>0, <1>8, SameOpStays DEF HasRun
    <2>2. MovedOn(k)'
      BY <1>1, <1>8 DEF MovedOn
    <2>3. ASSUME NEW m \in Requests, SameOp(m, "tick")', request'[m].at = "queues" PROVE Overlapped(n, m)'
      <3>1. m # n /\ request[m].at = "queues"
        BY <1>8, <2>3
      <3>2. m \in Busy
        BY <3>1 DEF Busy, Ended
      <3> QED BY <3>1, <3>2 DEF HandlerInv, BusyMet, Overlapped
    <2>4. \A m \in Requests : IsFirst(k, m)'
      BY <1>1, <2>3 DEF IsFirst
    <2> QED BY <1>1, <2>1, <2>2, <2>4
  <1>9. RunsOncePerDay'
    <2>1. ASSUME NEW i \in DOMAIN jobs, jobs[i].scheduled, job.scheduled, jobs[i].day = day
          PROVE  jobs[i].late \/ job.late \/ {jobs[i].from, n} \in met' \/ LatePlanLingers' \/ faults > 0
      BY <1>3, <1>7, <2>1 DEF IsFirst, Overlapped
    <2> SUFFICES ASSUME NEW i \in DOMAIN jobs', NEW j \in DOMAIN jobs',
                        i # j, jobs'[i].scheduled, jobs'[j].scheduled, jobs'[i].day = jobs'[j].day
                 PROVE  \/ jobs'[i].late \/ jobs'[j].late
                        \/ {jobs'[i].from, jobs'[j].from} \in met'
                        \/ LatePlanLingers' \/ faults' > 0
      BY DEF RunsOncePerDay, Overlapped
    <2>2. CASE i # k /\ j # k
      <3>1. i \in DOMAIN jobs /\ j \in DOMAIN jobs /\ jobs'[i] = jobs[i] /\ jobs'[j] = jobs[j]
        BY <1>1, <2>2
      <3>2. jobs[i].late \/ jobs[j].late \/ {jobs[i].from, jobs[j].from} \in met \/ LatePlanLingers \/ faults > 0
        BY <3>1 DEF RunsInv, RunsOncePerDay, Overlapped
      <3> QED BY <1>3, <3>1, <3>2
    <2>3. CASE i = k
      <3>1. jobs'[i].from = n /\ jobs'[j].from = jobs[j].from
        BY <1>1, <2>3
      <3>2. jobs[j].scheduled /\ job.scheduled /\ jobs[j].day = day /\ j \in DOMAIN jobs
        BY <1>1, <2>3
      <3>3. jobs'[i] = job /\ jobs'[j] = jobs[j]
        BY <1>1, <2>3, <3>2
      <3>4. {jobs'[i].from, jobs'[j].from} = {jobs[j].from, n}
        BY <3>1
      <3> HIDE DEF Overlapped
      <3> QED BY <2>1, <3>2, <3>3, <3>4
    <2>4. CASE j = k
      BY <1>1, <2>1, <2>4
    <2> QED BY <2>2, <2>3, <2>4
  <1>10. \A i \in DOMAIN jobs' : jobs'[i].scheduled =>
           (HasRun(jobs[i].from) /\ MovedOn(i) /\ \A m \in Requests : IsFirst(i, m))'
    BY <1>1, <1>7, <1>8
  <1> QED BY <1>2, <1>6, <1>9, <1>10 DEF RunsInv

LEMMA DayKeepsRuns == ASSUME RunsInv, DayPasses, UNCHANGED faults PROVE RunsInv'
  <1>1. /\ day' \in Nat /\ day' > day
        /\ UNCHANGED <<request, met, jobs, schedule, faults>>
    BY DaysAreNatural DEF DayPasses, handlerVars
  <1> HIDE DEF DayPasses
  <1>0. \A i \in DOMAIN jobs : jobs[i].day \in Nat /\ jobs[i].day <= day
    <2>1. \A i \in DOMAIN jobs : jobs[i] \in Job
      BY DEF RunsInv, RunsShape
    <2> QED BY <2>1 DEF Job, RunsInv, RunsShape
  <1>2. RunsShape'
    BY <1>0, <1>1 DEF RunsInv, RunsShape
  <1>3. (LatePlanLingers' <=> LatePlanLingers) /\ (Excused' <=> Excused)
    BY <1>1 DEF LatePlanLingers, Excused, SameOp, Overlapped
  <1>4. \A n \in Requests : PlanHeld(n)'
    BY <1>1 DEF RunsInv, PlanHeld, SameOp, Patched, Overlapped
  <1>5. \A i \in DOMAIN jobs : jobs[i].day < day'
    BY <1>0, <1>1 DEF RunsInv, RunsShape
  <1>6. ASSUME NEW i \in DOMAIN jobs, jobs[i].scheduled
        PROVE  (HasRun(jobs[i].from) /\ MovedOn(i) /\ \A n \in Requests : IsFirst(i, n))'
    <2>1. HasRun(jobs[i].from) /\ MovedOn(i)
      BY <1>6 DEF RunsInv
    <2>2. HasRun(jobs[i].from)'
      BY <1>1, <2>1 DEF HasRun, SameOp
    <2>3. MovedOn(i)'
      BY <1>1, <1>3, <2>1 DEF MovedOn
    <2>4. \A n \in Requests : IsFirst(i, n)'
      BY <1>1, <1>5, <1>6 DEF IsFirst
    <2> QED BY <2>2, <2>3, <2>4
  <1>7. RunsOncePerDay'
    BY <1>1, <1>3 DEF RunsInv, RunsOncePerDay, Overlapped
  <1> QED BY <1>1, <1>2, <1>4, <1>6, <1>7 DEF RunsInv

LEMMA FindKeepsRuns ==
  ASSUME HandlerInv, RunsInv, NEW n \in Requests, FindDue(n), schedule.active /\ schedule.next <= day,
         UNCHANGED faults, OpsKept, met \subseteq met'
  PROVE  RunsInv'
  <1>0. UNCHANGED <<jobs, schedule, day, faults>> /\ RunsShape
    BY DEF FindDue, payrollVars, RunsInv
  <1>1. /\ n \in Busy /\ request[n].at = "finds due" /\ SameOp(n, "tick")
        /\ request' = [request EXCEPT ![n] = [op |-> "tick", at |-> "queues", plan |-> schedule.plan]]
        /\ met' = met
    BY NotYetEnded DEF FindDue, Is, Becomes, Busy, Ended, SameOp
  <1>2. /\ SameOp(n, "tick")' /\ request'[n].at = "queues"
        /\ "plan" \in DOMAIN request'[n] /\ request'[n].plan = schedule.plan
        /\ \A m \in Requests \ {n} : request'[m] = request[m]
    BY <1>1, NotYetEnded DEF HandlerInv, RequestShape, SameOp, NotYet
  <1>3. LatePlanLingers => LatePlanLingers'
    BY <1>0, LingersStays
  <1>4. \A m : Patched(m) => Patched(m)'
    BY PatchedStays
  <1>5. Excused => Excused'
    BY <1>0, <1>3 DEF Excused
  <1>6. RunsShape'
    BY <1>0 DEF RunsShape
  <1>7. ASSUME NEW m \in Requests PROVE PlanHeld(m)'
    <2>1. CASE m # n
      <3>1. request'[m] = request[m] /\ PlanHeld(m)
        BY <1>2, <2>1 DEF RunsInv
      <3> QED BY <1>0, <1>4, <3>1 DEF PlanHeld, SameOp
    <2>2. CASE m = n
      <3>1. schedule.plan \in Plans
        BY <1>0 DEF RunsShape
      <3> QED BY <1>0, <1>2, <2>2, <3>1 DEF PlanHeld
    <2> QED BY <2>1, <2>2
  <1>8. ASSUME NEW i \in DOMAIN jobs, jobs[i].scheduled
        PROVE  (HasRun(jobs[i].from) /\ MovedOn(i) /\ \A m \in Requests : IsFirst(i, m))'
    <2>1. jobs[i] \in Job /\ jobs'[i] = jobs[i]
      BY <1>0, <1>8 DEF RunsShape
    <2> PICK f \in Requests : f = jobs[i].from
      BY <2>1 DEF Job
    <2>2. HasRun(f) /\ MovedOn(i) /\ \A m \in Requests : IsFirst(i, m)
      BY <1>8 DEF RunsInv
    <2>3. f # n /\ request'[f] = request[f]
      BY <1>1, <1>2, <2>2 DEF HasRun
    <2>4. HasRun(f)'
      BY <2>2, <2>3 DEF HasRun, SameOp
    <2>5. MovedOn(i)'
      BY <1>0, <1>5, <2>2, <2>3 DEF MovedOn
    <2>6. IsFirst(i, n)'
      <3> SUFFICES ASSUME jobs[i].day = day, ~IsLateBiweekly(schedule.plan)
                   PROVE  {f, n} \in met' \/ LatePlanLingers' \/ faults > 0
        BY <1>0, <1>2 DEF IsFirst, Overlapped
      <3>1. CASE request[f].at = "moves next run"
        <4>1. f \in Busy
          BY <3>1 DEF Busy, Ended
        <4> QED BY <1>1, <2>3, <4>1 DEF HandlerInv, BusyMet, Overlapped
      <3>2. CASE request[f].at = "died"
        BY <2>2, <3>2 DEF RunsInv, PlanHeld, HasRun
      <3>3. CASE request[f].at = "done"
        <4>1. schedule.next > jobs[i].day \/ Excused
          BY <2>2, <3>3 DEF MovedOn
        <4>2. ~(schedule.next > jobs[i].day)
          BY <1>0 DEF RunsShape
        <4> QED BY <1>3, <4>1, <4>2 DEF Excused
      <3> QED BY <2>2, <3>1, <3>2, <3>3 DEF HasRun
    <2>7. ASSUME NEW m \in Requests \ {n} PROVE IsFirst(i, m)'
      BY <1>0, <1>2, <1>3, <2>1, <2>2, <2>7 DEF IsFirst, SameOp, Overlapped
    <2> QED BY <2>1, <2>4, <2>5, <2>6, <2>7
  <1>9. RunsOncePerDay'
    BY <1>0, <1>1, <1>3 DEF RunsInv, RunsOncePerDay, Overlapped
  <1> QED BY <1>0, <1>6, <1>7, <1>8, <1>9 DEF RunsInv

(* The tick moves the next run ahead, or back to where a plan it still     *)
(* holds has it.                                                           *)
LEMMA MoveIsAhead ==
  ASSUME HandlerInv, RunsInv, NEW n \in Requests, MoveNextRun(n), UNCHANGED faults, OpsKept, met \subseteq met'
  PROVE  ScheduleMoves /\ Ahead'
  <1>0. UNCHANGED <<jobs, day, faults>> /\ RunsShape
    BY DEF MoveNextRun, RunsInv
  <1>1. request[n].at = "moves next run" /\ SameOp(n, "tick")
    BY NotYetEnded DEF MoveNextRun, Is, SameOp, Ended
  <1>2. PlanHeld(n)
    BY DEF RunsInv
  <1> PICK plan \in Plans : plan = request[n].plan
    BY <1>1, <1>2 DEF PlanHeld
  <1> PICK next : next = NextRun(plan, day)
    OBVIOUS
  <1>3. next \in Int /\ (IsLateBiweekly(plan) \/ next > day)
    BY <1>0, NextRunIsAhead DEF RunsShape
  <1>4. schedule' = [schedule EXCEPT !.next = next]
    BY DEF MoveNextRun, FromToday
  <1>5. schedule' \in [plan : Plans, active : BOOLEAN, next : Int] /\ schedule'.plan = schedule.plan /\ schedule'.next = next
    BY <1>0, <1>3, <1>4 DEF RunsShape
  <1>6. Ahead'
    <2>1. CASE next > day
      BY <1>0, <1>5, <2>1 DEF Ahead
    <2>2. CASE IsLateBiweekly(plan) /\ plan = schedule.plan
      BY <1>5, <2>2 DEF Ahead, Excused
    <2>3. CASE IsLateBiweekly(plan) /\ plan # schedule.plan
      <3>1. PICK p \in Requests : SameOp(p, "patch") /\ Overlapped(p, n)
        BY <1>1, <1>2, <2>3 DEF PlanHeld, Patched
      <3>2. PICK i \in DOMAIN jobs : jobs[i].from = n /\ jobs[i].scheduled /\ jobs[i].late = IsLateBiweekly(plan)
        BY <1>1, <1>2 DEF PlanHeld
      <3>3. LatePlanLingers
        BY <2>3, <3>1, <3>2 DEF LatePlanLingers
      <3>4. LatePlanLingers'
        BY <1>0, <3>3, LingersStays
      <3> QED BY <3>4 DEF Ahead, Excused
    <2> QED BY <1>3, <2>1, <2>2, <2>3
  <1> QED BY <1>5, <1>6 DEF ScheduleMoves

LEMMA CompletionIsAhead ==
  ASSUME RunsShape, NEW j \in DOMAIN jobs, JobCompletes(j), UNCHANGED <<day, faults>>
  PROVE  ScheduleMoves
  <1>1. CASE UNCHANGED schedule
    BY <1>1 DEF ScheduleMoves, RunsShape
  <1>2. CASE schedule' = [schedule EXCEPT !.next = NextRun(schedule.plan, day)]
    <2>0. schedule.plan \in Plans /\ day \in Nat
      BY DEF RunsShape
    <2> PICK next : next = NextRun(schedule.plan, day)
      OBVIOUS
    <2>1. next \in Int /\ (IsLateBiweekly(schedule.plan) \/ next > day)
      BY <2>0, NextRunIsAhead
    <2>2. /\ schedule' \in [plan : Plans, active : BOOLEAN, next : Int]
          /\ schedule'.plan = schedule.plan /\ schedule'.next = next
      BY <1>2, <2>1 DEF RunsShape
    <2>3. Ahead'
      BY <2>1, <2>2 DEF Ahead, Excused
    <2> QED BY <2>2, <2>3 DEF ScheduleMoves
  <1> QED BY <1>1, <1>2 DEF JobCompletes

LEMMA PatchIsAhead ==
  ASSUME HandlerInv, RunsInv, PatchPlan \/ PatchActive, UNCHANGED faults
  PROVE  ScheduleMoves
  <1>0. RunsShape /\ day' = day
    BY DEF RunsInv, PatchPlan, PatchActive
  <1>1. CASE PatchActive
    <2>1. schedule' = [schedule EXCEPT !.active = ~schedule.active]
      BY <1>1 DEF PatchActive
    <2>2. schedule' \in [plan : Plans, active : BOOLEAN, next : Int] /\ schedule'.plan = schedule.plan /\ schedule'.next = schedule.next
      BY <1>0, <2>1 DEF RunsShape
    <2> QED BY <2>2 DEF ScheduleMoves
  <1>2. CASE PatchPlan
    <2>1. PICK plan \in Plans : schedule' = [schedule EXCEPT !.plan = plan, !.next = NextRun(plan, day)]
      BY <1>2 DEF PatchPlan
    <2> PICK next : next = NextRun(plan, day)
      OBVIOUS
    <2>2. next \in Int /\ (IsLateBiweekly(plan) \/ next > day)
      BY <1>0, NextRunIsAhead DEF RunsShape
    <2>3. schedule' \in [plan : Plans, active : BOOLEAN, next : Int] /\ schedule'.plan = plan /\ schedule'.next = next
      BY <1>0, <2>1, <2>2 DEF RunsShape
    <2>4. Ahead'
      BY <1>0, <2>2, <2>3 DEF Ahead, Excused
    <2> DEFINE r == [op |-> "patch", at |-> "done"]
    <2>5. Arrives(r) /\ r.op = "patch" /\ r # NotYet
      BY <1>2 DEF PatchPlan, NotYet
    <2> HIDE DEF r
    <2>6. PICK p \in Requests : request[p] = NotYet /\ request' = [request EXCEPT ![p] = r] /\ met' = met \cup {{m, p} : m \in Busy}
      BY <2>5 DEF Arrives
    <2>7. SameOp(p, "patch")'
      BY <2>5, <2>6 DEF SameOp, HandlerInv, RequestShape
    <2>8. \A n \in Busy : Overlapped(p, n)'
      BY <2>6 DEF Overlapped
    <2>9. \A n \in Requests \cap Busy : Patched(n)'
      BY <2>7, <2>8 DEF Patched
    <2> QED BY <2>3, <2>4, <2>9 DEF ScheduleMoves
  <1> QED BY <1>1, <1>2

LEMMA PayrollKeepsRuns == ASSUME HandlerInv, RunsInv, PayrollNext, UNCHANGED faults PROVE RunsInv'
  <1>1. HandlerStep(PayrollOps)
    BY PayrollRequests
  <1>2. OpsKept /\ met \subseteq met'
    BY <1>1 DEF HandlerStep, OpsKept
  <1>3. RunsShape
    BY DEF RunsInv
  <1>4. faults' \in Nat /\ faults <= faults'
    BY <1>3 DEF RunsShape
  <1>5. ASSUME UNCHANGED handlerVars PROVE \A n \in Requests : TickRests(n)
    BY <1>5 DEF TickRests, handlerVars
  <1>6. UNCHANGED schedule => ScheduleMoves
    BY <1>3 DEF ScheduleMoves, RunsShape
  <1>7. CASE DayPasses
    BY <1>7, DayKeepsRuns
  <1>8. ASSUME NEW j \in DOMAIN jobs, JobSteps(j) PROVE RunsInv'
    <2>1. JobsKept /\ UNCHANGED <<handlerVars, day>> /\ (UNCHANGED schedule \/ JobCompletes(j))
      BY <1>3, <1>8, JobMoves
    <2>2. ScheduleMoves
      BY <1>3, <1>6, <1>8, <2>1, CompletionIsAhead
    <2> QED BY <1>2, <1>4, <1>5, <2>1, <2>2, RestKeepsRuns DEF RunsRest
  <1>9. ASSUME NEW k \in DOMAIN retries, RetrySteps(k) PROVE RunsInv'
    <2>1. UNCHANGED <<handlerVars, jobs, schedule, day>>
      BY <1>9 DEF RetrySteps, RetryReads, RetryResets, RetryCredits
    <2> QED BY <1>2, <1>3, <1>4, <1>5, <1>6, <2>1, JobStays, RestKeepsRuns DEF RunsRest
  <1>10. CASE Tick \/ PostRun \/ RetryTick \/ PatchPlan \/ PatchActive
    <2>1. UNCHANGED <<jobs, day>> /\ ScheduleMoves
      BY <1>6, <1>10, PatchIsAhead DEF Tick, PostRun, RetryTick, PatchPlan, PatchActive, payrollVars
    <2>2. PICK r : Arrives(r) /\ (r.op # "tick" \/ r.at = "finds due")
      <3>1. CASE Tick
        <4> DEFINE r == [op |-> "tick", at |-> "finds due"]
        <4>1. Arrives(r) /\ (r.op # "tick" \/ r.at = "finds due")
          BY <3>1 DEF Tick
        <4> HIDE DEF r
        <4> QED BY <4>1
      <3>2. CASE PostRun
        <4> DEFINE r == [op |-> "post", at |-> "queues"]
        <4>1. Arrives(r) /\ (r.op # "tick" \/ r.at = "finds due")
          BY <3>2 DEF PostRun
        <4> HIDE DEF r
        <4> QED BY <4>1
      <3>3. CASE RetryTick
        <4> DEFINE r == [op |-> "retry tick", at |-> "lists failed"]
        <4>1. Arrives(r) /\ (r.op # "tick" \/ r.at = "finds due")
          BY <3>3 DEF RetryTick
        <4> HIDE DEF r
        <4> QED BY <4>1
      <3>4. CASE PatchPlan \/ PatchActive
        <4> DEFINE r == [op |-> "patch", at |-> "done"]
        <4>1. Arrives(r) /\ (r.op # "tick" \/ r.at = "finds due")
          BY <3>4 DEF PatchPlan, PatchActive
        <4> HIDE DEF r
        <4> QED BY <4>1
      <3> QED BY <1>10, <3>1, <3>2, <3>3, <3>4
    <2>3. PICK n \in Requests : request[n] = NotYet /\ request' = [request EXCEPT ![n] = r]
      BY <2>2 DEF Arrives
    <2>4. ~HasRun(n) /\ request'[n] = r /\ \A m \in Requests \ {n} : request'[m] = request[m]
      BY <2>3 DEF HasRun, SameOp, HandlerInv, RequestShape
    <2>5. \A m \in Requests : TickRests(m)
      BY <2>2, <2>4 DEF TickRests, SameOp
    <2> QED BY <1>2, <1>3, <1>4, <2>1, <2>5, JobStays, RestKeepsRuns DEF RunsRest
  <1>11. ASSUME NEW n \in Requests, RequestSteps(n) PROVE RunsInv'
    <2>1. n \in Busy /\ request[n] # NotYet
      BY <1>11, IsBusy, NotYetEnded
         DEF RequestSteps, QueuePosted, FindDue, QueueDue, MoveNextRun,
             ListFailed, QueueRetry, BackoffHolds, Escalate, MarkPending, Ended, Busy
    <2>2. CASE ListFailed(n) \/ QueueRetry(n) \/ BackoffHolds(n) \/ Escalate(n) \/ MarkPending(n)
      <3>1. request[n].op = "retry tick" /\ UNCHANGED <<jobs, schedule, day>>
        BY <2>2 DEF ListFailed, QueueRetry, BackoffHolds, Escalate, MarkPending, Is, payrollVars
      <3>2. request'[n].op = "retry tick"
        BY <1>2, <2>1, <3>1 DEF OpsKept
      <3>3. \A m \in Requests \ {n} : request'[m] = request[m]
        <4>1. \E r : request' = [request EXCEPT ![n] = r]
          BY <2>2 DEF ListFailed, QueueRetry, BackoffHolds, Escalate, MarkPending, NextFailed, GoesTo, Becomes
        <4> QED BY <4>1 DEF HandlerInv, RequestShape
      <3>4. \A m \in Requests : TickRests(m)
        BY <3>2, <3>3 DEF TickRests, SameOp
      <3> QED BY <1>2, <1>3, <1>4, <1>6, <3>1, <3>4, JobStays, RestKeepsRuns DEF RunsRest
    <2>3. CASE FindDue(n)
      <3>1. UNCHANGED <<jobs, schedule, day>> /\ request[n].at = "finds due"
        BY <2>3 DEF FindDue, payrollVars, Is
      <3>2. CASE schedule.active /\ schedule.next <= day
        BY <1>2, <2>3, <3>2, FindKeepsRuns
      <3>3. CASE ~(schedule.active /\ schedule.next <= day)
        <4>1. GoesTo(n, "done")
          BY <2>3, <3>3 DEF FindDue
        <4>2. request'[n].at = "done" /\ \A m \in Requests \ {n} : request'[m] = request[m]
          BY <2>1, <4>1, GoingOn
        <4>3. \A m \in Requests : TickRests(m)
          BY <3>1, <4>2 DEF TickRests, HasRun
        <4> QED BY <1>2, <1>3, <1>4, <1>6, <3>1, <4>3, JobStays, RestKeepsRuns DEF RunsRest
      <3> QED BY <3>2, <3>3
    <2>4. CASE MoveNextRun(n)
      <3>1. ScheduleMoves /\ Ahead' /\ UNCHANGED <<jobs, day>> /\ GoesTo(n, "done")
        BY <1>2, <2>4, MoveIsAhead DEF MoveNextRun
      <3>2. request'[n].at = "done" /\ \A m \in Requests \ {n} : request'[m] = request[m]
        BY <2>1, <3>1, GoingOn
      <3>3. \A m \in Requests : TickRests(m)
        BY <3>1, <3>2 DEF TickRests
      <3> QED BY <1>2, <1>3, <1>4, <3>1, <3>3, JobStays, RestKeepsRuns DEF RunsRest
    <2>5. CASE QueueDue(n)
      <3>1. /\ request[n].at = "queues" /\ request[n].op = "tick" /\ SameOp(n, "tick")
            /\ UNCHANGED <<schedule, day>> /\ jobs' = Queued(n, request[n].plan) /\ GoesTo(n, "moves next run")
        BY <2>1, <2>5 DEF QueueDue, Is, SameOp
      <3>2. "plan" \in DOMAIN request[n] /\ "moves next run" \notin Ended
        BY <3>1 DEF RunsInv, PlanHeld, Ended
      <3>3. /\ request'[n].at = "moves next run"
            /\ \A m \in Requests \ {n} : request'[m] = request[m]
            /\ "plan" \in DOMAIN request'[n] /\ request'[n].plan = request[n].plan
        BY <2>1, <3>1, <3>2, GoingOn
      <3> DEFINE job == [from |-> n, day |-> day, late |-> IsLateBiweekly(request[n].plan), scheduled |-> TRUE,
                         at |-> "waiting", attempts |-> 0, todo |-> {}]
      <3>4. jobs' = Append(jobs, job)
        BY <3>1 DEF Queued, Is
      <3>5. job \in Job
        BY <1>3, NewJob DEF RunsShape
      <3>6. /\ job.from = n /\ job.day = day /\ job.scheduled /\ job.late = IsLateBiweekly(request[n].plan)
        OBVIOUS
      <3> HIDE DEF job
      <3> QED BY <1>2, <2>1, <3>1, <3>3, <3>4, <3>5, <3>6, QueueKeepsRuns
    <2>6. CASE QueuePosted(n)
      <3>1. /\ request[n].op = "post"
            /\ UNCHANGED <<schedule, day>> /\ jobs' = Queued(n, schedule.plan) /\ GoesTo(n, "done")
        BY <2>1, <2>6 DEF QueuePosted, Is
      <3>2. /\ request'[n].op = "post"
            /\ \A m \in Requests \ {n} : request'[m] = request[m]
        BY <2>1, <3>1, GoingOn
      <3> DEFINE job == [from |-> n, day |-> day, late |-> IsLateBiweekly(schedule.plan), scheduled |-> FALSE,
                         at |-> "waiting", attempts |-> 0, todo |-> {}]
      <3>3. jobs' = Append(jobs, job)
        BY <3>1 DEF Queued, Is
      <3>4. job \in Job
        BY <1>3, NewJob DEF RunsShape
      <3>5. /\ job.from = n /\ job.day = day /\ ~job.scheduled
        OBVIOUS
      <3>6. ~SameOp(n, "tick") /\ ~SameOp(n, "tick")'
        BY <3>1, <3>2 DEF SameOp
      <3> HIDE DEF job
      <3> QED BY <1>2, <2>1, <3>1, <3>2, <3>3, <3>4, <3>5, <3>6, QueueKeepsRuns
    <2> QED BY <1>11, <2>2, <2>3, <2>4, <2>5, <2>6 DEF RequestSteps
  <1> QED BY <1>7, <1>8, <1>9, <1>10, <1>11 DEF PayrollNext

LEMMA FaultKeepsRuns == ASSUME HandlerInv, RunsInv, Fault PROVE RunsInv'
  <1>1. Killing
    BY FaultRequests
  <1>2. RunsShape
    BY DEF RunsInv
  <1>3. faults' \in Nat /\ faults <= faults' /\ faults' > 0
    <2>1. faults \in Nat /\ faults' = faults + 1
      BY <1>2 DEF Fault, RunsShape
    <2> QED BY <2>1
  <1>4. OpsKept /\ met \subseteq met' /\ \A n \in Requests : TickRests(n)
    BY <1>1, <1>3 DEF Killing, OpsKept, TickRests
  <1>5. JobsKept /\ UNCHANGED <<schedule, day>>
    <2>1. CASE UNCHANGED payrollVars
      BY <1>2, <2>1, JobStays DEF payrollVars
    <2>2. CASE Crash
      BY <1>2, <2>2, CrashKeepsJobs DEF Crash
    <2>3. ASSUME NEW j \in DOMAIN jobs, EmployeeFails(j) \/ FailureIsNotRecorded(j) \/ JobFails(j)
          PROVE  JobsKept /\ UNCHANGED <<schedule, day>>
      BY <1>2, <2>3, JobMoves DEF EmployeeFails, FailureIsNotRecorded, JobFails
    <2>4. ASSUME NEW k \in DOMAIN retries, RetryFails(k) PROVE JobsKept /\ UNCHANGED <<schedule, day>>
      BY <1>2, <2>4, JobStays DEF RetryFails
    <2>5. \/ UNCHANGED payrollVars \/ Crash
          \/ \E j \in DOMAIN jobs : EmployeeFails(j) \/ FailureIsNotRecorded(j) \/ JobFails(j)
          \/ \E k \in DOMAIN retries : RetryFails(k)
      BY DEF Fault, Dies, CohortFrame, SessionFrame, deskPlaneVars
    <2> QED BY <2>1, <2>2, <2>3, <2>4, <2>5
  <1>6. ScheduleMoves
    BY <1>2, <1>5 DEF ScheduleMoves, RunsShape
  <1> QED BY <1>3, <1>4, <1>5, <1>6, RestKeepsRuns DEF RunsRest

LEMMA OthersKeepRuns ==
  ASSUME HandlerInv, RunsInv, NEW ops, HandlerStep(ops), "tick" \notin ops, UNCHANGED <<payrollVars, faults>>
  PROVE  RunsInv'
  <1>1. UNCHANGED <<jobs, schedule, day>> /\ RunsShape
    BY DEF payrollVars, RunsInv
  <1>2. OpsKept /\ met \subseteq met' /\ \A n \in Requests : TickRests(n)
    BY DEF HandlerStep, OpsKept, TickRests, SameOp
  <1>3. ScheduleMoves /\ faults' \in Nat /\ faults <= faults'
    BY <1>1 DEF ScheduleMoves, RunsShape
  <1> QED BY <1>1, <1>2, <1>3, JobStays, RestKeepsRuns DEF RunsRest

LEMMA RunsGoOn == ASSUME HandlerInv, RunsInv, [Next]_vars PROVE RunsInv'
  <1>1. CASE PayrollNext /\ UNCHANGED faults
    BY <1>1, PayrollKeepsRuns
  <1>2. CASE Fault
    BY <1>2, FaultKeepsRuns
  <1>3. CASE /\ LoginNext \/ ScreeningNext \/ AdvanceNext \/ CohortNext \/ UploadNext \/ RouteNext \/ SessionNext
             /\ UNCHANGED faults
    <2>1. UNCHANGED payrollVars
      BY <1>3 DEF LoginNext, ScreeningNext, AdvanceNext, CohortNext, UploadNext, RouteNext, SessionNext, PersonFrame,
                  CohortFrame, UploadFrame, RouteFrame, SessionFrame, deskPlaneVars
    <2>2. PICK ops : HandlerStep(ops) /\ "tick" \notin ops
      <3>0. "tick" \notin RouteOps /\ "tick" \notin SessionOps
        BY DEF SessionOps, RouteOps
      <3>1. \A ops \in {{"login"}, {"kyc", "rescreen"}, {"advance"}, {"clear"}, {"upload"}, RouteOps, SessionOps} :
              "tick" \notin ops
        BY <3>0
      <3>2. PICK ops \in {{"login"}, {"kyc", "rescreen"}, {"advance"}, {"clear"}, {"upload"}, RouteOps, SessionOps} :
              HandlerStep(ops)
        BY <1>3, LoginRequests, ScreeningRequests, AdvanceRequests, CohortRequests, UploadRequests, RouteRequests,
           SessionRequests
      <3> QED BY <3>1, <3>2
    <2> QED BY <1>3, <2>1, <2>2, OthersKeepRuns
  <1>4. CASE (CodesNext /\ UNCHANGED faults) \/ UNCHANGED vars
    <2>1. UNCHANGED <<handlerVars, payrollVars, faults>>
      BY <1>4 DEF CodesNext, CodeExpires, PersonFrame, vars, deskPlaneVars
    <2>2. HandlerStep({})
      BY <2>1, HandlersRest
    <2> QED BY <2>1, <2>2, OthersKeepRuns
  <1> QED BY <1>1, <1>2, <1>3, <1>4 DEF Next

(* For any number of ticks, patches, days and plans: a schedule is run     *)
(* twice in a day only by ticks that overlapped, after a fault, or because *)
(* of a biweekly plan whose next run is not ahead.                         *)
THEOREM RunsOncePerDayHolds == Spec => []RunsOncePerDay
  <1>1. Init => HandlerInv /\ RunsInv
    BY HandlersInit, RunsStart DEF Init
  <1>2. HandlerInv /\ RunsInv /\ [Next]_vars => (HandlerInv /\ RunsInv)'
    BY StepKeepsRequests, RunsGoOn
  <1>3. RunsInv => RunsOncePerDay
    BY DEF RunsInv
  <1> QED BY <1>1, <1>2, <1>3, PTL DEF Spec

(***************************************************************************)
(* The rows of the payroll engine, and what refers to them.                *)
(***************************************************************************)
PayStatuses == {"PENDING", "PROCESSING", "COMPLETED", "FAILED"}
PayRow == [job : Nat, user : Users, tries : Nat, status : PayStatuses]
RetryStates == {"waiting", "resets", "credits", "completed", "failed", "lost"}
Retry == [record : Nat, by : Requests, at : RetryStates]

Retrying(n, at) == SameOp(n, "retry tick") /\ request[n].at = at

(* A retry tick that goes on has rows to go through. *)
HasRows(n) ==
  Retrying(n, "counts attempts") \/ Retrying(n, "marks pending") =>
    /\ "todo" \in DOMAIN request[n] /\ request[n].todo \subseteq DOMAIN records /\ request[n].todo # {}
    /\ Retrying(n, "marks pending") => "attempt" \in DOMAIN request[n] /\ request[n].attempt \in Nat

EngineInv ==
  /\ records \in Seq(PayRow) /\ retries \in Seq(Retry)
  /\ \A r \in DOMAIN records : records[r].job \in 0..Len(jobs)
  /\ \A k \in DOMAIN retries : retries[k].record \in DOMAIN records
  /\ \A j \in DOMAIN jobs : jobs[j].at \in {"logs", "records failure"} => jobs[j].todo # {}
  /\ \A n \in Requests : HasRows(n)

LEMMA EngineStarts == Init => EngineInv
  <1> SUFFICES ASSUME Init PROVE EngineInv
    OBVIOUS
  <1>1. jobs = <<>> /\ retries = <<>> /\ records \in Backlog
    BY DEF Init, InitPayroll
  <1>2. records \in Seq(PayRow) /\ \A r \in DOMAIN records : records[r].job = 0
    <2>1. records \in Seq([job : {0}, user : Users, tries : Nat, status : PayStatuses])
      BY <1>1, BacklogIsOneRun DEF PayStatuses
    <2>2. \A r \in DOMAIN records : records[r] \in [job : {0}, user : Users, tries : Nat, status : PayStatuses]
      BY <2>1, ElementsOfSeq
    <2>3. records = [r \in DOMAIN records |-> records[r]]
      BY <2>1, ElementsOfSeq
    <2>4. \A r \in DOMAIN records : records[r] \in PayRow /\ records[r].job = 0
      BY <2>2 DEF PayRow
    <2> HIDE DEF PayRow
    <2>5. records \in Seq(PayRow)
      BY <2>1, <2>3, <2>4, SameLength
    <2> QED BY <2>4, <2>5
  <1>3. retries \in Seq(Retry) /\ DOMAIN retries = {} /\ DOMAIN jobs = {} /\ Len(jobs) = 0
    BY <1>1
  <1>4. \A n \in Requests : HasRows(n)
    BY DEF Init, InitHandlers, HasRows, Retrying, SameOp
  <1> QED BY <1>2, <1>3, <1>4 DEF EngineInv

(***************************************************************************)
(* What a step of the engine may do to the rows and the retries.           *)
(***************************************************************************)
RowsKept ==
  /\ records' \in Seq(PayRow) /\ DOMAIN records \subseteq DOMAIN records'
  /\ \A r \in DOMAIN records : records'[r].job = records[r].job /\ records'[r].user = records[r].user

RetriesKept ==
  /\ retries' \in Seq(Retry) /\ DOMAIN retries \subseteq DOMAIN retries'
  /\ \A k \in DOMAIN retries : /\ retries'[k].record = retries[k].record
                               /\ retries[k].at = "completed" => retries'[k].at = "completed"

LEMMA RowIsWritten ==
  ASSUME records \in Seq(PayRow), NEW r \in DOMAIN records, NEW row \in PayRow,
         row.job = records[r].job, row.user = records[r].user, records' = [records EXCEPT ![r] = row]
  PROVE  /\ RowsKept /\ DOMAIN records' = DOMAIN records
         /\ records'[r] = row /\ \A s \in DOMAIN records \ {r} : records'[s] = records[s]
  <1> HIDE DEF PayRow
  <1>1. \A s \in DOMAIN records : records[s] \in PayRow
    OBVIOUS
  <1>2. records' = [s \in DOMAIN records |-> records'[s]] /\ \A s \in DOMAIN records : records'[s] \in PayRow
    BY <1>1
  <1>3. records' \in Seq(PayRow)
    BY <1>2, SameLength
  <1> QED BY <1>3 DEF RowsKept

LEMMA RowIsAdded ==
  ASSUME records \in Seq(PayRow), NEW row \in PayRow, records' = Append(records, row)
  PROVE  /\ RowsKept /\ DOMAIN records' = DOMAIN records \cup {Len(records) + 1}
         /\ Len(records) + 1 \notin DOMAIN records
         /\ records'[Len(records) + 1] = row /\ \A s \in DOMAIN records : records'[s] = records[s]
  <1> HIDE DEF PayRow
  <1> PICK k : k = Len(records) + 1
    OBVIOUS
  <1>1. /\ records' \in Seq(PayRow) /\ DOMAIN records' = DOMAIN records \cup {k} /\ k \notin DOMAIN records
        /\ records'[k] = row /\ \A s \in DOMAIN records : records'[s] = records[s]
    BY AppendAdds
  <1> QED BY <1>1 DEF RowsKept

LEMMA RowsStay == ASSUME records \in Seq(PayRow), UNCHANGED records PROVE RowsKept
  BY DEF RowsKept

LEMMA RetriesStay == ASSUME retries \in Seq(Retry), UNCHANGED retries PROVE RetriesKept
  BY DEF RetriesKept

LEMMA RetryIsMoved ==
  ASSUME retries \in Seq(Retry), NEW k \in DOMAIN retries, NEW at \in RetryStates, RetryTo(k, at),
         retries[k].at # "completed"
  PROVE  /\ RetriesKept /\ DOMAIN retries' = DOMAIN retries
         /\ retries'[k].at = at /\ retries'[k].record = retries[k].record
         /\ \A i \in DOMAIN retries \ {k} : retries'[i] = retries[i]
  <1>1. retries[k] \in Retry
    OBVIOUS
  <1> DEFINE new == [retries[k] EXCEPT !.at = at]
  <1>2. new \in Retry /\ new.at = at /\ new.record = retries[k].record
    BY <1>1 DEF Retry
  <1>3. retries' = [retries EXCEPT ![k] = new]
    BY DEF RetryTo
  <1> HIDE DEF new, Retry
  <1>4. retries' = [i \in DOMAIN retries |-> retries'[i]] /\ \A i \in DOMAIN retries : retries'[i] \in Retry
    <2>1. \A i \in DOMAIN retries : retries[i] \in Retry
      OBVIOUS
    <2>2. retries' = [i \in DOMAIN retries |-> IF i = k THEN new ELSE retries[i]]
      BY <1>3, ElementsOfSeq
    <2> QED BY <1>2, <2>1, <2>2
  <1>5. retries' \in Seq(Retry)
    BY <1>4, SameLength
  <1>6. \A i \in DOMAIN retries \ {k} : retries'[i] = retries[i]
    BY <1>3
  <1>7. retries'[k] = new
    BY <1>3
  <1> QED BY <1>2, <1>3, <1>5, <1>6, <1>7 DEF RetriesKept

LEMMA RetryIsAdded ==
  ASSUME retries \in Seq(Retry), NEW new \in Retry, retries' = Append(retries, new)
  PROVE  /\ RetriesKept /\ DOMAIN retries' = DOMAIN retries \cup {Len(retries) + 1}
         /\ Len(retries) + 1 \notin DOMAIN retries
         /\ retries'[Len(retries) + 1] = new /\ \A i \in DOMAIN retries : retries'[i] = retries[i]
  <1> HIDE DEF Retry
  <1> PICK k : k = Len(retries) + 1
    OBVIOUS
  <1>1. /\ retries' \in Seq(Retry) /\ DOMAIN retries' = DOMAIN retries \cup {k} /\ k \notin DOMAIN retries
        /\ retries'[k] = new /\ \A i \in DOMAIN retries : retries'[i] = retries[i]
    BY AppendAdds
  <1> QED BY <1>1 DEF RetriesKept

(* The row at hand is the first of those a tick goes through. *)
LEMMA FirstIsOne ==
  ASSUME EngineInv, NEW n \in Requests, Retrying(n, "counts attempts") \/ Retrying(n, "marks pending")
  PROVE  First(request[n].todo) \in request[n].todo /\ First(request[n].todo) \in DOMAIN records
  <1>1. request[n].todo \subseteq DOMAIN records /\ request[n].todo # {}
    BY DEF EngineInv, HasRows
  <1>2. DOMAIN records \subseteq Nat
    BY ElementsOfSeq DEF EngineInv
  <1>3. \E m \in request[n].todo : \A k \in request[n].todo : m <= k
    BY <1>1, <1>2, LeastNatural
  <1>4. First(request[n].todo) \in request[n].todo
    BY <1>3 DEF First, Min
  <1> QED BY <1>1, <1>4

(* It goes on with the rest of them. *)
Rest(n) == request[n].todo \ {First(request[n].todo)}
GoesOn(n) ==
  \/ Rest(n) = {} /\ SameOp(n, "retry tick")' /\ request'[n].at = "done"
  \/ Rest(n) # {} /\ Retrying(n, "counts attempts")' /\ "todo" \in DOMAIN request'[n] /\ request'[n].todo = Rest(n)

LEMMA RowsToGo ==
  ASSUME NEW rest, NEW r, r = [op |-> "retry tick", at |-> "counts attempts", todo |-> rest]
  PROVE  r.at = "counts attempts" /\ r.op = "retry tick" /\ r.todo = rest /\ "todo" \in DOMAIN r /\ IsRequest(r)
  BY NotYetEnded DEF IsRequest

LEMMA GoingToNext ==
  ASSUME HandlerInv, NEW n \in Busy, request[n].op = "retry tick", NextFailed(n)
  PROVE  GoesOn(n) /\ met' = met /\ \A m \in Requests \ {n} : request'[m] = request[m]
  <1>1. CASE Rest(n) = {}
    <2>1. GoesTo(n, "done")
      BY <1>1 DEF NextFailed, Rest
    <2>2. /\ request'[n].at = "done" /\ request'[n] # NotYet /\ request'[n].op = "retry tick"
          /\ \A m \in Requests \ {n} : request'[m] = request[m]
      BY <2>1, GoingOn
    <2>3. met' = met
      BY <2>1 DEF GoesTo, Becomes
    <2> QED BY <1>1, <2>2, <2>3 DEF GoesOn, SameOp
  <1>2. CASE Rest(n) # {}
    <2>1. Becomes(n, [op |-> "retry tick", at |-> "counts attempts", todo |-> Rest(n)])
      BY <1>2 DEF NextFailed, Rest
    <2>2. /\ request'[n] = [op |-> "retry tick", at |-> "counts attempts", todo |-> Rest(n)]
          /\ met' = met /\ \A m \in Requests \ {n} : request'[m] = request[m]
      BY <2>1 DEF Becomes, HandlerInv, RequestShape, Busy
    <2>3. Retrying(n, "counts attempts")' /\ "todo" \in DOMAIN request'[n] /\ request'[n].todo = Rest(n)
      <3> PICK rest : rest = Rest(n)
        OBVIOUS
      <3>1. /\ request'[n].at = "counts attempts" /\ request'[n].op = "retry tick"
            /\ request'[n].todo = rest /\ "todo" \in DOMAIN request'[n]
        <4>1. request'[n] = [op |-> "retry tick", at |-> "counts attempts", todo |-> rest]
          BY <2>2
        <4> QED BY <4>1, RowsToGo
      <3>2. request'[n] # NotYet
        BY <3>1, NotYetEnded
      <3> QED BY <3>1, <3>2 DEF Retrying, SameOp
    <2> QED BY <1>2, <2>2, <2>3 DEF GoesOn
  <1> QED BY <1>1, <1>2

(* What a step does to the job j. *)
JobGoes(j, at, todo) ==
  /\ DOMAIN jobs' = DOMAIN jobs
  /\ jobs'[j].at = at /\ jobs'[j].todo = todo
  /\ \A i \in DOMAIN jobs \ {j} : jobs'[i] = jobs[i]

LEMMA JobFieldsGo ==
  ASSUME RunsShape, NEW j \in DOMAIN jobs, NEW at
  PROVE  /\ JobTo(j, at) => JobGoes(j, at, jobs[j].todo)
         /\ \A todo : jobs' = [jobs EXCEPT ![j].at = at, ![j].todo = todo] => JobGoes(j, at, todo)
         /\ \A attempts : jobs' = [jobs EXCEPT ![j].attempts = attempts, ![j].at = at] => JobGoes(j, at, jobs[j].todo)
  <1>1. jobs = [i \in DOMAIN jobs |-> jobs[i]] /\ jobs[j] \in Job
    BY ElementsOfSeq DEF RunsShape
  <1>2. ASSUME NEW todo, NEW attempts,
               \/ jobs' = [jobs EXCEPT ![j].at = at, ![j].todo = todo]
               \/ jobs' = [jobs EXCEPT ![j].at = at] /\ todo = jobs[j].todo
               \/ jobs' = [jobs EXCEPT ![j].attempts = attempts, ![j].at = at] /\ todo = jobs[j].todo
        PROVE  JobGoes(j, at, todo)
    <2>1. DOMAIN jobs' = DOMAIN jobs /\ \A i \in DOMAIN jobs \ {j} : jobs'[i] = jobs[i]
      BY <1>1, <1>2
    <2>2. PICK job : job = jobs[j]
      OBVIOUS
    <2>3. \/ jobs'[j] = [job EXCEPT !.at = at, !.todo = todo]
          \/ jobs'[j] = [job EXCEPT !.at = at] /\ todo = job.todo
          \/ jobs'[j] = [job EXCEPT !.attempts = attempts, !.at = at] /\ todo = job.todo
      BY <1>1, <1>2, <2>2
    <2>4. job \in Job
      BY <1>1, <2>2
    <2>5. jobs'[j].at = at /\ jobs'[j].todo = todo
      BY <2>3, <2>4 DEF Job
    <2> QED BY <2>1, <2>5 DEF JobGoes
  <1> QED BY <1>2 DEF JobTo

LEMMA JobStepsGo ==
  ASSUME RunsShape, NEW j \in DOMAIN jobs
  PROVE  /\ JobStarts(j) => JobGoes(j, "pays", Staff)
         /\ Pays(j) => JobGoes(j, "logs", jobs[j].todo)
         /\ HasNoWallet(j) \/ EmployeeFails(j) => JobGoes(j, "records failure", jobs[j].todo)
         /\ Logs(j) \/ RecordsFailure(j) \/ FailureIsNotRecorded(j) => JobGoes(j, "pays", jobs[j].todo \ {Current(j)})
         /\ JobCompletes(j) => JobGoes(j, "completed", jobs[j].todo)
         /\ JobFails(j) => JobGoes(j, "delayed", jobs[j].todo) \/ JobGoes(j, "failed", jobs[j].todo)
  <1>0. jobs[j] \in Job /\ jobs = [i \in DOMAIN jobs |-> jobs[i]]
    BY ElementsOfSeq DEF RunsShape
  <1>1. JobStarts(j) => JobGoes(j, "pays", Staff)
    BY JobFieldsGo DEF JobStarts
  <1>2. Pays(j) => JobGoes(j, "logs", jobs[j].todo)
    BY JobFieldsGo DEF Pays
  <1>3. HasNoWallet(j) \/ EmployeeFails(j) => JobGoes(j, "records failure", jobs[j].todo)
    BY JobFieldsGo DEF HasNoWallet, EmployeeFails
  <1>4. Logs(j) \/ RecordsFailure(j) \/ FailureIsNotRecorded(j) => JobGoes(j, "pays", jobs[j].todo \ {Current(j)})
    <2> SUFFICES ASSUME Logs(j) \/ RecordsFailure(j) \/ FailureIsNotRecorded(j)
                 PROVE  JobGoes(j, "pays", jobs[j].todo \ {Current(j)})
      OBVIOUS
    <2> PICK todo : todo = jobs[j].todo \ {Current(j)}
      OBVIOUS
    <2>1. jobs' = [jobs EXCEPT ![j].at = "pays", ![j].todo = todo]
      BY <1>0 DEF Logs, RecordsFailure, FailureIsNotRecorded, Job
    <2> QED BY <2>1, JobFieldsGo
  <1>5. JobCompletes(j) => JobGoes(j, "completed", jobs[j].todo)
    BY JobFieldsGo DEF JobCompletes
  <1>6. JobFails(j) => JobGoes(j, "delayed", jobs[j].todo) \/ JobGoes(j, "failed", jobs[j].todo)
    <2> SUFFICES ASSUME JobFails(j) PROVE JobGoes(j, "delayed", jobs[j].todo) \/ JobGoes(j, "failed", jobs[j].todo)
      OBVIOUS
    <2> PICK attempts : attempts = jobs[j].attempts + 1
      OBVIOUS
    <2>1. \/ jobs' = [jobs EXCEPT ![j].attempts = attempts, ![j].at = "delayed"]
          \/ jobs' = [jobs EXCEPT ![j].attempts = attempts, ![j].at = "failed"]
      BY <1>0 DEF JobFails, Job
    <2> QED BY <2>1, JobFieldsGo
  <1> QED BY <1>1, <1>2, <1>3, <1>4, <1>5, <1>6

JobsInHand == \A j \in DOMAIN jobs : jobs[j].at \in {"logs", "records failure"} => jobs[j].todo # {}

LEMMA EngineKept ==
  ASSUME EngineInv, RowsKept, RetriesKept, Len(jobs) \in Nat, Len(jobs') \in Nat, Len(jobs) <= Len(jobs'),
         \A r \in DOMAIN records' \ DOMAIN records : records'[r].job \in 0..Len(jobs'),
         \A k \in DOMAIN retries' \ DOMAIN retries : retries'[k].record \in DOMAIN records,
         JobsInHand',
         \A n \in Requests : request'[n] = request[n] \/ HasRows(n)'
  PROVE  EngineInv'
  <1>1. records' \in Seq(PayRow) /\ retries' \in Seq(Retry)
    BY DEF RowsKept, RetriesKept
  <1>2. \A r \in DOMAIN records' : records'[r].job \in 0..Len(jobs')
    <2> TAKE r \in DOMAIN records'
    <2>1. CASE r \in DOMAIN records
      <3>1. records'[r].job \in 0..Len(jobs)
        BY <2>1 DEF RowsKept, EngineInv
      <3> QED BY <3>1
    <2> QED BY <2>1
  <1>3. \A k \in DOMAIN retries' : retries'[k].record \in DOMAIN records'
    BY DEF RowsKept, RetriesKept, EngineInv
  <1>4. \A n \in Requests : HasRows(n)'
    BY DEF RowsKept, EngineInv, HasRows, Retrying, SameOp
  <1> QED BY <1>1, <1>2, <1>3, <1>4 DEF EngineInv, JobsInHand

(* Steps in which no retry tick goes on. *)
TicksRest == \A n \in Requests : request'[n] = request[n] \/ HasRows(n)'

LEMMA KillingRestsTicks == ASSUME Killing PROVE TicksRest
  BY DEF Killing, TicksRest, HasRows, Retrying

LEMMA OthersRestTicks ==
  ASSUME NEW ops, HandlerStep(ops), "retry tick" \notin ops PROVE TicksRest
  BY DEF HandlerStep, TicksRest, HasRows, Retrying, SameOp

(* Without a new job, row or retry. *)
LEMMA EngineRests ==
  ASSUME EngineInv, UNCHANGED <<jobs, records, retries>>, TicksRest, jobs \in Seq(Job)
  PROVE  EngineInv' /\ RowsKept /\ RetriesKept
  <1>1. RowsKept /\ RetriesKept
    BY RowsStay, RetriesStay DEF EngineInv
  <1>2. Len(jobs) \in Nat
    BY ElementsOfSeq
  <1>3. Len(jobs) <= Len(jobs') /\ Len(jobs') \in Nat
    BY <1>2
  <1>4. JobsInHand'
    BY DEF EngineInv, JobsInHand
  <1> QED BY <1>1, <1>2, <1>3, <1>4, EngineKept DEF TicksRest

TickSteps(n) == ListFailed(n) \/ QueueRetry(n) \/ BackoffHolds(n) \/ Escalate(n) \/ MarkPending(n)

LEMMA TickIsBusy ==
  ASSUME NEW n \in Requests, TickSteps(n)
  PROVE  n \in Busy /\ request[n].op = "retry tick" /\ SameOp(n, "retry tick")
  BY IsBusy, NotYetEnded DEF TickSteps, ListFailed, QueueRetry, BackoffHolds, Escalate, MarkPending, Ended, SameOp, Busy

FailedRows == {r \in DOMAIN records : records[r].status = "FAILED"}

LEMMA ListingGoes ==
  ASSUME HandlerInv, EngineInv, NEW n \in Requests, ListFailed(n)
  PROVE  /\ UNCHANGED <<deskVars, payrollVars, met>> /\ Retrying(n, "lists failed")
         /\ \A m \in Requests \ {n} : request'[m] = request[m]
         /\ \/ SameOp(n, "retry tick")' /\ request'[n].at = "done"
            \/ /\ Retrying(n, "counts attempts")' /\ FailedRows # {}
               /\ "todo" \in DOMAIN request'[n] /\ request'[n].todo = FailedRows
  <1>0. n \in Busy /\ request[n].op = "retry tick" /\ SameOp(n, "retry tick")
    BY TickIsBusy DEF TickSteps
  <1>1. UNCHANGED <<deskVars, payrollVars>> /\ Retrying(n, "lists failed")
    BY <1>0 DEF ListFailed, Is, Retrying
  <1>2. CASE FailedRows = {}
    <2>1. GoesTo(n, "done")
      BY <1>2 DEF ListFailed, FailedRows
    <2>2. /\ request'[n].at = "done" /\ request'[n] # NotYet /\ request'[n].op = "retry tick"
          /\ \A m \in Requests \ {n} : request'[m] = request[m]
      BY <1>0, <2>1, GoingOn
    <2>3. met' = met
      BY <2>1 DEF GoesTo, Becomes
    <2> QED BY <1>1, <2>2, <2>3 DEF SameOp
  <1>3. CASE FailedRows # {}
    <2> PICK todo : todo = FailedRows
      OBVIOUS
    <2>1. Becomes(n, [op |-> "retry tick", at |-> "counts attempts", todo |-> todo])
      BY <1>3 DEF ListFailed, FailedRows
    <2>2. /\ request'[n] = [op |-> "retry tick", at |-> "counts attempts", todo |-> todo]
          /\ met' = met /\ \A m \in Requests \ {n} : request'[m] = request[m]
      BY <2>1 DEF Becomes, HandlerInv, RequestShape, Busy
    <2>3. /\ request'[n].at = "counts attempts" /\ request'[n].op = "retry tick"
          /\ request'[n].todo = todo /\ "todo" \in DOMAIN request'[n]
      BY <2>2, RowsToGo
    <2>4. Retrying(n, "counts attempts")'
      BY <2>3, NotYetEnded DEF Retrying, SameOp
    <2> QED BY <1>1, <1>3, <2>2, <2>3, <2>4
  <1> QED BY <1>2, <1>3

LEMMA QueuedRetry ==
  ASSUME NEW todo, NEW attempt, NEW r,
         r = [op |-> "retry tick", at |-> "marks pending", todo |-> todo, attempt |-> attempt]
  PROVE  /\ r.at = "marks pending" /\ r.op = "retry tick" /\ r.todo = todo /\ r.attempt = attempt
         /\ "todo" \in DOMAIN r /\ "attempt" \in DOMAIN r
  OBVIOUS

LEMMA QueueingGoes ==
  ASSUME HandlerInv, EngineInv, NEW n \in Requests, QueueRetry(n)
  PROVE  /\ UNCHANGED <<deskVars, jobs, records, schedule, day, met>> /\ Retrying(n, "counts attempts")
         /\ \A m \in Requests \ {n} : request'[m] = request[m]
         /\ Retrying(n, "marks pending")' /\ "todo" \in DOMAIN request'[n] /\ request'[n].todo = request[n].todo
         /\ "attempt" \in DOMAIN request'[n] /\ request'[n].attempt \in Nat
         /\ retries' = Append(retries, [record |-> First(request[n].todo), by |-> n, at |-> "waiting"])
  <1>0. n \in Busy /\ request[n].op = "retry tick" /\ SameOp(n, "retry tick")
    BY TickIsBusy DEF TickSteps
  <1> PICK todo : todo = request[n].todo
    OBVIOUS
  <1> PICK attempt : attempt = records[First(request[n].todo)].tries + 1
    OBVIOUS
  <1>1. /\ UNCHANGED <<deskVars, jobs, records, schedule, day>> /\ Retrying(n, "counts attempts")
        /\ Becomes(n, [op |-> "retry tick", at |-> "marks pending", todo |-> todo, attempt |-> attempt])
        /\ retries' = Append(retries, [record |-> First(request[n].todo), by |-> n, at |-> "waiting"])
    BY <1>0 DEF QueueRetry, Is, Retrying
  <1>2. attempt \in Nat
    <2>1. First(request[n].todo) \in DOMAIN records
      BY <1>1, FirstIsOne
    <2>2. records[First(request[n].todo)] \in PayRow
      BY <2>1, ElementsOfSeq DEF EngineInv
    <2>3. records[First(request[n].todo)].tries \in Nat
      BY <2>2 DEF PayRow
    <2> QED BY <2>3
  <1>3. /\ request'[n] = [op |-> "retry tick", at |-> "marks pending", todo |-> todo, attempt |-> attempt]
        /\ met' = met /\ \A m \in Requests \ {n} : request'[m] = request[m]
    BY <1>1 DEF Becomes, HandlerInv, RequestShape
  <1>4. /\ request'[n].at = "marks pending" /\ request'[n].op = "retry tick" /\ request'[n].todo = todo
        /\ request'[n].attempt = attempt /\ "todo" \in DOMAIN request'[n] /\ "attempt" \in DOMAIN request'[n]
    <2> PICK r : r = [op |-> "retry tick", at |-> "marks pending", todo |-> todo, attempt |-> attempt]
      OBVIOUS
    <2>1. request'[n] = r
      BY <1>3
    <2>2. /\ r.at = "marks pending" /\ r.op = "retry tick" /\ r.todo = todo /\ r.attempt = attempt
          /\ "todo" \in DOMAIN r /\ "attempt" \in DOMAIN r
      BY QueuedRetry
    <2> QED BY <2>1, <2>2
  <1>5. Retrying(n, "marks pending")'
    BY <1>4, NotYetEnded DEF Retrying, SameOp
  <1> QED BY <1>1, <1>2, <1>3, <1>4, <1>5

(* The other steps go on to the rest, and may write the row at hand. *)
LEMMA RowDone ==
  ASSUME HandlerInv, EngineInv, NEW n \in Requests, BackoffHolds(n) \/ Escalate(n) \/ MarkPending(n)
  PROVE  /\ UNCHANGED <<deskVars, jobs, retries, schedule, day, met>> /\ GoesOn(n)
         /\ \A m \in Requests \ {n} : request'[m] = request[m]
         /\ RowsKept /\ DOMAIN records' = DOMAIN records
         /\ \A r \in DOMAIN records \ {First(request[n].todo)} : records'[r] = records[r]
         /\ MarkPending(n) => Retrying(n, "marks pending") /\ records'[First(request[n].todo)].status = "PENDING"
         /\ BackoffHolds(n) \/ Escalate(n) =>
              /\ Retrying(n, "counts attempts")
              /\ records'[First(request[n].todo)].status = records[First(request[n].todo)].status
  <1>0. n \in Busy /\ request[n].op = "retry tick" /\ SameOp(n, "retry tick")
    BY TickIsBusy DEF TickSteps
  <1>1. UNCHANGED <<deskVars, jobs, retries, schedule, day>> /\ NextFailed(n)
    BY DEF BackoffHolds, Escalate, MarkPending, payrollVars
  <1>2. GoesOn(n) /\ met' = met /\ \A m \in Requests \ {n} : request'[m] = request[m]
    BY <1>0, <1>1, GoingToNext
  <1>3. Retrying(n, "counts attempts") \/ Retrying(n, "marks pending")
    BY <1>0 DEF BackoffHolds, Escalate, MarkPending, Is, Retrying
  <1> PICK r : r = First(request[n].todo)
    OBVIOUS
  <1>4. r \in DOMAIN records
    BY <1>3, FirstIsOne
  <1>5. records \in Seq(PayRow) /\ records[r] \in PayRow
    BY <1>4, ElementsOfSeq DEF EngineInv
  <1>6. CASE BackoffHolds(n)
    <2>1. UNCHANGED records /\ Retrying(n, "counts attempts") /\ request[n].at # "marks pending"
      BY <1>0, <1>6 DEF BackoffHolds, payrollVars, Is, Retrying
    <2>2. RowsKept /\ ~MarkPending(n)
      BY <1>5, <2>1, RowsStay DEF MarkPending, Is
    <2> QED BY <1>1, <1>2, <2>1, <2>2
  <1>7. CASE Escalate(n)
    <2> DEFINE row == [records[r] EXCEPT !.tries = 1]
    <2>1. row \in PayRow /\ row.job = records[r].job /\ row.user = records[r].user /\ row.status = records[r].status
      BY <1>5 DEF PayRow
    <2>2. records' = [records EXCEPT ![r] = row] /\ Retrying(n, "counts attempts") /\ request[n].at # "marks pending"
      BY <1>0, <1>7 DEF Escalate, Is, Retrying
    <2> HIDE DEF row
    <2>3. /\ RowsKept /\ DOMAIN records' = DOMAIN records
          /\ records'[r] = row /\ \A s \in DOMAIN records \ {r} : records'[s] = records[s]
      BY <1>4, <1>5, <2>1, <2>2, RowIsWritten
    <2>4. ~MarkPending(n)
      BY <2>2 DEF MarkPending, Is
    <2> QED BY <1>1, <1>2, <2>1, <2>2, <2>3, <2>4
  <1>8. CASE MarkPending(n)
    <2>0. Retrying(n, "marks pending") /\ request[n].at # "counts attempts"
      BY <1>0, <1>8 DEF MarkPending, Is, Retrying
    <2> PICK attempt \in Nat : attempt = request[n].attempt
      BY <2>0 DEF EngineInv, HasRows
    <2> DEFINE row == [[records[r] EXCEPT !.status = "PENDING"] EXCEPT !.tries = attempt]
    <2>1. row \in PayRow /\ row.job = records[r].job /\ row.user = records[r].user /\ row.status = "PENDING"
      BY <1>5 DEF PayRow, PayStatuses
    <2>2. records' = [records EXCEPT ![r] = row]
      BY <1>8 DEF MarkPending, MarkedPending
    <2> HIDE DEF row
    <2>3. /\ RowsKept /\ DOMAIN records' = DOMAIN records
          /\ records'[r] = row /\ \A s \in DOMAIN records \ {r} : records'[s] = records[s]
      BY <1>4, <1>5, <2>1, <2>2, RowIsWritten
    <2>4. ~BackoffHolds(n) /\ ~Escalate(n)
      BY <2>0 DEF BackoffHolds, Escalate, Is
    <2> QED BY <1>1, <1>2, <2>0, <2>1, <2>3, <2>4
  <1> QED BY <1>6, <1>7, <1>8

(***************************************************************************)
(* Every step of the platform.                                             *)
(***************************************************************************)
TicksKeep == EngineInv' /\ RowsKept /\ RetriesKept

LEMMA LongerJobs == ASSUME NEW s \in Seq(Job), NEW t \in Seq(Job), DOMAIN s \subseteq DOMAIN t
                    PROVE  Len(s) \in Nat /\ Len(t) \in Nat /\ Len(s) <= Len(t)
  <1>1. DOMAIN s = 1..Len(s) /\ DOMAIN t = 1..Len(t) /\ Len(s) \in Nat /\ Len(t) \in Nat
    BY ElementsOfSeq
  <1>2. CASE Len(s) = 0
    BY <1>1, <1>2
  <1>3. CASE Len(s) # 0
    <2>1. Len(s) \in DOMAIN s
      BY <1>1, <1>3
    <2>2. Len(s) \in 1..Len(t)
      BY <1>1, <2>1
    <2> QED BY <1>1, <2>2
  <1> QED BY <1>2, <1>3

LEMMA RowsOfJob ==
  ASSUME RunsShape, NEW j \in DOMAIN jobs
  PROVE  j \in Nat /\ j \in 0..Len(jobs) /\ Len(jobs) \in Nat /\ jobs[j] \in Job
  BY ElementsOfSeq DEF RunsShape

LEMMA NewRow ==
  ASSUME NEW j \in Nat, NEW e \in Users, NEW value \in {"COMPLETED", "FAILED"}
  PROVE  /\ Record(j, e, value) \in PayRow /\ Record(j, e, value).job = j
         /\ Record(j, e, value).user = e /\ Record(j, e, value).status = value
  BY DEF Record, PayRow, PayStatuses

(* One of those the job still has to pay. *)
LEMMA CurrentIsOne ==
  ASSUME RunsShape, EngineInv, NEW j \in DOMAIN jobs, jobs[j].at \in {"logs", "records failure"} \/ jobs[j].todo # {}
  PROVE  Current(j) \in jobs[j].todo /\ Current(j) \in Staff /\ Current(j) \in Users
  <1>1. jobs[j].todo # {} /\ jobs[j].todo \subseteq Staff
    BY RowsOfJob DEF EngineInv, Job
  <1>2. Current(j) \in jobs[j].todo
    BY <1>1 DEF Current
  <1> QED BY <1>1, <1>2, StaffAreUsers

LEMMA JobsKeepEngine ==
  ASSUME HandlerInv, RunsInv, EngineInv, NEW j \in DOMAIN jobs,
         JobSteps(j) \/ EmployeeFails(j) \/ FailureIsNotRecorded(j) \/ JobFails(j)
  PROVE  TicksKeep
  <1>0. RunsShape
    BY DEF RunsInv
  <1>1. JobsKept /\ UNCHANGED <<handlerVars, day>>
    BY <1>0, JobMoves
  <1>2. jobs' \in Seq(Job) /\ jobs \in Seq(Job) /\ DOMAIN jobs' = DOMAIN jobs
    BY <1>0, <1>1 DEF JobsKept, RunsShape
  <1>3. Len(jobs) \in Nat /\ Len(jobs') \in Nat /\ Len(jobs) <= Len(jobs')
    BY <1>2, LongerJobs
  <1>4. JobsInHand'
    <2>1. ASSUME NEW at, NEW todo, JobGoes(j, at, todo), at \in {"logs", "records failure"} => todo # {}
          PROVE  JobsInHand'
      BY <2>1 DEF JobsInHand, JobGoes, EngineInv
    <2>2. CASE JobStarts(j)
      <3>1. JobGoes(j, "pays", Staff)
        BY <1>0, <2>2, JobStepsGo
      <3> QED BY <2>1, <3>1
    <2>3. CASE Pays(j)
      <3>1. JobGoes(j, "logs", jobs[j].todo) /\ jobs[j].todo # {}
        BY <1>0, <2>3, JobStepsGo DEF Pays
      <3> QED BY <2>1, <3>1
    <2>4. CASE HasNoWallet(j) \/ EmployeeFails(j)
      <3>1. JobGoes(j, "records failure", jobs[j].todo)
        BY <1>0, <2>4, JobStepsGo
      <3>2. jobs[j].todo # {}
        BY <2>4 DEF HasNoWallet, EmployeeFails, EngineInv
      <3> QED BY <2>1, <3>1, <3>2
    <2>5. CASE Logs(j) \/ RecordsFailure(j) \/ FailureIsNotRecorded(j)
      <3>1. JobGoes(j, "pays", jobs[j].todo \ {Current(j)})
        BY <1>0, <2>5, JobStepsGo
      <3> QED BY <2>1, <3>1
    <2>6. CASE JobCompletes(j) \/ JobFails(j)
      <3>1. \E at \in {"completed", "delayed", "failed"} : JobGoes(j, at, jobs[j].todo)
        BY <1>0, <2>6, JobStepsGo
      <3> QED BY <2>1, <3>1
    <2> QED BY <2>2, <2>3, <2>4, <2>5, <2>6 DEF JobSteps
  <1>5. RetriesKept /\ UNCHANGED retries
    <2>1. UNCHANGED retries
      BY DEF JobSteps, JobStarts, Pays, HasNoWallet, Logs, RecordsFailure, JobCompletes, EmployeeFails, FailureIsNotRecorded, JobFails
    <2> QED BY <2>1, RetriesStay DEF EngineInv
  <1>6. RowsKept /\ \A r \in DOMAIN records' \ DOMAIN records : records'[r].job \in 0..Len(jobs')
    <2>1. CASE UNCHANGED records
      BY <2>1, RowsStay DEF EngineInv
    <2>2. CASE Pays(j) \/ RecordsFailure(j)
      <3>1. jobs[j].at \in {"logs", "records failure"} \/ jobs[j].todo # {}
        BY <2>2 DEF Pays, RecordsFailure
      <3>2. j \in Nat /\ j \in 0..Len(jobs) /\ Current(j) \in Users
        BY <1>0, <3>1, CurrentIsOne, RowsOfJob
      <3>3. PICK value \in {"COMPLETED", "FAILED"} : records' = Append(records, Record(j, Current(j), value))
        BY <2>2 DEF Pays, RecordsFailure
      <3> PICK row : row = Record(j, Current(j), value)
        OBVIOUS
      <3>4. row \in PayRow /\ row.job = j /\ records' = Append(records, row)
        BY <3>2, <3>3, NewRow
      <3>5. /\ RowsKept /\ DOMAIN records' = DOMAIN records \cup {Len(records) + 1}
            /\ records'[Len(records) + 1] = row
        BY <3>4, RowIsAdded DEF EngineInv
      <3>6. j \in 0..Len(jobs')
        BY <1>3, <3>2
      <3> QED BY <3>4, <3>5, <3>6
    <2>3. UNCHANGED records \/ Pays(j) \/ RecordsFailure(j)
      BY DEF JobSteps, JobStarts, HasNoWallet, Logs, JobCompletes, EmployeeFails, FailureIsNotRecorded, JobFails
    <2> QED BY <2>1, <2>2, <2>3
  <1>7. \A n \in Requests : request'[n] = request[n]
    BY <1>1 DEF handlerVars
  <1>8. \A k \in DOMAIN retries' \ DOMAIN retries : retries'[k].record \in DOMAIN records
    BY <1>5
  <1> QED BY <1>3, <1>4, <1>5, <1>6, <1>7, <1>8, EngineKept DEF TicksKeep

(* What a retry does to its row. *)
RetryGoes(k, from, to, value) ==
  /\ retries[k].at = from /\ retries'[k].at = to
  /\ records'[retries[k].record].status = value

LEMMA RetryWrites ==
  ASSUME EngineInv, NEW k \in DOMAIN retries, NEW from, NEW to \in RetryStates, NEW value \in PayStatuses, NEW tries \in Nat,
         retries[k].at = from, from # "completed", RetryTo(k, to),
         NEW row, row = [records[retries[k].record] EXCEPT !.status = value, !.tries = tries],
         records' = [records EXCEPT ![retries[k].record] = row]
  PROVE  /\ RowsKept /\ RetriesKept /\ DOMAIN records' = DOMAIN records /\ DOMAIN retries' = DOMAIN retries
         /\ \A i \in DOMAIN retries \ {k} : retries'[i] = retries[i]
         /\ \A s \in DOMAIN records \ {retries[k].record} : records'[s] = records[s]
         /\ RetryGoes(k, from, to, value)
  <1> PICK r : r = retries[k].record
    OBVIOUS
  <1>1. r \in DOMAIN records /\ records \in Seq(PayRow) /\ retries \in Seq(Retry)
    BY DEF EngineInv
  <1>2. records[r] \in PayRow
    BY <1>1, ElementsOfSeq
  <1>3. row \in PayRow /\ row.job = records[r].job /\ row.user = records[r].user /\ row.status = value
    BY <1>2 DEF PayRow
  <1>4. records' = [records EXCEPT ![r] = row]
    OBVIOUS
  <1>5. /\ RowsKept /\ DOMAIN records' = DOMAIN records
        /\ records'[r] = row /\ \A s \in DOMAIN records \ {r} : records'[s] = records[s]
    BY <1>1, <1>3, <1>4, RowIsWritten
  <1>6. /\ RetriesKept /\ DOMAIN retries' = DOMAIN retries
        /\ retries'[k].at = to /\ \A i \in DOMAIN retries \ {k} : retries'[i] = retries[i]
    BY <1>1, RetryIsMoved
  <1> QED BY <1>3, <1>5, <1>6 DEF RetryGoes

LEMMA RetryStepsGo ==
  ASSUME EngineInv, NEW k \in DOMAIN retries, RetrySteps(k) \/ RetryFails(k)
  PROVE  /\ RowsKept /\ RetriesKept /\ DOMAIN records' = DOMAIN records /\ DOMAIN retries' = DOMAIN retries
         /\ UNCHANGED <<handlerVars, jobs, schedule, day>> /\ retries[k].record \in DOMAIN records
         /\ \A i \in DOMAIN retries \ {k} : retries'[i] = retries[i]
         /\ \A s \in DOMAIN records \ {retries[k].record} : records'[s] = records[s]
         /\ RetryReads(k) => /\ UNCHANGED records
                             /\ retries[k].at = "waiting" /\ retries'[k].at \in {"failed", "resets"}
         /\ RetryResets(k) => RetryGoes(k, "resets", "credits", "PROCESSING")
         /\ RetryCredits(k) => RetryGoes(k, "credits", "completed", "COMPLETED")
         /\ RetryFails(k) => RetryGoes(k, "credits", "failed", "FAILED")
  <1> PICK r : r = retries[k].record
    OBVIOUS
  <1>1. r \in DOMAIN records /\ records \in Seq(PayRow) /\ retries \in Seq(Retry)
    BY DEF EngineInv
  <1>2. records[r] \in PayRow /\ records[r].tries \in Nat /\ records[r].status \in PayStatuses
    <2>1. records[r] \in PayRow
      BY <1>1, ElementsOfSeq
    <2> QED BY <2>1 DEF PayRow
  <1>3. UNCHANGED <<handlerVars, jobs, schedule, day>>
    BY DEF RetrySteps, RetryReads, RetryResets, RetryCredits, RetryFails
  <1>4. \A at \in {"resets", "credits", "completed", "failed"} : at \in RetryStates
    BY DEF RetryStates
  <1>5. CASE RetryReads(k)
    <2>1. PICK to \in {"failed", "resets"} : RetryTo(k, to)
      BY <1>5 DEF RetryReads
    <2>2. UNCHANGED records /\ retries[k].at = "waiting"
      BY <1>5 DEF RetryReads
    <2>3. to \in RetryStates
      BY <1>4
    <2>4. /\ RetriesKept /\ DOMAIN retries' = DOMAIN retries
          /\ retries'[k].at = to /\ \A i \in DOMAIN retries \ {k} : retries'[i] = retries[i]
      BY <1>1, <2>1, <2>2, <2>3, RetryIsMoved
    <2>5. RowsKept
      BY <1>1, <2>2, RowsStay
    <2>6. ~RetryResets(k) /\ ~RetryCredits(k) /\ ~RetryFails(k)
      BY <2>2 DEF RetryResets, RetryCredits, RetryFails
    <2> QED BY <1>1, <1>3, <2>2, <2>4, <2>5, <2>6
  <1>6. CASE RetryResets(k)
    <2> PICK row : row = [records[retries[k].record] EXCEPT !.status = "PROCESSING", !.tries = 1]
      OBVIOUS
    <2>1. /\ retries[k].at = "resets" /\ RetryTo(k, "credits")
          /\ records' = [records EXCEPT ![retries[k].record] = row]
      BY <1>6 DEF RetryResets
    <2>2. ~RetryReads(k) /\ ~RetryCredits(k) /\ ~RetryFails(k)
      BY <2>1 DEF RetryReads, RetryCredits, RetryFails
    <2>3. "PROCESSING" \in PayStatuses /\ 1 \in Nat /\ "credits" \in RetryStates
      BY DEF PayStatuses, RetryStates
    <2>4. /\ RowsKept /\ RetriesKept /\ DOMAIN records' = DOMAIN records /\ DOMAIN retries' = DOMAIN retries
          /\ \A i \in DOMAIN retries \ {k} : retries'[i] = retries[i]
          /\ \A s \in DOMAIN records \ {retries[k].record} : records'[s] = records[s]
          /\ RetryGoes(k, "resets", "credits", "PROCESSING")
      BY <2>1, <2>3, RetryWrites
    <2> QED BY <1>1, <1>3, <2>2, <2>4
  <1>7. CASE RetryCredits(k)
    <2> PICK tries \in Nat : tries = records[r].tries
      BY <1>2
    <2> PICK row : row = [records[retries[k].record] EXCEPT !.status = "COMPLETED", !.tries = tries]
      OBVIOUS
    <2>1. /\ retries[k].at = "credits" /\ RetryTo(k, "completed")
          /\ records' = [records EXCEPT ![r].status = "COMPLETED"]
      BY <1>7 DEF RetryCredits
    <2>2. row = [records[r] EXCEPT !.status = "COMPLETED"]
      BY <1>2 DEF PayRow
    <2>3. records' = [records EXCEPT ![retries[k].record] = row]
      BY <2>1, <2>2
    <2>4. ~RetryReads(k) /\ ~RetryResets(k)
      BY <2>1 DEF RetryReads, RetryResets
    <2>5. "COMPLETED" \in PayStatuses /\ "completed" \in RetryStates
      BY DEF PayStatuses, RetryStates
    <2>6. /\ RowsKept /\ RetriesKept /\ DOMAIN records' = DOMAIN records /\ DOMAIN retries' = DOMAIN retries
          /\ \A i \in DOMAIN retries \ {k} : retries'[i] = retries[i]
          /\ \A s \in DOMAIN records \ {retries[k].record} : records'[s] = records[s]
          /\ RetryGoes(k, "credits", "completed", "COMPLETED")
      <3>1. retries[k].at = "credits" /\ RetryTo(k, "completed")
        BY <2>1
      <3> QED BY <3>1, <2>3, <2>5, RetryWrites
    <2>7. ~RetryFails(k)
      <3> SUFFICES ASSUME RetryFails(k) PROVE FALSE
        OBVIOUS
      <3>1. RetryTo(k, "failed")
        BY DEF RetryFails
      <3>2. retries'[k].at = "failed"
        BY <1>1, <2>1, <3>1, RetryIsMoved DEF RetryStates
      <3> QED BY <2>6, <3>2 DEF RetryGoes
    <2> QED BY <1>1, <1>3, <2>4, <2>6, <2>7
  <1>8. CASE RetryFails(k)
    <2> PICK row : row = [records[retries[k].record] EXCEPT !.status = "FAILED", !.tries = 1]
      OBVIOUS
    <2>1. /\ retries[k].at = "credits" /\ RetryTo(k, "failed")
          /\ records' = [records EXCEPT ![retries[k].record] = row]
      BY <1>8 DEF RetryFails
    <2>2. ~RetryReads(k) /\ ~RetryResets(k)
      BY <2>1 DEF RetryReads, RetryResets
    <2>3. "FAILED" \in PayStatuses /\ 1 \in Nat /\ "failed" \in RetryStates
      BY DEF PayStatuses, RetryStates
    <2>4. /\ RowsKept /\ RetriesKept /\ DOMAIN records' = DOMAIN records /\ DOMAIN retries' = DOMAIN retries
          /\ \A i \in DOMAIN retries \ {k} : retries'[i] = retries[i]
          /\ \A s \in DOMAIN records \ {retries[k].record} : records'[s] = records[s]
          /\ RetryGoes(k, "credits", "failed", "FAILED")
      BY <2>1, <2>3, RetryWrites
    <2>5. ~RetryCredits(k)
      <3> SUFFICES ASSUME RetryCredits(k) PROVE FALSE
        OBVIOUS
      <3>1. RetryTo(k, "completed")
        BY DEF RetryCredits
      <3>2. retries'[k].at = "completed"
        BY <1>1, <2>1, <3>1, RetryIsMoved DEF RetryStates
      <3> QED BY <2>4, <3>2 DEF RetryGoes
    <2> QED BY <1>1, <1>3, <2>2, <2>4, <2>5
  <1> QED BY <1>5, <1>6, <1>7, <1>8 DEF RetrySteps

LEMMA RetriesKeepEngine ==
  ASSUME RunsInv, EngineInv, NEW k \in DOMAIN retries, RetrySteps(k) \/ RetryFails(k)
  PROVE  TicksKeep
  <1>1. /\ RowsKept /\ RetriesKept /\ DOMAIN records' = DOMAIN records /\ DOMAIN retries' = DOMAIN retries
        /\ UNCHANGED <<handlerVars, jobs>>
    BY RetryStepsGo
  <1>2. Len(jobs) \in Nat
    BY ElementsOfSeq DEF RunsInv, RunsShape
  <1>3. Len(jobs') \in Nat /\ Len(jobs) <= Len(jobs')
    BY <1>1, <1>2
  <1>4. JobsInHand'
    BY <1>1 DEF EngineInv, JobsInHand
  <1>5. \A n \in Requests : request'[n] = request[n]
    BY <1>1 DEF handlerVars
  <1> QED BY <1>1, <1>2, <1>3, <1>4, <1>5, EngineKept DEF TicksKeep

LEMMA RowsOfTick ==
  ASSUME EngineInv, NEW n \in Requests, TickSteps(n), HandlerInv
  PROVE  HasRows(n)'
  <1>1. CASE ListFailed(n)
    <2>1. /\ UNCHANGED records
          /\ \/ request'[n].at = "done"
             \/ FailedRows # {} /\ Retrying(n, "counts attempts")' /\ "todo" \in DOMAIN request'[n] /\ request'[n].todo = FailedRows
      BY <1>1, ListingGoes DEF payrollVars
    <2>2. FailedRows \subseteq DOMAIN records
      BY DEF FailedRows
    <2> HIDE DEF FailedRows
    <2> QED BY <2>1, <2>2 DEF HasRows, Retrying
  <1>2. CASE QueueRetry(n)
    <2>1. /\ UNCHANGED records /\ Retrying(n, "counts attempts")
          /\ "todo" \in DOMAIN request'[n] /\ request'[n].todo = request[n].todo
          /\ "attempt" \in DOMAIN request'[n] /\ request'[n].attempt \in Nat
      BY <1>2, QueueingGoes
    <2>2. HasRows(n)
      BY DEF EngineInv
    <2> QED BY <2>1, <2>2 DEF HasRows
  <1>3. CASE BackoffHolds(n) \/ Escalate(n) \/ MarkPending(n)
    <2>1. GoesOn(n) /\ DOMAIN records' = DOMAIN records /\ (Retrying(n, "counts attempts") \/ Retrying(n, "marks pending"))
      BY <1>3, RowDone
    <2>2. Rest(n) \subseteq DOMAIN records
      BY <2>1 DEF Rest, EngineInv, HasRows
    <2> QED BY <2>1, <2>2 DEF GoesOn, HasRows, Retrying
  <1> QED BY <1>1, <1>2, <1>3 DEF TickSteps

LEMMA TicksKeepEngine ==
  ASSUME HandlerInv, RunsInv, EngineInv, NEW n \in Requests, TickSteps(n)
  PROVE  TicksKeep
  <1>1. HasRows(n)' /\ UNCHANGED jobs /\ \A m \in Requests \ {n} : request'[m] = request[m]
    <2>1. HasRows(n)'
      BY RowsOfTick
    <2>2. UNCHANGED jobs /\ \A m \in Requests \ {n} : request'[m] = request[m]
      BY ListingGoes, QueueingGoes, RowDone DEF TickSteps, payrollVars
    <2> QED BY <2>1, <2>2
  <1>2. RowsKept /\ DOMAIN records' = DOMAIN records
    <2>1. CASE ListFailed(n) \/ QueueRetry(n)
      <3>1. UNCHANGED records
        BY <2>1, ListingGoes, QueueingGoes DEF payrollVars
      <3> QED BY <3>1, RowsStay DEF EngineInv
    <2>2. CASE BackoffHolds(n) \/ Escalate(n) \/ MarkPending(n)
      BY <2>2, RowDone
    <2> QED BY <2>1, <2>2 DEF TickSteps
  <1>3. RetriesKept /\ \A k \in DOMAIN retries' \ DOMAIN retries : retries'[k].record \in DOMAIN records
    <2>1. CASE QueueRetry(n)
      <3> PICK r : r = First(request[n].todo)
        OBVIOUS
      <3>1. Retrying(n, "counts attempts") /\ retries' = Append(retries, [record |-> r, by |-> n, at |-> "waiting"])
        BY <2>1, QueueingGoes
      <3>2. r \in DOMAIN records /\ r \in Nat
        BY <3>1, FirstIsOne, ElementsOfSeq DEF EngineInv
      <3> PICK new : new = [record |-> r, by |-> n, at |-> "waiting"]
        OBVIOUS
      <3>3. new \in Retry /\ new.record = r
        BY <3>2 DEF Retry, RetryStates
      <3>4. /\ RetriesKept /\ DOMAIN retries' = DOMAIN retries \cup {Len(retries) + 1}
            /\ retries'[Len(retries) + 1] = new
        BY <3>1, <3>3, RetryIsAdded DEF EngineInv
      <3> QED BY <3>2, <3>3, <3>4
    <2>2. CASE ListFailed(n) \/ BackoffHolds(n) \/ Escalate(n) \/ MarkPending(n)
      <3>1. UNCHANGED retries
        BY <2>2, ListingGoes, RowDone DEF payrollVars
      <3> QED BY <3>1, RetriesStay DEF EngineInv
    <2> QED BY <2>1, <2>2 DEF TickSteps
  <1>4. Len(jobs) \in Nat
    BY ElementsOfSeq DEF RunsInv, RunsShape
  <1>5. Len(jobs') \in Nat /\ Len(jobs) <= Len(jobs')
    BY <1>1, <1>4
  <1>6. JobsInHand'
    BY <1>1 DEF EngineInv, JobsInHand
  <1> QED BY <1>1, <1>2, <1>3, <1>5, <1>6, EngineKept, <1>4 DEF TicksKeep

LEMMA JobStands ==
  ASSUME NEW n, NEW plan, NEW job,
         job = [from |-> n, day |-> day, late |-> IsLateBiweekly(plan), scheduled |-> Is(n, "tick", "queues"),
                at |-> "waiting", attempts |-> 0, todo |-> {}]
  PROVE  job.at = "waiting" /\ job.from = n
  OBVIOUS

(* A new job waits. *)
LEMMA QueuedWaits ==
  ASSUME RunsShape, NEW n \in Requests, NEW plan, jobs' = Queued(n, plan)
  PROVE  /\ jobs' \in Seq(Job) /\ DOMAIN jobs' = DOMAIN jobs \cup {Len(jobs) + 1} /\ Len(jobs) + 1 \notin DOMAIN jobs
         /\ jobs'[Len(jobs) + 1].at = "waiting" /\ \A i \in DOMAIN jobs : jobs'[i] = jobs[i]
  <1>1. Is(n, "tick", "queues") \in BOOLEAN /\ day \in Nat
    BY DEF Is, RunsShape
  <1> PICK job : job = [from |-> n, day |-> day, late |-> IsLateBiweekly(plan), scheduled |-> Is(n, "tick", "queues"),
                        at |-> "waiting", attempts |-> 0, todo |-> {}]
    OBVIOUS
  <1>2. job \in Job /\ job.at = "waiting"
    BY <1>1, NewJob, JobStands
  <1>3. jobs' = Append(jobs, job)
    BY DEF Queued
  <1> QED BY <1>2, <1>3, JobIsAdded

LEMMA QueueKeepsEngine ==
  ASSUME HandlerInv, RunsInv, EngineInv, NEW n \in Requests, QueuePosted(n) \/ QueueDue(n)
  PROVE  TicksKeep
  <1>0. RunsShape /\ UNCHANGED <<records, retries>>
    BY DEF RunsInv, QueuePosted, QueueDue
  <1>1. n \in Busy /\ request[n].op \in {"post", "tick"}
    BY IsBusy DEF QueuePosted, QueueDue, Ended
  <1>2. \E plan : jobs' = Queued(n, plan)
    BY DEF QueuePosted, QueueDue
  <1>3. /\ jobs' \in Seq(Job) /\ DOMAIN jobs' = DOMAIN jobs \cup {Len(jobs) + 1}
        /\ jobs'[Len(jobs) + 1].at = "waiting" /\ \A i \in DOMAIN jobs : jobs'[i] = jobs[i]
    BY <1>0, <1>2, QueuedWaits
  <1>4. Len(jobs) \in Nat /\ Len(jobs') \in Nat /\ Len(jobs) <= Len(jobs')
    BY <1>0, <1>3, LongerJobs DEF RunsShape
  <1>5. JobsInHand'
    BY <1>3 DEF EngineInv, JobsInHand
  <1>6. \A m \in Requests : request'[m] = request[m] \/ HasRows(m)'
    <2>1. PICK at \in {"done", "moves next run"} : GoesTo(n, at)
      BY DEF QueuePosted, QueueDue
    <2>2. request'[n].at = at /\ \A m \in Requests \ {n} : request'[m] = request[m]
      BY <1>1, <2>1, GoingOn
    <2> QED BY <2>2 DEF HasRows, Retrying
  <1>7. RowsKept /\ RetriesKept
    BY <1>0, RowsStay, RetriesStay DEF EngineInv
  <1> QED BY <1>0, <1>4, <1>5, <1>6, <1>7, EngineKept DEF TicksKeep

LEMMA CrashKeepsEngine == ASSUME HandlerInv, RunsInv, EngineInv, Crash PROVE TicksKeep
  <1>0. RunsShape /\ UNCHANGED records
    BY DEF RunsInv, Crash
  <1>1. JobsKept
    BY <1>0, CrashKeepsJobs
  <1>2. Len(jobs) \in Nat /\ Len(jobs') \in Nat /\ Len(jobs) <= Len(jobs')
    BY <1>0, <1>1, LongerJobs DEF RunsShape, JobsKept
  <1>3. JobsInHand'
    <2>1. \A j \in DOMAIN jobs : jobs[j] \in Job
      BY <1>0, RowsOfJob
    <2>2. \A j \in DOMAIN jobs : jobs'[j].at \notin {"logs", "records failure"}
      BY <2>1 DEF Crash, Job
    <2> QED BY <1>1, <2>2 DEF JobsInHand, JobsKept
  <1>4. RetriesKept /\ DOMAIN retries' = DOMAIN retries
    <2> DEFINE next(k) == IF retries[k].at \in {"completed", "failed"} THEN retries[k] ELSE [retries[k] EXCEPT !.at = "lost"]
    <2>1. retries' = [k \in DOMAIN retries |-> next(k)] /\ retries \in Seq(Retry)
      BY DEF Crash, EngineInv
    <2>2. \A k \in DOMAIN retries : /\ next(k) \in Retry /\ next(k).record = retries[k].record
                                    /\ retries[k].at = "completed" => next(k).at = "completed"
      <3> TAKE k \in DOMAIN retries
      <3>1. retries[k] \in Retry
        BY <2>1, ElementsOfSeq
      <3> QED BY <3>1 DEF Retry, RetryStates
    <2> HIDE DEF next
    <2>3. retries' = [k \in DOMAIN retries |-> retries'[k]] /\ \A k \in DOMAIN retries : retries'[k] \in Retry
      BY <2>1, <2>2
    <2>4. retries' \in Seq(Retry)
      BY <2>1, <2>3, SameLength
    <2> QED BY <2>1, <2>2, <2>4 DEF RetriesKept
  <1>5. RowsKept
    BY <1>0, RowsStay DEF EngineInv
  <1>6. TicksRest
    BY CrashRequests, KillingRestsTicks
  <1> QED BY <1>0, <1>2, <1>3, <1>4, <1>5, <1>6, EngineKept DEF TicksKeep, TicksRest

OtherOps == {{"login"}, {"kyc", "rescreen"}, {"advance"}, {"clear"}, {"upload"}, RouteOps, SessionOps}

LEMMA TicksAreOfPayroll == \A ops \in OtherOps : "retry tick" \notin ops
  <1>1. "retry tick" \notin RouteOps /\ "retry tick" \notin SessionOps
    BY DEF SessionOps, RouteOps
  <1>2. /\ "retry tick" \notin {"login"} /\ "retry tick" \notin {"kyc", "rescreen"}
        /\ "retry tick" \notin {"advance"} /\ "retry tick" \notin {"clear"} /\ "retry tick" \notin {"upload"}
    OBVIOUS
  <1> QED BY <1>1, <1>2 DEF OtherOps

PayrollStarts == {"finds due", "queues", "lists failed", "done"}

LEMMA PayrollAsks ==
  ASSUME Tick \/ PostRun \/ RetryTick \/ PatchPlan \/ PatchActive
  PROVE  \E r : /\ Arrives(r) /\ r.at \in PayrollStarts /\ IsRequest(r) /\ r # NotYet
               /\ UNCHANGED <<jobs, records, retries, entries>>
  <1>1. PICK op, at : Arrives([op |-> op, at |-> at]) /\ at \in PayrollStarts
    BY DEF Tick, PostRun, RetryTick, PatchPlan, PatchActive, PayrollStarts
  <1>2. UNCHANGED <<jobs, records, retries, entries>>
    BY DEF Tick, PostRun, RetryTick, PatchPlan, PatchActive, payrollVars, deskVars
  <1>3. PICK r : r = [op |-> op, at |-> at]
    OBVIOUS
  <1>4. r.at = at /\ Arrives(r) /\ IsRequest(r) /\ r # NotYet
    BY <1>1, <1>3 DEF IsRequest, NotYet, PayrollStarts
  <1> QED BY <1>1, <1>2, <1>4

LEMMA TickLooks ==
  ASSUME HandlerInv, NEW n \in Requests, FindDue(n) \/ MoveNextRun(n)
  PROVE  /\ n \in Busy /\ request[n].op = "tick" /\ UNCHANGED <<jobs, records, retries, entries>>
         /\ request'[n].op = "tick" /\ request'[n].at \in {"done", "queues"}
         /\ \A m \in Requests \ {n} : request'[m] = request[m]
  <1>1. n \in Busy /\ request[n].op = "tick"
    BY IsBusy DEF FindDue, MoveNextRun, Ended
  <1>2. UNCHANGED <<jobs, records, retries, entries>>
    BY DEF FindDue, MoveNextRun, payrollVars, deskVars
  <1>3. CASE GoesTo(n, "done")
    BY <1>1, <1>2, <1>3, GoingOn
  <1>4. CASE Becomes(n, [op |-> "tick", at |-> "queues", plan |-> schedule.plan])
    <2>1. PICK r, plan : r = [op |-> "tick", at |-> "queues", plan |-> plan] /\ plan = schedule.plan
      OBVIOUS
    <2>2. r.op = "tick" /\ r.at = "queues"
      BY <2>1
    <2>3. request'[n] = r /\ \A m \in Requests \ {n} : request'[m] = request[m]
      BY <1>1, <1>4, <2>1 DEF Becomes, HandlerInv, RequestShape, Busy
    <2> QED BY <1>1, <1>2, <2>2, <2>3
  <1> QED BY <1>3, <1>4 DEF FindDue, MoveNextRun

LEMMA EngineGoesOn == ASSUME HandlerInv, RunsInv, EngineInv, [Next]_vars PROVE TicksKeep
  <1>0. jobs \in Seq(Job)
    BY DEF RunsInv, RunsShape
  <1>1. ASSUME UNCHANGED payrollVars, TicksRest PROVE TicksKeep
    BY <1>0, <1>1, EngineRests DEF payrollVars, TicksKeep
  <1>2. ASSUME NEW ops, HandlerStep(ops), "retry tick" \notin ops, UNCHANGED payrollVars PROVE TicksKeep
    BY <1>1, <1>2, OthersRestTicks
  <1>3. CASE PayrollNext
    <2>1. ASSUME NEW n \in Requests, RequestSteps(n) PROVE TicksKeep
      <3>1. CASE TickSteps(n)
        BY <3>1, TicksKeepEngine
      <3>2. CASE QueuePosted(n) \/ QueueDue(n)
        BY <3>2, QueueKeepsEngine
      <3>3. CASE FindDue(n) \/ MoveNextRun(n)
        <4>1. TicksRest
          BY <3>3, TickLooks DEF TicksRest, HasRows, Retrying, SameOp
        <4> QED BY <1>0, <3>3, <4>1, TickLooks, EngineRests DEF TicksKeep
      <3> QED BY <2>1, <3>1, <3>2, <3>3 DEF RequestSteps, TickSteps
    <2>2. ASSUME NEW r, Arrives(r), r.at \in PayrollStarts, IsRequest(r), r # NotYet,
                 UNCHANGED <<jobs, records, retries>>
          PROVE  TicksKeep
      <3>1. PICK n \in Requests : request' = [request EXCEPT ![n] = r]
        BY <2>2 DEF Arrives
      <3>2. request'[n] = r /\ \A m \in Requests \ {n} : request'[m] = request[m]
        BY <3>1 DEF HandlerInv, RequestShape
      <3>3. TicksRest
        BY <2>2, <3>2 DEF TicksRest, HasRows, Retrying, PayrollStarts
      <3> QED BY <1>0, <2>2, <3>3, EngineRests DEF TicksKeep
    <2>3. CASE Tick \/ PostRun \/ RetryTick \/ PatchPlan \/ PatchActive
      BY <2>2, <2>3, PayrollAsks
    <2>7. CASE DayPasses
      <3>1. UNCHANGED <<jobs, records, retries>> /\ TicksRest
        BY <2>7 DEF DayPasses, handlerVars, TicksRest
      <3> QED BY <1>0, <3>1, EngineRests DEF TicksKeep
    <2>8. ASSUME NEW j \in DOMAIN jobs, JobSteps(j) PROVE TicksKeep
      BY <2>8, JobsKeepEngine
    <2>9. ASSUME NEW k \in DOMAIN retries, RetrySteps(k) PROVE TicksKeep
      BY <2>9, RetriesKeepEngine
    <2> QED BY <1>3, <2>1, <2>3, <2>7, <2>8, <2>9 DEF PayrollNext
  <1>4. CASE Fault
    <2>1. TicksRest
      BY <1>4, FaultRequests, KillingRestsTicks
    <2>2. CASE UNCHANGED payrollVars
      BY <1>1, <2>1, <2>2
    <2>3. CASE Crash
      BY <2>3, CrashKeepsEngine
    <2>4. ASSUME NEW j \in DOMAIN jobs, EmployeeFails(j) \/ FailureIsNotRecorded(j) \/ JobFails(j) PROVE TicksKeep
      BY <2>4, JobsKeepEngine
    <2>5. ASSUME NEW k \in DOMAIN retries, RetryFails(k) PROVE TicksKeep
      BY <2>5, RetriesKeepEngine
    <2>6. \/ UNCHANGED payrollVars \/ Crash
          \/ \E j \in DOMAIN jobs : EmployeeFails(j) \/ FailureIsNotRecorded(j) \/ JobFails(j)
          \/ \E k \in DOMAIN retries : RetryFails(k)
      BY <1>4 DEF Fault, Dies, CohortFrame, SessionFrame, deskPlaneVars
    <2> QED BY <2>2, <2>3, <2>4, <2>5, <2>6
  <1>5. CASE LoginNext \/ ScreeningNext \/ AdvanceNext \/ CohortNext \/ UploadNext \/ RouteNext \/ SessionNext
    <2>1. UNCHANGED payrollVars
      BY <1>5 DEF LoginNext, ScreeningNext, AdvanceNext, CohortNext, UploadNext, RouteNext, SessionNext, PersonFrame,
                  CohortFrame, UploadFrame, RouteFrame, SessionFrame, deskPlaneVars
    <2>2. PICK ops : HandlerStep(ops) /\ "retry tick" \notin ops
      <3>1. \A ops \in OtherOps : "retry tick" \notin ops
        BY TicksAreOfPayroll
      <3>2. PICK ops \in OtherOps : HandlerStep(ops)
        BY <1>5, LoginRequests, ScreeningRequests, AdvanceRequests, CohortRequests, UploadRequests, RouteRequests,
           SessionRequests DEF OtherOps
      <3> QED BY <3>1, <3>2
    <2> QED BY <1>2, <2>1, <2>2
  <1>6. CASE CodesNext \/ UNCHANGED vars
    <2>1. UNCHANGED <<handlerVars, payrollVars>>
      BY <1>6 DEF CodesNext, CodeExpires, PersonFrame, vars, deskPlaneVars
    <2>2. TicksRest
      BY <2>1 DEF handlerVars, TicksRest
    <2> QED BY <1>1, <2>1, <2>2
  <1> QED BY <1>3, <1>4, <1>5, <1>6 DEF Next

(***************************************************************************)
(* A run pays an employee once.  What may still pay them is counted with   *)
(* what has: the loop of the run's job, a failed row nobody has queued a   *)
(* retry of, and a retry on its way.                                       *)
(***************************************************************************)
DueAt(at, todo, e) ==
  /\ e \in Staff
  /\ \/ at \in {"waiting", "delayed"}
     \/ at \in {"pays", "records failure"} /\ e \in todo
     \/ at = "logs" /\ e \in todo \ {CHOOSE f \in todo : TRUE}
LoopDue(j, e) == j \in DOMAIN jobs /\ DueAt(jobs[j].at, jobs[j].todo, e)

(* The retry ticks that hold a row, and one that has queued its retry and  *)
(* has yet to mark it.                                                     *)
Holds(n, r) ==
  \/ Retrying(n, "counts attempts") /\ r \in request[n].todo
  \/ Retrying(n, "marks pending") /\ r \in Rest(n)
Masks(n, r) == Retrying(n, "marks pending") /\ r = First(request[n].todo)
Held(r) == \E n \in Requests : Holds(n, r)
Masked(r) == \E n \in Requests : Masks(n, r)

OfRun(r, j, e) == records[r].job = j /\ records[r].user = e
RowDue(r, j, e) ==
  r \in DOMAIN records /\ OfRun(r, j, e) /\ (Held(r) \/ (records[r].status = "FAILED" /\ ~Masked(r)))
OnItsWay == {"waiting", "resets", "credits"}
RetryDue(k, j, e) ==
  k \in DOMAIN retries /\ retries[k].at \in OnItsWay /\ OfRun(retries[k].record, j, e)

Due(kind, i, j, e) ==
  \/ kind = "loop" /\ i = 0 /\ LoopDue(j, e)
  \/ kind = "row" /\ RowDue(i, j, e)
  \/ kind = "retry" /\ RetryDue(i, j, e)
Claims(j, e) == {t \in {"loop", "row", "retry"} \X Nat : Due(t[1], t[2], j, e)}

Counted(j, e) ==
  /\ IsFiniteSet(SalariesOf(j, e)) /\ IsFiniteSet(Claims(j, e))
  /\ Cardinality(SalariesOf(j, e)) + Cardinality(Claims(j, e)) <= 1 + faults

SalariesAreOfRows == \A row \in entries : row.type = "SALARY_CREDIT" => row.ref[2] \in DOMAIN records

AllCounted == \A j \in 0..Len(jobs), e \in Staff : Counted(j, e)
PaidInv == TicksOverlap("retry tick") \/ (SalariesAreOfRows /\ AllCounted)

(* No step makes a payment, or something that may become one, from nothing. *)
Rests(j, e) == SalariesOf(j, e)' \subseteq SalariesOf(j, e) /\ Claims(j, e)' \subseteq Claims(j, e)
IsMoved(j, e) ==
  /\ SalariesOf(j, e)' \subseteq SalariesOf(j, e)
  /\ \E x \in Claims(j, e) : \E y : Claims(j, e)' \subseteq (Claims(j, e) \ {x}) \cup {y}
IsPaid(j, e) ==
  \E x \in Claims(j, e) : \E row : /\ SalariesOf(j, e)' \subseteq SalariesOf(j, e) \cup {row}
                                   /\ Claims(j, e)' \subseteq Claims(j, e) \ {x}
IsDueAgain(j, e) ==
  /\ faults' = faults + 1
  /\ SalariesOf(j, e)' \subseteq SalariesOf(j, e)
  /\ \E y : Claims(j, e)' \subseteq Claims(j, e) \cup {y}
Passes(j, e) == (faults' = faults /\ (Rests(j, e) \/ IsMoved(j, e) \/ IsPaid(j, e))) \/ IsDueAgain(j, e)

LEMMA StaysCounted ==
  ASSUME NEW j, NEW e, Counted(j, e), faults \in Nat, Passes(j, e)
  PROVE  Counted(j, e)'
  <1> PICK A, A2 : A = SalariesOf(j, e) /\ A2 = SalariesOf(j, e)'
    OBVIOUS
  <1> PICK B, B2 : B = Claims(j, e) /\ B2 = Claims(j, e)'
    OBVIOUS
  <1>1. IsFiniteSet(A) /\ IsFiniteSet(B) /\ Cardinality(A) + Cardinality(B) <= 1 + faults
    BY DEF Counted
  <1>2. Cardinality(A) \in Nat /\ Cardinality(B) \in Nat
    BY <1>1, FS_CardinalityType
  <1> SUFFICES IsFiniteSet(A2) /\ IsFiniteSet(B2) /\ Cardinality(A2) + Cardinality(B2) <= 1 + faults'
    BY DEF Counted
  <1>3. CASE faults' = faults /\ Rests(j, e)
    <2>1. A2 \subseteq A /\ B2 \subseteq B
      BY <1>3 DEF Rests
    <2>2. IsFiniteSet(A2) /\ Cardinality(A2) \in Nat /\ Cardinality(A2) <= Cardinality(A)
      BY <1>1, <2>1, SubsetCounts
    <2>3. IsFiniteSet(B2) /\ Cardinality(B2) \in Nat /\ Cardinality(B2) <= Cardinality(B)
      BY <1>1, <2>1, SubsetCounts
    <2> QED BY <1>1, <1>2, <1>3, <2>2, <2>3
  <1>4. CASE faults' = faults /\ IsMoved(j, e)
    <2>0. PICK x \in B : \E y : A2 \subseteq A /\ B2 \subseteq (B \ {x}) \cup {y}
      BY <1>4 DEF IsMoved
    <2>1. PICK y : A2 \subseteq A /\ B2 \subseteq (B \ {x}) \cup {y}
      BY <2>0
    <2>2. IsFiniteSet(A2) /\ Cardinality(A2) \in Nat /\ Cardinality(A2) <= Cardinality(A)
      BY <1>1, <2>1, SubsetCounts
    <2>3. IsFiniteSet(B \ {x}) /\ Cardinality(B \ {x}) \in Nat /\ Cardinality(B) = Cardinality(B \ {x}) + 1
      BY <1>1, OneLessCounts
    <2>4. IsFiniteSet(B2) /\ Cardinality(B2) \in Nat /\ Cardinality(B2) <= Cardinality(B \ {x}) + 1
      BY <2>1, <2>3, OneMoreCounts
    <2> QED BY <1>1, <1>2, <1>4, <2>2, <2>3, <2>4
  <1>5. CASE faults' = faults /\ IsPaid(j, e)
    <2>0. PICK x \in B : \E row : A2 \subseteq A \cup {row} /\ B2 \subseteq B \ {x}
      BY <1>5 DEF IsPaid
    <2>1. PICK row : A2 \subseteq A \cup {row} /\ B2 \subseteq B \ {x}
      BY <2>0
    <2>2. IsFiniteSet(A2) /\ Cardinality(A2) \in Nat /\ Cardinality(A2) <= Cardinality(A) + 1
      BY <1>1, <2>1, OneMoreCounts
    <2>3. IsFiniteSet(B \ {x}) /\ Cardinality(B \ {x}) \in Nat /\ Cardinality(B) = Cardinality(B \ {x}) + 1
      BY <1>1, OneLessCounts
    <2>4. IsFiniteSet(B2) /\ Cardinality(B2) \in Nat /\ Cardinality(B2) <= Cardinality(B \ {x})
      BY <2>1, <2>3, SubsetCounts
    <2> QED BY <1>1, <1>2, <1>5, <2>2, <2>3, <2>4
  <1>6. CASE IsDueAgain(j, e)
    <2>1. PICK y : A2 \subseteq A /\ B2 \subseteq B \cup {y} /\ faults' = faults + 1
      BY <1>6 DEF IsDueAgain
    <2>2. IsFiniteSet(A2) /\ Cardinality(A2) \in Nat /\ Cardinality(A2) <= Cardinality(A)
      BY <1>1, <2>1, SubsetCounts
    <2>3. IsFiniteSet(B2) /\ Cardinality(B2) \in Nat /\ Cardinality(B2) <= Cardinality(B) + 1
      BY <1>1, <2>1, OneMoreCounts
    <2> QED BY <1>1, <1>2, <2>1, <2>2, <2>3
  <1> QED BY <1>3, <1>4, <1>5, <1>6 DEF Passes

(***************************************************************************)
(* What happens to what is due, one kind at a time.                        *)
(***************************************************************************)
ClaimsMove(j, e, gone, more) ==
  /\ LoopDue(j, e)' => (LoopDue(j, e) /\ <<"loop", 0>> \notin gone) \/ <<"loop", 0>> \in more
  /\ \A r \in Nat : RowDue(r, j, e)' => (RowDue(r, j, e) /\ <<"row", r>> \notin gone) \/ <<"row", r>> \in more
  /\ \A k \in Nat : RetryDue(k, j, e)' => (RetryDue(k, j, e) /\ <<"retry", k>> \notin gone) \/ <<"retry", k>> \in more

LEMMA ClaimIs ==
  ASSUME NEW j, NEW e
  PROVE  /\ LoopDue(j, e) => <<"loop", 0>> \in Claims(j, e)
         /\ \A r \in Nat : RowDue(r, j, e) => <<"row", r>> \in Claims(j, e)
         /\ \A k \in Nat : RetryDue(k, j, e) => <<"retry", k>> \in Claims(j, e)
  BY DEF Claims, Due

LEMMA ClaimsAreIn ==
  ASSUME NEW j, NEW e, NEW T,
         LoopDue(j, e)' => <<"loop", 0>> \in T,
         \A r \in Nat : RowDue(r, j, e)' => <<"row", r>> \in T,
         \A k \in Nat : RetryDue(k, j, e)' => <<"retry", k>> \in T
  PROVE  Claims(j, e)' \subseteq T
  <1> SUFFICES ASSUME NEW t \in Claims(j, e)' PROVE t \in T
    OBVIOUS
  <1> PICK kind \in {"loop", "row", "retry"}, i \in Nat : t = <<kind, i>> /\ Due(kind, i, j, e)'
    BY DEF Claims
  <1> QED BY DEF Due

LEMMA MovedClaims ==
  ASSUME NEW j, NEW e, NEW gone, NEW more, ClaimsMove(j, e, gone, more)
  PROVE  Claims(j, e)' \subseteq (Claims(j, e) \ gone) \cup more
  <1> PICK T : T = (Claims(j, e) \ gone) \cup more
    OBVIOUS
  <1>1. LoopDue(j, e)' => <<"loop", 0>> \in T
    BY ClaimIs DEF ClaimsMove
  <1>2. \A r \in Nat : RowDue(r, j, e)' => <<"row", r>> \in T
    BY ClaimIs DEF ClaimsMove
  <1>3. \A k \in Nat : RetryDue(k, j, e)' => <<"retry", k>> \in T
    BY ClaimIs DEF ClaimsMove
  <1>4. Claims(j, e)' \subseteq T
    BY <1>1, <1>2, <1>3, ClaimsAreIn
  <1> QED BY <1>4

(* The four ways a step passes. *)
LEMMA ClaimsPass ==
  ASSUME NEW j, NEW e, SalariesOf(j, e)' \subseteq SalariesOf(j, e)
  PROVE  /\ faults' = faults /\ ClaimsMove(j, e, {}, {}) => Passes(j, e)
         /\ \A x \in Claims(j, e) : \A y : faults' = faults /\ ClaimsMove(j, e, {x}, {y}) => Passes(j, e)
         /\ \A y : faults' = faults + 1 /\ ClaimsMove(j, e, {}, {y}) => Passes(j, e)
         /\ faults' = faults + 1 /\ ClaimsMove(j, e, {}, {}) => Passes(j, e)
  <1>1. ASSUME faults' = faults, ClaimsMove(j, e, {}, {}) PROVE Passes(j, e)
    <2>1. Claims(j, e)' \subseteq Claims(j, e)
      BY <1>1, MovedClaims
    <2> QED BY <1>1, <2>1 DEF Passes, Rests
  <1>2. ASSUME NEW x \in Claims(j, e), NEW y, faults' = faults, ClaimsMove(j, e, {x}, {y}) PROVE Passes(j, e)
    <2>1. Claims(j, e)' \subseteq (Claims(j, e) \ {x}) \cup {y}
      BY <1>2, MovedClaims
    <2> QED BY <1>2, <2>1 DEF Passes, IsMoved
  <1>3. ASSUME NEW y, faults' = faults + 1, ClaimsMove(j, e, {}, {y}) PROVE Passes(j, e)
    <2>1. Claims(j, e)' \subseteq (Claims(j, e) \ {}) \cup {y}
      BY <1>3, MovedClaims
    <2>2. Claims(j, e)' \subseteq Claims(j, e) \cup {y}
      BY <2>1
    <2> QED BY <1>3, <2>2 DEF Passes, IsDueAgain
  <1>4. ASSUME faults' = faults + 1, ClaimsMove(j, e, {}, {}) PROVE Passes(j, e)
    <2>1. Claims(j, e)' \subseteq Claims(j, e)
      BY <1>4, MovedClaims
    <2> PICK y : y = <<"loop", 0>>
      OBVIOUS
    <2>2. Claims(j, e)' \subseteq Claims(j, e) \cup {y}
      BY <2>1
    <2> QED BY <1>4, <2>2 DEF Passes, IsDueAgain
  <1> QED BY <1>1, <1>2, <1>3, <1>4

LEMMA PaymentPasses ==
  ASSUME NEW j, NEW e, NEW row, NEW x \in Claims(j, e), faults' = faults,
         SalariesOf(j, e)' \subseteq SalariesOf(j, e) \cup {row}, ClaimsMove(j, e, {x}, {})
  PROVE  Passes(j, e)
  <1>1. Claims(j, e)' \subseteq (Claims(j, e) \ {x}) \cup {}
    BY MovedClaims
  <1>2. Claims(j, e)' \subseteq Claims(j, e) \ {x}
    BY <1>1
  <1> QED BY <1>2 DEF Passes, IsPaid

(***************************************************************************)
(* The salaries.                                                           *)
(***************************************************************************)
LEMMA SalariesStay ==
  ASSUME SalariesAreOfRows, RowsKept, NEW new, entries' = entries \cup new,
         \A row \in new : row.type # "SALARY_CREDIT"
  PROVE  SalariesAreOfRows' /\ \A j, e : SalariesOf(j, e)' \subseteq SalariesOf(j, e)
  <1>1. SalariesAreOfRows'
    BY DEF SalariesAreOfRows, RowsKept
  <1>2. ASSUME NEW j, NEW e, NEW row \in SalariesOf(j, e)' PROVE row \in SalariesOf(j, e)
    <2>1. row \in entries' /\ row.type = "SALARY_CREDIT" /\ row.user = e /\ records'[row.ref[2]].job = j
      BY <1>2 DEF SalariesOf
    <2>2. row \in entries /\ row.ref[2] \in DOMAIN records
      BY <2>1 DEF SalariesAreOfRows
    <2> QED BY <2>1, <2>2 DEF SalariesOf, RowsKept
  <1> QED BY <1>1, <1>2

LEMMA SalariesRest ==
  ASSUME SalariesAreOfRows, RowsKept, UNCHANGED entries
  PROVE  SalariesAreOfRows' /\ \A j, e : SalariesOf(j, e)' \subseteq SalariesOf(j, e)
  <1> PICK none : none = {}
    OBVIOUS
  <1>1. entries' = entries \cup none /\ \A row \in none : row.type # "SALARY_CREDIT"
    OBVIOUS
  <1> QED BY <1>1, SalariesStay

LEMMA SalaryIsAdded ==
  ASSUME SalariesAreOfRows, RowsKept, NEW row, entries' = entries \cup {row}, NEW r \in DOMAIN records', row.ref[2] = r
  PROVE  /\ SalariesAreOfRows'
         /\ \A j, e : SalariesOf(j, e)' \subseteq SalariesOf(j, e) \cup {row}
         /\ \A j, e : j # records'[r].job \/ e # row.user => SalariesOf(j, e)' \subseteq SalariesOf(j, e)
  <1>1. SalariesAreOfRows'
    BY DEF SalariesAreOfRows, RowsKept
  <1>2. ASSUME NEW j, NEW e, NEW s \in SalariesOf(j, e)', s # row PROVE s \in SalariesOf(j, e)
    <2>1. s \in entries /\ s.type = "SALARY_CREDIT" /\ s.user = e /\ records'[s.ref[2]].job = j
      BY <1>2 DEF SalariesOf
    <2>2. s.ref[2] \in DOMAIN records
      BY <2>1 DEF SalariesAreOfRows
    <2> QED BY <2>1, <2>2 DEF SalariesOf, RowsKept
  <1>3. ASSUME NEW j, NEW e, row \in SalariesOf(j, e)' PROVE j = records'[r].job /\ e = row.user
    BY <1>3 DEF SalariesOf
  <1> QED BY <1>1, <1>2, <1>3

LEMMA SalaryRow ==
  ASSUME NEW by, NEW r, NEW e
  PROVE  \E row : Salary(by, r, e) = {row} /\ row.user = e /\ row.ref[2] = r
  <1> PICK row : row = Entry(by, e, "SALARY_CREDIT", 0, 1, <<"record", r>>)
    OBVIOUS
  <1>1. row.user = e /\ row.ref = <<"record", r>>
    BY DEF Entry
  <1> QED BY <1>1 DEF Salary

(***************************************************************************)
(* What stays due in a step.                                               *)
(***************************************************************************)
Walks(n) == Retrying(n, "counts attempts") \/ Retrying(n, "marks pending")
TicksStill == \A n \in Requests : request'[n] = request[n] \/ (~Walks(n) /\ ~Walks(n)')
Alone == \A m, n \in Busy : SameOp(m, "retry tick") /\ SameOp(n, "retry tick") => m = n

LEMMA HoldsStill == ASSUME TicksStill PROVE \A r : (Held(r)' <=> Held(r)) /\ (Masked(r)' <=> Masked(r))
  <1>1. ASSUME NEW n \in Requests, NEW r PROVE (Holds(n, r)' <=> Holds(n, r)) /\ (Masks(n, r)' <=> Masks(n, r))
    <2>1. CASE request'[n] = request[n]
      BY <2>1 DEF Holds, Masks, Retrying, SameOp, Rest
    <2>2. CASE ~Walks(n) /\ ~Walks(n)'
      BY <2>2 DEF Holds, Masks, Walks
    <2> QED BY <2>1, <2>2 DEF TicksStill
  <1> QED BY <1>1 DEF Held, Masked

LEMMA HeldAreRows == ASSUME EngineInv, NEW r, Held(r) PROVE r \in DOMAIN records
  BY DEF Held, Holds, Rest, EngineInv, HasRows

LEMMA RowStill ==
  ASSUME RowsKept, TicksStill, NEW r \in DOMAIN records,
         records'[r].status = "FAILED" => records[r].status = "FAILED", NEW j, NEW e, RowDue(r, j, e)'
  PROVE  RowDue(r, j, e)
  <1>1. (Held(r)' <=> Held(r)) /\ (Masked(r)' <=> Masked(r))
    BY HoldsStill
  <1> QED BY <1>1 DEF RowDue, OfRun, RowsKept

LEMMA NewRowDue ==
  ASSUME EngineInv, TicksStill, NEW r, r \notin DOMAIN records, NEW j, NEW e, RowDue(r, j, e)'
  PROVE  r \in DOMAIN records' /\ records'[r].status = "FAILED" /\ records'[r].job = j /\ records'[r].user = e
  <1>1. ~Held(r)'
    BY HoldsStill, HeldAreRows
  <1> QED BY <1>1 DEF RowDue, OfRun

LEMMA RetryStill ==
  ASSUME EngineInv, RowsKept, RetriesKept, NEW k \in DOMAIN retries,
         retries'[k].at \in OnItsWay => retries[k].at \in OnItsWay, NEW j, NEW e, RetryDue(k, j, e)'
  PROVE  RetryDue(k, j, e)
  BY DEF RetryDue, OfRun, RowsKept, RetriesKept, EngineInv

LEMMA LoopStill ==
  ASSUME DOMAIN jobs' = DOMAIN jobs, NEW j, j \in DOMAIN jobs => jobs'[j] = jobs[j], NEW e, LoopDue(j, e)'
  PROVE  LoopDue(j, e)
  BY DEF LoopDue

(* A step that leaves the tables of the engine alone. *)
LEMMA NothingMoves ==
  ASSUME EngineInv, UNCHANGED <<jobs, records, retries>>, TicksStill, NEW j, NEW e
  PROVE  ClaimsMove(j, e, {}, {})
  <1>1. RowsKept /\ RetriesKept
    BY RowsStay, RetriesStay DEF EngineInv
  <1>2. LoopDue(j, e)' => LoopDue(j, e)
    BY LoopStill
  <1>3. \A r : RowDue(r, j, e)' => RowDue(r, j, e)
    <2> TAKE r
    <2>1. RowDue(r, j, e)' => r \in DOMAIN records
      BY DEF RowDue
    <2> QED BY <1>1, <2>1, RowStill
  <1>4. \A k : RetryDue(k, j, e)' => RetryDue(k, j, e)
    <2> TAKE k
    <2>1. RetryDue(k, j, e)' => k \in DOMAIN retries
      BY DEF RetryDue
    <2> QED BY <1>1, <2>1, RetryStill
  <1> QED BY <1>2, <1>3, <1>4 DEF ClaimsMove

(* The row whose retry a killed tick had queued, and not yet marked. *)
LEMMA KillingMoves ==
  ASSUME EngineInv, HandlerInv, Alone, Killing, RowsKept, UNCHANGED records,
         \A j, e : LoopDue(j, e)' => LoopDue(j, e), \A k, j, e : RetryDue(k, j, e)' => RetryDue(k, j, e)
  PROVE  \E y : \A j, e : ClaimsMove(j, e, {}, {y})
  <1>1. \E s : \A r : Masked(r) => r = s
    <2>1. CASE \E m \in Requests : Retrying(m, "marks pending")
      <3>1. PICK m \in Requests : Retrying(m, "marks pending")
        BY <2>1
      <3>2. \A n \in Requests : Retrying(n, "marks pending") => n = m
        BY <3>1 DEF Retrying, SameOp, Alone, Busy, Ended
      <3>3. \A r : Masked(r) => r = First(request[m].todo)
        BY <3>2 DEF Masked, Masks
      <3> QED BY <3>3
    <2>2. CASE ~\E m \in Requests : Retrying(m, "marks pending")
      BY <2>2 DEF Masked, Masks
    <2> QED BY <2>1, <2>2
  <1>2. PICK s : \A r : Masked(r) => r = s
    BY <1>1
  <1> PICK y : y = <<"row", s>>
    OBVIOUS
  <1>3. \A r : Held(r)' => Held(r)
    <2>1. ASSUME NEW n \in Requests, NEW r, Holds(n, r)' PROVE Holds(n, r)
      <3>1. request'[n] = request[n]
        BY <2>1 DEF Killing, Holds, Retrying
      <3> QED BY <2>1, <3>1 DEF Holds, Retrying, SameOp, Rest
    <2> QED BY <2>1 DEF Held
  <1>4. \A r, j, e : RowDue(r, j, e)' => RowDue(r, j, e) \/ <<"row", r>> \in {y}
    BY <1>2, <1>3 DEF RowDue, OfRun
  <1>5. \A j, e : ClaimsMove(j, e, {}, {y})
    BY <1>4 DEF ClaimsMove
  <1> QED BY <1>5

(***************************************************************************)
(* The steps of a job.                                                     *)
(***************************************************************************)
LEMMA JobMovesLoop ==
  ASSUME NEW j \in DOMAIN jobs, NEW at, NEW todo, JobGoes(j, at, todo)
  PROVE  /\ \A i, e : i # j => (LoopDue(i, e)' => LoopDue(i, e))
         /\ \A e : LoopDue(j, e)' <=> DueAt(at, todo, e)
         /\ \A e : LoopDue(j, e) <=> DueAt(jobs[j].at, jobs[j].todo, e)
  BY DEF JobGoes, LoopDue

(* The loop has done with an employee. *)
LEMMA LoopPasses ==
  ASSUME RunsShape, NEW j \in DOMAIN jobs, Pays(j) \/ RecordsFailure(j), EngineInv
  PROVE  /\ \E c \in Staff : c = Current(j) /\ LoopDue(j, c) /\ ~LoopDue(j, c)'
         /\ \A i, e : LoopDue(i, e)' => LoopDue(i, e)
  <1>0. jobs[j].at \in {"pays", "records failure"} /\ jobs[j].todo # {}
    BY DEF Pays, RecordsFailure, EngineInv
  <1> PICK c : c = Current(j)
    OBVIOUS
  <1> PICK todo : todo = jobs[j].todo
    OBVIOUS
  <1>1. c \in todo /\ c \in Staff /\ c = CHOOSE f \in todo : TRUE
    BY <1>0, CurrentIsOne DEF Current
  <1>2. \A e : DueAt(jobs[j].at, jobs[j].todo, e) <=> e \in Staff /\ e \in todo
    BY <1>0 DEF DueAt
  <1>3. \E at, left : /\ JobGoes(j, at, left) /\ ~DueAt(at, left, c)
                      /\ \A e : DueAt(at, left, e) => e \in Staff /\ e \in todo
    <2>1. CASE Pays(j)
      <3>1. JobGoes(j, "logs", todo)
        BY <2>1, JobStepsGo
      <3>2. ~DueAt("logs", todo, c) /\ \A e : DueAt("logs", todo, e) => e \in Staff /\ e \in todo
        BY <1>1 DEF DueAt
      <3> QED BY <3>1, <3>2
    <2>2. CASE RecordsFailure(j)
      <3> PICK left : left = todo \ {c}
        OBVIOUS
      <3>1. JobGoes(j, "pays", left)
        BY <2>2, JobStepsGo
      <3>2. ~DueAt("pays", left, c) /\ \A e : DueAt("pays", left, e) => e \in Staff /\ e \in todo
        BY DEF DueAt
      <3> QED BY <3>1, <3>2
    <2> QED BY <2>1, <2>2
  <1>4. PICK at, left : /\ JobGoes(j, at, left) /\ ~DueAt(at, left, c)
                        /\ \A e : DueAt(at, left, e) => e \in Staff /\ e \in todo
    BY <1>3
  <1>5. LoopDue(j, c) /\ ~LoopDue(j, c)' /\ \A e : LoopDue(j, e)' => LoopDue(j, e)
    BY <1>1, <1>2, <1>4, JobMovesLoop
  <1>6. \A i, e : LoopDue(i, e)' => LoopDue(i, e)
    BY <1>4, <1>5, JobMovesLoop
  <1> QED BY <1>1, <1>5, <1>6

(* The other steps of a job leave the loop what it had to do. *)
LEMMA LoopStays ==
  ASSUME RunsShape, EngineInv, NEW j \in DOMAIN jobs,
         JobStarts(j) \/ HasNoWallet(j) \/ Logs(j) \/ JobCompletes(j) \/ FailureIsNotRecorded(j)
  PROVE  \A i, e : LoopDue(i, e)' => LoopDue(i, e)
  <1> PICK from, todo : from = jobs[j].at /\ todo = jobs[j].todo
    OBVIOUS
  <1>0. ASSUME NEW at, NEW left, JobGoes(j, at, left), \A e : DueAt(at, left, e) => DueAt(from, todo, e)
        PROVE  \A i, e : LoopDue(i, e)' => LoopDue(i, e)
    <2>1. \A e : LoopDue(j, e)' => LoopDue(j, e)
      BY <1>0, JobMovesLoop
    <2> QED BY <1>0, <2>1, JobMovesLoop
  <1>1. CASE JobStarts(j)
    <2>1. JobGoes(j, "pays", Staff) /\ from \in {"waiting", "delayed"}
      BY <1>1, JobStepsGo DEF JobStarts
    <2>2. \A e : DueAt("pays", Staff, e) => DueAt(from, todo, e)
      BY <2>1 DEF DueAt
    <2> QED BY <1>0, <2>1, <2>2
  <1>2. CASE HasNoWallet(j)
    <2>1. JobGoes(j, "records failure", todo) /\ from = "pays"
      BY <1>2, JobStepsGo DEF HasNoWallet
    <2>2. \A e : DueAt("records failure", todo, e) => DueAt(from, todo, e)
      BY <2>1 DEF DueAt
    <2> QED BY <1>0, <2>1, <2>2
  <1>3. CASE Logs(j) \/ FailureIsNotRecorded(j)
    <2> PICK left : left = todo \ {Current(j)}
      OBVIOUS
    <2>1. JobGoes(j, "pays", left) /\ from \in {"logs", "records failure"}
      BY <1>3, JobStepsGo DEF Logs, FailureIsNotRecorded
    <2>2. \A e : DueAt("pays", left, e) => DueAt(from, todo, e)
      BY <2>1 DEF DueAt, Current
    <2> QED BY <1>0, <2>1, <2>2
  <1>4. CASE JobCompletes(j)
    <2>1. JobGoes(j, "completed", todo)
      BY <1>4, JobStepsGo
    <2>2. \A e : DueAt("completed", todo, e) => DueAt(from, todo, e)
      BY DEF DueAt
    <2> QED BY <1>0, <2>1, <2>2
  <1> QED BY <1>1, <1>2, <1>3, <1>4

LEMMA FailingLoop ==
  ASSUME RunsShape, EngineInv, NEW j \in DOMAIN jobs, EmployeeFails(j) \/ FailureIsNotRecorded(j) \/ JobFails(j)
  PROVE  /\ UNCHANGED <<handlerVars, deskVars, records, retries>>
         /\ DOMAIN jobs' = DOMAIN jobs
  <1>1. JobsKept
    BY JobMoves
  <1> QED BY <1>1 DEF EmployeeFails, FailureIsNotRecorded, JobFails, JobsKept

LEMMA StillTicks == ASSUME UNCHANGED handlerVars PROVE TicksStill
  BY DEF handlerVars, TicksStill

(* A step that moves jobs only. *)
LEMMA JobsOnlyMove ==
  ASSUME EngineInv, UNCHANGED <<handlerVars, records, retries>>, NEW j, NEW e
  PROVE  /\ \A r : RowDue(r, j, e)' => RowDue(r, j, e)
         /\ \A k : RetryDue(k, j, e)' => RetryDue(k, j, e)
  <1>1. RowsKept /\ RetriesKept /\ TicksStill
    BY RowsStay, RetriesStay, StillTicks DEF EngineInv
  <1>2. ASSUME NEW r, RowDue(r, j, e)' PROVE RowDue(r, j, e)
    <2>1. r \in DOMAIN records
      BY <1>2 DEF RowDue
    <2> QED BY <1>1, <1>2, <2>1, RowStill
  <1>3. ASSUME NEW k, RetryDue(k, j, e)' PROVE RetryDue(k, j, e)
    <2>1. k \in DOMAIN retries
      BY <1>3 DEF RetryDue
    <2> QED BY <1>1, <1>3, <2>1, RetryStill
  <1> QED BY <1>2, <1>3

AllPass == \A j \in 0..Len(jobs), e \in Staff : Passes(j, e)

LEMMA JobFailurePasses ==
  ASSUME RunsShape, EngineInv, SalariesAreOfRows, NEW j \in DOMAIN jobs, faults' = faults + 1,
         EmployeeFails(j) \/ FailureIsNotRecorded(j) \/ JobFails(j)
  PROVE  SalariesAreOfRows' /\ AllPass
  <1>1. UNCHANGED <<handlerVars, entries, records, retries>>
    BY FailingLoop DEF deskVars
  <1>2. RowsKept
    BY <1>1, RowsStay DEF EngineInv
  <1>3. SalariesAreOfRows' /\ \A i, e : SalariesOf(i, e)' \subseteq SalariesOf(i, e)
    BY <1>1, <1>2, SalariesRest
  <1> PICK y : y = <<"loop", 0>>
    OBVIOUS
  <1>4. ASSUME NEW i, NEW e PROVE Passes(i, e)
    <2>1. ClaimsMove(i, e, {}, {y})
      BY <1>1, JobsOnlyMove DEF ClaimsMove
    <2> QED BY <1>3, <2>1, ClaimsPass
  <1> QED BY <1>3, <1>4 DEF AllPass

LEMMA JobStepPasses ==
  ASSUME RunsShape, EngineInv, SalariesAreOfRows, NEW j \in DOMAIN jobs, UNCHANGED faults,
         JobStarts(j) \/ HasNoWallet(j) \/ Logs(j) \/ JobCompletes(j)
  PROVE  SalariesAreOfRows' /\ AllPass
  <1>1. UNCHANGED <<handlerVars, entries, records, retries>>
    BY DEF JobStarts, HasNoWallet, Logs, JobCompletes, deskVars
  <1>2. RowsKept
    BY <1>1, RowsStay DEF EngineInv
  <1>3. SalariesAreOfRows' /\ \A i, e : SalariesOf(i, e)' \subseteq SalariesOf(i, e)
    BY <1>1, <1>2, SalariesRest
  <1>4. ASSUME NEW i, NEW e PROVE Passes(i, e)
    <2>1. LoopDue(i, e)' => LoopDue(i, e)
      BY LoopStays
    <2>2. ClaimsMove(i, e, {}, {})
      BY <1>1, <2>1, JobsOnlyMove DEF ClaimsMove
    <2> QED BY <1>3, <2>2, ClaimsPass
  <1> QED BY <1>3, <1>4 DEF AllPass

(* The row a job adds. *)
AddsRow(j, c, n) ==
  /\ c = Current(j) /\ n = Len(records) + 1
  /\ RowsKept /\ DOMAIN records' = DOMAIN records \cup {n} /\ \A s \in DOMAIN records : records'[s] = records[s]
  /\ records'[n].job = j /\ records'[n].user = c
  /\ Pays(j) => records'[n].status = "COMPLETED"

LEMMA AddedRow ==
  ASSUME RunsShape, EngineInv, NEW j \in DOMAIN jobs, Pays(j) \/ RecordsFailure(j)
  PROVE  \E c \in Staff, n \in Nat \ DOMAIN records : AddsRow(j, c, n)
  <1>1. jobs[j].at \in {"logs", "records failure"} \/ jobs[j].todo # {}
    BY DEF Pays, RecordsFailure
  <1>2. j \in Nat /\ Current(j) \in Users /\ Current(j) \in Staff
    BY <1>1, CurrentIsOne, RowsOfJob
  <1> PICK n : n = Len(records) + 1
    OBVIOUS
  <1>3. PICK value \in {"COMPLETED", "FAILED"} :
          records' = Append(records, Record(j, Current(j), value)) /\ (Pays(j) => value = "COMPLETED")
    <2>1. CASE Pays(j)
      BY <2>1 DEF Pays
    <2>2. CASE ~Pays(j)
      BY <2>2 DEF RecordsFailure
    <2> QED BY <2>1, <2>2
  <1> PICK row : row = Record(j, Current(j), value)
    OBVIOUS
  <1>4. row \in PayRow /\ row.job = j /\ row.user = Current(j) /\ row.status = value /\ records' = Append(records, row)
    BY <1>2, <1>3, NewRow
  <1>5. /\ RowsKept /\ DOMAIN records' = DOMAIN records \cup {n} /\ n \notin DOMAIN records
        /\ records'[n] = row /\ \A s \in DOMAIN records : records'[s] = records[s]
    BY <1>4, RowIsAdded DEF EngineInv
  <1>6. n \in Nat
    <2>1. records \in Seq(PayRow)
      BY DEF EngineInv
    <2>2. Len(records) \in Nat
      BY <2>1, ElementsOfSeq
    <2> QED BY <2>2
  <1> QED BY <1>2, <1>3, <1>4, <1>5, <1>6 DEF AddsRow

LEMMA RecordingPasses ==
  ASSUME RunsShape, EngineInv, SalariesAreOfRows, NEW j \in DOMAIN jobs, UNCHANGED faults, RecordsFailure(j)
  PROVE  SalariesAreOfRows' /\ AllPass
  <1>1. UNCHANGED <<handlerVars, entries, retries>> /\ TicksStill
    BY StillTicks DEF RecordsFailure, deskVars
  <1>0. PICK c \in Staff, n \in Nat \ DOMAIN records : AddsRow(j, c, n)
    BY AddedRow
  <1>2. /\ c = Current(j) /\ RowsKept /\ DOMAIN records' = DOMAIN records \cup {n}
        /\ \A s \in DOMAIN records : records'[s] = records[s]
        /\ records'[n].job = j /\ records'[n].user = c
    BY <1>0 DEF AddsRow
  <1>3. LoopDue(j, c) /\ ~LoopDue(j, c)' /\ \A i, e : LoopDue(i, e)' => LoopDue(i, e)
    BY <1>2, LoopPasses
  <1>4. SalariesAreOfRows' /\ \A i, e : SalariesOf(i, e)' \subseteq SalariesOf(i, e)
    BY <1>1, <1>2, SalariesRest
  <1>5. RetriesKept
    BY <1>1, RetriesStay DEF EngineInv
  <1>6. \A k, i, e : RetryDue(k, i, e)' => RetryDue(k, i, e)
    <2> SUFFICES ASSUME NEW k, NEW i, NEW e, RetryDue(k, i, e)' PROVE RetryDue(k, i, e)
      OBVIOUS
    <2>1. k \in DOMAIN retries
      BY <1>1 DEF RetryDue
    <2> QED BY <1>1, <1>2, <1>5, <2>1, RetryStill
  <1>7. \A r, i, e : RowDue(r, i, e)' => RowDue(r, i, e) \/ (r = n /\ i = j /\ e = c)
    <2> SUFFICES ASSUME NEW r, NEW i, NEW e, RowDue(r, i, e)' PROVE RowDue(r, i, e) \/ (r = n /\ i = j /\ e = c)
      OBVIOUS
    <2>1. CASE r \in DOMAIN records
      BY <1>1, <1>2, <2>1, RowStill
    <2>2. CASE r \notin DOMAIN records
      BY <1>1, <1>2, <2>2, NewRowDue
    <2> QED BY <2>1, <2>2
  <1>8. ASSUME NEW i, NEW e PROVE Passes(i, e)
    <2>1. CASE i = j /\ e = c
      <3> PICK x, y : x = <<"loop", 0>> /\ y = <<"row", n>>
        OBVIOUS
      <3>1. x \in Claims(i, e)
        BY <1>3, <2>1, ClaimIs
      <3>2. ClaimsMove(i, e, {x}, {y})
        BY <1>3, <1>6, <1>7, <2>1 DEF ClaimsMove
      <3> QED BY <1>4, <3>1, <3>2, ClaimsPass
    <2>2. CASE ~(i = j /\ e = c)
      <3>1. ClaimsMove(i, e, {}, {})
        BY <1>3, <1>6, <1>7, <2>2 DEF ClaimsMove
      <3> QED BY <1>4, <3>1, ClaimsPass
    <2> QED BY <2>1, <2>2
  <1> QED BY <1>4, <1>8 DEF AllPass

LEMMA PayingPasses ==
  ASSUME RunsShape, EngineInv, SalariesAreOfRows, NEW j \in DOMAIN jobs, UNCHANGED faults, Pays(j)
  PROVE  SalariesAreOfRows' /\ AllPass
  <1>1. UNCHANGED <<handlerVars, retries>> /\ TicksStill
    BY StillTicks DEF Pays
  <1>0. PICK c \in Staff, n \in Nat \ DOMAIN records : AddsRow(j, c, n)
    BY AddedRow
  <1>2. /\ c = Current(j) /\ n = Len(records) + 1 /\ RowsKept /\ DOMAIN records' = DOMAIN records \cup {n}
        /\ \A s \in DOMAIN records : records'[s] = records[s]
        /\ records'[n].job = j /\ records'[n].user = c /\ records'[n].status = "COMPLETED"
    BY <1>0 DEF AddsRow
  <1>3. LoopDue(j, c) /\ ~LoopDue(j, c)' /\ \A i, e : LoopDue(i, e)' => LoopDue(i, e)
    BY <1>2, LoopPasses
  <1>4. PICK row : Salary(<<"job", j>>, n, c) = {row} /\ row.user = c /\ row.ref[2] = n
    BY SalaryRow
  <1>5. entries' = entries \cup {row}
    BY <1>2, <1>4 DEF Pays, Books
  <1>6. /\ SalariesAreOfRows'
        /\ \A i, e : SalariesOf(i, e)' \subseteq SalariesOf(i, e) \cup {row}
        /\ \A i, e : i # j \/ e # c => SalariesOf(i, e)' \subseteq SalariesOf(i, e)
    <2>1. n \in DOMAIN records' /\ records'[n].job = j
      BY <1>2
    <2> QED BY <1>2, <1>4, <1>5, <2>1, SalaryIsAdded
  <1>7. RetriesKept
    BY <1>1, RetriesStay DEF EngineInv
  <1>8. \A k, i, e : RetryDue(k, i, e)' => RetryDue(k, i, e)
    <2> SUFFICES ASSUME NEW k, NEW i, NEW e, RetryDue(k, i, e)' PROVE RetryDue(k, i, e)
      OBVIOUS
    <2>1. k \in DOMAIN retries
      BY <1>1 DEF RetryDue
    <2> QED BY <1>1, <1>2, <1>7, <2>1, RetryStill
  <1>9. \A r, i, e : RowDue(r, i, e)' => RowDue(r, i, e)
    <2> SUFFICES ASSUME NEW r, NEW i, NEW e, RowDue(r, i, e)' PROVE RowDue(r, i, e)
      OBVIOUS
    <2>1. CASE r \in DOMAIN records
      BY <1>1, <1>2, <2>1, RowStill
    <2>2. CASE r \notin DOMAIN records
      BY <1>1, <1>2, <2>2, NewRowDue
    <2> QED BY <2>1, <2>2
  <1>10. ASSUME NEW i, NEW e PROVE Passes(i, e)
    <2>1. CASE i = j /\ e = c
      <3> PICK x : x = <<"loop", 0>>
        OBVIOUS
      <3>1. x \in Claims(i, e)
        BY <1>3, <2>1, ClaimIs
      <3>2. ClaimsMove(i, e, {x}, {})
        BY <1>3, <1>8, <1>9, <2>1 DEF ClaimsMove
      <3> QED BY <1>6, <3>1, <3>2, PaymentPasses
    <2>2. CASE ~(i = j /\ e = c)
      <3>1. ClaimsMove(i, e, {}, {})
        BY <1>3, <1>8, <1>9, <2>2 DEF ClaimsMove
      <3> QED BY <1>6, <2>2, <3>1, ClaimsPass
    <2> QED BY <2>1, <2>2
  <1> QED BY <1>6, <1>10 DEF AllPass

(***************************************************************************)
(* The steps of a retry.                                                   *)
(***************************************************************************)
LEMMA RetryOnItsWay ==
  ASSUME EngineInv, NEW k \in DOMAIN retries, RetrySteps(k) \/ RetryFails(k), NEW r, r = retries[k].record
  PROVE  /\ retries[k].at \in OnItsWay
         /\ RetryCredits(k) \/ RetryFails(k) => retries'[k].at \notin OnItsWay
         /\ ~RetryFails(k) => (records'[r].status = "FAILED" => records[r].status = "FAILED")
  <1>1. /\ RetryReads(k) => UNCHANGED records /\ retries[k].at = "waiting"
        /\ RetryResets(k) => RetryGoes(k, "resets", "credits", "PROCESSING")
        /\ RetryCredits(k) => RetryGoes(k, "credits", "completed", "COMPLETED")
        /\ RetryFails(k) => RetryGoes(k, "credits", "failed", "FAILED")
    BY RetryStepsGo
  <1> QED BY <1>1 DEF RetrySteps, RetryGoes, OnItsWay

LEMMA RetryMovesDues ==
  ASSUME EngineInv, NEW k \in DOMAIN retries, RetrySteps(k) \/ RetryFails(k), NEW r, r = retries[k].record
  PROVE  /\ \A i, e : LoopDue(i, e)' => LoopDue(i, e)
         /\ \A m, i, e : RetryDue(m, i, e)' => RetryDue(m, i, e)
         /\ \A s, i, e : RowDue(s, i, e)' => RowDue(s, i, e) \/ (RetryFails(k) /\ s = r)
  <1>1. /\ RowsKept /\ RetriesKept /\ DOMAIN records' = DOMAIN records /\ DOMAIN retries' = DOMAIN retries
        /\ UNCHANGED <<handlerVars, jobs>>
        /\ \A i \in DOMAIN retries \ {k} : retries'[i] = retries[i]
        /\ \A s \in DOMAIN records \ {r} : records'[s] = records[s]
    BY RetryStepsGo
  <1>2. TicksStill
    BY <1>1, StillTicks
  <1>3. /\ retries[k].at \in OnItsWay
        /\ ~RetryFails(k) => (records'[r].status = "FAILED" => records[r].status = "FAILED")
    BY RetryOnItsWay
  <1>4. \A i, e : LoopDue(i, e)' => LoopDue(i, e)
    BY <1>1, LoopStill
  <1>5. ASSUME NEW m, NEW i, NEW e, RetryDue(m, i, e)' PROVE RetryDue(m, i, e)
    <2>1. m \in DOMAIN retries
      BY <1>1, <1>5 DEF RetryDue
    <2>2. retries'[m].at \in OnItsWay => retries[m].at \in OnItsWay
      BY <1>1, <1>3, <2>1
    <2> QED BY <1>1, <1>5, <2>1, <2>2, RetryStill
  <1>6. ASSUME NEW s, NEW i, NEW e, RowDue(s, i, e)', ~(RetryFails(k) /\ s = r) PROVE RowDue(s, i, e)
    <2>1. s \in DOMAIN records
      BY <1>1, <1>6 DEF RowDue
    <2>2. records'[s].status = "FAILED" => records[s].status = "FAILED"
      BY <1>1, <1>3, <1>6, <2>1
    <2> QED BY <1>1, <1>2, <1>6, <2>1, <2>2, RowStill
  <1> QED BY <1>4, <1>5, <1>6

LEMMA RetryPasses ==
  ASSUME EngineInv, SalariesAreOfRows, NEW k \in DOMAIN retries,
         (UNCHANGED faults /\ (RetryReads(k) \/ RetryResets(k))) \/ (faults' = faults + 1 /\ RetryFails(k))
  PROVE  SalariesAreOfRows' /\ AllPass
  <1> PICK r : r = retries[k].record
    OBVIOUS
  <1>0. RetrySteps(k) \/ RetryFails(k)
    BY DEF RetrySteps
  <1>1. RowsKept /\ UNCHANGED entries
    BY <1>0, RetryStepsGo DEF RetryReads, RetryResets, RetryFails, deskVars
  <1>2. SalariesAreOfRows' /\ \A i, e : SalariesOf(i, e)' \subseteq SalariesOf(i, e)
    BY <1>1, SalariesRest
  <1>3. /\ \A i, e : LoopDue(i, e)' => LoopDue(i, e)
        /\ \A m, i, e : RetryDue(m, i, e)' => RetryDue(m, i, e)
        /\ \A s, i, e : RowDue(s, i, e)' => RowDue(s, i, e) \/ (RetryFails(k) /\ s = r)
    BY <1>0, RetryMovesDues
  <1>4. CASE RetryFails(k)
    <2>0. faults' = faults + 1
      <3>1. /\ RetryReads(k) => retries[k].at = "waiting"
            /\ RetryResets(k) => RetryGoes(k, "resets", "credits", "PROCESSING")
            /\ RetryFails(k) => RetryGoes(k, "credits", "failed", "FAILED")
        BY <1>0, RetryStepsGo
      <3> QED BY <1>4, <3>1 DEF RetryGoes
    <2> PICK y : y = <<"row", r>>
      OBVIOUS
    <2>1. \A i, e : ClaimsMove(i, e, {}, {y})
      BY <1>3 DEF ClaimsMove
    <2>2. \A i, e : Passes(i, e)
      BY <1>2, <2>0, <2>1, ClaimsPass
    <2> QED BY <1>2, <2>2 DEF AllPass
  <1>5. CASE ~RetryFails(k)
    <2>1. \A i, e : ClaimsMove(i, e, {}, {})
      BY <1>3, <1>5 DEF ClaimsMove
    <2>2. \A i, e : Passes(i, e)
      BY <1>2, <1>5, <2>1, ClaimsPass
    <2> QED BY <1>2, <2>2 DEF AllPass
  <1> QED BY <1>4, <1>5

LEMMA CreditingPasses ==
  ASSUME EngineInv, SalariesAreOfRows, NEW k \in DOMAIN retries, UNCHANGED faults, RetryCredits(k)
  PROVE  SalariesAreOfRows' /\ AllPass
  <1> PICK r : r = retries[k].record
    OBVIOUS
  <1> PICK c, j : c = records[r].user /\ j = records[r].job
    OBVIOUS
  <1>0. RetrySteps(k) /\ k \in Nat
    BY ElementsOfSeq DEF RetrySteps, EngineInv
  <1>1. RowsKept /\ r \in DOMAIN records /\ DOMAIN records' = DOMAIN records /\ ~RetryFails(k)
    <2>1. /\ RowsKept /\ r \in DOMAIN records /\ DOMAIN records' = DOMAIN records
          /\ RetryCredits(k) => RetryGoes(k, "credits", "completed", "COMPLETED")
          /\ RetryFails(k) => RetryGoes(k, "credits", "failed", "FAILED")
      BY <1>0, RetryStepsGo
    <2> QED BY <2>1 DEF RetryGoes
  <1>2. PICK row : Salary(<<"retry", k>>, r, c) = {row} /\ row.user = c /\ row.ref[2] = r
    BY SalaryRow
  <1>3. entries' = entries \cup {row}
    BY <1>2 DEF RetryCredits, Books
  <1>4. /\ SalariesAreOfRows'
        /\ \A i, e : SalariesOf(i, e)' \subseteq SalariesOf(i, e) \cup {row}
        /\ \A i, e : i # j \/ e # c => SalariesOf(i, e)' \subseteq SalariesOf(i, e)
    <2>1. r \in DOMAIN records' /\ records'[r].job = j
      BY <1>1 DEF RowsKept
    <2> QED BY <1>1, <1>2, <1>3, <2>1, SalaryIsAdded
  <1>5. /\ \A i, e : LoopDue(i, e)' => LoopDue(i, e)
        /\ \A m, i, e : RetryDue(m, i, e)' => RetryDue(m, i, e)
        /\ \A s, i, e : RowDue(s, i, e)' => RowDue(s, i, e)
    BY <1>0, <1>1, RetryMovesDues
  <1>6. RetryDue(k, j, c) /\ \A i, e : ~RetryDue(k, i, e)'
    <2>1. retries[k].at \in OnItsWay /\ retries'[k].at \notin OnItsWay
      BY <1>0, RetryOnItsWay
    <2> QED BY <2>1 DEF RetryDue, OfRun
  <1>7. ASSUME NEW i, NEW e PROVE Passes(i, e)
    <2>1. CASE i = j /\ e = c
      <3> PICK x : x = <<"retry", k>>
        OBVIOUS
      <3>1. x \in Claims(i, e)
        BY <1>0, <1>6, <2>1, ClaimIs
      <3>2. ClaimsMove(i, e, {x}, {})
        BY <1>5, <1>6 DEF ClaimsMove
      <3> QED BY <1>4, <3>1, <3>2, PaymentPasses
    <2>2. CASE ~(i = j /\ e = c)
      <3>1. ClaimsMove(i, e, {}, {})
        BY <1>5 DEF ClaimsMove
      <3> QED BY <1>4, <2>2, <3>1, ClaimsPass
    <2> QED BY <2>1, <2>2
  <1> QED BY <1>4, <1>7 DEF AllPass

(***************************************************************************)
(* The steps of a retry tick.                                              *)
(***************************************************************************)
(* It is the only one that goes on, and the rows it holds are those of     *)
(* its own.                                                                *)
LEMMA OnlyTick ==
  ASSUME Alone, NEW n \in Busy, SameOp(n, "retry tick")
  PROVE  \A m \in Requests \ {n} : ~Walks(m)
  BY DEF Alone, Walks, Retrying, SameOp, Busy, Ended

LEMMA OwnRows ==
  ASSUME Alone, NEW n \in Busy, SameOp(n, "retry tick")
  PROVE  \A r : (Held(r) <=> Holds(n, r)) /\ (Masked(r) <=> Masks(n, r))
  <1>1. \A m \in Requests \ {n} : ~Walks(m)
    BY OnlyTick
  <1>2. n \in Requests
    BY DEF Busy
  <1> QED BY <1>1, <1>2 DEF Held, Masked, Holds, Masks, Walks

LEMMA OwnRowsNext ==
  ASSUME Alone, NEW n \in Busy, SameOp(n, "retry tick"), \A m \in Requests \ {n} : request'[m] = request[m]
  PROVE  \A r : (Held(r)' <=> Holds(n, r)') /\ (Masked(r)' <=> Masks(n, r)')
  <1>1. \A m \in Requests \ {n} : ~Walks(m)'
    BY OnlyTick DEF Walks, Retrying, SameOp
  <1>2. n \in Requests
    BY DEF Busy
  <1> QED BY <1>1, <1>2 DEF Held, Masked, Holds, Masks, Walks

LEMMA ListingDues ==
  ASSUME HandlerInv, EngineInv, Alone, NEW n \in Requests, ListFailed(n)
  PROVE  \A r, i, e : RowDue(r, i, e)' => RowDue(r, i, e)
  <1>1. n \in Busy /\ SameOp(n, "retry tick")
    BY TickIsBusy DEF TickSteps
  <1>2. /\ UNCHANGED records /\ Retrying(n, "lists failed")
        /\ \A m \in Requests \ {n} : request'[m] = request[m]
        /\ \/ request'[n].at = "done"
           \/ Retrying(n, "counts attempts")' /\ request'[n].todo = FailedRows
    BY ListingGoes DEF payrollVars
  <1>3. \A r : (Held(r)' <=> Holds(n, r)') /\ (Masked(r)' <=> Masks(n, r)') /\ (Masked(r) <=> Masks(n, r))
    BY <1>1, <1>2, OwnRows, OwnRowsNext
  <1>4. \A r : Holds(n, r)' => r \in FailedRows
    BY <1>2 DEF Holds, Retrying
  <1>5. \A r : ~Masks(n, r)
    BY <1>2 DEF Masks, Retrying
  <1>6. ASSUME NEW r, NEW i, NEW e, RowDue(r, i, e)' PROVE RowDue(r, i, e)
    <2>1. r \in DOMAIN records /\ OfRun(r, i, e) /\ (Held(r)' \/ records[r].status = "FAILED")
      BY <1>2, <1>6 DEF RowDue, OfRun
    <2>2. records[r].status = "FAILED"
      BY <1>3, <1>4, <2>1 DEF FailedRows
    <2> QED BY <1>3, <1>5, <2>1, <2>2 DEF RowDue
  <1> QED BY <1>6

LEMMA QueueingDues ==
  ASSUME HandlerInv, EngineInv, Alone, NEW n \in Requests, QueueRetry(n), NEW first, first = First(request[n].todo)
  PROVE  /\ \A r, i, e : RowDue(r, i, e)' => RowDue(r, i, e) /\ r # first
         /\ \A i, e : OfRun(first, i, e) => RowDue(first, i, e)
         /\ first \in DOMAIN records
  <1>1. n \in Busy /\ SameOp(n, "retry tick")
    BY TickIsBusy DEF TickSteps
  <1>2. /\ UNCHANGED records /\ Retrying(n, "counts attempts") /\ Retrying(n, "marks pending")'
        /\ \A m \in Requests \ {n} : request'[m] = request[m]
        /\ request'[n].todo = request[n].todo
    BY QueueingGoes
  <1>3. /\ \A r : (Held(r)' <=> Holds(n, r)') /\ (Masked(r)' <=> Masks(n, r)')
        /\ \A r : (Masked(r) <=> Masks(n, r)) /\ (Held(r) <=> Holds(n, r))
    BY <1>1, <1>2, OwnRows, OwnRowsNext
  <1>4. first \in request[n].todo /\ first \in DOMAIN records
    BY <1>2, FirstIsOne
  <1>5. \A r : (Holds(n, r)' => r \in request[n].todo /\ r # first) /\ (Masks(n, r)' <=> r = first)
    BY <1>2 DEF Holds, Masks, Retrying, Rest
  <1>6. \A r : (Holds(n, r) <=> r \in request[n].todo) /\ ~Masks(n, r)
    BY <1>2 DEF Holds, Masks, Retrying
  <1>7. ASSUME NEW r, NEW i, NEW e, RowDue(r, i, e)' PROVE RowDue(r, i, e) /\ r # first
    <2>1. r \in DOMAIN records /\ OfRun(r, i, e) /\ (Held(r)' \/ (records[r].status = "FAILED" /\ ~Masked(r)'))
      BY <1>2, <1>7 DEF RowDue, OfRun
    <2> QED BY <1>3, <1>5, <1>6, <2>1 DEF RowDue
  <1>8. \A i, e : OfRun(first, i, e) => RowDue(first, i, e)
    BY <1>3, <1>4, <1>6 DEF RowDue
  <1> QED BY <1>4, <1>7, <1>8

LEMMA DoneDues ==
  ASSUME HandlerInv, EngineInv, Alone, NEW n \in Requests, BackoffHolds(n) \/ Escalate(n) \/ MarkPending(n)
  PROVE  \A r, i, e : RowDue(r, i, e)' => RowDue(r, i, e)
  <1>1. n \in Busy /\ SameOp(n, "retry tick")
    BY TickIsBusy DEF TickSteps
  <1> PICK first : first = First(request[n].todo)
    OBVIOUS
  <1>2. /\ GoesOn(n) /\ \A m \in Requests \ {n} : request'[m] = request[m]
        /\ RowsKept /\ DOMAIN records' = DOMAIN records
        /\ \A r \in DOMAIN records \ {first} : records'[r] = records[r]
        /\ MarkPending(n) => Retrying(n, "marks pending") /\ records'[first].status = "PENDING"
        /\ BackoffHolds(n) \/ Escalate(n) =>
              Retrying(n, "counts attempts") /\ records'[first].status = records[first].status
    BY RowDone
  <1>3. /\ \A r : (Held(r)' <=> Holds(n, r)') /\ (Masked(r)' <=> Masks(n, r)')
        /\ \A r : (Masked(r) <=> Masks(n, r)) /\ (Held(r) <=> Holds(n, r))
    BY <1>1, <1>2, OwnRows, OwnRowsNext
  <1>4. \A r : Holds(n, r)' => r \in Rest(n)
    BY <1>2 DEF GoesOn, Holds, Retrying
  <1>5. first \in request[n].todo
    BY <1>2, FirstIsOne
  <1>6. CASE MarkPending(n)
    <2>1. \A r : (Holds(n, r) <=> r \in Rest(n)) /\ (Masks(n, r) <=> r = first)
      BY <1>2, <1>6 DEF Holds, Masks, Retrying
    <2>2. ASSUME NEW r, NEW i, NEW e, RowDue(r, i, e)' PROVE RowDue(r, i, e)
      <3>1. r \in DOMAIN records /\ OfRun(r, i, e) /\ (Held(r)' \/ records'[r].status = "FAILED")
        BY <1>2, <2>2 DEF RowDue, OfRun, RowsKept
      <3>2. CASE Held(r)'
        BY <1>3, <1>4, <2>1, <3>1, <3>2 DEF RowDue
      <3>3. CASE records'[r].status = "FAILED"
        <4>1. r # first
          BY <1>2, <1>6, <3>3
        <4>2. records[r].status = "FAILED"
          BY <1>2, <3>1, <3>3, <4>1
        <4> QED BY <1>3, <2>1, <3>1, <4>1, <4>2 DEF RowDue
      <3> QED BY <3>1, <3>2, <3>3
    <2> QED BY <2>2
  <1>7. CASE BackoffHolds(n) \/ Escalate(n)
    <2>1. \A r : (Holds(n, r) <=> r \in request[n].todo) /\ ~Masks(n, r)
      BY <1>2, <1>7 DEF Holds, Masks, Retrying
    <2>2. ASSUME NEW r, NEW i, NEW e, RowDue(r, i, e)' PROVE RowDue(r, i, e)
      <3>1. r \in DOMAIN records /\ OfRun(r, i, e) /\ (Held(r)' \/ records'[r].status = "FAILED")
        BY <1>2, <2>2 DEF RowDue, OfRun, RowsKept
      <3>2. CASE Held(r)'
        BY <1>3, <1>4, <2>1, <3>1, <3>2 DEF RowDue, Rest
      <3>3. CASE records'[r].status = "FAILED"
        <4>1. records[r].status = "FAILED"
          BY <1>2, <1>7, <3>1, <3>3
        <4> QED BY <1>3, <2>1, <3>1, <4>1 DEF RowDue
      <3> QED BY <3>1, <3>2, <3>3
    <2> QED BY <2>2
  <1> QED BY <1>6, <1>7

LEMMA TickPasses ==
  ASSUME HandlerInv, EngineInv, Alone, SalariesAreOfRows, UNCHANGED faults, NEW n \in Requests,
         ListFailed(n) \/ BackoffHolds(n) \/ Escalate(n) \/ MarkPending(n)
  PROVE  SalariesAreOfRows' /\ AllPass
  <1>1. \A r, i, e : RowDue(r, i, e)' => RowDue(r, i, e)
    BY ListingDues, DoneDues
  <1>2. UNCHANGED <<entries, jobs, retries>> /\ RowsKept
    <2>1. CASE ListFailed(n)
      <3>1. UNCHANGED <<entries, jobs, retries, records>>
        BY <2>1, ListingGoes DEF deskVars, payrollVars
      <3> QED BY <3>1, RowsStay DEF EngineInv
    <2>2. CASE BackoffHolds(n) \/ Escalate(n) \/ MarkPending(n)
      BY <2>2, RowDone DEF deskVars
    <2> QED BY <2>1, <2>2
  <1>3. SalariesAreOfRows' /\ \A i, e : SalariesOf(i, e)' \subseteq SalariesOf(i, e)
    BY <1>2, SalariesRest
  <1>4. RetriesKept
    BY <1>2, RetriesStay DEF EngineInv
  <1>5. ASSUME NEW i, NEW e PROVE Passes(i, e)
    <2>1. LoopDue(i, e)' => LoopDue(i, e)
      BY <1>2, LoopStill
    <2>2. \A k : RetryDue(k, i, e)' => RetryDue(k, i, e)
      <3> TAKE k
      <3>1. RetryDue(k, i, e)' => k \in DOMAIN retries
        BY <1>2 DEF RetryDue
      <3> QED BY <1>2, <1>4, <3>1, RetryStill
    <2>3. ClaimsMove(i, e, {}, {})
      BY <1>1, <2>1, <2>2 DEF ClaimsMove
    <2> QED BY <1>3, <2>3, ClaimsPass
  <1> QED BY <1>3, <1>5 DEF AllPass

LEMMA QueueingPasses ==
  ASSUME HandlerInv, EngineInv, Alone, SalariesAreOfRows, UNCHANGED faults, NEW n \in Requests, QueueRetry(n)
  PROVE  SalariesAreOfRows' /\ AllPass
  <1> PICK first : first = First(request[n].todo)
    OBVIOUS
  <1>1. /\ \A r, i, e : RowDue(r, i, e)' => RowDue(r, i, e) /\ r # first
        /\ \A i, e : OfRun(first, i, e) => RowDue(first, i, e)
        /\ first \in DOMAIN records /\ first \in Nat
    BY QueueingDues, ElementsOfSeq DEF EngineInv
  <1>2. UNCHANGED <<entries, jobs, records>> /\ retries' = Append(retries, [record |-> first, by |-> n, at |-> "waiting"])
    BY QueueingGoes DEF deskVars
  <1>3. RowsKept
    BY <1>2, RowsStay DEF EngineInv
  <1>4. SalariesAreOfRows' /\ \A i, e : SalariesOf(i, e)' \subseteq SalariesOf(i, e)
    BY <1>2, <1>3, SalariesRest
  <1> PICK new : new = [record |-> first, by |-> n, at |-> "waiting"]
    OBVIOUS
  <1> PICK m : m = Len(retries) + 1
    OBVIOUS
  <1>5. new \in Retry /\ new.record = first /\ retries' = Append(retries, new)
    BY <1>1, <1>2 DEF Retry, RetryStates
  <1>6. /\ RetriesKept /\ DOMAIN retries' = DOMAIN retries \cup {m}
        /\ retries'[m] = new /\ \A k \in DOMAIN retries : retries'[k] = retries[k]
    BY <1>5, RetryIsAdded DEF EngineInv
  <1>7. ASSUME NEW k, NEW i, NEW e, RetryDue(k, i, e)' PROVE RetryDue(k, i, e) \/ (k = m /\ OfRun(first, i, e))
    <2>1. CASE k \in DOMAIN retries
      <3>1. retries'[k] = retries[k]
        BY <1>6, <2>1
      <3> QED BY <1>3, <1>6, <1>7, <2>1, <3>1, RetryStill
    <2>2. CASE k \notin DOMAIN retries
      <3>1. k = m
        BY <1>6, <1>7, <2>2 DEF RetryDue
      <3> QED BY <1>2, <1>5, <1>6, <1>7, <3>1 DEF RetryDue, OfRun
    <2> QED BY <2>1, <2>2
  <1>8. ASSUME NEW i, NEW e PROVE Passes(i, e)
    <2>1. LoopDue(i, e)' => LoopDue(i, e)
      BY <1>2, LoopStill
    <2>2. CASE OfRun(first, i, e)
      <3> PICK x, y : x = <<"row", first>> /\ y = <<"retry", m>>
        OBVIOUS
      <3>1. x \in Claims(i, e)
        BY <1>1, <2>2, ClaimIs
      <3>2. ClaimsMove(i, e, {x}, {y})
        BY <1>1, <1>7, <2>1 DEF ClaimsMove
      <3> QED BY <1>4, <3>1, <3>2, ClaimsPass
    <2>3. CASE ~OfRun(first, i, e)
      <3>1. ClaimsMove(i, e, {}, {})
        BY <1>1, <1>7, <2>1, <2>3 DEF ClaimsMove
      <3> QED BY <1>4, <3>1, ClaimsPass
    <2> QED BY <2>2, <2>3
  <1> QED BY <1>4, <1>8 DEF AllPass

(***************************************************************************)
(* Every step of the platform.                                             *)
(***************************************************************************)
LEMMA QuietPasses ==
  ASSUME EngineInv, SalariesAreOfRows, TicksStill, UNCHANGED <<jobs, records, retries, faults>>,
         NEW new, entries' = entries \cup new, \A row \in new : row.type # "SALARY_CREDIT"
  PROVE  SalariesAreOfRows' /\ AllPass
  <1>1. RowsKept
    BY RowsStay DEF EngineInv
  <1>2. SalariesAreOfRows' /\ \A i, e : SalariesOf(i, e)' \subseteq SalariesOf(i, e)
    BY <1>1, SalariesStay
  <1>3. \A i, e : ClaimsMove(i, e, {}, {})
    BY NothingMoves
  <1>4. \A i, e : Passes(i, e)
    BY <1>2, <1>3, ClaimsPass
  <1> QED BY <1>2, <1>4 DEF AllPass

LEMMA IdlePasses ==
  ASSUME EngineInv, SalariesAreOfRows, TicksStill, UNCHANGED <<jobs, records, retries, faults, entries>>
  PROVE  SalariesAreOfRows' /\ AllPass
  <1> PICK none : none = {}
    OBVIOUS
  <1>1. entries' = entries \cup none /\ \A row \in none : row.type # "SALARY_CREDIT"
    OBVIOUS
  <1> QED BY <1>1, QuietPasses

LEMMA AsManyJobs == ASSUME NEW s \in Seq(Job), NEW t \in Seq(Job), DOMAIN t = DOMAIN s PROVE Len(t) = Len(s)
  <1>1. Len(s) \in Nat /\ Len(t) \in Nat /\ Len(s) <= Len(t) /\ Len(t) <= Len(s)
    BY LongerJobs
  <1> QED BY <1>1

LEMMA AllStayCounted ==
  ASSUME AllCounted, AllPass, faults \in Nat, Len(jobs') = Len(jobs)
  PROVE  AllCounted'
  <1>1. \A j \in 0..Len(jobs), e \in Staff : Counted(j, e)'
    BY StaysCounted DEF AllCounted, AllPass
  <1> QED BY <1>1 DEF AllCounted

(* A new run has paid nobody. *)
LEMMA NewRunCounts ==
  ASSUME HandlerInv, RunsInv, EngineInv, SalariesAreOfRows, AllCounted, UNCHANGED faults,
         NEW n \in Requests, QueuePosted(n) \/ QueueDue(n)
  PROVE  SalariesAreOfRows' /\ AllCounted'
  <1>0. RunsShape /\ UNCHANGED <<entries, records, retries>>
    BY DEF RunsInv, QueuePosted, QueueDue, deskVars
  <1>1. RowsKept /\ RetriesKept
    BY <1>0, RowsStay, RetriesStay DEF EngineInv
  <1>2. \E plan : jobs' = Queued(n, plan)
    BY DEF QueuePosted, QueueDue
  <1> PICK new : new = Len(jobs) + 1
    OBVIOUS
  <1>3. /\ jobs' \in Seq(Job) /\ DOMAIN jobs' = DOMAIN jobs \cup {new} /\ new \notin DOMAIN jobs
        /\ \A i \in DOMAIN jobs : jobs'[i] = jobs[i]
    BY <1>0, <1>2, QueuedWaits
  <1>4. Len(jobs) \in Nat /\ Len(jobs') = new /\ DOMAIN jobs = 1..Len(jobs) /\ faults \in Nat
    <2>1. jobs' = Append(jobs, jobs'[new]) /\ jobs \in Seq(Job)
      BY <1>0, <1>2, <1>3 DEF Queued, RunsShape
    <2> QED BY <1>0, <1>3, <2>1, ElementsOfSeq DEF RunsShape
  <1>5. TicksStill
    <2>1. n \in Busy /\ request[n].op \in {"post", "tick"}
      BY IsBusy DEF QueuePosted, QueueDue, Ended
    <2>2. PICK at \in {"done", "moves next run"} : GoesTo(n, at)
      BY DEF QueuePosted, QueueDue
    <2>3. /\ request'[n].op = request[n].op
          /\ \A m \in Requests \ {n} : request'[m] = request[m]
      BY <2>1, <2>2, GoingOn
    <2> QED BY <2>1, <2>3 DEF TicksStill, Walks, Retrying, SameOp
  <1>6. SalariesAreOfRows' /\ \A i, e : SalariesOf(i, e)' \subseteq SalariesOf(i, e)
    BY <1>0, <1>1, SalariesRest
  <1>7. /\ \A r, i, e : RowDue(r, i, e)' => RowDue(r, i, e)
        /\ \A k, i, e : RetryDue(k, i, e)' => RetryDue(k, i, e)
    <2>1. ASSUME NEW r, NEW i, NEW e, RowDue(r, i, e)' PROVE RowDue(r, i, e)
      <3>1. r \in DOMAIN records
        BY <1>0, <2>1 DEF RowDue
      <3> QED BY <1>0, <1>1, <1>5, <2>1, <3>1, RowStill
    <2>2. ASSUME NEW k, NEW i, NEW e, RetryDue(k, i, e)' PROVE RetryDue(k, i, e)
      <3>1. k \in DOMAIN retries
        BY <1>0, <2>2 DEF RetryDue
      <3> QED BY <1>0, <1>1, <2>2, <3>1, RetryStill
    <2> QED BY <2>1, <2>2
  <1>8. ASSUME NEW j \in 0..Len(jobs), NEW e \in Staff PROVE Counted(j, e)'
    <2>1. LoopDue(j, e)' => LoopDue(j, e)
      <3>1. j # new
        BY <1>4
      <3> QED BY <1>3, <3>1 DEF LoopDue
    <2>2. ClaimsMove(j, e, {}, {})
      BY <1>7, <2>1 DEF ClaimsMove
    <2>3. Passes(j, e)
      BY <1>6, <2>2, ClaimsPass
    <2> QED BY <1>4, <2>3, StaysCounted DEF AllCounted
  <1>9. ASSUME NEW e \in Staff PROVE Counted(new, e)'
    <2>0. new \notin 0..Len(jobs)
      BY <1>4
    <2>9. \A r \in DOMAIN records : records[r].job \in 0..Len(jobs)
      BY DEF EngineInv
    <2>1. \A r \in DOMAIN records : records[r].job # new
      BY <2>0, <2>9
    <2>2. SalariesOf(new, e) = {} /\ \A r : ~RowDue(r, new, e) /\ \A k : ~RetryDue(k, new, e)
      BY <2>1 DEF SalariesOf, SalariesAreOfRows, RowDue, RetryDue, OfRun, EngineInv
    <2>3. SalariesOf(new, e)' = {}
      BY <1>6, <2>2
    <2> PICK x : x = <<"loop", 0>>
      OBVIOUS
    <2>4. Claims(new, e)' \subseteq {x}
      <3> PICK T : T = {x}
        OBVIOUS
      <3>1. Claims(new, e)' \subseteq T
        BY <1>7, <2>2, ClaimsAreIn
      <3> QED BY <3>1
    <2> PICK A, B : A = SalariesOf(new, e)' /\ B = Claims(new, e)'
      OBVIOUS
    <2>5. IsFiniteSet(A) /\ Cardinality(A) = 0
      BY <2>3, FS_EmptySet
    <2>6. IsFiniteSet({x}) /\ Cardinality({x}) = 1
      BY FS_Singleton
    <2>7. IsFiniteSet(B) /\ Cardinality(B) \in Nat /\ Cardinality(B) <= 1
      BY <2>4, <2>6, SubsetCounts
    <2>8. IsFiniteSet(A) /\ IsFiniteSet(B) /\ Cardinality(A) + Cardinality(B) <= 1 + faults'
      BY <1>4, <2>5, <2>7
    <2> QED BY <2>8 DEF Counted
  <1>10. \A j \in 0..Len(jobs') : j \in 0..Len(jobs) \/ j = new
    BY <1>4
  <1> QED BY <1>6, <1>8, <1>9, <1>10 DEF AllCounted

LEMMA EntryType ==
  ASSUME NEW by, NEW user, NEW type, NEW takes, NEW gives, NEW ref
  PROVE  Entry(by, user, type, takes, gives, ref).type = type
  BY DEF Entry

LEMMA RoutesPayNoSalary ==
  ASSUME RouteNext PROVE \E new : entries' = entries \cup new /\ \A row \in new : row.type # "SALARY_CREDIT"
  <1>1. CASE UNCHANGED deskVars
    <2> PICK none : none = {}
      OBVIOUS
    <2>1. entries' = entries \cup none /\ \A row \in none : row.type # "SALARY_CREDIT"
      BY <1>1 DEF deskVars
    <2> QED BY <2>1
  <1>2. ASSUME NEW n \in Requests, BookTransfer(n)
        PROVE  \E new : entries' = entries \cup new /\ \A row \in new : row.type # "SALARY_CREDIT"
    <2> PICK out, in : /\ out = Entry(<<"request", n>>, Sender, "P2P_SEND", request[n].amount, 0, <<>>)
                       /\ in = Entry(<<"request", n>>, Receiver, "P2P_RECEIVE", 0, request[n].amount, <<>>)
      OBVIOUS
    <2>1. entries' = entries \cup {out, in}
      BY <1>2 DEF BookTransfer, Books
    <2>2. out.type = "P2P_SEND" /\ in.type = "P2P_RECEIVE"
      BY EntryType
    <2> PICK rows : rows = {out, in}
      OBVIOUS
    <2>3. entries' = entries \cup rows /\ \A row \in rows : row.type # "SALARY_CREDIT"
      BY <2>1, <2>2
    <2> QED BY <2>3
  <1>3. ASSUME NEW n \in Requests, BookRemittance(n)
        PROVE  \E new : entries' = entries \cup new /\ \A row \in new : row.type # "SALARY_CREDIT"
    <2> PICK out : out = Entry(<<"request", n>>, Sender, "REMITTANCE", Takes(request[n]), 0, <<>>)
      OBVIOUS
    <2>1. entries' = entries \cup {out}
      BY <1>3 DEF BookRemittance, Books
    <2>2. out.type # "SALARY_CREDIT"
      BY EntryType
    <2> PICK rows : rows = {out}
      OBVIOUS
    <2>3. entries' = entries \cup rows /\ \A row \in rows : row.type # "SALARY_CREDIT"
      BY <2>1, <2>2
    <2> QED BY <2>3
  <1>4. ASSUME NEW n \in Requests, WriteCircle(n)
        PROVE  \E new : entries' = entries \cup new /\ \A row \in new : row.type # "SALARY_CREDIT"
    <2> PICK out : out = Entry(<<"request", n>>, Sender, "SPEND", 0, 0, <<"turn", request[n].turn>>)
      OBVIOUS
    <2>1. entries' = entries \cup {out}
      BY <1>4 DEF WriteCircle
    <2>2. out.type # "SALARY_CREDIT"
      BY EntryType
    <2> PICK rows : rows = {out}
      OBVIOUS
    <2>3. entries' = entries \cup rows /\ \A row \in rows : row.type # "SALARY_CREDIT"
      BY <2>1, <2>2
    <2> QED BY <2>3
  <1>5. \/ UNCHANGED deskVars
        \/ \E n \in Requests : BookTransfer(n) \/ BookRemittance(n) \/ WriteCircle(n)
    BY DEF RouteNext, Transfer, Remit, Contribute, Repay, PayTurn, RouteArrives, RouteSteps, ReadBalance, ReadGoal,
           WriteGoal, ReadLoan, WriteLoan, ReadCircle, Decides
  <1> QED BY <1>1, <1>2, <1>3, <1>4, <1>5

(* A crash leaves no loop and no retry to go on. *)
LEMMA CrashDues ==
  ASSUME HandlerInv, RunsShape, EngineInv, Crash
  PROVE  /\ \A j, e : LoopDue(j, e)' => LoopDue(j, e)
         /\ \A k, j, e : RetryDue(k, j, e)' => RetryDue(k, j, e)
  <1>1. ASSUME NEW j \in DOMAIN jobs' PROVE jobs'[j].at \in {"completed", "failed", "lost"}
    <2>1. j \in DOMAIN jobs
      BY <1>1 DEF Crash
    <2>2. jobs[j] \in Job
      BY <2>1, RowsOfJob
    <2> QED BY <2>1, <2>2 DEF Crash, Job
  <1>2. ASSUME NEW k \in DOMAIN retries' PROVE retries'[k].at \in {"completed", "failed", "lost"}
    <2>1. k \in DOMAIN retries
      BY <1>2 DEF Crash
    <2>2. retries[k] \in Retry
      BY <2>1, ElementsOfSeq DEF EngineInv
    <2> QED BY <2>1, <2>2 DEF Crash, Retry
  <1>3. \A j, e : ~LoopDue(j, e)'
    BY <1>1 DEF LoopDue, DueAt
  <1>4. \A k, j, e : ~RetryDue(k, j, e)'
    BY <1>2 DEF RetryDue, OnItsWay
  <1> QED BY <1>3, <1>4

LEMMA KillingPasses ==
  ASSUME HandlerInv, RunsShape, EngineInv, Alone, SalariesAreOfRows, faults' = faults + 1, Killing,
         UNCHANGED <<entries, records>>, UNCHANGED <<jobs, retries>> \/ Crash
  PROVE  SalariesAreOfRows' /\ AllPass
  <1>1. RowsKept
    BY RowsStay DEF EngineInv
  <1>2. SalariesAreOfRows' /\ \A i, e : SalariesOf(i, e)' \subseteq SalariesOf(i, e)
    BY <1>1, SalariesRest
  <1>3. /\ \A j, e : LoopDue(j, e)' => LoopDue(j, e)
        /\ \A k, j, e : RetryDue(k, j, e)' => RetryDue(k, j, e)
    <2>1. CASE UNCHANGED <<jobs, retries>>
      BY <2>1 DEF LoopDue, RetryDue, OfRun
    <2> QED BY <2>1, CrashDues
  <1>4. PICK y : \A j, e : ClaimsMove(j, e, {}, {y})
    BY <1>1, <1>3, KillingMoves
  <1>5. \A i, e : Passes(i, e)
    BY <1>2, <1>4, ClaimsPass
  <1> QED BY <1>2, <1>5 DEF AllPass

LEMMA FaultPasses ==
  ASSUME HandlerInv, RunsInv, EngineInv, Alone, SalariesAreOfRows, Fault
  PROVE  SalariesAreOfRows' /\ AllPass /\ DOMAIN jobs' = DOMAIN jobs
  <1>0. RunsShape /\ faults' = faults + 1 /\ Killing
    BY FaultRequests DEF RunsInv, Fault
  <1>1. CASE UNCHANGED <<deskVars, payrollVars>>
    BY <1>0, <1>1, KillingPasses DEF deskVars, payrollVars
  <1>2. CASE Crash
    <2>1. UNCHANGED <<entries, records>> /\ DOMAIN jobs' = DOMAIN jobs
      BY <1>2 DEF Crash, deskVars
    <2> QED BY <1>0, <1>2, <2>1, KillingPasses
  <1>3. ASSUME NEW j \in DOMAIN jobs, EmployeeFails(j) \/ FailureIsNotRecorded(j) \/ JobFails(j)
        PROVE  SalariesAreOfRows' /\ AllPass /\ DOMAIN jobs' = DOMAIN jobs
    BY <1>0, <1>3, JobFailurePasses, FailingLoop
  <1>4. ASSUME NEW k \in DOMAIN retries, RetryFails(k) PROVE SalariesAreOfRows' /\ AllPass /\ DOMAIN jobs' = DOMAIN jobs
    <2>1. UNCHANGED jobs
      BY <1>4 DEF RetryFails
    <2> QED BY <1>0, <1>4, <2>1, RetryPasses
  <1>5. \/ UNCHANGED <<deskVars, payrollVars>> \/ Crash
        \/ \E j \in DOMAIN jobs : EmployeeFails(j) \/ FailureIsNotRecorded(j) \/ JobFails(j)
        \/ \E k \in DOMAIN retries : RetryFails(k)
    BY DEF Fault, Dies, CohortFrame, SessionFrame, deskPlaneVars
  <1> QED BY <1>1, <1>2, <1>3, <1>4, <1>5

LEMMA PayrollPasses ==
  ASSUME HandlerInv, RunsInv, EngineInv, Alone, SalariesAreOfRows, AllCounted, UNCHANGED faults, PayrollNext
  PROVE  SalariesAreOfRows' /\ AllCounted'
  <1>0. RunsShape /\ faults \in Nat
    BY DEF RunsInv, RunsShape
  <1>1. ASSUME SalariesAreOfRows', AllPass, DOMAIN jobs' = DOMAIN jobs, jobs' \in Seq(Job)
        PROVE  SalariesAreOfRows' /\ AllCounted'
    <2>1. Len(jobs') = Len(jobs)
      BY <1>0, <1>1, AsManyJobs DEF RunsShape
    <2> QED BY <1>0, <1>1, <2>1, AllStayCounted
  <1>2. ASSUME SalariesAreOfRows', AllPass, UNCHANGED jobs PROVE SalariesAreOfRows' /\ AllCounted'
    BY <1>0, <1>1, <1>2 DEF RunsShape
  <1>3. ASSUME TicksStill, UNCHANGED <<jobs, records, retries, entries>> PROVE SalariesAreOfRows' /\ AllCounted'
    BY <1>2, <1>3, IdlePasses
  <1>4. ASSUME NEW n \in Requests, RequestSteps(n) PROVE SalariesAreOfRows' /\ AllCounted'
    <2>1. CASE QueuePosted(n) \/ QueueDue(n)
      BY <2>1, NewRunCounts
    <2>2. CASE ListFailed(n) \/ BackoffHolds(n) \/ Escalate(n) \/ MarkPending(n)
      <3>1. UNCHANGED jobs
        BY <2>2, ListingGoes, RowDone DEF payrollVars
      <3> QED BY <1>2, <2>2, <3>1, TickPasses
    <2>3. CASE QueueRetry(n)
      <3>1. UNCHANGED jobs
        BY <2>3, QueueingGoes
      <3> QED BY <1>2, <2>3, <3>1, QueueingPasses
    <2>4. CASE FindDue(n) \/ MoveNextRun(n)
      <3>1. TicksStill
        BY <2>4, TickLooks DEF TicksStill, Walks, Retrying, SameOp
      <3> QED BY <1>3, <2>4, <3>1, TickLooks
    <2> QED BY <1>4, <2>1, <2>2, <2>3, <2>4 DEF RequestSteps
  <1>5. ASSUME NEW r, Arrives(r), r.at \in PayrollStarts,
               UNCHANGED <<jobs, records, retries, entries>>
        PROVE  SalariesAreOfRows' /\ AllCounted'
    <2>1. PICK n \in Requests : request[n] = NotYet /\ request' = [request EXCEPT ![n] = r]
      BY <1>5 DEF Arrives
    <2>2. request'[n] = r /\ \A m \in Requests \ {n} : request'[m] = request[m]
      BY <2>1 DEF HandlerInv, RequestShape
    <2>3. TicksStill
      BY <1>5, <2>1, <2>2 DEF TicksStill, Walks, Retrying, SameOp, PayrollStarts
    <2> QED BY <1>3, <1>5, <2>3
  <1>6. CASE Tick \/ PostRun \/ RetryTick \/ PatchPlan \/ PatchActive
    BY <1>5, <1>6, PayrollAsks
  <1>10. CASE DayPasses
    <2>1. TicksStill /\ UNCHANGED <<jobs, records, retries, entries>>
      BY <1>10, StillTicks DEF DayPasses, deskVars
    <2> QED BY <1>3, <2>1
  <1>11. ASSUME NEW j \in DOMAIN jobs, JobSteps(j) PROVE SalariesAreOfRows' /\ AllCounted'
    <2>1. SalariesAreOfRows' /\ AllPass
      BY <1>0, <1>11, JobStepPasses, PayingPasses, RecordingPasses DEF JobSteps
    <2>2. JobsKept
      BY <1>0, <1>11, JobMoves
    <2> QED BY <1>1, <2>1, <2>2 DEF JobsKept
  <1>12. ASSUME NEW k \in DOMAIN retries, RetrySteps(k) PROVE SalariesAreOfRows' /\ AllCounted'
    <2>1. SalariesAreOfRows' /\ AllPass
      BY <1>12, RetryPasses, CreditingPasses DEF RetrySteps
    <2>2. UNCHANGED jobs
      BY <1>12 DEF RetrySteps, RetryReads, RetryResets, RetryCredits
    <2> QED BY <1>2, <2>1, <2>2
  <1> QED BY <1>4, <1>6, <1>10, <1>11, <1>12 DEF PayrollNext

LEMMA PaidGoesOn == ASSUME HandlerInv, RunsInv, EngineInv, PaidInv, [Next]_vars PROVE PaidInv'
  <1>0. HandlerInv' /\ met \subseteq met' /\ RunsInv'
    BY StepKeepsRequests, RunsGoOn
  <1>1. TicksOverlap("retry tick") => TicksOverlap("retry tick")'
    BY <1>0, SameOpKept DEF TicksOverlap, Overlapped
  <1> SUFFICES ASSUME ~TicksOverlap("retry tick")' PROVE (SalariesAreOfRows /\ AllCounted)'
    BY DEF PaidInv
  <1>2. SalariesAreOfRows /\ AllCounted /\ ~TicksOverlap("retry tick")
    BY <1>1 DEF PaidInv
  <1>3. Alone
    BY <1>2 DEF Alone, TicksOverlap, HandlerInv, BusyMet, Busy
  <1>4. RunsShape /\ RunsShape' /\ faults \in Nat
    BY <1>0 DEF RunsInv, RunsShape
  <1>5. CASE PayrollNext /\ UNCHANGED faults
    BY <1>2, <1>3, <1>5, PayrollPasses
  <1>6. CASE Fault
    <2>1. SalariesAreOfRows' /\ AllPass /\ DOMAIN jobs' = DOMAIN jobs
      BY <1>2, <1>3, <1>6, FaultPasses
    <2>2. Len(jobs') = Len(jobs)
      BY <1>4, <2>1, AsManyJobs DEF RunsShape
    <2> QED BY <1>2, <1>4, <2>1, <2>2, AllStayCounted
  <1>7. ASSUME TicksStill, UNCHANGED <<payrollVars, faults>>,
               \E new : entries' = entries \cup new /\ \A row \in new : row.type # "SALARY_CREDIT"
        PROVE  (SalariesAreOfRows /\ AllCounted)'
    <2>1. UNCHANGED <<jobs, records, retries>>
      BY <1>7 DEF payrollVars
    <2>2. SalariesAreOfRows' /\ AllPass
      BY <1>2, <1>7, <2>1, QuietPasses
    <2> QED BY <1>2, <1>4, <2>1, <2>2, AllStayCounted
  <1>8. ASSUME UNCHANGED deskVars PROVE \E new : entries' = entries \cup new /\ \A row \in new : row.type # "SALARY_CREDIT"
    <2> PICK none : none = {}
      OBVIOUS
    <2>1. entries' = entries \cup none /\ \A row \in none : row.type # "SALARY_CREDIT"
      BY <1>8 DEF deskVars
    <2> QED BY <2>1
  <1>9. CASE /\ LoginNext \/ ScreeningNext \/ AdvanceNext \/ CohortNext \/ UploadNext \/ RouteNext \/ SessionNext
             /\ UNCHANGED faults
    <2>1. UNCHANGED payrollVars /\ (RouteNext \/ UNCHANGED deskVars)
      BY <1>9 DEF LoginNext, ScreeningNext, AdvanceNext, CohortNext, UploadNext, RouteNext, SessionNext, PersonFrame,
                  CohortFrame, UploadFrame, RouteFrame, SessionFrame, deskPlaneVars
    <2>2. PICK ops : HandlerStep(ops) /\ "retry tick" \notin ops
      <3>1. \A ops \in OtherOps : "retry tick" \notin ops
        BY TicksAreOfPayroll
      <3>2. PICK ops \in OtherOps : HandlerStep(ops)
        BY <1>9, LoginRequests, ScreeningRequests, AdvanceRequests, CohortRequests, UploadRequests, RouteRequests,
           SessionRequests DEF OtherOps
      <3> QED BY <3>1, <3>2
    <2>3. TicksStill
      BY <2>2 DEF HandlerStep, TicksStill, Walks, Retrying, SameOp
    <2>4. \E new : entries' = entries \cup new /\ \A row \in new : row.type # "SALARY_CREDIT"
      BY <1>8, <2>1, RoutesPayNoSalary
    <2> QED BY <1>7, <1>9, <2>1, <2>3, <2>4
  <1>10. CASE (CodesNext /\ UNCHANGED faults) \/ UNCHANGED vars
    <2>1. UNCHANGED <<handlerVars, payrollVars, deskVars, faults>>
      BY <1>10 DEF CodesNext, CodeExpires, PersonFrame, vars, deskPlaneVars
    <2> QED BY <1>7, <1>8, <2>1, StillTicks
  <1> QED BY <1>5, <1>6, <1>9, <1>10 DEF Next

(* The backlog has one row for an employee, and nothing is paid yet. *)
LEMMA PaidStarts == Init => PaidInv
  <1> SUFFICES ASSUME Init PROVE SalariesAreOfRows /\ AllCounted
    BY DEF PaidInv
  <1>1. jobs = <<>> /\ retries = <<>> /\ records \in Backlog /\ entries = {} /\ faults = 0
    BY DEF Init, InitPayroll, InitDesk
  <1>2. \A n \in Requests : request[n] = NotYet
    BY DEF Init, InitHandlers
  <1>3. SalariesAreOfRows
    BY <1>1 DEF SalariesAreOfRows
  <1>4. \A r, s \in DOMAIN records : records[r].user = records[s].user => r = s
    BY <1>1, BacklogIsOneRun
  <1>5. ASSUME NEW j \in 0..Len(jobs), NEW e \in Staff PROVE Counted(j, e)
    <2>1. \E s : \A r : RowDue(r, j, e) => r = s
      <3>1. CASE \E s \in DOMAIN records : records[s].user = e
        BY <1>4, <3>1 DEF RowDue, OfRun
      <3>2. CASE ~\E s \in DOMAIN records : records[s].user = e
        BY <3>2 DEF RowDue, OfRun
      <3> QED BY <3>1, <3>2
    <2>2. PICK s : \A r : RowDue(r, j, e) => r = s
      BY <2>1
    <2> PICK x : x = <<"row", s>>
      OBVIOUS
    <2>3. Claims(j, e) \subseteq {x}
      <3>1. ~LoopDue(j, e) /\ \A k : ~RetryDue(k, j, e)
        BY <1>1 DEF LoopDue, RetryDue
      <3>2. ASSUME NEW t \in Claims(j, e) PROVE t = x
        <4>1. PICK kind \in {"loop", "row", "retry"}, i \in Nat : t = <<kind, i>> /\ Due(kind, i, j, e)
          BY <3>2 DEF Claims
        <4> QED BY <2>2, <3>1, <4>1 DEF Due
      <3> QED BY <3>2
    <2>4. SalariesOf(j, e) = {}
      BY <1>1 DEF SalariesOf
    <2> PICK A, B : A = SalariesOf(j, e) /\ B = Claims(j, e)
      OBVIOUS
    <2>5. IsFiniteSet(A) /\ Cardinality(A) = 0
      BY <2>4, FS_EmptySet
    <2>6. IsFiniteSet({x}) /\ Cardinality({x}) = 1
      BY FS_Singleton
    <2>7. IsFiniteSet(B) /\ Cardinality(B) \in Nat /\ Cardinality(B) <= 1
      BY <2>3, <2>6, SubsetCounts
    <2>8. IsFiniteSet(A) /\ IsFiniteSet(B) /\ Cardinality(A) + Cardinality(B) <= 1 + faults
      BY <1>1, <2>5, <2>7
    <2> QED BY <2>8 DEF Counted
  <1> QED BY <1>3, <1>5 DEF AllCounted

LEMMA PaidShows == ASSUME PaidInv, RunsInv PROVE PaidOncePerRun
  <1> SUFFICES ASSUME AllCounted, NEW j \in 0..Len(jobs), NEW e \in Staff
               PROVE  ~(Cardinality(SalariesOf(j, e)) > 1 + faults)
    BY DEF PaidInv, PaidOncePerRun
  <1> PICK A, B : A = SalariesOf(j, e) /\ B = Claims(j, e)
    OBVIOUS
  <1>1. IsFiniteSet(A) /\ IsFiniteSet(B) /\ Cardinality(A) + Cardinality(B) <= 1 + faults
    BY DEF AllCounted, Counted
  <1>2. Cardinality(A) \in Nat /\ Cardinality(B) \in Nat /\ faults \in Nat
    BY <1>1, FS_CardinalityType DEF RunsInv, RunsShape
  <1>3. ~(Cardinality(A) > 1 + faults)
    BY <1>1, <1>2
  <1> QED BY <1>3

(* PaidOncePerRun: a run pays an employee once (processCompanyPayroll and  *)
(* processSingleEmployeePayroll), and once more only for every error or    *)
(* crash, unless two retry ticks overlapped.                               *)
THEOREM PaidOncePerRunHolds == Spec => []PaidOncePerRun
  <1>1. Init => HandlerInv /\ RunsInv /\ EngineInv /\ PaidInv
    BY HandlersInit, RunsStart, EngineStarts, PaidStarts DEF Init
  <1>2. HandlerInv /\ RunsInv /\ EngineInv /\ PaidInv /\ [Next]_vars =>
          (HandlerInv /\ RunsInv /\ EngineInv /\ PaidInv)'
    BY StepKeepsRequests, RunsGoOn, EngineGoesOn, PaidGoesOn DEF TicksKeep
  <1>3. PaidInv /\ RunsInv => PaidOncePerRun
    BY PaidShows
  <1> QED BY <1>1, <1>2, <1>3, PTL DEF Spec

(***************************************************************************)
(* Sums of what rows give and of amounts.                                  *)
(***************************************************************************)
GivesAreWhole(rows) == IsFiniteSet(rows) /\ \A row \in rows : Gives(row) \in Int
AmountsFit(rows) == IsFiniteSet(rows) /\ \A row \in rows : row.amount \in Int
Gifts(rows) == SumFunction([row \in rows |-> Gives(row)])

LEMMA GivesAdd ==
  ASSUME NEW S, NEW x, x \notin S, GivesAreWhole(S), Gives(x) \in Int
  PROVE  GivesAreWhole(S \cup {x}) /\ Gifts(S) \in Int /\ Gifts(S \cup {x}) = Gifts(S) + Gives(x)
  <1>1. PICK T, w : T = S \cup {x} /\ w = [row \in T |-> Gives(row)]
    OBVIOUS
  <1>2. IsFiniteSet(T) /\ w \in [T -> Int] /\ S \in SUBSET T /\ x \in T /\ w[x] = Gives(x) /\ GivesAreWhole(T)
    BY <1>1, FS_AddElement DEF GivesAreWhole
  <1>3. Gifts(T) = SumOver(w, T) /\ Gifts(S) = SumOver(w, S)
    <2>1. [row \in S |-> Gives(row)] = [row \in S |-> w[row]] /\ [row \in T |-> Gives(row)] = [row \in T |-> w[row]]
      BY <1>1
    <2> QED BY <2>1, SumOfAll DEF Gifts
  <1> QED BY <1>1, <1>2, <1>3, SumOverAdds

LEMMA TotalOfOneMore ==
  ASSUME NEW S, NEW x, x \notin S, AmountsFit(S), x.amount \in Int
  PROVE  AmountsFit(S \cup {x}) /\ Total(S) \in Int /\ Total(S \cup {x}) = Total(S) + x.amount
  <1>1. PICK T, w : T = S \cup {x} /\ w = [row \in T |-> row.amount]
    OBVIOUS
  <1>2. IsFiniteSet(T) /\ w \in [T -> Int] /\ S \in SUBSET T /\ x \in T /\ w[x] = x.amount /\ AmountsFit(T)
    BY <1>1, FS_AddElement DEF AmountsFit
  <1>3. Total(T) = SumOver(w, T) /\ Total(S) = SumOver(w, S)
    <2>1. [row \in S |-> row.amount] = [row \in S |-> w[row]] /\ [row \in T |-> row.amount] = [row \in T |-> w[row]]
      BY <1>1
    <2> QED BY <2>1, SumOfAll DEF Total
  <1> QED BY <1>1, <1>2, <1>3, SumOverAdds

LEMMA NothingAddsUp == Gifts({}) = 0 /\ Total({}) = 0
  <1>1. \A v : v = [row \in {} |-> v[row]] => SumFunction(v) = 0
    BY SumOfAll, SumOverNone
  <1>2. PICK v, w : v = [row \in {} |-> Gives(row)] /\ w = [row \in {} |-> row.amount]
    OBVIOUS
  <1>3. v = [row \in {} |-> v[row]] /\ w = [row \in {} |-> w[row]]
    BY <1>2
  <1> QED BY <1>1, <1>2, <1>3 DEF Gifts, Total

LEMMA GivenByNone == \A u : GivenTo(u, {}) = 0
  <1>1. ASSUME NEW u PROVE GivenTo(u, {}) = 0
    <2>1. {row \in {} : row.user = u} = {}
      OBVIOUS
    <2> QED BY <2>1, NothingAddsUp DEF GivenTo, Gifts
  <1> QED BY <1>1

LEMMA GivenByOneMore ==
  ASSUME NEW S, NEW x, x \notin S, GivesAreWhole(S), Gives(x) \in Int, NEW u
  PROVE  /\ GivesAreWhole(S \cup {x}) /\ GivenTo(u, S) \in Int
         /\ GivenTo(u, S \cup {x}) = IF x.user = u THEN GivenTo(u, S) + Gives(x) ELSE GivenTo(u, S)
  <1> PICK T : T = {row \in S : row.user = u}
    OBVIOUS
  <1>1. GivesAreWhole(T) /\ x \notin T /\ GivesAreWhole(S \cup {x})
    BY FS_Subset, FS_AddElement DEF GivesAreWhole
  <1>2. /\ GivesAreWhole(T \cup {x}) /\ Gifts(T) \in Int
        /\ Gifts(T \cup {x}) = Gifts(T) + Gives(x)
    BY <1>1, GivesAdd
  <1>3. CASE x.user = u
    <2>1. {row \in S \cup {x} : row.user = u} = T \cup {x}
      BY <1>3
    <2> QED BY <1>1, <1>2, <1>3, <2>1 DEF GivenTo, Gifts
  <1>4. CASE x.user # u
    <2>1. {row \in S \cup {x} : row.user = u} = T
      BY <1>4
    <2> QED BY <1>1, <1>2, <1>4, <2>1 DEF GivenTo, Gifts
  <1> QED BY <1>3, <1>4

(***************************************************************************)
(* The money routes of the dashboard.  What they read outside the          *)
(* transaction that writes is still so, or a request that was in progress  *)
(* beside them has written since.                                          *)
(***************************************************************************)
Asks(n) == request[n].at = "reads" /\ (request[n].op # "pay turn" => request[n].amount \in Amounts)

(* A step in which no request for op does anything but come in or end.     *)
IdleFor(op) ==
  \A n \in Requests : SameOp(n, op)' => request'[n] = request[n] \/ request'[n].at \in Ended \/ Asks(n)'

ByRequest(row) == \E n \in Requests : row.by = <<"request", n>> /\ request[n].at = "done"
Beside(rows, n) == \E row \in rows : Overlapped(row.by[2], n)
InHand(n, op) == SameOp(n, op) /\ request[n].at \notin Ended

GoalRead(n) ==
  InHand(n, "contribute") =>
    /\ request[n].amount \in Amounts
    /\ request[n].at = "writes" => request[n].saw = savings.amount \/ Beside(contributions, n)

GoalInv ==
  /\ AmountsFit(contributions) /\ \A row \in contributions : ByRequest(row)
  /\ SomeOverlap(contributions) \/ savings.amount = Total(contributions)
  /\ \A n \in Requests : GoalRead(n)

LoanRead(n) ==
  InHand(n, "repay") =>
    /\ request[n].amount \in Amounts
    /\ request[n].at = "writes" =>
         (request[n].saw = loan.owed /\ request[n].amount <= loan.owed) \/ Beside(repayments, n)

DebtInv ==
  /\ AmountsFit(repayments) /\ \A row \in repayments : ByRequest(row)
  /\ SomeOverlap(repayments) \/ loan.owed = LoanAmount - Total(repayments)
  /\ \A n \in Requests : LoanRead(n)

(* A circle of several members remembers the turns paid until it starts    *)
(* over, which leaves it at a turn nobody has; one of one member never     *)
(* remembers any.                                                          *)
CircleFollows ==
  /\ 0 \notin Turns => circle.turn = 0 \/ \A row \in TurnsPaid : row.ref[2] \in circle.paid
  /\ \A turn \in circle.paid : Cardinality({row \in TurnsPaid : row.ref[2] = turn}) = 1

TurnRead(n) ==
  InHand(n, "pay turn") /\ request[n].at = "writes" =>
    /\ request[n].turn \in Turns
    /\ (request[n].turn = circle.turn /\ request[n].turn \notin circle.paid) \/ Beside(TurnsPaid, n)

CircleInv ==
  /\ \A row \in TurnsPaid : ByRequest(row)
  /\ SomeOverlap(TurnsPaid) \/ CircleFollows
  /\ \A n \in Requests : TurnRead(n)

(* A row is written by a request that is done with it, by the run whose    *)
(* row of Payroll it names, or by a retry that is completed; only requests *)
(* take anything, and from the sender.                                     *)
BySalary(row) ==
  /\ row.takes = 0 /\ row.type # "SPEND"
  /\ \/ row.by[1] = "job" /\ row.ref[2] \in DOMAIN records
     \/ row.by[1] = "retry" /\ row.by[2] \in DOMAIN retries /\ retries[row.by[2]].at = "completed"

RowFits(row) == (ByRequest(row) /\ (row.takes > 0 => row.user = Sender)) \/ BySalary(row)

SendRead(n) ==
  InHand(n, "transfer") \/ InHand(n, "remit") =>
    /\ request[n].amount \in Amounts
    /\ request[n].at = "books" => balance[Sender] >= Takes(request[n]) \/ Beside(DebitsOf(Sender), n)

BalancesFollow ==
  /\ balance \in [Users -> Int] /\ GivesAreWhole(entries)
  /\ \A u \in Users : /\ balance[u] = DeskOpening[u] + GivenTo(u, entries)
                      /\ balance[u] < 0 => SomeOverlap(DebitsOf(u))

BalanceInv ==
  /\ BalancesFollow
  /\ \A row \in entries : RowFits(row)
  /\ \A n \in Requests : SendRead(n)

DeskInv == BalanceInv /\ GoalInv /\ DebtInv /\ CircleInv

LEMMA DeskShows == DeskInv => DeskTotalsFollowRows
  BY DEF DeskInv, BalanceInv, BalancesFollow, GoalInv, DebtInv, CircleInv, CircleFollows, DeskTotalsFollowRows

LEMMA DeskStarts == Init => DeskInv
  <1> SUFFICES ASSUME Init PROVE DeskInv
    OBVIOUS
  <1>1. /\ balance = DeskOpening /\ entries = {} /\ contributions = {} /\ repayments = {}
        /\ savings.amount = 0 /\ loan.owed = LoanAmount /\ circle.paid = {}
    BY DEF Init, InitDesk, InitRoutes
  <1>2. \A n \in Requests : request[n] = NotYet
    BY DEF Init, InitHandlers
  <1>3. \A n \in Requests : \A op : ~InHand(n, op)
    BY <1>2 DEF InHand, SameOp
  <1>4. Total({}) = 0 /\ \A u : GivenTo(u, {}) = 0
    BY NothingAddsUp, GivenByNone DEF Total
  <1>5. AmountsFit({}) /\ GivesAreWhole({})
    BY FS_EmptySet DEF AmountsFit, GivesAreWhole
  <1>6. GoalInv
    <2>1. savings.amount = Total(contributions)
      BY <1>1, <1>4
    <2> QED BY <1>1, <1>3, <1>5, <2>1 DEF GoalInv, GoalRead
  <1>7. DebtInv
    <2>1. LoanAmount \in Nat
      BY AmountsAreWhole
    <2>2. loan.owed = LoanAmount - Total(repayments)
      BY <1>1, <1>4, <2>1
    <2> QED BY <1>1, <1>3, <1>5, <2>2 DEF DebtInv, LoanRead
  <1>8. CircleInv
    <2>1. TurnsPaid = {}
      BY <1>1 DEF TurnsPaid
    <2>2. CircleFollows
      BY <1>1, <2>1 DEF CircleFollows
    <2> QED BY <1>3, <2>1, <2>2 DEF CircleInv, TurnRead
  <1>9. BalanceInv
    <2>1. \A u \in Users : balance[u] \in Nat /\ balance[u] = DeskOpening[u]
      BY <1>1, DeskOpeningIsNatural
    <2>2. balance \in [Users -> Int]
      BY <1>1, DeskOpeningIsNatural
    <2>3. \A u \in Users : balance[u] = DeskOpening[u] + GivenTo(u, entries) /\ ~(balance[u] < 0)
      BY <1>1, <1>4, <2>1
    <2> QED BY <1>1, <1>3, <1>5, <2>2, <2>3 DEF BalanceInv, BalancesFollow, SendRead
  <1> QED BY <1>6, <1>7, <1>8, <1>9 DEF DeskInv

(***************************************************************************)
(* What a step leaves alone.                                               *)
(***************************************************************************)
LEMMA KillingIsIdle == ASSUME HandlerInv, Killing PROVE met \subseteq met' /\ DoneStay /\ \A op : IdleFor(op)
  <1>1. "done" \in Ended /\ "died" \in Ended
    BY DEF Ended
  <1> QED BY <1>1 DEF Killing, DoneStay, IdleFor, Busy

LEMMA OthersAreIdle ==
  ASSUME NEW ops, HandlerStep(ops), ops \cap RouteOps = {}
  PROVE  met \subseteq met' /\ DoneStay /\ \A op \in RouteOps : IdleFor(op)
  BY DoneStays DEF HandlerStep, IdleFor, SameOp

LEMMA ByRequestStays == ASSUME DoneStay, NEW row, ByRequest(row) PROVE ByRequest(row)'
  BY DEF ByRequest, DoneStay

LEMMA OverlapStays ==
  ASSUME met \subseteq met', NEW rows, NEW more, rows \subseteq more
  PROVE  /\ SomeOverlap(rows) => SomeOverlap(more)'
         /\ \A n : Beside(rows, n) => Beside(more, n)'
  BY DEF SomeOverlap, Beside, Overlapped

LEMMA SameInHand ==
  ASSUME NEW op, IdleFor(op), NEW n \in Requests, InHand(n, op)'
  PROVE  (request'[n] = request[n] /\ InHand(n, op)) \/ Asks(n)'
  BY DEF InHand, IdleFor, SameOp

(* The row a request in hand writes is new, and it is beside whatever is   *)
(* in hand with it.                                                        *)
LEMMA NewRowMeets ==
  ASSUME HandlerInv, met \subseteq met', NEW n \in Busy, NEW row, row.by = <<"request", n>>,
         NEW rows, \A r \in rows : ByRequest(r)
  PROVE  /\ row \notin rows
         /\ Beside(rows, n) => SomeOverlap(rows \cup {row})'
         /\ row.by[2] = n /\ \A m \in Busy \ {n} : {n, m} \in met'
  <1>0. row.by[2] = n
    OBVIOUS
  <1>1. request[n].at # "done" /\ row.by[2] = n
    BY <1>0 DEF Busy, Ended
  <1>2. \A r \in rows : \E m \in Requests : r.by = <<"request", m>> /\ r.by[2] = m /\ m # n /\ r.by # row.by
    <2> SUFFICES ASSUME NEW r \in rows PROVE \E m \in Requests : r.by = <<"request", m>> /\ r.by[2] = m /\ m # n /\ r.by # row.by
      OBVIOUS
    <2>1. PICK m \in Requests : r.by = <<"request", m>> /\ request[m].at = "done"
      BY DEF ByRequest
    <2>2. m # n
      BY <1>1, <2>1
    <2> QED BY <2>1, <2>2
  <1>3. row \notin rows
    BY <1>2
  <1>4. ASSUME Beside(rows, n) PROVE SomeOverlap(rows \cup {row})'
    <2>1. PICK r \in rows : Overlapped(r.by[2], n)
      BY <1>4 DEF Beside
    <2>2. Overlapped(r.by[2], row.by[2])' /\ r.by # row.by
      BY <1>1, <1>2, <2>1 DEF Overlapped
    <2> QED BY <2>2 DEF SomeOverlap
  <1>5. \A m \in Busy \ {n} : {n, m} \in met'
    BY DEF HandlerInv, BusyMet, Overlapped
  <1> QED BY <1>0, <1>3, <1>4, <1>5

(* The request n alone moves. *)
OneMoves(n) ==
  /\ n \in Busy /\ \A m \in Requests \ {n} : request'[m] = request[m]
  /\ request'[n] # NotYet /\ request'[n].op = request[n].op /\ met \subseteq met'

LEMMA OneMovesAlone ==
  ASSUME NEW n, OneMoves(n)
  PROVE  /\ DoneStay /\ n \in Requests
         /\ \A op : op # request[n].op \/ request'[n].at \in Ended => IdleFor(op)
  <1>1. n \in Requests /\ request[n].at # "done"
    BY DEF OneMoves, Busy, Ended
  <1> QED BY <1>1 DEF OneMoves, DoneStay, IdleFor, SameOp

LEMMA Finishes ==
  ASSUME HandlerInv, NEW n \in Busy, NEW at \in {"done", "refused"}, GoesTo(n, at)
  PROVE  OneMoves(n) /\ request'[n].at = at /\ at \in Ended
  <1>1. at # "not yet" /\ at \in Ended
    BY DEF Ended
  <1>2. met' = met
    BY DEF GoesTo, Becomes
  <1> QED BY <1>1, <1>2, GoingOn DEF OneMoves

LEMMA HasRead ==
  ASSUME HandlerInv, NEW n \in Busy, NEW r, r.op = request[n].op, r # NotYet, Becomes(n, r)
  PROVE  OneMoves(n) /\ request'[n] = r
  BY DEF OneMoves, Becomes, HandlerInv, RequestShape, Busy

LEMMA AskingIsIdle ==
  ASSUME HandlerInv, NEW r, RouteArrives(r), r.at = "reads", r.op # "pay turn" => r.amount \in Amounts
  PROVE  /\ UNCHANGED <<balance, entries, savings, contributions, loan, repayments, circle>>
         /\ met \subseteq met' /\ DoneStay /\ \A op : IdleFor(op)
  <1>1. PICK n \in Requests : request[n] = NotYet /\ request' = [request EXCEPT ![n] = r] /\ met \subseteq met'
    BY DEF RouteArrives, Arrives
  <1>2. request'[n] = r /\ \A m \in Requests \ {n} : request'[m] = request[m]
    BY <1>1 DEF HandlerInv, RequestShape
  <1>3. Asks(n)' /\ request[n].at # "done"
    BY <1>1, <1>2, NotYetEnded DEF Asks
  <1>4. UNCHANGED <<balance, entries, savings, contributions, loan, repayments, circle>>
    BY DEF RouteArrives, deskVars, routeVars
  <1> QED BY <1>1, <1>2, <1>3, <1>4 DEF DoneStay, IdleFor

(***************************************************************************)
(* The goal.                                                               *)
(***************************************************************************)
LEMMA GoalRests ==
  ASSUME GoalInv, met \subseteq met', DoneStay, IdleFor("contribute"), UNCHANGED <<savings, contributions>>
  PROVE  GoalInv'
  <1>1. \A row \in contributions' : ByRequest(row)'
    BY ByRequestStays DEF GoalInv
  <1>2. SomeOverlap(contributions) => SomeOverlap(contributions)'
    BY DEF SomeOverlap, Overlapped
  <1>3. ASSUME NEW n \in Requests PROVE GoalRead(n)'
    <2> SUFFICES ASSUME InHand(n, "contribute")'
                 PROVE  (/\ request[n].amount \in Amounts
                         /\ request[n].at = "writes" => request[n].saw = savings.amount \/ Beside(contributions, n))'
      BY DEF GoalRead
    <2>1. CASE Asks(n)'
      <3>1. request'[n].op = "contribute"
        BY DEF InHand, SameOp
      <3> QED BY <2>1, <3>1 DEF Asks
    <2>2. CASE request'[n] = request[n] /\ InHand(n, "contribute")
      <3>1. Beside(contributions, n) => Beside(contributions, n)'
        BY DEF Beside, Overlapped
      <3> QED BY <2>2, <3>1 DEF GoalInv, GoalRead
    <2> QED BY <2>1, <2>2, SameInHand
  <1> QED BY <1>1, <1>2, <1>3 DEF GoalInv

LEMMA GoalIsRead == ASSUME HandlerInv, GoalInv, NEW n \in Requests, ReadGoal(n) PROVE GoalInv'
  <1>1. n \in Busy /\ request[n].op = "contribute" /\ UNCHANGED <<savings, contributions>>
    BY IsBusy DEF ReadGoal, Ended, Decides, routeVars
  <1>2. CASE GoesTo(n, "refused")
    <2>1. OneMoves(n) /\ request'[n].at \in Ended
      BY <1>1, <1>2, Finishes
    <2>2. DoneStay /\ IdleFor("contribute") /\ met \subseteq met'
      BY <2>1, OneMovesAlone DEF OneMoves
    <2> QED BY <1>1, <2>2, GoalRests
  <1>3. CASE Becomes(n, [op |-> "contribute", at |-> "writes", amount |-> request[n].amount, saw |-> savings.amount])
    <2> PICK a, x : a = request[n].amount /\ x = savings.amount
      OBVIOUS
    <2> PICK r : r = [op |-> "contribute", at |-> "writes", amount |-> a, saw |-> x]
      OBVIOUS
    <2>0. r.op = "contribute" /\ r # NotYet /\ r.amount = a /\ r.saw = x
      BY DEF NotYet
    <2>1. OneMoves(n) /\ request'[n] = r
      BY <1>1, <1>3, <2>0, HasRead
    <2>2. DoneStay /\ met \subseteq met' /\ \A m \in Requests \ {n} : request'[m] = request[m]
      BY <2>1, OneMovesAlone DEF OneMoves
    <2>3. a \in Amounts
      <3>1. InHand(n, "contribute")
        BY <1>1, NotYetEnded DEF InHand, SameOp, Busy
      <3> QED BY <3>1 DEF GoalInv, GoalRead
    <2>4. GoalRead(n)'
      BY <1>1, <2>0, <2>1, <2>3 DEF GoalRead
    <2>5. ASSUME NEW m \in Requests \ {n} PROVE GoalRead(m)'
      <3>1. Beside(contributions, m) => Beside(contributions, m)'
        BY <1>1, <2>2 DEF Beside, Overlapped
      <3>2. GoalRead(m)
        BY DEF GoalInv
      <3> QED BY <1>1, <2>2, <3>1, <3>2 DEF GoalRead, InHand, SameOp
    <2>6. \A row \in contributions' : ByRequest(row)'
      BY <1>1, <2>2, ByRequestStays DEF GoalInv
    <2>7. SomeOverlap(contributions) => SomeOverlap(contributions)'
      BY <1>1, <2>2 DEF SomeOverlap, Overlapped
    <2> QED BY <1>1, <2>4, <2>5, <2>6, <2>7 DEF GoalInv
  <1> QED BY <1>2, <1>3 DEF ReadGoal, Decides

LEMMA GoalIsWritten == ASSUME HandlerInv, GoalInv, NEW n \in Requests, WriteGoal(n) PROVE GoalInv'
  <1>1. n \in Busy /\ request[n].op = "contribute" /\ request[n].at = "writes"
    BY IsBusy DEF WriteGoal, Ended
  <1>2. OneMoves(n) /\ request'[n].at = "done" /\ "done" \in Ended
    BY <1>1, Finishes DEF WriteGoal
  <1>3. DoneStay /\ n \in Requests /\ met \subseteq met' /\ \A m \in Requests \ {n} : request'[m] = request[m]
    BY <1>2, OneMovesAlone DEF OneMoves
  <1> PICK a, x, S : a = request[n].amount /\ x = request[n].saw /\ S = contributions
    OBVIOUS
  <1> PICK row : row = [by |-> <<"request", n>>, amount |-> a]
    OBVIOUS
  <1>4. a \in Amounts /\ (x = savings.amount \/ Beside(S, n))
    <2>1. InHand(n, "contribute")
      BY <1>1, NotYetEnded DEF InHand, SameOp, Busy
    <2> QED BY <1>1, <2>1 DEF GoalInv, GoalRead
  <1>5. contributions' = S \cup {row} /\ savings'.amount = x + a
    BY DEF WriteGoal
  <1>6. row.by = <<"request", n>> /\ row.amount = a /\ a \in Int
    BY <1>4, AmountsAreWhole
  <1>7. /\ row \notin S /\ (Beside(S, n) => SomeOverlap(S \cup {row})')
        /\ row.by[2] = n /\ \A m \in Busy \ {n} : {n, m} \in met'
    <2>1. \A s \in S : ByRequest(s)
      BY DEF GoalInv
    <2>2. n \in Busy /\ met \subseteq met' /\ row.by = <<"request", n>>
      BY <1>1, <1>3, <1>6
    <2> QED BY <2>1, <2>2, NewRowMeets
  <1>8. AmountsFit(S \cup {row}) /\ Total(S) \in Int /\ Total(S \cup {row}) = Total(S) + a
    <2>1. AmountsFit(S)
      BY DEF GoalInv
    <2> QED BY <1>6, <1>7, <2>1, TotalOfOneMore
  <1>9. \A s \in S \cup {row} : ByRequest(s)'
    <2>1. ByRequest(row)'
      BY <1>2, <1>3, <1>6 DEF ByRequest
    <2> QED BY <1>3, <2>1, ByRequestStays DEF GoalInv
  <1>10. SomeOverlap(S \cup {row})' \/ savings'.amount = Total(S \cup {row})
    <2>1. SomeOverlap(S) => SomeOverlap(S \cup {row})'
      BY <1>3, OverlapStays
    <2>2. CASE ~SomeOverlap(S) /\ ~Beside(S, n)
      <3>1. savings.amount = Total(S) /\ x = savings.amount
        BY <1>4, <2>2 DEF GoalInv
      <3> QED BY <1>5, <1>8, <3>1
    <2> QED BY <1>7, <2>1, <2>2
  <1>11. ASSUME NEW m \in Requests PROVE GoalRead(m)'
    <2>1. CASE m = n
      BY <1>2, <2>1 DEF GoalRead, InHand
    <2>2. CASE m # n
      <3> SUFFICES ASSUME InHand(m, "contribute")' PROVE request'[m].amount \in Amounts /\ Beside(contributions, m)'
        BY DEF GoalRead
      <3>1. InHand(m, "contribute") /\ m \in Busy /\ request'[m] = request[m]
        BY <1>3, <2>2 DEF InHand, SameOp, Busy
      <3>2. Beside(contributions, m)'
        BY <1>5, <1>7, <2>2, <3>1 DEF Beside, Overlapped
      <3> QED BY <3>1, <3>2 DEF GoalInv, GoalRead
    <2> QED BY <2>1, <2>2
  <1>12. SomeOverlap(S \cup {row})' => SomeOverlap(contributions)'
    BY <1>5 DEF SomeOverlap
  <1> QED BY <1>5, <1>8, <1>9, <1>10, <1>11, <1>12 DEF GoalInv

(***************************************************************************)
(* The loan.                                                               *)
(***************************************************************************)
LEMMA DebtRests ==
  ASSUME DebtInv, met \subseteq met', DoneStay, IdleFor("repay"), UNCHANGED <<loan, repayments>>
  PROVE  DebtInv'
  <1>1. \A row \in repayments' : ByRequest(row)'
    BY ByRequestStays DEF DebtInv
  <1>2. SomeOverlap(repayments) => SomeOverlap(repayments)'
    BY DEF SomeOverlap, Overlapped
  <1>3. ASSUME NEW n \in Requests PROVE LoanRead(n)'
    <2> SUFFICES ASSUME InHand(n, "repay")'
                 PROVE  (/\ request[n].amount \in Amounts
                         /\ request[n].at = "writes" =>
                              (request[n].saw = loan.owed /\ request[n].amount <= loan.owed) \/ Beside(repayments, n))'
      BY DEF LoanRead
    <2>1. CASE Asks(n)'
      <3>1. request'[n].op = "repay"
        BY DEF InHand, SameOp
      <3> QED BY <2>1, <3>1 DEF Asks
    <2>2. CASE request'[n] = request[n] /\ InHand(n, "repay")
      <3>1. Beside(repayments, n) => Beside(repayments, n)'
        BY DEF Beside, Overlapped
      <3> QED BY <2>2, <3>1 DEF DebtInv, LoanRead
    <2> QED BY <2>1, <2>2, SameInHand
  <1> QED BY <1>1, <1>2, <1>3 DEF DebtInv

LEMMA LoanIsRead == ASSUME HandlerInv, DebtInv, NEW n \in Requests, ReadLoan(n) PROVE DebtInv'
  <1>1. n \in Busy /\ request[n].op = "repay" /\ UNCHANGED <<loan, repayments>>
    BY IsBusy DEF ReadLoan, Ended, Decides, routeVars
  <1>2. CASE GoesTo(n, "refused")
    <2>1. OneMoves(n) /\ request'[n].at \in Ended
      BY <1>1, <1>2, Finishes
    <2>2. DoneStay /\ IdleFor("repay") /\ met \subseteq met'
      BY <2>1, OneMovesAlone DEF OneMoves
    <2> QED BY <1>1, <2>2, DebtRests
  <1>3. CASE /\ WithinOwed(request[n].amount)
             /\ Becomes(n, [op |-> "repay", at |-> "writes", amount |-> request[n].amount, saw |-> loan.owed])
    <2> PICK a, x : a = request[n].amount /\ x = loan.owed
      OBVIOUS
    <2> PICK r : r = [op |-> "repay", at |-> "writes", amount |-> a, saw |-> x]
      OBVIOUS
    <2>0. r.op = "repay" /\ r # NotYet /\ r.amount = a /\ r.saw = x
      BY DEF NotYet
    <2>1. OneMoves(n) /\ request'[n] = r
      BY <1>1, <1>3, <2>0, HasRead
    <2>2. DoneStay /\ met \subseteq met' /\ \A m \in Requests \ {n} : request'[m] = request[m]
      BY <2>1, OneMovesAlone DEF OneMoves
    <2>3. a \in Amounts
      <3>1. InHand(n, "repay")
        BY <1>1, NotYetEnded DEF InHand, SameOp, Busy
      <3> QED BY <3>1 DEF DebtInv, LoanRead
    <2>4. LoanRead(n)'
      BY <1>1, <1>3, <2>0, <2>1, <2>3 DEF LoanRead, WithinOwed
    <2>5. ASSUME NEW m \in Requests \ {n} PROVE LoanRead(m)'
      <3>1. Beside(repayments, m) => Beside(repayments, m)'
        BY <1>1, <2>2 DEF Beside, Overlapped
      <3>2. LoanRead(m)
        BY DEF DebtInv
      <3> QED BY <1>1, <2>2, <3>1, <3>2 DEF LoanRead, InHand, SameOp
    <2>6. \A row \in repayments' : ByRequest(row)'
      BY <1>1, <2>2, ByRequestStays DEF DebtInv
    <2>7. SomeOverlap(repayments) => SomeOverlap(repayments)'
      BY <1>1, <2>2 DEF SomeOverlap, Overlapped
    <2> QED BY <1>1, <2>4, <2>5, <2>6, <2>7 DEF DebtInv
  <1> QED BY <1>2, <1>3 DEF ReadLoan, Decides

LEMMA WhatIsLeft ==
  ASSUME NEW a \in Nat, NEW t \in Int, NEW l \in Nat, a <= l - t
  PROVE  (IF l - t - a > 0 THEN l - t - a ELSE 0) = l - (t + a)
  OBVIOUS

LEMMA LoanIsWritten == ASSUME HandlerInv, DebtInv, NEW n \in Requests, WriteLoan(n) PROVE DebtInv'
  <1>1. n \in Busy /\ request[n].op = "repay" /\ request[n].at = "writes"
    BY IsBusy DEF WriteLoan, Ended
  <1>2. OneMoves(n) /\ request'[n].at = "done" /\ "done" \in Ended
    BY <1>1, Finishes DEF WriteLoan
  <1>3. DoneStay /\ n \in Requests /\ met \subseteq met' /\ \A m \in Requests \ {n} : request'[m] = request[m]
    BY <1>2, OneMovesAlone DEF OneMoves
  <1> PICK a, x, S : a = request[n].amount /\ x = request[n].saw /\ S = repayments
    OBVIOUS
  <1> PICK row : row = [by |-> <<"request", n>>, amount |-> a]
    OBVIOUS
  <1>4. a \in Amounts /\ ((x = loan.owed /\ a <= loan.owed) \/ Beside(S, n))
    <2>1. InHand(n, "repay")
      BY <1>1, NotYetEnded DEF InHand, SameOp, Busy
    <2> QED BY <1>1, <2>1 DEF DebtInv, LoanRead
  <1>5. repayments' = S \cup {row} /\ loan'.owed = IF x - a > 0 THEN x - a ELSE 0
    BY DEF WriteLoan
  <1>6. row.by = <<"request", n>> /\ row.amount = a /\ a \in Nat /\ row.amount \in Int
    BY <1>4, AmountsAreWhole
  <1>7. /\ row \notin S /\ (Beside(S, n) => SomeOverlap(S \cup {row})')
        /\ row.by[2] = n /\ \A m \in Busy \ {n} : {n, m} \in met'
    <2>1. \A s \in S : ByRequest(s)
      BY DEF DebtInv
    <2>2. n \in Busy /\ met \subseteq met' /\ row.by = <<"request", n>>
      BY <1>1, <1>3, <1>6
    <2> QED BY <2>1, <2>2, NewRowMeets
  <1>8. AmountsFit(S \cup {row}) /\ Total(S) \in Int /\ Total(S \cup {row}) = Total(S) + a
    BY <1>6, <1>7, TotalOfOneMore DEF DebtInv
  <1>9. \A s \in S \cup {row} : ByRequest(s)'
    <2>1. ByRequest(row)'
      BY <1>2, <1>3, <1>6 DEF ByRequest
    <2> QED BY <1>3, <2>1, ByRequestStays DEF DebtInv
  <1>10. SomeOverlap(S \cup {row})' \/ loan'.owed = LoanAmount - Total(S \cup {row})
    <2>1. SomeOverlap(S) => SomeOverlap(S \cup {row})'
      BY <1>3, OverlapStays
    <2>2. CASE ~SomeOverlap(S) /\ ~Beside(S, n)
      <3>1. loan.owed = LoanAmount - Total(S) /\ x = loan.owed /\ a <= x
        BY <1>4, <2>2 DEF DebtInv
      <3>2. x = LoanAmount - Total(S) /\ a <= LoanAmount - Total(S) /\ LoanAmount \in Nat
        BY <3>1, AmountsAreWhole
      <3>3. loan'.owed = LoanAmount - (Total(S) + a)
        BY <1>5, <1>6, <1>8, <3>2, WhatIsLeft
      <3> QED BY <1>8, <3>3
    <2> QED BY <1>7, <2>1, <2>2
  <1>11. ASSUME NEW m \in Requests PROVE LoanRead(m)'
    <2>1. CASE m = n
      BY <1>2, <2>1 DEF LoanRead, InHand
    <2>2. CASE m # n
      <3> SUFFICES ASSUME InHand(m, "repay")' PROVE request'[m].amount \in Amounts /\ Beside(repayments, m)'
        BY DEF LoanRead
      <3>1. InHand(m, "repay") /\ m \in Busy /\ request'[m] = request[m]
        BY <1>3, <2>2 DEF InHand, SameOp, Busy
      <3>2. Beside(repayments, m)'
        BY <1>5, <1>7, <2>2, <3>1 DEF Beside, Overlapped
      <3> QED BY <3>1, <3>2 DEF DebtInv, LoanRead
    <2> QED BY <2>1, <2>2
  <1>12. SomeOverlap(S \cup {row})' => SomeOverlap(repayments)'
    BY <1>5 DEF SomeOverlap
  <1> QED BY <1>5, <1>8, <1>9, <1>10, <1>11, <1>12 DEF DebtInv

(***************************************************************************)
(* The circle.                                                             *)
(***************************************************************************)
LEMMA CircleRests ==
  ASSUME CircleInv, met \subseteq met', DoneStay, IdleFor("pay turn"), UNCHANGED <<circle, TurnsPaid>>
  PROVE  CircleInv'
  <1>1. \A row \in TurnsPaid' : ByRequest(row)'
    BY ByRequestStays DEF CircleInv
  <1>2. SomeOverlap(TurnsPaid) => SomeOverlap(TurnsPaid)'
    BY DEF SomeOverlap, Overlapped
  <1>3. CircleFollows => CircleFollows'
    BY DEF CircleFollows
  <1>4. ASSUME NEW n \in Requests PROVE TurnRead(n)'
    <2> SUFFICES ASSUME InHand(n, "pay turn")', request'[n].at = "writes"
                 PROVE  /\ request'[n].turn \in Turns
                        /\ (request'[n].turn = circle.turn /\ request'[n].turn \notin circle.paid) \/ Beside(TurnsPaid, n)'
      BY DEF TurnRead
    <2>1. ~Asks(n)'
      BY DEF Asks
    <2>2. request'[n] = request[n] /\ InHand(n, "pay turn")
      BY <2>1, SameInHand
    <2>3. Beside(TurnsPaid, n) => Beside(TurnsPaid, n)'
      BY DEF Beside, Overlapped
    <2> QED BY <2>2, <2>3 DEF CircleInv, TurnRead
  <1> QED BY <1>1, <1>2, <1>3, <1>4 DEF CircleInv

LEMMA CircleIsRead ==
  ASSUME HandlerInv, CircleInv, NEW n \in Requests, ReadCircle(n), UNCHANGED entries PROVE CircleInv'
  <1>1. n \in Busy /\ request[n].op = "pay turn" /\ UNCHANGED <<circle, TurnsPaid>>
    BY IsBusy DEF ReadCircle, Ended, Decides, routeVars, TurnsPaid
  <1>2. CASE GoesTo(n, "refused")
    <2>1. OneMoves(n) /\ request'[n].at \in Ended
      BY <1>1, <1>2, Finishes
    <2>2. DoneStay /\ IdleFor("pay turn") /\ met \subseteq met'
      BY <2>1, OneMovesAlone DEF OneMoves
    <2> QED BY <1>1, <2>2, CircleRests
  <1>3. CASE /\ circle.turn \in Turns \ circle.paid
             /\ Becomes(n, [op |-> "pay turn", at |-> "writes", turn |-> circle.turn])
    <2> PICK t : t = circle.turn
      OBVIOUS
    <2> PICK r : r = [op |-> "pay turn", at |-> "writes", turn |-> t]
      OBVIOUS
    <2>0. r.op = "pay turn" /\ r # NotYet /\ r.turn = t
      BY DEF NotYet
    <2>1. OneMoves(n) /\ request'[n] = r
      BY <1>1, <1>3, <2>0, HasRead
    <2>2. DoneStay /\ met \subseteq met' /\ \A m \in Requests \ {n} : request'[m] = request[m]
      BY <2>1, OneMovesAlone DEF OneMoves
    <2>3. TurnRead(n)'
      BY <1>1, <1>3, <2>0, <2>1 DEF TurnRead
    <2>4. ASSUME NEW m \in Requests \ {n} PROVE TurnRead(m)'
      <3>1. Beside(TurnsPaid, m) => Beside(TurnsPaid, m)'
        BY <1>1, <2>2 DEF Beside, Overlapped
      <3>2. TurnRead(m)
        BY DEF CircleInv
      <3> QED BY <1>1, <2>2, <3>1, <3>2 DEF TurnRead, InHand, SameOp
    <2>5. \A row \in TurnsPaid' : ByRequest(row)'
      BY <1>1, <2>2, ByRequestStays DEF CircleInv
    <2>6. SomeOverlap(TurnsPaid) => SomeOverlap(TurnsPaid)'
      BY <1>1, <2>2 DEF SomeOverlap, Overlapped
    <2>7. CircleFollows => CircleFollows'
      BY <1>1 DEF CircleFollows
    <2> QED BY <2>3, <2>4, <2>5, <2>6, <2>7 DEF CircleInv
  <1> QED BY <1>2, <1>3 DEF ReadCircle, Decides

(* The circle of one member starts over at once. *)
LEMMA OneMember == Turns = {0} => (0 + 1) % Cardinality(Turns) = 0
  <1>1. Cardinality({0}) = 1
    BY FS_Singleton
  <1>2. (0 + 1) % 1 = 0
    OBVIOUS
  <1> QED BY <1>1, <1>2

LEMMA CircleIsWritten == ASSUME HandlerInv, CircleInv, NEW n \in Requests, WriteCircle(n) PROVE CircleInv'
  <1>1. n \in Busy /\ request[n].op = "pay turn" /\ request[n].at = "writes"
    BY IsBusy DEF WriteCircle, Ended
  <1>2. OneMoves(n) /\ request'[n].at = "done" /\ "done" \in Ended
    BY <1>1, Finishes DEF WriteCircle
  <1>3. DoneStay /\ n \in Requests /\ met \subseteq met' /\ \A m \in Requests \ {n} : request'[m] = request[m]
    BY <1>2, OneMovesAlone DEF OneMoves
  <1>0. PICK t, next, paid, S : /\ t = request[n].turn /\ next = (request[n].turn + 1) % Cardinality(Turns)
                                /\ paid = circle.paid /\ S = TurnsPaid
    OBVIOUS
  <1>12. PICK row : row = Entry(<<"request", n>>, Sender, "SPEND", 0, 0, <<"turn", t>>)
    OBVIOUS
  <1>4. t \in Turns /\ ((t = circle.turn /\ t \notin paid) \/ Beside(S, n))
    <2>1. InHand(n, "pay turn")
      BY <1>1, NotYetEnded DEF InHand, SameOp, Busy
    <2> QED BY <1>0, <1>1, <2>1 DEF CircleInv, TurnRead
  <1>5. row.by = <<"request", n>> /\ row.type = "SPEND" /\ row.ref[2] = t
    BY <1>12 DEF Entry
  <1>6. TurnsPaid' = S \cup {row} /\ circle'.turn = next /\ circle'.paid = IF next = 0 THEN {} ELSE paid \cup {t}
    <2>1. entries' = entries \cup {row}
      BY <1>0, <1>12 DEF WriteCircle
    <2>2. TurnsPaid' = S \cup {row}
      BY <1>0, <1>5, <2>1 DEF TurnsPaid
    <2> QED BY <1>0, <2>2 DEF WriteCircle
  <1>7. /\ row \notin S /\ (Beside(S, n) => SomeOverlap(S \cup {row})')
        /\ row.by[2] = n /\ \A m \in Busy \ {n} : {n, m} \in met'
    <2>1. \A s \in S : ByRequest(s)
      BY <1>0 DEF CircleInv
    <2>2. n \in Busy /\ met \subseteq met' /\ row.by = <<"request", n>>
      BY <1>1, <1>3, <1>5
    <2> QED BY <2>1, <2>2, NewRowMeets
  <1>8. \A s \in S \cup {row} : ByRequest(s)'
    <2>1. ByRequest(row)'
      BY <1>2, <1>3, <1>5 DEF ByRequest
    <2> QED BY <1>0, <1>3, <2>1, ByRequestStays DEF CircleInv
  <1>9. SomeOverlap(S \cup {row})' \/ CircleFollows'
    <2>1. SomeOverlap(S) => SomeOverlap(S \cup {row})'
      BY <1>3, OverlapStays
    <2>2. CASE ~SomeOverlap(S) /\ ~Beside(S, n)
      <3>1. CircleFollows /\ t = circle.turn /\ t \notin paid
        BY <1>0, <1>4, <2>2 DEF CircleInv
      <3>2. CASE next = 0
        BY <1>6, <3>2 DEF CircleFollows
      <3>3. CASE next # 0
        <4>1. 0 \notin Turns
          <5>1. Turns = {0} => t = 0
            BY <1>4
          <5>2. Turns # {0}
            BY <1>0, <3>3, <5>1, OneMember
          <5> QED BY <5>2, TurnsAreAssigned
        <4>2. \A s \in S : s.ref[2] \in paid
          <5>1. t # 0
            BY <1>4, <4>1
          <5> QED BY <1>0, <3>1, <4>1, <5>1 DEF CircleFollows
        <4>3. circle'.paid = paid \cup {t} /\ \A s \in TurnsPaid' : s.ref[2] \in circle'.paid
          BY <1>5, <1>6, <3>3, <4>2
        <4>4. ASSUME NEW u \in circle'.paid PROVE Cardinality({s \in TurnsPaid' : s.ref[2] = u}) = 1
          <5>1. CASE u = t
            <6>1. {s \in TurnsPaid' : s.ref[2] = u} = {row}
              BY <1>5, <1>6, <3>1, <4>2, <5>1
            <6> QED BY <6>1, FS_Singleton
          <5>2. CASE u # t
            <6>1. {s \in TurnsPaid' : s.ref[2] = u} = {s \in TurnsPaid : s.ref[2] = u} /\ u \in paid
              BY <1>0, <1>5, <1>6, <4>3, <5>2
            <6> QED BY <1>0, <3>1, <6>1 DEF CircleFollows
          <5> QED BY <5>1, <5>2
        <4> QED BY <4>3, <4>4 DEF CircleFollows
      <3> QED BY <3>2, <3>3
    <2> QED BY <1>7, <2>1, <2>2
  <1>10. ASSUME NEW m \in Requests PROVE TurnRead(m)'
    <2>1. CASE m = n
      BY <1>2, <2>1 DEF TurnRead, InHand
    <2>2. CASE m # n
      <3> SUFFICES ASSUME InHand(m, "pay turn")', request'[m].at = "writes"
                   PROVE  request'[m].turn \in Turns /\ Beside(TurnsPaid, m)'
        BY DEF TurnRead
      <3>1. InHand(m, "pay turn") /\ m \in Busy /\ request'[m] = request[m]
        BY <1>3, <2>2 DEF InHand, SameOp, Busy
      <3>2. Beside(TurnsPaid, m)'
        BY <1>6, <1>7, <2>2, <3>1 DEF Beside, Overlapped
      <3> QED BY <3>1, <3>2 DEF CircleInv, TurnRead
    <2> QED BY <2>1, <2>2
  <1>11. SomeOverlap(S \cup {row})' => SomeOverlap(TurnsPaid)'
    BY <1>6 DEF SomeOverlap
  <1> QED BY <1>6, <1>8, <1>9, <1>10, <1>11 DEF CircleInv

(***************************************************************************)
(* The balances.                                                           *)
(***************************************************************************)
(* Every balance is what its rows made of it. *)
AddsUp == balance \in [Users -> Int] /\ GivesAreWhole(entries) /\ \A u \in Users : balance[u] = DeskOpening[u] + GivenTo(u, entries)

LEMMA OpeningIsWhole == \A u \in Users : DeskOpening[u] \in Nat
  BY DeskOpeningIsNatural

LEMMA RowAddsUp ==
  ASSUME AddsUp, NEW x, x \notin entries, Gives(x) \in Int, entries' = entries \cup {x},
         balance' \in [Users -> Int],
         \A u \in Users : balance'[u] = IF x.user = u THEN balance[u] + Gives(x) ELSE balance[u]
  PROVE  AddsUp'
  <1>0. PICK S : S = entries
    OBVIOUS
  <1>1. GivesAreWhole(S) /\ x \notin S /\ entries' = S \cup {x} /\ \A u \in Users : balance[u] = DeskOpening[u] + GivenTo(u, S)
    BY <1>0 DEF AddsUp
  <1>2. GivesAreWhole(S \cup {x})
    BY <1>1, GivenByOneMore
  <1>3. ASSUME NEW u \in Users PROVE balance'[u] = DeskOpening[u] + GivenTo(u, S \cup {x})
    <2>1. /\ GivenTo(u, S) \in Int
          /\ GivenTo(u, S \cup {x}) = IF x.user = u THEN GivenTo(u, S) + Gives(x) ELSE GivenTo(u, S)
      BY <1>1, GivenByOneMore
    <2>2. DeskOpening[u] \in Nat /\ balance[u] = DeskOpening[u] + GivenTo(u, S)
      BY <1>1, OpeningIsWhole
    <2>3. CASE x.user = u
      <3>1. balance'[u] = balance[u] + Gives(x)
        BY <2>3
      <3> QED BY <2>1, <2>2, <2>3, <3>1
    <2>4. CASE x.user # u
      <3>1. balance'[u] = balance[u]
        BY <2>4
      <3> QED BY <2>1, <2>2, <2>4, <3>1
    <2> QED BY <2>3, <2>4
  <1> QED BY <1>1, <1>2, <1>3 DEF AddsUp

LEMMA GivenByOne ==
  ASSUME NEW x, Gives(x) \in Int, NEW u
  PROVE  GivenTo(u, {x}) = IF x.user = u THEN Gives(x) ELSE 0
  <1>0. PICK none : none = {}
    OBVIOUS
  <1>1. GivesAreWhole(none) /\ x \notin none /\ none \cup {x} = {x}
    BY <1>0, FS_EmptySet DEF GivesAreWhole
  <1>2. GivenTo(u, none \cup {x}) = IF x.user = u THEN GivenTo(u, none) + Gives(x) ELSE GivenTo(u, none)
    BY <1>1, GivenByOneMore
  <1>3. GivenTo(u, none) = 0
    BY <1>0, GivenByNone
  <1>4. GivenTo(u, none \cup {x}) = GivenTo(u, {x})
    BY <1>1, Zenon
  <1>5. CASE x.user = u
    BY <1>2, <1>3, <1>4, <1>5
  <1>6. CASE x.user # u
    BY <1>2, <1>3, <1>4, <1>6
  <1> QED BY <1>5, <1>6

LEMMA BookedOne ==
  ASSUME AddsUp, NEW x, x \notin entries, Gives(x) \in Int, Books({x})
  PROVE  /\ AddsUp' /\ entries' = entries \cup {x}
         /\ \A u \in Users : balance'[u] = IF x.user = u THEN balance[u] + Gives(x) ELSE balance[u]
  <1>1. entries' = entries \cup {x} /\ balance' = [u \in Users |-> balance[u] + GivenTo(u, {x})]
    BY DEF Books
  <1>2. ASSUME NEW u \in Users
        PROVE  balance'[u] \in Int /\ balance'[u] = IF x.user = u THEN balance[u] + Gives(x) ELSE balance[u]
    <2>1. balance[u] \in Int /\ balance'[u] = balance[u] + GivenTo(u, {x})
      BY <1>1 DEF AddsUp
    <2>2. GivenTo(u, {x}) = IF x.user = u THEN Gives(x) ELSE 0
      BY GivenByOne
    <2>3. CASE x.user = u
      BY <2>1, <2>2, <2>3
    <2>4. CASE x.user # u
      BY <2>1, <2>2, <2>4
    <2> QED BY <2>3, <2>4
  <1>3. balance' \in [Users -> Int]
    BY <1>1, <1>2
  <1>4. AddsUp'
    BY <1>1, <1>2, <1>3, RowAddsUp
  <1> QED BY <1>1, <1>2, <1>4

(* Two rows of two users. *)
LEMMA BookedTwo ==
  ASSUME AddsUp, NEW x, NEW y, x \notin entries, y \notin entries, x.user # y.user,
         Gives(x) \in Int, Gives(y) \in Int, Books({x, y})
  PROVE  /\ AddsUp' /\ entries' = entries \cup {x, y}
         /\ \A u \in Users : balance'[u] = IF x.user = u THEN balance[u] + Gives(x)
                                           ELSE IF y.user = u THEN balance[u] + Gives(y) ELSE balance[u]
  <1>0. PICK S, two : S = entries /\ two = {x, y}
    OBVIOUS
  <1>1. /\ entries' = S \cup {x, y} /\ balance' = [u \in Users |-> balance[u] + GivenTo(u, two)]
        /\ GivesAreWhole(S) /\ \A u \in Users : balance[u] = DeskOpening[u] + GivenTo(u, S) /\ balance[u] \in Int
    BY <1>0 DEF Books, AddsUp
  <1>2. GivesAreWhole({x}) /\ y \notin {x} /\ {x} \cup {y} = two
    BY <1>0, FS_Singleton DEF GivesAreWhole
  <1>3. \A u : GivenTo(u, two) = IF x.user = u THEN Gives(x) ELSE IF y.user = u THEN Gives(y) ELSE 0
    <2> SUFFICES ASSUME NEW u
                 PROVE  GivenTo(u, two) = IF x.user = u THEN Gives(x) ELSE IF y.user = u THEN Gives(y) ELSE 0
      OBVIOUS
    <2>1. GivenTo(u, two) = IF y.user = u THEN GivenTo(u, {x}) + Gives(y) ELSE GivenTo(u, {x})
      BY <1>2, GivenByOneMore
    <2>2. GivenTo(u, {x}) = IF x.user = u THEN Gives(x) ELSE 0
      BY GivenByOne
    <2>3. CASE x.user = u
      BY <2>1, <2>2, <2>3
    <2>4. CASE x.user # u /\ y.user = u
      BY <2>1, <2>2, <2>4
    <2>5. CASE x.user # u /\ y.user # u
      BY <2>1, <2>2, <2>5
    <2> QED BY <2>3, <2>4, <2>5
  <1>4. PICK T : T = S \cup {x}
    OBVIOUS
  <1>5. x \notin S /\ y \notin T /\ T \cup {y} = S \cup {x, y}
    BY <1>0, <1>4
  <1>6. GivesAreWhole(T)
    BY <1>1, <1>4, <1>5, GivenByOneMore
  <1>7. GivesAreWhole(T \cup {y})
    BY <1>5, <1>6, GivenByOneMore
  <1>8. ASSUME NEW u \in Users
        PROVE  /\ balance'[u] \in Int /\ balance'[u] = DeskOpening[u] + GivenTo(u, T \cup {y})
               /\ balance'[u] = IF x.user = u THEN balance[u] + Gives(x)
                                ELSE IF y.user = u THEN balance[u] + Gives(y) ELSE balance[u]
    <2>1. /\ GivenTo(u, S) \in Int
          /\ GivenTo(u, T) = IF x.user = u THEN GivenTo(u, S) + Gives(x) ELSE GivenTo(u, S)
      BY <1>1, <1>4, <1>5, GivenByOneMore
    <2>2. GivenTo(u, T \cup {y}) = IF y.user = u THEN GivenTo(u, T) + Gives(y) ELSE GivenTo(u, T)
      BY <1>5, <1>6, GivenByOneMore
    <2>3. /\ DeskOpening[u] \in Nat /\ balance[u] = DeskOpening[u] + GivenTo(u, S) /\ balance[u] \in Int
          /\ balance'[u] = balance[u] + GivenTo(u, two)
      BY <1>1, OpeningIsWhole
    <2>4. CASE x.user = u
      <3>1. balance'[u] = balance[u] + Gives(x) /\ GivenTo(u, T \cup {y}) = GivenTo(u, S) + Gives(x)
        BY <1>3, <2>1, <2>2, <2>3, <2>4
      <3> QED BY <2>1, <2>3, <2>4, <3>1
    <2>5. CASE x.user # u /\ y.user = u
      <3>1. balance'[u] = balance[u] + Gives(y) /\ GivenTo(u, T \cup {y}) = GivenTo(u, S) + Gives(y)
        BY <1>3, <2>1, <2>2, <2>3, <2>5
      <3> QED BY <2>1, <2>3, <2>5, <3>1
    <2>6. CASE x.user # u /\ y.user # u
      <3>1. balance'[u] = balance[u] /\ GivenTo(u, T \cup {y}) = GivenTo(u, S)
        BY <1>3, <2>1, <2>2, <2>3, <2>6
      <3> QED BY <2>1, <2>3, <2>6, <3>1
    <2> QED BY <2>4, <2>5, <2>6
  <1>9. balance' \in [Users -> Int]
    BY <1>1, <1>8
  <1> QED BY <1>0, <1>1, <1>5, <1>7, <1>8, <1>9 DEF AddsUp

LEMMA EntryFields ==
  ASSUME NEW by, NEW user, NEW type, NEW takes \in Nat, NEW gives \in Nat, NEW ref, NEW row,
         row = Entry(by, user, type, takes, gives, ref)
  PROVE  /\ row.by = by /\ row.user = user /\ row.type = type /\ row.takes = takes /\ row.gives = gives
         /\ row.ref = ref /\ Gives(row) = gives - takes /\ Gives(row) \in Int
  BY DEF Entry, Gives

Overdrawn == \A u \in Users : balance[u] < 0 => SomeOverlap(DebitsOf(u))
RowsFit == \A row \in entries : RowFits(row)
SendsRead == \A n \in Requests : SendRead(n)

LEMMA BalanceParts == BalanceInv <=> AddsUp /\ Overdrawn /\ RowsFit /\ SendsRead
  BY DEF BalanceInv, BalancesFollow, AddsUp, Overdrawn, RowsFit, SendsRead

RowsStand == DoneStay /\ DOMAIN records \subseteq DOMAIN records' /\ RetriesKept

LEMMA RowStillFits == ASSUME RowsStand, NEW row, RowFits(row) PROVE RowFits(row)'
  <1>1. ByRequest(row) => ByRequest(row)'
    BY ByRequestStays DEF RowsStand
  <1>2. BySalary(row) => BySalary(row)'
    BY DEF BySalary, RowsStand, RetriesKept
  <1> QED BY <1>1, <1>2 DEF RowFits

LEMMA DebitsAreRequests ==
  ASSUME RowsFit, NEW u PROVE \A row \in DebitsOf(u) : ByRequest(row) /\ u = Sender
  BY DEF RowsFit, RowFits, BySalary, DebitsOf

(* What a transfer has read stays so while the sender's balance does not   *)
(* fall.                                                                   *)
LEMMA SendStays ==
  ASSUME AddsUp, AddsUp', met \subseteq met', entries \subseteq entries', balance'[Sender] >= balance[Sender],
         NEW n \in Requests, request'[n] = request[n], SendRead(n)
  PROVE  SendRead(n)'
  <1> SUFFICES ASSUME InHand(n, "transfer") \/ InHand(n, "remit")
               PROVE  /\ request[n].amount \in Amounts
                      /\ request[n].at = "books" => balance'[Sender] >= Takes(request[n]) \/ Beside(DebitsOf(Sender), n)'
    BY DEF SendRead, InHand, SameOp
  <1>1. /\ request[n].amount \in Amounts
        /\ request[n].at = "books" => balance[Sender] >= Takes(request[n]) \/ Beside(DebitsOf(Sender), n)
    BY DEF SendRead
  <1>2. Takes(request[n]) \in Int
    BY <1>1, AmountsAreWhole DEF Takes
  <1>3. balance[Sender] \in Int /\ balance'[Sender] \in Int
    BY SenderIsUser DEF AddsUp
  <1>4. balance[Sender] >= Takes(request[n]) => balance'[Sender] >= Takes(request[n])
    <2> PICK b, c, t : b = balance[Sender] /\ c = balance'[Sender] /\ t = Takes(request[n])
      OBVIOUS
    <2> QED BY <1>2, <1>3
  <1>5. Beside(DebitsOf(Sender), n) => Beside(DebitsOf(Sender), n)'
    BY DEF Beside, DebitsOf, Overlapped
  <1> QED BY <1>1, <1>4, <1>5

LEMMA SendsRest ==
  ASSUME AddsUp, AddsUp', SendsRead, met \subseteq met', entries \subseteq entries', balance'[Sender] >= balance[Sender],
         IdleFor("transfer"), IdleFor("remit")
  PROVE  SendsRead'
  <1>1. ASSUME NEW n \in Requests PROVE SendRead(n)'
    <2>1. CASE request'[n] = request[n]
      BY <2>1, SendStays DEF SendsRead
    <2>2. CASE request'[n] # request[n]
      <3> SUFFICES ASSUME (InHand(n, "transfer") \/ InHand(n, "remit"))'
                   PROVE  (request[n].amount \in Amounts /\ request[n].at # "books")'
        BY DEF SendRead
      <3>1. Asks(n)' /\ request'[n].op \in {"transfer", "remit"}
        BY <2>2, SameInHand DEF InHand, SameOp
      <3> QED BY <3>1 DEF Asks
    <2> QED BY <2>1, <2>2
  <1> QED BY <1>1 DEF SendsRead

(* Nothing is taken. *)
LEMMA NothingTaken ==
  ASSUME AddsUp, AddsUp', Overdrawn, met \subseteq met', entries \subseteq entries', \A u \in Users : balance'[u] >= balance[u]
  PROVE  Overdrawn'
  <1> SUFFICES ASSUME NEW u \in Users, balance'[u] < 0 PROVE SomeOverlap(DebitsOf(u))'
    BY DEF Overdrawn
  <1>1. balance[u] \in Int /\ balance'[u] \in Int /\ balance'[u] >= balance[u]
    BY DEF AddsUp
  <1>2. balance[u] < 0
    BY <1>1
  <1>3. SomeOverlap(DebitsOf(u))
    BY <1>2 DEF Overdrawn
  <1> QED BY <1>3 DEF SomeOverlap, DebitsOf, Overlapped

LEMMA BalanceRests ==
  ASSUME BalanceInv, met \subseteq met', RowsStand, IdleFor("transfer"), IdleFor("remit"), UNCHANGED <<balance, entries>>
  PROVE  BalanceInv'
  <1>1. AddsUp /\ Overdrawn /\ RowsFit /\ SendsRead
    BY BalanceParts
  <1>2. AddsUp' /\ entries \subseteq entries'
    BY <1>1 DEF AddsUp
  <1>3. \A u \in Users : balance'[u] >= balance[u]
    BY <1>1 DEF AddsUp
  <1>4. Overdrawn'
    BY <1>1, <1>2, <1>3, NothingTaken
  <1>5. SendsRead'
    BY <1>1, <1>2, <1>3, SendsRest, SenderIsUser
  <1>6. RowsFit'
    BY <1>1, RowStillFits DEF RowsFit
  <1> QED BY <1>2, <1>4, <1>5, <1>6 DEF BalanceInv, BalancesFollow, AddsUp, Overdrawn, RowsFit, SendsRead

LEMMA SalaryKeepsBalances ==
  ASSUME BalanceInv, met \subseteq met', RowsStand, IdleFor("transfer"), IdleFor("remit"),
         NEW x, x \notin entries, x.takes = 0, Gives(x) \in Nat, RowFits(x)', Books({x})
  PROVE  BalanceInv'
  <1>1. AddsUp /\ Overdrawn /\ RowsFit /\ SendsRead
    BY BalanceParts
  <1>2. /\ AddsUp' /\ entries' = entries \cup {x}
        /\ \A u \in Users : balance'[u] = IF x.user = u THEN balance[u] + Gives(x) ELSE balance[u]
    BY <1>1, BookedOne
  <1>3. ASSUME NEW u \in Users PROVE balance'[u] >= balance[u]
    <2>1. balance[u] \in Int /\ (balance'[u] = balance[u] + Gives(x) \/ balance'[u] = balance[u])
      BY <1>1, <1>2 DEF AddsUp
    <2> QED BY <2>1
  <1>4. Overdrawn'
    BY <1>1, <1>2, <1>3, NothingTaken
  <1>5. SendsRead'
    BY <1>1, <1>2, <1>3, SendsRest, SenderIsUser
  <1>6. RowsFit'
    BY <1>1, <1>2, RowStillFits DEF RowsFit
  <1> QED BY <1>2, <1>4, <1>5, <1>6 DEF BalanceInv, BalancesFollow, AddsUp, Overdrawn, RowsFit, SendsRead

LEMMA PaymentRow ==
  ASSUME NEW by, NEW r, NEW e, NEW row, row = Entry(by, e, "SALARY_CREDIT", 0, 1, <<"record", r>>)
  PROVE  row.by = by /\ row.takes = 0 /\ row.type # "SPEND" /\ row.ref[2] = r /\ Gives(row) \in Nat
  <1>1. 0 \in Nat /\ 1 \in Nat
    OBVIOUS
  <1>2. row.by = by /\ row.takes = 0 /\ row.type = "SALARY_CREDIT" /\ row.ref = <<"record", r>> /\ Gives(row) = 1 - 0
    BY <1>1, EntryFields
  <1> QED BY <1>2

LEMMA PayingKeepsBalances ==
  ASSUME HandlerInv, RunsShape, EngineInv, BalanceInv, NEW j \in DOMAIN jobs, Pays(j)
  PROVE  BalanceInv'
  <1>1. UNCHANGED <<handlerVars, retries>> /\ met \subseteq met' /\ DoneStay /\ \A op : IdleFor(op)
    BY DEF Pays, handlerVars, DoneStay, IdleFor
  <1>2. PICK c \in Staff, n \in Nat \ DOMAIN records : AddsRow(j, c, n)
    BY AddedRow
  <1>3. c = Current(j) /\ n = Len(records) + 1 /\ RowsKept /\ n \in DOMAIN records'
    BY <1>2 DEF AddsRow
  <1>4. RetriesKept /\ RowsStand
    BY <1>1, <1>3, RetriesStay DEF EngineInv, RowsKept, RowsStand
  <1>5. PICK x : x = Entry(<<"job", j>>, c, "SALARY_CREDIT", 0, 1, <<"record", n>>)
    OBVIOUS
  <1>6. x.by = <<"job", j>> /\ x.takes = 0 /\ x.type # "SPEND" /\ x.ref[2] = n /\ Gives(x) \in Nat
    BY <1>5, PaymentRow
  <1>7. x.by[1] = "job"
    BY <1>6
  <1>8. Books({x})
    BY <1>3, <1>5 DEF Pays, Salary
  <1>9. x \notin entries
    <2>1. \A row \in entries : ByRequest(row) \/ BySalary(row)
      BY DEF BalanceInv, RowFits
    <2>2. ~ByRequest(x) /\ ~BySalary(x)
      BY <1>6, <1>7 DEF ByRequest, BySalary
    <2> QED BY <2>1, <2>2
  <1>10. RowFits(x)'
    BY <1>3, <1>6, <1>7 DEF RowFits, BySalary
  <1> QED BY <1>1, <1>4, <1>6, <1>8, <1>9, <1>10, SalaryKeepsBalances

LEMMA CreditingKeepsBalances ==
  ASSUME HandlerInv, EngineInv, BalanceInv, NEW k \in DOMAIN retries, RetryCredits(k)
  PROVE  BalanceInv'
  <1>1. UNCHANGED handlerVars /\ met \subseteq met' /\ DoneStay /\ \A op : IdleFor(op)
    BY DEF RetryCredits, handlerVars, DoneStay, IdleFor
  <1>2. /\ RowsKept /\ RetriesKept /\ DOMAIN retries' = DOMAIN retries
        /\ RetryGoes(k, "credits", "completed", "COMPLETED")
    BY RetryStepsGo DEF RetrySteps
  <1>3. RowsStand /\ retries[k].at = "credits" /\ retries'[k].at = "completed"
    BY <1>1, <1>2 DEF RowsStand, RowsKept, RetryGoes
  <1>4. PICK r, c : r = retries[k].record /\ c = records[retries[k].record].user
    OBVIOUS
  <1>5. PICK x : x = Entry(<<"retry", k>>, c, "SALARY_CREDIT", 0, 1, <<"record", r>>)
    OBVIOUS
  <1>6. x.by = <<"retry", k>> /\ x.takes = 0 /\ x.type # "SPEND" /\ Gives(x) \in Nat
    BY <1>5, PaymentRow
  <1>7. x.by[1] = "retry" /\ x.by[2] = k
    BY <1>6
  <1>8. Books({x})
    BY <1>4, <1>5 DEF RetryCredits, Salary
  <1>9. x \notin entries
    <2>1. \A row \in entries : ByRequest(row) \/ BySalary(row)
      BY DEF BalanceInv, RowFits
    <2>2. ~ByRequest(x) /\ ~BySalary(x)
      BY <1>3, <1>6, <1>7 DEF ByRequest, BySalary
    <2> QED BY <2>1, <2>2
  <1>10. RowFits(x)'
    BY <1>2, <1>3, <1>6, <1>7 DEF RowFits, BySalary
  <1> QED BY <1>1, <1>3, <1>6, <1>8, <1>9, <1>10, SalaryKeepsBalances

LEMMA TakesMuch ==
  ASSUME NEW n \in Requests, request[n].amount \in Amounts PROVE Takes(request[n]) \in Nat \ {0}
  <1>1. PICK a : a = request[n].amount
    OBVIOUS
  <1>2. a \in Nat /\ a # 0 /\ RemitFee \in Nat
    BY <1>1, AmountsAreWhole
  <1>3. a + RemitFee \in Nat /\ a + RemitFee # 0
    BY <1>2
  <1> QED BY <1>1, <1>2, <1>3 DEF Takes

LEMMA BalanceIsRead ==
  ASSUME HandlerInv, BalanceInv, NEW n \in Requests, ReadBalance(n), DOMAIN records \subseteq DOMAIN records', RetriesKept
  PROVE  BalanceInv'
  <1>1. n \in Busy /\ request[n].op \in {"transfer", "remit"} /\ UNCHANGED <<balance, entries>>
    BY DEF ReadBalance, Busy, Ended, Decides, deskVars
  <1>2. CASE GoesTo(n, "refused")
    <2>1. OneMoves(n) /\ request'[n].at \in Ended
      BY <1>1, <1>2, Finishes
    <2>2. RowsStand /\ IdleFor("transfer") /\ IdleFor("remit") /\ met \subseteq met'
      BY <2>1, OneMovesAlone DEF OneMoves, RowsStand
    <2> QED BY <1>1, <2>2, BalanceRests
  <1>3. CASE /\ balance[Sender] >= Takes(request[n])
             /\ Becomes(n, [op |-> request[n].op, at |-> "books", amount |-> request[n].amount])
    <2> PICK o, a : o = request[n].op /\ a = request[n].amount
      OBVIOUS
    <2> PICK r : r = [op |-> o, at |-> "books", amount |-> a]
      OBVIOUS
    <2>0. r.op = o /\ r # NotYet /\ r.amount = a
      BY DEF NotYet
    <2>1. OneMoves(n) /\ request'[n] = r
      BY <1>1, <1>3, <2>0, HasRead
    <2>2. RowsStand /\ met \subseteq met' /\ \A m \in Requests \ {n} : request'[m] = request[m]
      BY <2>1, OneMovesAlone DEF OneMoves, RowsStand
    <2>3. AddsUp /\ Overdrawn /\ RowsFit /\ SendsRead
      BY BalanceParts
    <2>4. a \in Amounts
      <3>1. InHand(n, "transfer") \/ InHand(n, "remit")
        BY <1>1, NotYetEnded DEF InHand, SameOp, Busy
      <3> QED BY <2>3, <3>1 DEF SendsRead, SendRead
    <2>5. Takes(request[n])' = Takes(request[n])
      BY <2>0, <2>1 DEF Takes
    <2>6. SendRead(n)'
      <3>1. request'[n].amount \in Amounts
        BY <2>0, <2>1, <2>4
      <3>2. (balance[Sender] >= Takes(request[n]))'
        BY <1>1, <1>3, <2>5
      <3> QED BY <3>1, <3>2 DEF SendRead
    <2>7. AddsUp' /\ entries \subseteq entries' /\ \A u \in Users : balance'[u] >= balance[u]
      BY <1>1, <2>3 DEF AddsUp
    <2>8. \A m \in Requests \ {n} : SendRead(m)'
      BY <2>2, <2>3, <2>7, SendStays, SenderIsUser DEF SendsRead
    <2>9. Overdrawn'
      BY <2>2, <2>3, <2>7, NothingTaken
    <2>10. RowsFit'
      BY <1>1, <2>2, <2>3, RowStillFits DEF RowsFit
    <2> QED BY <2>6, <2>7, <2>8, <2>9, <2>10 DEF BalanceInv, BalancesFollow, AddsUp, Overdrawn, RowsFit, SendsRead
  <1> QED BY <1>2, <1>3 DEF ReadBalance, Decides

(* A request that is done with its rows, one of which takes from the       *)
(* sender what was asked for.                                              *)
Sends(n, x) ==
  /\ AddsUp' /\ entries \subseteq entries' /\ x \in entries'
  /\ x.by = <<"request", n>> /\ x.user = Sender /\ x.takes = Takes(request[n])
  /\ \A row \in entries' \ entries : row.by = <<"request", n>> /\ (row.takes > 0 => row.user = Sender)
  /\ balance'[Sender] = balance[Sender] - Takes(request[n])
  /\ \A u \in Users \ {Sender} : balance'[u] >= balance[u]

LEMMA StaysCovered == ASSUME NEW b \in Int, NEW t \in Nat, b - t < 0 PROVE ~(b >= t)
  OBVIOUS

LEMMA SendingKeepsBalances ==
  ASSUME HandlerInv, BalanceInv, NEW n \in Busy, request[n].op \in {"transfer", "remit"}, request[n].at = "books",
         GoesTo(n, "done"), NEW x, Sends(n, x), DOMAIN records \subseteq DOMAIN records', RetriesKept
  PROVE  BalanceInv'
  <1>1. OneMoves(n) /\ request'[n].at = "done" /\ "done" \in Ended
    BY Finishes
  <1>2. RowsStand /\ n \in Requests /\ met \subseteq met' /\ \A m \in Requests \ {n} : request'[m] = request[m]
    BY <1>1, OneMovesAlone DEF OneMoves, RowsStand
  <1>3. AddsUp /\ Overdrawn /\ RowsFit /\ SendsRead
    BY BalanceParts
  <1>4. request[n].amount \in Amounts /\ (balance[Sender] >= Takes(request[n]) \/ Beside(DebitsOf(Sender), n))
    <2>1. InHand(n, "transfer") \/ InHand(n, "remit")
      BY NotYetEnded DEF InHand, SameOp, Busy
    <2> QED BY <1>2, <1>3, <2>1 DEF SendsRead, SendRead
  <1>5. Takes(request[n]) \in Nat \ {0}
    BY <1>2, <1>4, TakesMuch
  <1>6. x \in DebitsOf(Sender)' /\ x.by[2] = n
    <2>1. x.takes > 0 /\ x.user = Sender /\ x \in entries'
      BY <1>5 DEF Sends
    <2>2. x.by = <<"request", n>>
      BY DEF Sends
    <2> QED BY <2>1, <2>2 DEF DebitsOf
  <1>7. PICK D : D = DebitsOf(Sender)
    OBVIOUS
  <1>8. /\ Beside(D, n) => SomeOverlap(D \cup {x})'
        /\ \A m \in Busy \ {n} : {n, m} \in met'
    <2>1. \A s \in D : ByRequest(s)
      BY <1>3, <1>7, DebitsAreRequests
    <2>2. x.by = <<"request", n>>
      BY DEF Sends
    <2> QED BY <1>2, <2>1, <2>2, NewRowMeets
  <1>9. D \cup {x} \subseteq DebitsOf(Sender)'
    <2>1. entries \subseteq entries'
      BY DEF Sends
    <2> QED BY <1>6, <1>7, <2>1 DEF DebitsOf
  <1>10. SomeOverlap(D \cup {x})' => SomeOverlap(DebitsOf(Sender))'
    BY <1>9 DEF SomeOverlap
  <1>11. Overdrawn'
    <2> SUFFICES ASSUME NEW u \in Users, balance'[u] < 0 PROVE SomeOverlap(DebitsOf(u))'
      BY DEF Overdrawn
    <2>0. balance[u] \in Int /\ balance'[u] \in Int
      BY <1>3 DEF AddsUp, Sends
    <2>1. CASE u = Sender
      <3>1. balance'[u] = balance[u] - Takes(request[n])
        BY <2>1 DEF Sends
      <3>2. ~(balance[u] >= Takes(request[n]))
        BY <1>5, <2>0, <3>1, StaysCovered
      <3>3. Beside(D, n)
        BY <1>4, <1>7, <2>1, <3>2
      <3> QED BY <1>8, <1>10, <2>1, <3>3
    <2>2. CASE u # Sender
      <3>1. balance'[u] >= balance[u] /\ entries \subseteq entries'
        BY <2>2 DEF Sends
      <3>2. SomeOverlap(DebitsOf(u))
        BY <1>3, <2>0, <3>1 DEF Overdrawn
      <3> QED BY <1>2, <3>1, <3>2 DEF SomeOverlap, DebitsOf, Overlapped
    <2> QED BY <2>1, <2>2
  <1>12. ASSUME NEW m \in Requests PROVE SendRead(m)'
    <2>1. CASE m = n
      BY <1>1, <2>1 DEF SendRead, InHand
    <2>2. CASE m # n
      <3> SUFFICES ASSUME (InHand(m, "transfer") \/ InHand(m, "remit"))'
                   PROVE  request'[m].amount \in Amounts /\ Beside(DebitsOf(Sender), m)'
        BY DEF SendRead
      <3>1. (InHand(m, "transfer") \/ InHand(m, "remit")) /\ m \in Busy /\ request'[m] = request[m]
        BY <1>2, <2>2 DEF InHand, SameOp, Busy
      <3>2. Beside(DebitsOf(Sender), m)'
        BY <1>6, <1>8, <2>2, <3>1 DEF Beside, Overlapped
      <3> QED BY <1>3, <3>1, <3>2 DEF SendsRead, SendRead
    <2> QED BY <2>1, <2>2
  <1>13. RowsFit'
    <2>1. \A row \in entries : RowFits(row)'
      BY <1>2, <1>3, RowStillFits DEF RowsFit
    <2>2. \A row \in entries' \ entries : RowFits(row)'
      BY <1>1, <1>2 DEF Sends, RowFits, ByRequest
    <2> QED BY <2>1, <2>2 DEF RowsFit
  <1> QED BY <1>11, <1>12, <1>13 DEF BalanceInv, BalancesFollow, AddsUp, Overdrawn, RowsFit, SendsRead, Sends

LEMMA RequestRowIsNew ==
  ASSUME RowsFit, NEW n \in Busy, NEW x, x.by = <<"request", n>> PROVE x \notin entries
  <1>1. x.by[1] = "request"
    OBVIOUS
  <1>2. request[n].at # "done" /\ n \in Requests
    BY DEF Busy, Ended
  <1>3. \A m \in Requests : x.by = <<"request", m>> => m = n
    OBVIOUS
  <1>4. ~ByRequest(x)
    BY <1>2, <1>3 DEF ByRequest
  <1> QED BY <1>1, <1>4 DEF RowsFit, RowFits, BySalary

LEMMA RemittanceKeepsBalances ==
  ASSUME HandlerInv, BalanceInv, NEW n \in Requests, BookRemittance(n), DOMAIN records \subseteq DOMAIN records', RetriesKept
  PROVE  BalanceInv'
  <1>1. n \in Busy /\ request[n].op = "remit" /\ request[n].at = "books" /\ GoesTo(n, "done")
    BY IsBusy DEF BookRemittance, Ended
  <1>2. AddsUp /\ Overdrawn /\ RowsFit /\ SendsRead
    BY BalanceParts
  <1>3. PICK t : t = Takes(request[n])
    OBVIOUS
  <1>4. t \in Nat
    <2>1. InHand(n, "remit")
      BY <1>1, NotYetEnded DEF InHand, SameOp, Busy
    <2> QED BY <1>2, <1>3, <2>1, TakesMuch DEF SendsRead, SendRead
  <1>5. PICK x : x = Entry(<<"request", n>>, Sender, "REMITTANCE", t, 0, <<>>)
    OBVIOUS
  <1>6. x.by = <<"request", n>> /\ x.user = Sender /\ x.takes = t /\ Gives(x) = 0 - t /\ Gives(x) \in Int
    <2>1. 0 \in Nat
      OBVIOUS
    <2> QED BY <1>4, <1>5, <2>1, EntryFields
  <1>7. x \notin entries
    BY <1>1, <1>2, <1>6, RequestRowIsNew
  <1>8. Books({x})
    BY <1>3, <1>5 DEF BookRemittance
  <1>9. /\ AddsUp' /\ entries' = entries \cup {x}
        /\ \A u \in Users : balance'[u] = IF x.user = u THEN balance[u] + Gives(x) ELSE balance[u]
    BY <1>2, <1>6, <1>7, <1>8, BookedOne
  <1>10. \A u \in Users : balance[u] \in Int
    BY <1>2 DEF AddsUp
  <1>11. balance'[Sender] = balance[Sender] - t
    BY <1>4, <1>6, <1>9, <1>10, SenderIsUser
  <1>12. \A u \in Users \ {Sender} : balance'[u] >= balance[u]
    BY <1>6, <1>9, <1>10
  <1>13. Sends(n, x)
    BY <1>3, <1>6, <1>9, <1>11, <1>12 DEF Sends
  <1> QED BY <1>1, <1>13, SendingKeepsBalances

LEMMA TransferKeepsBalances ==
  ASSUME HandlerInv, BalanceInv, NEW n \in Requests, BookTransfer(n), DOMAIN records \subseteq DOMAIN records', RetriesKept
  PROVE  BalanceInv'
  <1>1. n \in Busy /\ request[n].op = "transfer" /\ request[n].at = "books" /\ GoesTo(n, "done")
    BY IsBusy DEF BookTransfer, Ended
  <1>2. AddsUp /\ Overdrawn /\ RowsFit /\ SendsRead
    BY BalanceParts
  <1>3. PICK a : a = request[n].amount
    OBVIOUS
  <1>4. a \in Nat /\ Takes(request[n]) = a
    <2>1. InHand(n, "transfer")
      BY <1>1, NotYetEnded DEF InHand, SameOp, Busy
    <2>2. a \in Amounts
      BY <1>2, <1>3, <2>1 DEF SendsRead, SendRead
    <2> QED BY <1>1, <1>3, <2>2, AmountsAreWhole DEF Takes
  <1>5. PICK x, y : /\ x = Entry(<<"request", n>>, Sender, "P2P_SEND", a, 0, <<>>)
                    /\ y = Entry(<<"request", n>>, Receiver, "P2P_RECEIVE", 0, a, <<>>)
    OBVIOUS
  <1>0. 0 \in Nat
    OBVIOUS
  <1>6. x.by = <<"request", n>> /\ x.user = Sender /\ x.takes = a /\ Gives(x) = 0 - a /\ Gives(x) \in Int
    BY <1>0, <1>4, <1>5, EntryFields
  <1>14. y.by = <<"request", n>> /\ y.user = Receiver /\ y.takes = 0 /\ Gives(y) = a - 0 /\ Gives(y) \in Int
    BY <1>0, <1>4, <1>5, EntryFields
  <1>7. x \notin entries /\ y \notin entries
    BY <1>1, <1>2, <1>6, <1>14, RequestRowIsNew
  <1>8. Books({x, y})
    BY <1>3, <1>5 DEF BookTransfer
  <1>9. /\ AddsUp' /\ entries' = entries \cup {x, y}
        /\ \A u \in Users : balance'[u] = IF x.user = u THEN balance[u] + Gives(x)
                                          ELSE IF y.user = u THEN balance[u] + Gives(y) ELSE balance[u]
    <2>1. x.user # y.user
      BY <1>6, <1>14, SenderIsUser
    <2> QED BY <1>2, <1>6, <1>7, <1>8, <1>14, <2>1, BookedTwo
  <1>10. \A u \in Users : balance[u] \in Int
    BY <1>2 DEF AddsUp
  <1>11. balance'[Sender] = balance[Sender] - a
    BY <1>4, <1>6, <1>9, <1>10, SenderIsUser
  <1>12. \A u \in Users \ {Sender} : balance'[u] >= balance[u]
    <2> SUFFICES ASSUME NEW u \in Users \ {Sender} PROVE balance'[u] >= balance[u]
      OBVIOUS
    <2>1. balance[u] \in Int /\ (balance'[u] = balance[u] + (a - 0) \/ balance'[u] = balance[u])
      BY <1>6, <1>9, <1>10, <1>14
    <2> QED BY <1>4, <2>1
  <1>13. Sends(n, x)
    <2>1. \A row \in entries' \ entries : row.by = <<"request", n>> /\ (row.takes > 0 => row.user = Sender)
      BY <1>6, <1>9, <1>14
    <2> QED BY <1>4, <1>6, <1>9, <1>11, <1>12, <2>1 DEF Sends
  <1> QED BY <1>1, <1>13, SendingKeepsBalances

LEMMA TurnKeepsBalances ==
  ASSUME HandlerInv, BalanceInv, NEW n \in Requests, WriteCircle(n), DOMAIN records \subseteq DOMAIN records', RetriesKept
  PROVE  BalanceInv'
  <1>1. n \in Busy /\ request[n].op = "pay turn" /\ GoesTo(n, "done")
    BY IsBusy DEF WriteCircle, Ended
  <1>2. AddsUp /\ Overdrawn /\ RowsFit /\ SendsRead
    BY BalanceParts
  <1>3. OneMoves(n) /\ request'[n].at = "done" /\ "done" \in Ended
    BY <1>1, Finishes
  <1>4. RowsStand /\ n \in Requests /\ met \subseteq met' /\ IdleFor("transfer") /\ IdleFor("remit")
    BY <1>3, OneMovesAlone DEF OneMoves, RowsStand
  <1>5. PICK x : x = Entry(<<"request", n>>, Sender, "SPEND", 0, 0, <<"turn", request[n].turn>>)
    OBVIOUS
  <1>6. x.by = <<"request", n>> /\ x.user = Sender /\ x.takes = 0 /\ Gives(x) = 0
    <2>1. 0 \in Nat /\ 0 - 0 = 0
      OBVIOUS
    <2> QED BY <1>5, <2>1, EntryFields
  <1>7. x \notin entries /\ entries' = entries \cup {x}
    <2>1. x \notin entries
      BY <1>1, <1>2, <1>6, RequestRowIsNew
    <2> QED BY <1>5, <2>1 DEF WriteCircle
  <1>14. balance \in [Users -> Int] /\ \A u \in Users : balance[u] \in Int
    BY <1>2 DEF AddsUp
  <1>15. balance' = balance
    BY DEF WriteCircle
  <1>16. \A u \in Users : balance'[u] = balance[u]
    BY <1>15
  <1>8. \A u \in Users : balance'[u] = IF x.user = u THEN balance[u] + Gives(x) ELSE balance[u]
    <2>1. SUFFICES ASSUME NEW u \in Users
                   PROVE  balance'[u] = IF x.user = u THEN balance[u] + Gives(x) ELSE balance[u]
      OBVIOUS
    <2>2. balance[u] + Gives(x) = balance[u]
      <3>1. balance[u] \in Int
        BY <1>14, <2>1
      <3>2. balance[u] + 0 = balance[u]
        BY <3>1
      <3> QED BY <1>6, <3>2
    <2> QED BY <1>16, <2>1, <2>2
  <1>9. AddsUp'
    <2>1. balance' \in [Users -> Int] /\ Gives(x) \in Int
      <3>1. 0 \in Int
        OBVIOUS
      <3> QED BY <1>6, <1>14, <1>15, <3>1
    <2> QED BY <1>2, <1>7, <1>8, <2>1, RowAddsUp
  <1>10. \A u \in Users : balance'[u] >= balance[u]
    <2>1. SUFFICES ASSUME NEW u \in Users
                   PROVE  balance'[u] >= balance[u]
      OBVIOUS
    <2>2. balance[u] \in Int
      BY <1>14, <2>1
    <2>3. balance[u] >= balance[u]
      BY <2>2
    <2> QED BY <1>16, <2>1, <2>3
  <1>11. Overdrawn'
    BY <1>2, <1>4, <1>7, <1>9, <1>10, NothingTaken
  <1>12. SendsRead'
    BY <1>2, <1>4, <1>7, <1>9, <1>10, SendsRest, SenderIsUser
  <1>13. RowsFit'
    <2>1. \A row \in entries : RowFits(row)'
      BY <1>2, <1>4, RowStillFits DEF RowsFit
    <2>2. RowFits(x)'
      BY <1>3, <1>4, <1>6 DEF RowFits, ByRequest
    <2> QED BY <1>7, <2>1, <2>2 DEF RowsFit
  <1> QED BY <1>9, <1>11, <1>12, <1>13 DEF BalanceInv, BalancesFollow, AddsUp, Overdrawn, RowsFit, SendsRead

(***************************************************************************)
(* All of them together.                                                   *)
(***************************************************************************)
DeskQuiet == met \subseteq met' /\ DoneStay /\ \A op \in RouteOps : IdleFor(op)

LEMMA NoTurnAdded ==
  ASSUME NEW new, entries' = entries \cup new, \A row \in new : row.type # "SPEND" PROVE TurnsPaid' = TurnsPaid
  BY DEF TurnsPaid

LEMMA SalaryIsNoTurn == ASSUME NEW by, NEW r, NEW e, Books(Salary(by, r, e)) PROVE TurnsPaid' = TurnsPaid
  <1> PICK x : x = Entry(by, e, "SALARY_CREDIT", 0, 1, <<"record", r>>)
    OBVIOUS
  <1>1. x.type # "SPEND"
    BY EntryType
  <1> PICK rows : rows = {x}
    OBVIOUS
  <1>2. entries' = entries \cup rows
    BY DEF Books, Salary
  <1>3. \A row \in rows : row.type # "SPEND"
    BY <1>1
  <1> QED BY <1>2, <1>3, NoTurnAdded

LEMMA SendsNoTurn ==
  ASSUME NEW n \in Requests, BookTransfer(n) \/ BookRemittance(n) PROVE TurnsPaid' = TurnsPaid
  <1>1. CASE BookTransfer(n)
    <2> PICK out, in : /\ out = Entry(<<"request", n>>, Sender, "P2P_SEND", request[n].amount, 0, <<>>)
                       /\ in = Entry(<<"request", n>>, Receiver, "P2P_RECEIVE", 0, request[n].amount, <<>>)
      OBVIOUS
    <2>1. entries' = entries \cup {out, in}
      BY <1>1 DEF BookTransfer, Books
    <2>2. out.type = "P2P_SEND" /\ in.type = "P2P_RECEIVE"
      BY EntryType
    <2> PICK rows : rows = {out, in}
      OBVIOUS
    <2>3. \A row \in rows : row.type # "SPEND"
      BY <2>2
    <2> QED BY <2>1, <2>3, NoTurnAdded
  <1>2. CASE BookRemittance(n)
    <2> PICK out : out = Entry(<<"request", n>>, Sender, "REMITTANCE", Takes(request[n]), 0, <<>>)
      OBVIOUS
    <2>1. entries' = entries \cup {out}
      BY <1>2 DEF BookRemittance, Books
    <2>2. out.type = "REMITTANCE"
      BY EntryType
    <2> PICK rows : rows = {out}
      OBVIOUS
    <2>3. \A row \in rows : row.type # "SPEND"
      BY <2>2
    <2> QED BY <2>1, <2>3, NoTurnAdded
  <1> QED BY <1>1, <1>2

LEMMA QuietRoutes ==
  ASSUME GoalInv, DebtInv, CircleInv, DeskQuiet, UNCHANGED routeVars, UNCHANGED TurnsPaid
  PROVE  GoalInv' /\ DebtInv' /\ CircleInv'
  <1>1. IdleFor("contribute") /\ IdleFor("repay") /\ IdleFor("pay turn")
    BY DEF DeskQuiet, RouteOps
  <1>2. met \subseteq met' /\ DoneStay
    BY DEF DeskQuiet
  <1>3. UNCHANGED <<savings, contributions>> /\ UNCHANGED <<loan, repayments>> /\ UNCHANGED circle
    BY DEF routeVars
  <1>4. UNCHANGED <<circle, TurnsPaid>>
    BY <1>3
  <1> QED BY <1>1, <1>2, <1>3, <1>4, GoalRests, DebtRests, CircleRests

LEMMA DeskRests ==
  ASSUME DeskInv, DeskQuiet, RowsKept, RetriesKept, UNCHANGED <<deskVars, routeVars>>
  PROVE  DeskInv'
  <1>1. UNCHANGED <<balance, entries>> /\ UNCHANGED routeVars /\ UNCHANGED TurnsPaid
    BY DEF deskVars, TurnsPaid
  <1>2. RowsStand /\ IdleFor("transfer") /\ IdleFor("remit") /\ met \subseteq met'
    BY DEF DeskQuiet, RouteOps, RowsStand, RowsKept
  <1>3. BalanceInv'
    BY <1>1, <1>2, BalanceRests DEF DeskInv
  <1> QED BY <1>1, <1>3, QuietRoutes DEF DeskInv

(* The request whose route goes on. *)
LEMMA RouteMoves ==
  ASSUME HandlerInv, NEW n \in Requests, RouteSteps(n) PROVE OneMoves(n)
  <1>1. CASE BookTransfer(n) \/ BookRemittance(n) \/ WriteGoal(n) \/ WriteLoan(n) \/ WriteCircle(n)
    <2>1. n \in Busy /\ GoesTo(n, "done")
      BY <1>1, IsBusy DEF BookTransfer, BookRemittance, WriteGoal, WriteLoan, WriteCircle, Ended
    <2> QED BY <2>1, Finishes
  <1>2. CASE ReadBalance(n) \/ ReadGoal(n) \/ ReadLoan(n) \/ ReadCircle(n)
    <2>1. n \in Busy
      <3>1. CASE ReadBalance(n)
        BY <3>1 DEF ReadBalance, Busy, Ended
      <3>2. CASE ~ReadBalance(n)
        BY <1>2, <3>2, IsBusy DEF ReadGoal, ReadLoan, ReadCircle, Ended
      <3> QED BY <3>1, <3>2
    <2>2. CASE GoesTo(n, "refused")
      BY <2>1, <2>2, Finishes
    <2>3. CASE \E r : r # NotYet /\ r.op = request[n].op /\ Becomes(n, r)
      BY <2>1, <2>3, HasRead
    <2> QED BY <1>2, <2>2, <2>3 DEF ReadBalance, ReadGoal, ReadLoan, ReadCircle, Decides, Is, NotYet
  <1> QED BY <1>1, <1>2 DEF RouteSteps

LEMMA RouteKeepsDesk ==
  ASSUME HandlerInv, DeskInv, NEW n \in Requests, RouteSteps(n), RowsKept, RetriesKept
  PROVE  DeskInv'
  <1>1. OneMoves(n)
    BY RouteMoves
  <1>2. /\ DoneStay /\ met \subseteq met'
        /\ \A op : op # request[n].op => IdleFor(op)
    BY <1>1, OneMovesAlone DEF OneMoves
  <1>3. DOMAIN records \subseteq DOMAIN records' /\ RowsStand
    BY <1>2 DEF RowsKept, RowsStand
  <1>4. BalanceInv /\ GoalInv /\ DebtInv /\ CircleInv
    BY DEF DeskInv
  <1>5. ASSUME request[n].op # "contribute", UNCHANGED <<savings, contributions>> PROVE GoalInv'
    BY <1>2, <1>4, <1>5, GoalRests
  <1>6. ASSUME request[n].op # "repay", UNCHANGED <<loan, repayments>> PROVE DebtInv'
    BY <1>2, <1>4, <1>6, DebtRests
  <1>7. ASSUME request[n].op # "pay turn", UNCHANGED circle, UNCHANGED TurnsPaid PROVE CircleInv'
    <2>1. UNCHANGED <<circle, TurnsPaid>>
      BY <1>7
    <2> QED BY <1>2, <1>4, <1>7, <2>1, CircleRests
  <1>8. ASSUME request[n].op \notin {"transfer", "remit"}, UNCHANGED <<balance, entries>> PROVE BalanceInv'
    BY <1>2, <1>3, <1>4, <1>8, BalanceRests
  <1>9. UNCHANGED entries => UNCHANGED TurnsPaid
    BY DEF TurnsPaid
  <1>10. CASE ReadBalance(n)
    <2>1. request[n].op \in {"transfer", "remit"} /\ UNCHANGED <<deskVars, routeVars>>
      BY <1>10 DEF ReadBalance, Decides
    <2>2. BalanceInv'
      BY <1>3, <1>4, <1>10, BalanceIsRead
    <2> QED BY <1>5, <1>6, <1>7, <1>9, <2>1, <2>2 DEF DeskInv, deskVars, routeVars
  <1>11. CASE BookTransfer(n) \/ BookRemittance(n)
    <2>1. request[n].op \in {"transfer", "remit"} /\ UNCHANGED routeVars
      BY <1>11 DEF BookTransfer, BookRemittance, Is
    <2>2. BalanceInv'
      BY <1>3, <1>4, <1>11, TransferKeepsBalances, RemittanceKeepsBalances
    <2>3. UNCHANGED TurnsPaid
      BY <1>11, SendsNoTurn
    <2> QED BY <1>5, <1>6, <1>7, <2>1, <2>2, <2>3 DEF DeskInv, routeVars
  <1>12. CASE ReadGoal(n) \/ WriteGoal(n)
    <2>1. request[n].op = "contribute" /\ UNCHANGED <<deskVars, loan, repayments, circle>>
      BY <1>12 DEF ReadGoal, WriteGoal, Decides, Is, routeVars
    <2>2. GoalInv'
      BY <1>4, <1>12, GoalIsRead, GoalIsWritten
    <2> QED BY <1>6, <1>7, <1>8, <1>9, <2>1, <2>2 DEF DeskInv, deskVars
  <1>13. CASE ReadLoan(n) \/ WriteLoan(n)
    <2>1. request[n].op = "repay" /\ UNCHANGED <<deskVars, savings, contributions, circle>>
      BY <1>13 DEF ReadLoan, WriteLoan, Decides, Is, routeVars
    <2>2. DebtInv'
      BY <1>4, <1>13, LoanIsRead, LoanIsWritten
    <2> QED BY <1>5, <1>7, <1>8, <1>9, <2>1, <2>2 DEF DeskInv, deskVars
  <1>14. CASE ReadCircle(n)
    <2>1. request[n].op = "pay turn" /\ UNCHANGED <<deskVars, routeVars>>
      BY <1>14 DEF ReadCircle, Decides, Is
    <2>2. CircleInv'
      BY <1>4, <1>14, <2>1, CircleIsRead DEF deskVars
    <2> QED BY <1>5, <1>6, <1>8, <2>1, <2>2 DEF DeskInv, deskVars, routeVars
  <1>15. CASE WriteCircle(n)
    <2>1. request[n].op = "pay turn" /\ UNCHANGED <<savings, contributions, loan, repayments>>
      BY <1>15 DEF WriteCircle, Is
    <2>2. CircleInv' /\ BalanceInv'
      BY <1>3, <1>4, <1>15, CircleIsWritten, TurnKeepsBalances
    <2> QED BY <1>5, <1>6, <2>1, <2>2 DEF DeskInv
  <1> QED BY <1>10, <1>11, <1>12, <1>13, <1>14, <1>15 DEF RouteSteps

DeskOtherOps == {{"login"}, {"kyc", "rescreen"}, {"advance"}, {"clear"}, {"upload"}, PayrollOps, SessionOps}

LEMMA NoRouteAmongThem == \A ops \in DeskOtherOps : ops \cap RouteOps = {}
  BY DEF DeskOtherOps, RouteOps, PayrollOps, SessionOps

LEMMA OthersAreQuiet == ASSUME NEW ops \in DeskOtherOps, HandlerStep(ops) PROVE DeskQuiet
  BY NoRouteAmongThem, OthersAreIdle DEF DeskQuiet

LEMMA AskingRoute ==
  ASSUME HandlerInv, NEW amount,
         \/ amount \in Amounts /\ (Transfer(amount) \/ Remit(amount) \/ Contribute(amount) \/ Repay(amount))
         \/ PayTurn
  PROVE  DeskQuiet /\ UNCHANGED <<deskVars, routeVars>>
  <1>1. ASSUME NEW r, RouteArrives(r), r.at = "reads", r.op # "pay turn" => r.amount \in Amounts
        PROVE  DeskQuiet /\ UNCHANGED <<deskVars, routeVars>>
    <2>1. met \subseteq met' /\ DoneStay /\ \A op : IdleFor(op)
      BY <1>1, AskingIsIdle
    <2>2. UNCHANGED <<deskVars, routeVars>>
      BY <1>1 DEF RouteArrives
    <2> QED BY <2>1, <2>2 DEF DeskQuiet
  <1>2. ASSUME amount \in Amounts, NEW op, RouteArrives([op |-> op, at |-> "reads", amount |-> amount])
        PROVE  DeskQuiet /\ UNCHANGED <<deskVars, routeVars>>
    <2> PICK r : r = [op |-> op, at |-> "reads", amount |-> amount]
      OBVIOUS
    <2>1. r.at = "reads" /\ r.amount \in Amounts
      BY <1>2
    <2> QED BY <1>1, <1>2, <2>1
  <1>3. ASSUME RouteArrives([op |-> "pay turn", at |-> "reads"])
        PROVE  DeskQuiet /\ UNCHANGED <<deskVars, routeVars>>
    <2> PICK r : r = [op |-> "pay turn", at |-> "reads"]
      OBVIOUS
    <2>1. r.at = "reads" /\ r.op = "pay turn"
      OBVIOUS
    <2> QED BY <1>1, <1>3, <2>1
  <1> QED BY <1>2, <1>3 DEF Transfer, Remit, Contribute, Repay, PayTurn

LEMMA PayrollKeepsDesk ==
  ASSUME HandlerInv, RunsShape, EngineInv, DeskInv, RowsKept, RetriesKept, PayrollNext
  PROVE  DeskInv'
  <1>1. DeskQuiet
    <2>1. PayrollOps \in DeskOtherOps
      BY DEF DeskOtherOps
    <2> QED BY <2>1, PayrollRequests, OthersAreQuiet
  <1>2. UNCHANGED routeVars
    BY DEF PayrollNext, PayrollFrame
  <1>3. BalanceInv /\ GoalInv /\ DebtInv /\ CircleInv
    BY DEF DeskInv
  <1>4. ASSUME NEW j \in DOMAIN jobs, Pays(j) PROVE DeskInv'
    <2>1. BalanceInv'
      BY <1>3, <1>4, PayingKeepsBalances
    <2>2. UNCHANGED TurnsPaid
      <3>1. \E by, r, e : Books(Salary(by, r, e))
        BY <1>4 DEF Pays
      <3> QED BY <3>1, SalaryIsNoTurn
    <2> QED BY <1>1, <1>2, <1>3, <2>1, <2>2, QuietRoutes DEF DeskInv
  <1>5. ASSUME NEW k \in DOMAIN retries, RetryCredits(k) PROVE DeskInv'
    <2>1. BalanceInv'
      BY <1>3, <1>5, CreditingKeepsBalances
    <2>2. UNCHANGED TurnsPaid
      <3>1. \E by, r, e : Books(Salary(by, r, e))
        BY <1>5 DEF RetryCredits
      <3> QED BY <3>1, SalaryIsNoTurn
    <2> QED BY <1>1, <1>2, <1>3, <2>1, <2>2, QuietRoutes DEF DeskInv
  <1>6. CASE UNCHANGED deskVars
    BY <1>1, <1>2, <1>6, DeskRests
  <1>7. \/ UNCHANGED deskVars
        \/ \E j \in DOMAIN jobs : Pays(j)
        \/ \E k \in DOMAIN retries : RetryCredits(k)
    <2>1. ASSUME NEW n \in Requests, RequestSteps(n) PROVE UNCHANGED deskVars
      BY <2>1 DEF RequestSteps, QueuePosted, FindDue, QueueDue, MoveNextRun, ListFailed, QueueRetry, BackoffHolds,
                  Escalate, MarkPending
    <2>2. ASSUME NEW j \in DOMAIN jobs, JobSteps(j) PROVE Pays(j) \/ UNCHANGED deskVars
      BY <2>2 DEF JobSteps, JobStarts, HasNoWallet, Logs, RecordsFailure, JobCompletes
    <2>3. ASSUME NEW k \in DOMAIN retries, RetrySteps(k) PROVE RetryCredits(k) \/ UNCHANGED deskVars
      BY <2>3 DEF RetrySteps, RetryReads, RetryResets
    <2>4. DayPasses \/ Tick \/ PatchPlan \/ PatchActive \/ PostRun \/ RetryTick => UNCHANGED deskVars
      BY DEF DayPasses, Tick, PatchPlan, PatchActive, PostRun, RetryTick
    <2> QED BY <2>1, <2>2, <2>3, <2>4 DEF PayrollNext
  <1> QED BY <1>4, <1>5, <1>6, <1>7

LEMMA DeskGoesOn == ASSUME HandlerInv, RunsInv, EngineInv, DeskInv, [Next]_vars PROVE DeskInv'
  <1>0. RunsShape /\ RowsKept /\ RetriesKept
    BY EngineGoesOn DEF RunsInv, TicksKeep
  <1>1. CASE PayrollNext
    BY <1>0, <1>1, PayrollKeepsDesk
  <1>2. CASE RouteNext
    <2>1. ASSUME NEW n \in Requests, RouteSteps(n) PROVE DeskInv'
      BY <1>0, <2>1, RouteKeepsDesk
    <2>2. ASSUME NEW amount \in Amounts,
                 Transfer(amount) \/ Remit(amount) \/ Contribute(amount) \/ Repay(amount)
          PROVE  DeskInv'
      BY <1>0, <2>2, AskingRoute, DeskRests
    <2>3. CASE PayTurn
      BY <1>0, <2>3, AskingRoute, DeskRests
    <2> QED BY <1>2, <2>1, <2>2, <2>3 DEF RouteNext
  <1>3. CASE Fault
    <2>1. DeskQuiet
      BY <1>3, FaultRequests, KillingIsIdle DEF DeskQuiet
    <2>2. UNCHANGED <<deskVars, routeVars>>
      BY <1>3 DEF Fault, Dies, CohortFrame, SessionFrame, deskPlaneVars, PayrollFrame, EmployeeFails, FailureIsNotRecorded,
                  JobFails, RetryFails, Crash
    <2> QED BY <1>0, <2>1, <2>2, DeskRests
  <1>4. CASE LoginNext \/ ScreeningNext \/ AdvanceNext \/ CohortNext \/ UploadNext \/ SessionNext
    <2>1. UNCHANGED <<deskVars, routeVars>>
      BY <1>4 DEF LoginNext, ScreeningNext, AdvanceNext, CohortNext, UploadNext, SessionNext, PersonFrame,
                  CohortFrame, UploadFrame, SessionFrame, deskPlaneVars
    <2>2. DeskQuiet
      <3>1. \E ops \in DeskOtherOps : HandlerStep(ops)
        BY <1>4, LoginRequests, ScreeningRequests, AdvanceRequests, CohortRequests, UploadRequests,
           SessionRequests DEF DeskOtherOps
      <3> QED BY <3>1, OthersAreQuiet
    <2> QED BY <1>0, <2>1, <2>2, DeskRests
  <1>5. CASE CodesNext \/ UNCHANGED vars
    <2>1. UNCHANGED <<handlerVars, deskVars, routeVars>>
      BY <1>5 DEF CodesNext, CodeExpires, PersonFrame, vars, deskPlaneVars
    <2>2. DeskQuiet
      <3>1. {"login"} \in DeskOtherOps /\ HandlerStep({"login"})
        BY <2>1, HandlersRest DEF DeskOtherOps
      <3> QED BY <3>1, OthersAreQuiet
    <2> QED BY <1>0, <2>1, <2>2, DeskRests
  <1> QED BY <1>1, <1>2, <1>3, <1>4, <1>5 DEF Next

(* DeskTotalsFollowRows: the balances are what the rows of Transaction say *)
(* and are overdrawn only by transfers and remittances that overlapped;    *)
(* the goal, the loan and the circle agree with what was contributed,      *)
(* repaid and paid unless two of those overlapped.                         *)
THEOREM DeskTotalsFollowRowsHolds == Spec => []DeskTotalsFollowRows
  <1>1. Init => HandlerInv /\ RunsInv /\ EngineInv /\ DeskInv
    BY HandlersInit, RunsStart, EngineStarts, DeskStarts DEF Init
  <1>2. HandlerInv /\ RunsInv /\ EngineInv /\ DeskInv /\ [Next]_vars =>
          (HandlerInv /\ RunsInv /\ EngineInv /\ DeskInv)'
    BY StepKeepsRequests, RunsGoOn, EngineGoesOn, DeskGoesOn DEF TicksKeep
  <1>3. DeskInv => DeskTotalsFollowRows
    BY DeskShows
  <1> QED BY <1>1, <1>2, <1>3, PTL DEF Spec

(***************************************************************************)
(* CyclesAreAccounted                                                      *)
(***************************************************************************)

(***************************************************************************)
(* The cycles files become.  A cycle has an intent for each of some rows   *)
(* of its file, no two of them for one employee, and whoever was left out  *)
(* was not known when the file came.                                       *)
(***************************************************************************)
Unpaid(row, known) == row.id \notin known \/ HolderOf[row.id] \notin Payable
IntentOf(row) == [employee |-> HolderOf[row.id], gross |-> Pay(row)]

PaysFor(c, rows) ==
  /\ rows \subseteq SalaryRows(c.file) /\ ~SharesHolder(rows)
  /\ c.intents = {IntentOf(row) : row \in rows}
  /\ \A row \in SalaryRows(c.file) \ rows : Unpaid(row, c.known)

CycleFits(c) == c.file \in Files /\ Accepts(c.file) /\ \E rows : PaysFor(c, rows)

LEMMA RowsOfFile ==
  ASSUME NEW file \in Files
  PROVE  IsFiniteSet(SalaryRows(file)) /\ \A row \in SalaryRows(file) : Pay(row) \in Nat
  <1>1. IsFiniteSet(DOMAIN file) /\ \A i \in Places(file, "SRR") : file[i].total \in Nat
    BY FilesAreFinite
  <1>2. PICK P : P = Places(file, "SRR")
    OBVIOUS
  <1>3. IsFiniteSet(P)
    BY <1>1, <1>2, FS_Subset DEF Places
  <1>4. PICK T, h : T = SalaryRows(file) /\ h = [i \in P |-> file[i]]
    OBVIOUS
  <1>5. T = {file[i] : i \in P}
    BY <1>2, <1>4 DEF SalaryRows
  <1>6. h \in Surjection(P, T)
    BY <1>4, <1>5 DEF Surjection
  <1>7. IsFiniteSet(T)
    BY <1>3, <1>6, FS_Surjection
  <1>8. \A row \in T : row.total \in Nat
    BY <1>1, <1>2, <1>5
  <1> QED BY <1>4, <1>7, <1>8 DEF Pay

LEMMA Near ==
  ASSUME NEW a \in Nat, NEW b \in Nat, Distance(a, b) <= Fil PROVE a <= b + Fil /\ b <= a + Fil
  BY DEF Distance, Fil

LEMMA TrailerTells ==
  ASSUME NEW file \in Files, Accepts(file), TotalPay(SalaryRows(file)) \in Nat
  PROVE  /\ TrailerOf(file).total \in Nat
         /\ TotalPay(SalaryRows(file)) <= TrailerOf(file).total + Fil
         /\ TrailerOf(file).total <= TotalPay(SalaryRows(file)) + Fil
  <1>1. PICK t \in DOMAIN file : Places(file, "TRR") = {t} /\ TrailerHolds(SalaryRows(file), file[t])
    BY DEF Accepts
  <1>2. {file[i] : i \in Places(file, "TRR")} = {file[t]}
    BY <1>1
  <1>3. TrailerOf(file) = file[t]
    BY <1>2 DEF TrailerOf
  <1>4. file[t].total \in Nat
    BY <1>1, FilesAreFinite
  <1>5. Distance(TotalPay(SalaryRows(file)), file[t].total) <= Fil
    BY <1>1 DEF TrailerHolds
  <1>6. PICK a : a = TotalPay(SalaryRows(file))
    OBVIOUS
  <1> QED BY <1>3, <1>4, <1>5, <1>6, Near

(* What rows are paid, as a sum over a part of the rows of a file.         *)
LEMMA PayOver ==
  ASSUME NEW S, NEW w, w = [row \in S |-> Pay(row)], NEW rows, rows \subseteq S
  PROVE  TotalPay(rows) = SumOver(w, rows)
  <1>1. [row \in rows |-> w[row]] = [row \in rows |-> Pay(row)]
    OBVIOUS
  <1> QED BY <1>1 DEF TotalPay, SumFunction, SumOver

LEMMA CycleSum ==
  ASSUME NEW c, NEW S, IsFiniteSet(S), \A row \in S : Pay(row) \in Nat, NEW rows, rows \subseteq S,
         ~SharesHolder(rows), c.intents = {IntentOf(row) : row \in rows}
  PROVE  CycleTotal(c) = TotalPay(rows)
  <1>1. PICK w : w = [row \in rows |-> Pay(row)]
    OBVIOUS
  <1>2. PICK g : g = [row \in rows |-> IntentOf(row)]
    OBVIOUS
  <1>3. PICK I : I = {g[row] : row \in rows}
    OBVIOUS
  <1>4. PICK v : v = [intent \in I |-> intent.gross]
    OBVIOUS
  <1>5. IsFiniteSet(rows) /\ w \in [rows -> Int]
    BY <1>1, FS_Subset
  <1>6. \A row \in rows : g[row] \in I /\ v[g[row]] = w[row]
    BY <1>1, <1>2, <1>3, <1>4 DEF IntentOf
  <1>7. \A a, b \in rows : g[a] = g[b] => a = b
    BY <1>2 DEF IntentOf, SharesHolder
  <1>8. SumOver(v, I) = SumOver(w, rows)
    BY <1>3, <1>5, <1>6, <1>7, SumOverRenamed
  <1>9. c.intents = I
    BY <1>2, <1>3
  <1>10. CycleTotal(c) = SumOver(v, I)
    <2>1. [intent \in I |-> v[intent]] = [intent \in I |-> intent.gross]
      BY <1>4
    <2> QED BY <1>9, <2>1 DEF CycleTotal, SumFunction, SumOver
  <1>11. TotalPay(rows) = SumOver(w, rows)
    BY <1>1, PayOver
  <1> QED BY <1>8, <1>10, <1>11

LEMMA Within ==
  ASSUME NEW a \in Nat, NEW b \in Nat, NEW d \in Nat, NEW t \in Nat, NEW s, s = a + b, b <= d,
         s <= t + Fil, t <= s + Fil
  PROVE  a <= t + Fil /\ t <= a + d + Fil
  BY DEF Fil

LEMMA CycleAddsUp ==
  ASSUME NEW c, CycleFits(c)
  PROVE  LET unknown == {row \in SalaryRows(c.file) : Unpaid(row, c.known)} IN
         /\ CycleTotal(c) <= TrailerOf(c.file).total + Fil
         /\ TrailerOf(c.file).total <= CycleTotal(c) + TotalPay(unknown) + Fil
  <1>1. PICK rows : PaysFor(c, rows)
    BY DEF CycleFits
  <1>2. c.file \in Files /\ Accepts(c.file)
    BY DEF CycleFits
  <1>3. PICK S, U, L : /\ S = SalaryRows(c.file) /\ L = S \ rows
                       /\ U = {row \in SalaryRows(c.file) : Unpaid(row, c.known)}
    OBVIOUS
  <1>4. IsFiniteSet(S) /\ \A row \in S : Pay(row) \in Nat
    BY <1>2, <1>3, RowsOfFile
  <1>5. rows \in SUBSET S /\ L \in SUBSET U /\ U \in SUBSET S /\ L \in SUBSET S /\ Apart(rows, L) /\ rows \cup L = S
    BY <1>1, <1>3 DEF PaysFor, Apart
  <1>6. PICK w : w = [row \in S |-> Pay(row)]
    OBVIOUS
  <1>7. w \in [S -> Nat] /\ w \in [S -> Int]
    BY <1>4, <1>6
  <1>8. SumOver(w, S) = SumOver(w, rows) + SumOver(w, L)
    BY <1>4, <1>5, <1>7, SumOverUnion
  <1>9. SumOver(w, L) \in Nat /\ SumOver(w, U) \in Nat /\ SumOver(w, L) <= SumOver(w, U)
    BY <1>4, <1>5, <1>7, SumOverGrows
  <1>10. SumOver(w, rows) \in Nat /\ SumOver(w, S) \in Nat
    BY <1>4, <1>5, <1>7, SumOverGrows
  <1>11. TotalPay(S) = SumOver(w, S) /\ TotalPay(rows) = SumOver(w, rows) /\ TotalPay(U) = SumOver(w, U)
    BY <1>5, <1>6, PayOver
  <1>12. CycleTotal(c) = TotalPay(rows)
    BY <1>1, <1>4, <1>5, CycleSum DEF PaysFor
  <1>13. PICK t, a, b, d, s : /\ t = TrailerOf(c.file).total /\ a = SumOver(w, rows) /\ b = SumOver(w, L)
                              /\ d = SumOver(w, U) /\ s = SumOver(w, S)
    OBVIOUS
  <1>14. t \in Nat /\ s <= t + Fil /\ t <= s + Fil
    BY <1>2, <1>3, <1>10, <1>11, <1>13, TrailerTells
  <1>15. a <= t + Fil /\ t <= a + d + Fil
    BY <1>8, <1>9, <1>10, <1>13, <1>14, Within
  <1> QED BY <1>3, <1>11, <1>12, <1>13, <1>15

(* A cycle was written since this request read the history, or before it   *)
(* could.                                                                  *)
Late(n) == \E d \in OnRecord : Overlapped(d.by, n)
PassesNow(file) == ~Blocked(SalaryRows(file), History(OnRecord))
Before(i) == {cycles[j] : j \in 1..(i - 1)}
CycleScreened(i) ==
  Blocked(SalaryRows(cycles[i].file), History(Before(i))) => \E d \in Before(i) : Overlapped(cycles[i].by, d.by)

MatchedWell(n) ==
  /\ request[n].matched \subseteq SalaryRows(request[n].file)
  /\ \A row \in SalaryRows(request[n].file) \ request[n].matched : Unpaid(row, request[n].known)

UploadFits(n) ==
  SameOp(n, "upload") /\ request[n].at \notin Ended =>
    /\ {"file", "known"} \subseteq DOMAIN request[n]
    /\ request[n].file \in Files /\ request[n].known \subseteq identified
    /\ request[n].at # "parses" => Accepts(request[n].file)
    /\ request[n].at = "screens" => request[n].history = History(OnRecord) \/ Late(n)
    /\ request[n].at \in {"matches", "writes"} => PassesNow(request[n].file) \/ Late(n)
    /\ request[n].at = "writes" => MatchedWell(n)

CyclesFit ==
  /\ \E S : cycles \in Seq(S)
  /\ \A i \in DOMAIN cycles : CycleFits(cycles[i]) /\ CycleScreened(i)

UploadInv == CyclesFit /\ \A n \in Requests : UploadFits(n)

LEMMA CyclesShow == ASSUME UploadInv PROVE CyclesAreAccounted
  <1> SUFFICES ASSUME NEW i \in DOMAIN cycles
               PROVE  LET c == cycles[i]
                          before == {cycles[j] : j \in 1..(i - 1)}
                          unknown == {row \in SalaryRows(c.file) : row.id \notin c.known \/ HolderOf[row.id] \notin Payable} IN
                      /\ CycleTotal(c) <= TrailerOf(c.file).total + Fil
                      /\ TrailerOf(c.file).total <= CycleTotal(c) + TotalPay(unknown) + Fil
                      /\ Blocked(SalaryRows(c.file), History(before)) => \E d \in before : Overlapped(c.by, d.by)
    BY DEF CyclesAreAccounted
  <1>1. PICK c, B, U : /\ c = cycles[i] /\ B = {cycles[j] : j \in 1..(i - 1)}
                       /\ U = {row \in SalaryRows(c.file) : row.id \notin c.known \/ HolderOf[row.id] \notin Payable}
    OBVIOUS
  <1>2. CycleFits(c) /\ (Blocked(SalaryRows(c.file), History(B)) => \E d \in B : Overlapped(c.by, d.by))
    BY <1>1 DEF UploadInv, CyclesFit, CycleScreened, Before
  <1>3. U = {row \in SalaryRows(c.file) : Unpaid(row, c.known)}
    BY <1>1 DEF Unpaid
  <1>4. /\ CycleTotal(c) <= TrailerOf(c.file).total + Fil
        /\ TrailerOf(c.file).total <= CycleTotal(c) + TotalPay(U) + Fil
    BY <1>2, <1>3, CycleAddsUp
  <1> QED BY <1>1, <1>2, <1>4

LEMMA CycleFields ==
  ASSUME NEW n, NEW file, NEW known, NEW rows, NEW c, c = CycleOf(n, file, known, rows)
  PROVE  c.by = n /\ c.file = file /\ c.known = known /\ c.intents = {IntentOf(row) : row \in rows}
  BY DEF CycleOf, IntentOf

LEMMA NewCycleFits ==
  ASSUME NEW n, NEW file \in Files, Accepts(file), NEW known, NEW rows, rows \subseteq SalaryRows(file), ~SharesHolder(rows),
         \A row \in SalaryRows(file) \ rows : Unpaid(row, known), NEW c, c = CycleOf(n, file, known, rows)
  PROVE  CycleFits(c)
  <1>1. c.by = n /\ c.file = file /\ c.known = known /\ c.intents = {IntentOf(row) : row \in rows}
    BY CycleFields
  <1> QED BY <1>1 DEF CycleFits, PaysFor

LEMMA UploadsStart == Init => UploadInv
  <1> SUFFICES ASSUME Init PROVE UploadInv
    OBVIOUS
  <1>1. PICK files \in Earlier : cycles = Ingested(files, identified) /\ identified \in KnownFirst
    BY DEF Init, InitSifUpload
  <1>2. PICK ids : ids = identified
    OBVIOUS
  <1>3. files \in Seq(Files) /\ ids \in KnownFirst /\ cycles = Ingested(files, ids)
    BY <1>1, <1>2, EarlierWereIngested
  <1>4. DOMAIN cycles = DOMAIN files /\ DOMAIN files = 1..Len(files) /\ Len(files) \in Nat
    BY <1>3 DEF Ingested
  <1>5. \E S : cycles \in Seq(S)
    <2>1. PICK S : S = {cycles[i] : i \in DOMAIN cycles}
      OBVIOUS
    <2>2. cycles = [i \in DOMAIN cycles |-> cycles[i]]
      BY <1>3 DEF Ingested
    <2>3. PICK k : k = Len(files)
      OBVIOUS
    <2>4. k \in Nat /\ cycles \in [1..k -> S]
      BY <1>4, <2>1, <2>2, <2>3
    <2>5. cycles \in Seq(S)
      BY <2>4
    <2> QED BY <2>5
  <1>6. ASSUME NEW i \in DOMAIN cycles PROVE CycleFits(cycles[i]) /\ CycleScreened(i)
    <2>1. i \in DOMAIN files /\ files[i] \in Files
      BY <1>3, <1>4
    <2>2. /\ Accepts(files[i]) /\ ~SharesHolder(Matched(files[i], ids))
          /\ ~Blocked(SalaryRows(files[i]), History({cycles[j] : j \in 1..(i - 1)}))
      BY <1>1, <1>3, <2>1, EarlierWereIngested
    <2>3. cycles[i] = CycleOf(0, files[i], ids, Matched(files[i], ids))
      BY <1>3, <2>1 DEF Ingested
    <2>4. PICK c, rows, file : c = cycles[i] /\ rows = Matched(files[i], ids) /\ file = files[i]
      OBVIOUS
    <2>5. rows \subseteq SalaryRows(file) /\ \A row \in SalaryRows(file) \ rows : Unpaid(row, ids)
      BY <2>4 DEF Matched, Unpaid
    <2>6. CycleFits(c)
      BY <2>1, <2>2, <2>3, <2>4, <2>5, NewCycleFits
    <2>7. c.file = file
      BY <2>3, <2>4, CycleFields
    <2> QED BY <2>2, <2>4, <2>6, <2>7 DEF CycleScreened, Before
  <1>7. \A n \in Requests : request[n] = NotYet
    BY DEF Init, InitHandlers
  <1> QED BY <1>5, <1>6, <1>7 DEF UploadInv, CyclesFit, UploadFits, SameOp

(* Cycles stand, and requests for an upload rest or end. *)
LEMMA CyclesStand ==
  ASSUME CyclesFit, UNCHANGED cycles, met \subseteq met' PROVE CyclesFit' /\ OnRecord' = OnRecord
  <1>1. OnRecord' = OnRecord /\ \A i : Before(i)' = Before(i)
    BY DEF OnRecord, Before
  <1>2. ASSUME NEW i \in DOMAIN cycles PROVE CycleScreened(i)'
    <2>1. PICK B : B = {cycles[j] : j \in 1..(i - 1)}
      OBVIOUS
    <2>2. Blocked(SalaryRows(cycles[i].file), History(B)) => \E d \in B : Overlapped(cycles[i].by, d.by)
      BY <2>1 DEF CyclesFit, CycleScreened, Before
    <2>3. B = {cycles'[j] : j \in 1..(i - 1)} /\ cycles'[i] = cycles[i]
      BY <2>1
    <2>4. Blocked(SalaryRows(cycles[i].file), History(B)) => \E d \in B : Overlapped(cycles[i].by, d.by)'
      BY <2>2 DEF Overlapped
    <2> QED BY <2>3, <2>4 DEF CycleScreened, Before
  <1> QED BY <1>1, <1>2 DEF CyclesFit

LEMMA UploadStands ==
  ASSUME NEW n \in Requests, UploadFits(n), OnRecord' = OnRecord, identified \subseteq identified', met \subseteq met',
         request'[n] = request[n] \/ ~SameOp(n, "upload")' \/ request'[n].at \in Ended
  PROVE  UploadFits(n)'
  <1> SUFFICES ASSUME SameOp(n, "upload")', request'[n].at \notin Ended, request'[n] = request[n] PROVE UploadFits(n)'
    BY DEF UploadFits
  <1>1. UploadFits(n) /\ SameOp(n, "upload") /\ request[n].at \notin Ended
    BY DEF SameOp
  <1>2. Late(n) => Late(n)'
    BY DEF Late, Overlapped
  <1>3. PICK R : R = OnRecord
    OBVIOUS
  <1>4. OnRecord' = R /\ OnRecord = R
    BY <1>3
  <1>5. \A file : PassesNow(file) => PassesNow(file)'
    BY <1>4 DEF PassesNow
  <1>6. MatchedWell(n) => MatchedWell(n)'
    BY DEF MatchedWell
  <1> QED BY <1>1, <1>2, <1>4, <1>5, <1>6 DEF UploadFits

LEMMA UploadsRest ==
  ASSUME UploadInv, UNCHANGED cycles, identified \subseteq identified', met \subseteq met', Untouched("upload")
  PROVE  UploadInv'
  <1>1. CyclesFit' /\ OnRecord' = OnRecord /\ "died" \in Ended
    BY CyclesStand DEF UploadInv, Ended
  <1>2. \A n \in Requests : UploadFits(n)'
    BY <1>1, UploadStands DEF UploadInv, Untouched
  <1> QED BY <1>1, <1>2 DEF UploadInv

LEMMA OneUploadMoves ==
  ASSUME UploadInv, NEW n \in Requests, UNCHANGED sifVars, met \subseteq met',
         \A m \in Requests \ {n} : request'[m] = request[m], UploadFits(n)'
  PROVE  UploadInv'
  <1>1. UNCHANGED cycles /\ identified \subseteq identified'
    BY DEF sifVars
  <1>2. CyclesFit' /\ OnRecord' = OnRecord
    BY <1>1, CyclesStand DEF UploadInv
  <1>3. \A m \in Requests \ {n} : UploadFits(m)'
    BY <1>1, <1>2, UploadStands DEF UploadInv
  <1> QED BY <1>2, <1>3 DEF UploadInv

LEMMA UploadArrives == ASSUME HandlerInv, UploadInv, NEW file \in Files, Upload(file) PROVE UploadInv'
  <1>1. PICK r : r = [op |-> "upload", at |-> "parses", file |-> file, known |-> identified]
    OBVIOUS
  <1>2. /\ r.op = "upload" /\ r.at = "parses" /\ r.file = file /\ r.known = identified
        /\ {"file", "known"} \subseteq DOMAIN r
    BY <1>1
  <1>3. PICK n \in Requests : request[n] = NotYet /\ request' = [request EXCEPT ![n] = r] /\ met \subseteq met'
    BY <1>1 DEF Upload, Arrives
  <1>4. request'[n] = r /\ \A m \in Requests \ {n} : request'[m] = request[m]
    BY <1>3 DEF HandlerInv, RequestShape
  <1>5. UNCHANGED sifVars /\ identified' = identified
    BY DEF Upload, sifVars
  <1>6. UploadFits(n)'
    BY <1>2, <1>4, <1>5 DEF UploadFits
  <1> QED BY <1>3, <1>4, <1>5, <1>6, OneUploadMoves

LEMMA UploadIsBusy ==
  ASSUME UploadInv, NEW n \in Requests, NEW at, at \notin Ended, SifStep(n, at)
  PROVE  /\ n \in Busy /\ request[n].op = "upload" /\ request[n].at = at
         /\ SameOp(n, "upload") /\ UploadFits(n)
  <1>1. n \in Busy /\ request[n].op = "upload" /\ request[n].at = at
    BY DEF SifStep, Busy
  <1> QED BY <1>1, NotYetEnded DEF UploadInv, SameOp, Busy

LEMMA FileIsLookedUp == ASSUME HandlerInv, UploadInv, NEW n \in Requests, LookUpFile(n) PROVE UploadInv'
  <1>1. /\ n \in Busy /\ request[n].op = "upload" /\ request[n].at = "parses" /\ SameOp(n, "upload") /\ UploadFits(n)
        /\ request[n].at \notin Ended
    <2>1. SifStep(n, "parses")
      BY DEF LookUpFile
    <2>2. "parses" \notin Ended
      BY DEF Ended
    <2> QED BY <2>1, <2>2, UploadIsBusy
  <1>2. PICK at : /\ at \in {"reads history", "refused"} /\ GoesTo(n, at)
                  /\ at = "reads history" => Accepts(request[n].file)
    <2>1. CASE Accepts(request[n].file) /\ request[n].file \notin {c.file : c \in OnRecord}
      <3>1. GoesTo(n, "reads history")
        BY <2>1 DEF LookUpFile
      <3> QED BY <2>1, <3>1, Zenon
    <2>2. CASE ~(Accepts(request[n].file) /\ request[n].file \notin {c.file : c \in OnRecord})
      <3>1. GoesTo(n, "refused")
        BY <2>2 DEF LookUpFile
      <3>2. "refused" # "reads history"
        OBVIOUS
      <3> QED BY <3>1, <3>2, Zenon
    <2> QED BY <2>1, <2>2
  <1>3. /\ request'[n].at = at /\ \A m \in Requests \ {n} : request'[m] = request[m]
        /\ at \notin Ended => /\ DOMAIN request'[n] = DOMAIN request[n]
                              /\ \A f \in DOMAIN request[n] \ {"at"} : request'[n][f] = request[n][f]
    BY <1>1, <1>2, GoingOn
  <1>4. UNCHANGED sifVars /\ met \subseteq met' /\ identified' = identified
    BY <1>2 DEF LookUpFile, sifVars, GoesTo, Becomes
  <1>5. UploadFits(n)'
    <2> SUFFICES ASSUME request'[n].at \notin Ended PROVE UploadFits(n)'
      BY DEF UploadFits
    <2>1. /\ {"file", "known"} \subseteq DOMAIN request[n]
          /\ request[n].file \in Files /\ request[n].known \subseteq identified
      BY <1>1 DEF UploadFits
    <2>2. /\ {"file", "known"} \subseteq DOMAIN request'[n] /\ request'[n].at = "reads history"
          /\ request'[n].file = request[n].file /\ request'[n].known = request[n].known
      BY <1>2, <1>3, <2>1 DEF Ended
    <2> QED BY <1>2, <1>3, <1>4, <2>1, <2>2 DEF UploadFits
  <1> QED BY <1>3, <1>4, <1>5, OneUploadMoves

LEMMA HistoryIsRead == ASSUME HandlerInv, UploadInv, NEW n \in Requests, ReadHistory(n) PROVE UploadInv'
  <1>1. /\ n \in Busy /\ request[n].op = "upload" /\ request[n].at = "reads history" /\ SameOp(n, "upload") /\ UploadFits(n)
        /\ request[n].at \notin Ended
    <2>1. SifStep(n, "reads history")
      BY DEF ReadHistory
    <2>2. "reads history" \notin Ended
      BY DEF Ended
    <2> QED BY <2>1, <2>2, UploadIsBusy
  <1>2. PICK f, k, h : f = request[n].file /\ k = request[n].known /\ h = History(OnRecord)
    OBVIOUS
  <1>3. PICK r : r = [op |-> "upload", at |-> "screens", file |-> f, known |-> k, history |-> h]
    OBVIOUS
  <1>4. /\ r.at = "screens" /\ r.file = f /\ r.known = k /\ r.history = h
        /\ {"file", "known"} \subseteq DOMAIN r
    BY <1>3
  <1>5. Becomes(n, r) /\ UNCHANGED sifVars
    BY <1>2, <1>3 DEF ReadHistory
  <1>6. request'[n] = r /\ (\A m \in Requests \ {n} : request'[m] = request[m]) /\ met \subseteq met'
    BY <1>5 DEF Becomes, HandlerInv, RequestShape
  <1>7. OnRecord' = OnRecord /\ identified' = identified
    BY <1>5 DEF OnRecord, sifVars
  <1>8. f \in Files /\ k \subseteq identified /\ Accepts(f)
    BY <1>1, <1>2 DEF UploadFits
  <1>9. request'[n].history = History(OnRecord)'
    BY <1>2, <1>4, <1>6, <1>7
  <1>10. UploadFits(n)'
    BY <1>4, <1>6, <1>7, <1>8, <1>9 DEF UploadFits
  <1> QED BY <1>5, <1>6, <1>10, OneUploadMoves

LEMMA FileIsScreened == ASSUME HandlerInv, UploadInv, NEW n \in Requests, Screen(n) PROVE UploadInv'
  <1>1. /\ n \in Busy /\ request[n].op = "upload" /\ request[n].at = "screens" /\ SameOp(n, "upload") /\ UploadFits(n)
        /\ request[n].at \notin Ended
    <2>1. SifStep(n, "screens")
      BY DEF Screen
    <2>2. "screens" \notin Ended
      BY DEF Ended
    <2> QED BY <2>1, <2>2, UploadIsBusy
  <1>2. PICK at : /\ at \in {"matches", "refused"} /\ GoesTo(n, at)
                  /\ at = "matches" => ~Blocked(SalaryRows(request[n].file), request[n].history)
    BY DEF Screen
  <1>3. /\ request'[n].at = at /\ \A m \in Requests \ {n} : request'[m] = request[m]
        /\ at \notin Ended => /\ DOMAIN request'[n] = DOMAIN request[n]
                              /\ \A f \in DOMAIN request[n] \ {"at"} : request'[n][f] = request[n][f]
    BY <1>1, <1>2, GoingOn
  <1>4. UNCHANGED sifVars /\ met \subseteq met' /\ identified' = identified
    BY <1>2 DEF Screen, sifVars, GoesTo, Becomes
  <1>5. UploadFits(n)'
    <2> SUFFICES ASSUME request'[n].at \notin Ended PROVE UploadFits(n)'
      BY DEF UploadFits
    <2>1. /\ {"file", "known"} \subseteq DOMAIN request[n] /\ Accepts(request[n].file)
          /\ request[n].file \in Files /\ request[n].known \subseteq identified
          /\ request[n].history = History(OnRecord) \/ Late(n)
      BY <1>1 DEF UploadFits
    <2>2. /\ {"file", "known"} \subseteq DOMAIN request'[n] /\ request'[n].at = "matches"
          /\ request'[n].file = request[n].file /\ request'[n].known = request[n].known
      BY <1>2, <1>3, <2>1 DEF Ended
    <2>3. PassesNow(request[n].file) \/ Late(n)
      BY <1>2, <1>3, <2>1, <2>2 DEF PassesNow
    <2>4. OnRecord' = OnRecord
      BY <1>4 DEF OnRecord, sifVars
    <2>5. Late(n) => Late(n)'
      BY <1>4, <2>4 DEF Late, Overlapped
    <2>6. \A f : PassesNow(f) => PassesNow(f)'
      BY <2>4 DEF PassesNow
    <2> QED BY <1>4, <2>1, <2>2, <2>3, <2>5, <2>6 DEF UploadFits
  <1> QED BY <1>3, <1>4, <1>5, OneUploadMoves

LEMMA WorkersAreMatched == ASSUME HandlerInv, UploadInv, NEW n \in Requests, MatchWorkers(n) PROVE UploadInv'
  <1>1. /\ n \in Busy /\ request[n].op = "upload" /\ request[n].at = "matches" /\ SameOp(n, "upload") /\ UploadFits(n)
        /\ request[n].at \notin Ended
    <2>1. SifStep(n, "matches")
      BY DEF MatchWorkers
    <2>2. "matches" \notin Ended
      BY DEF Ended
    <2> QED BY <2>1, <2>2, UploadIsBusy
  <1>2. PICK f, k, rows : f = request[n].file /\ k = request[n].known /\ rows = Matched(request[n].file, identified)
    OBVIOUS
  <1>3. PICK r : r = [op |-> "upload", at |-> "writes", file |-> f, known |-> k, matched |-> rows]
    OBVIOUS
  <1>4. /\ r.at = "writes" /\ r.file = f /\ r.known = k /\ r.matched = rows
        /\ {"file", "known"} \subseteq DOMAIN r
    BY <1>3
  <1>5. Becomes(n, r) /\ UNCHANGED sifVars
    BY <1>2, <1>3 DEF MatchWorkers
  <1>6. request'[n] = r /\ (\A m \in Requests \ {n} : request'[m] = request[m]) /\ met \subseteq met'
    BY <1>5 DEF Becomes, HandlerInv, RequestShape
  <1>7. OnRecord' = OnRecord /\ identified' = identified
    BY <1>5 DEF OnRecord, sifVars
  <1>8. f \in Files /\ k \subseteq identified /\ Accepts(f) /\ (PassesNow(f) \/ Late(n))
    BY <1>1, <1>2 DEF UploadFits
  <1>9. rows \subseteq SalaryRows(f) /\ \A row \in SalaryRows(f) \ rows : Unpaid(row, k)
    BY <1>2, <1>8 DEF Matched, Unpaid
  <1>10. MatchedWell(n)'
    BY <1>4, <1>6, <1>9 DEF MatchedWell
  <1>11. (Late(n) => Late(n)') /\ (PassesNow(f) => PassesNow(f)')
    BY <1>6, <1>7 DEF Late, Overlapped, PassesNow
  <1>12. UploadFits(n)'
    BY <1>4, <1>6, <1>7, <1>8, <1>10, <1>11 DEF UploadFits
  <1> QED BY <1>5, <1>6, <1>12, OneUploadMoves

(* A cycle is added: those before it stand, and every upload still in      *)
(* progress has met the one that added it.                                 *)
LEMMA CycleIsAdded ==
  ASSUME CyclesFit, NEW c, cycles' = Append(cycles, c), CycleFits(c), met' = met,
         Blocked(SalaryRows(c.file), History(OnRecord)) => \E d \in OnRecord : Overlapped(c.by, d.by)
  PROVE  CyclesFit' /\ OnRecord' = OnRecord \cup {c}
  <1>1. PICK S : cycles \in Seq(S)
    BY DEF CyclesFit
  <1>2. PICK k : k = Len(cycles) + 1
    OBVIOUS
  <1>3. /\ Len(cycles) \in Nat /\ DOMAIN cycles = 1..(k - 1) /\ k \in Nat /\ DOMAIN cycles' = 1..k
        /\ cycles'[k] = c /\ \A i \in 1..(k - 1) : cycles'[i] = cycles[i]
    BY <1>1, <1>2
  <1>4. \E T : cycles' \in Seq(T)
    <2>1. cycles \in Seq(S \cup {c}) /\ c \in S \cup {c}
      BY <1>1
    <2>2. Append(cycles, c) \in Seq(S \cup {c})
      BY <2>1
    <2>3. cycles' \in Seq(S \cup {c})
      BY <2>2
    <2> QED BY <2>3
  <1>5. OnRecord' = OnRecord \cup {c}
    <2>1. OnRecord = {cycles[i] : i \in 1..(k - 1)} /\ OnRecord' = {cycles'[i] : i \in 1..k}
      BY <1>3 DEF OnRecord
    <2>2. \A i \in 1..k : i = k \/ i \in 1..(k - 1)
      BY <1>3
    <2>3. k \in 1..k /\ \A i \in 1..(k - 1) : i \in 1..k
      BY <1>3
    <2> QED BY <1>3, <2>1, <2>2, <2>3
  <1>6. ASSUME NEW i \in 1..k PROVE CycleScreened(i)'
    <2>1. PICK B : B = {cycles[j] : j \in 1..(i - 1)}
      OBVIOUS
    <2>2. \A j \in 1..(i - 1) : j \in 1..(k - 1)
      BY <1>3
    <2>3. B = {cycles'[j] : j \in 1..(i - 1)}
      BY <1>3, <2>1, <2>2
    <2>4. Blocked(SalaryRows(cycles'[i].file), History(B)) => \E d \in B : Overlapped(cycles'[i].by, d.by)
      <3>1. CASE i = k
        <4>1. B = OnRecord /\ cycles'[i] = c
          BY <1>3, <2>1, <3>1 DEF OnRecord
        <4> QED BY <4>1
      <3>2. CASE i # k
        <4>1. i \in DOMAIN cycles /\ cycles'[i] = cycles[i]
          BY <1>3, <3>2
        <4>2. CycleScreened(i)
          BY <4>1 DEF CyclesFit
        <4> QED BY <2>1, <4>1, <4>2 DEF CycleScreened, Before
      <3> QED BY <3>1, <3>2
    <2>5. PICK x : x = cycles'[i]
      OBVIOUS
    <2>6. Blocked(SalaryRows(x.file), History(B)) => \E d \in B : Overlapped(x.by, d.by)
      BY <2>4, <2>5
    <2>7. Blocked(SalaryRows(x.file), History(B)) => \E d \in B : {x.by, d.by} \in met'
      BY <2>6 DEF Overlapped
    <2> QED BY <2>3, <2>5, <2>7 DEF CycleScreened, Before, Overlapped
  <1>7. ASSUME NEW i \in 1..k PROVE CycleFits(cycles'[i])
    <2>1. i = k \/ i \in DOMAIN cycles
      BY <1>3
    <2> QED BY <1>3, <2>1 DEF CyclesFit
  <1>8. \A i \in DOMAIN cycles' : CycleFits(cycles'[i]) /\ CycleScreened(i)'
    BY <1>3, <1>6, <1>7
  <1>9. \A i \in DOMAIN cycles' : CycleFits(cycles[i])'
    BY <1>8 DEF CycleFits, PaysFor, IntentOf
  <1> QED BY <1>4, <1>5, <1>8, <1>9 DEF CyclesFit

LEMMA CycleIsWritten == ASSUME HandlerInv, UploadInv, NEW n \in Requests, WriteCycle(n) PROVE UploadInv'
  <1>1. /\ n \in Busy /\ request[n].op = "upload" /\ request[n].at = "writes" /\ SameOp(n, "upload") /\ UploadFits(n)
        /\ request[n].at \notin Ended
    <2>1. SifStep(n, "writes")
      BY DEF WriteCycle
    <2>2. "writes" \notin Ended
      BY DEF Ended
    <2> QED BY <2>1, <2>2, UploadIsBusy
  <1>2. PICK f, k, rows : f = request[n].file /\ k = request[n].known /\ rows = request[n].matched
    OBVIOUS
  <1>3. /\ f \in Files /\ k \subseteq identified /\ Accepts(f) /\ (PassesNow(f) \/ Late(n))
        /\ rows \subseteq SalaryRows(f) /\ \A row \in SalaryRows(f) \ rows : Unpaid(row, k)
    BY <1>1, <1>2 DEF UploadFits, MatchedWell
  <1>4. \/ GoesTo(n, "refused") /\ UNCHANGED cycles
        \/ GoesTo(n, "done") /\ ~SharesHolder(rows) /\ cycles' = Append(cycles, CycleOf(n, f, k, rows))
    BY <1>2 DEF WriteCycle
  <1>5. identified' = identified
    BY DEF WriteCycle
  <1>6. PICK at : at \in {"refused", "done"} /\ GoesTo(n, at)
    BY <1>4
  <1>7. at \in Ended /\ at # "not yet"
    BY <1>6 DEF Ended
  <1>8. request'[n].at = at /\ (\A m \in Requests \ {n} : request'[m] = request[m])
    BY <1>1, <1>6, <1>7, GoingOn
  <1>9. met' = met
    BY <1>6 DEF GoesTo, Becomes
  <1>10. CASE UNCHANGED cycles
    <2>1. CyclesFit' /\ OnRecord' = OnRecord
      BY <1>9, <1>10, CyclesStand DEF UploadInv
    <2>2. \A m \in Requests : UploadFits(m)'
      BY <1>5, <1>7, <1>8, <1>9, <2>1, UploadStands DEF UploadInv
    <2> QED BY <2>1, <2>2 DEF UploadInv
  <1>11. CASE ~SharesHolder(rows) /\ cycles' = Append(cycles, CycleOf(n, f, k, rows))
    <2>1. PICK c : c = CycleOf(n, f, k, rows)
      OBVIOUS
    <2>2. c.by = n /\ c.file = f /\ CycleFits(c)
      BY <1>3, <1>11, <2>1, CycleFields, NewCycleFits
    <2>3. Blocked(SalaryRows(c.file), History(OnRecord)) => \E d \in OnRecord : Overlapped(c.by, d.by)
      <3>1. \A d : Overlapped(d.by, n) => Overlapped(n, d.by)
        <4>1. \A a, b : {a, b} = {b, a}
          OBVIOUS
        <4> QED BY <4>1 DEF Overlapped
      <3> QED BY <1>3, <2>2, <3>1 DEF PassesNow, Late
    <2>4. CyclesFit' /\ OnRecord' = OnRecord \cup {c}
      BY <1>9, <1>11, <2>1, <2>2, <2>3, CycleIsAdded DEF UploadInv
    <2>5. ASSUME NEW m \in Requests PROVE UploadFits(m)'
      <3> SUFFICES ASSUME SameOp(m, "upload")', request'[m].at \notin Ended PROVE UploadFits(m)'
        BY DEF UploadFits
      <3>1. m # n /\ request'[m] = request[m]
        BY <1>7, <1>8
      <3>2. SameOp(m, "upload") /\ request[m].at \notin Ended /\ UploadFits(m)
        BY <3>1 DEF SameOp, UploadInv
      <3>3. Overlapped(n, m)
        BY <1>1, <3>1, <3>2 DEF HandlerInv, BusyMet, Busy
      <3>4. Late(m)'
        BY <1>9, <2>2, <2>4, <3>3 DEF Late, Overlapped
      <3>5. MatchedWell(m) => MatchedWell(m)'
        BY <3>1 DEF MatchedWell
      <3> QED BY <1>5, <3>1, <3>2, <3>4, <3>5 DEF UploadFits
    <2> QED BY <2>4, <2>5 DEF UploadInv
  <1> QED BY <1>4, <1>10, <1>11

LEMMA UploadKeeps == ASSUME HandlerInv, UploadInv, UploadNext PROVE UploadInv'
  <1>1. CASE VerifyWorker
    <2>1. UNCHANGED handlerVars /\ UNCHANGED cycles /\ identified \subseteq identified'
      BY <1>1 DEF VerifyWorker
    <2>2. met \subseteq met' /\ Untouched("upload")
      BY <2>1 DEF handlerVars, Untouched
    <2> QED BY <2>1, <2>2, UploadsRest
  <1>2. CASE \E file \in Files : Upload(file)
    BY <1>2, UploadArrives
  <1>3. ASSUME NEW n \in Requests, UploadSteps(n) PROVE UploadInv'
    BY <1>3, FileIsLookedUp, HistoryIsRead, FileIsScreened, WorkersAreMatched, CycleIsWritten DEF UploadSteps
  <1> QED BY <1>1, <1>2, <1>3 DEF UploadNext

LEMMA UploadGoesOn == ASSUME HandlerInv, UploadInv, [Next]_vars PROVE UploadInv'
  <1>1. CASE UploadNext
    BY <1>1, UploadKeeps
  <1>2. CASE LoginNext \/ ScreeningNext \/ AdvanceNext \/ CohortNext \/ PayrollNext \/ RouteNext \/ SessionNext
    <2>1. UNCHANGED sifVars
      BY <1>2 DEF LoginNext, ScreeningNext, AdvanceNext, CohortNext, PayrollNext, RouteNext, SessionNext,
                  PersonFrame, CohortFrame, PayrollFrame, RouteFrame, SessionFrame
    <2>2. PICK ops : HandlerStep(ops) /\ "upload" \notin ops
      <3>1. /\ "upload" \notin PayrollOps /\ "upload" \notin RouteOps /\ "upload" \notin SessionOps
            /\ "upload" \notin {"login"} /\ "upload" \notin {"kyc", "rescreen"} /\ "upload" \notin {"advance"}
            /\ "upload" \notin {"clear"}
        BY DEF PayrollOps, RouteOps, SessionOps
      <3> QED BY <1>2, <3>1, LoginRequests, ScreeningRequests, AdvanceRequests, CohortRequests, PayrollRequests,
                 RouteRequests, SessionRequests
    <2> QED BY <2>1, <2>2, OthersUntouched, UploadsRest DEF HandlerStep, sifVars
  <1>3. CASE Fault
    <2>1. UNCHANGED sifVars
      BY <1>3 DEF Fault, Dies, CohortFrame, PayrollFrame, SessionFrame
    <2>2. Untouched("upload") /\ met' = met
      BY <1>3, FaultRequests, KilledOnly DEF Killing
    <2> QED BY <2>1, <2>2, UploadsRest DEF sifVars
  <1>4. CASE CodesNext \/ UNCHANGED vars
    <2>1. UNCHANGED handlerVars /\ UNCHANGED sifVars
      BY <1>4 DEF CodesNext, CodeExpires, PersonFrame, vars
    <2>2. met \subseteq met' /\ Untouched("upload")
      BY <2>1 DEF handlerVars, Untouched
    <2> QED BY <2>1, <2>2, UploadsRest DEF sifVars
  <1> QED BY <1>1, <1>2, <1>3, <1>4 DEF Next

(* CyclesAreAccounted: what a cycle owes its workers and what its file     *)
(* pays to those who were not known when it came add up to the file's      *)
(* trailer, but for a fil; and a file the screen blocks against the cycles *)
(* before it has become one only beside another upload.                    *)
THEOREM CyclesAreAccountedHolds == Spec => []CyclesAreAccounted
  <1>1. Init => HandlerInv /\ UploadInv
    BY HandlersInit, UploadsStart DEF Init
  <1>2. HandlerInv /\ UploadInv /\ [Next]_vars => (HandlerInv /\ UploadInv)'
    BY StepKeepsRequests, UploadGoesOn
  <1>3. UploadInv => CyclesAreAccounted
    BY CyclesShow
  <1> QED BY <1>1, <1>2, <1>3, PTL DEF Spec
==============================================================================
