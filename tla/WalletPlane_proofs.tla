------------------------ MODULE WalletPlane_proofs ------------------------
(***************************************************************************)
(* Proofs about WalletPlane, for any number of requests, employees,        *)
(* quotes, payments, events, days and faults: an idempotency key moves     *)
(* money once, a refund mirrors a failure, what is done outside is         *)
(* charged, bursts of authorizations are declined, the card's row follows  *)
(* its issuer, the loans' rows and the score follow the lender, and the    *)
(* phone's session is one person's.                                        *)
(***************************************************************************)
EXTENDS WalletPlane, Handlers_proofs, FiniteSetTheorems

SavingsOps == {"deposit", "withdraw"}
RemittanceOps == {"send", "report"}
CardOps == Managing \cup {"status", "order", "event"}
LoanOps == {"ewa", "batch", "lender report"}

LEMMA Entering == ASSUME HandlerInv, NEW ops, Enters(ops) PROVE HandlerStep(ops)
  BY Arriving DEF Enters

(* Only a call of the phone comes to wait for a step-up code. *)
NoneAsked == \A n \in Requests : request'[n] = request[n] \/ request'[n].at # "awaits code"

Calls(ops) == \E r : IsRequest(r) /\ r # NotYet /\ r.op \in ops /\ r.at # "awaits code" /\ Arrives(r)
Serves(n) ==
  \/ \E at : at \notin {"not yet", "awaits code"} /\ GoesTo(n, at)
  \/ \E r : IsRequest(r) /\ r # NotYet /\ r.op = request[n].op /\ r.at # "awaits code" /\ Becomes(n, r)

LEMMA CallEnters == ASSUME HandlerInv, NEW ops, Calls(ops) PROVE HandlerStep(ops) /\ NoneAsked
  <1>1. PICK r : IsRequest(r) /\ r # NotYet /\ r.op \in ops /\ r.at # "awaits code" /\ Arrives(r)
    BY DEF Calls
  <1>2. HandlerStep(ops)
    BY <1>1, Arriving
  <1>3. PICK n \in Requests : request'[n] = r /\ \A m \in Requests \ {n} : request'[m] = request[m]
    BY <1>1, Arriving
  <1> QED BY <1>1, <1>2, <1>3 DEF NoneAsked

LEMMA Serving ==
  ASSUME HandlerInv, NEW n \in Busy, Serves(n), NEW ops, request[n].op \in ops
  PROVE  HandlerStep(ops) /\ NoneAsked
  <1>0. n \in Requests
    BY DEF Busy
  <1>1. CASE \E at : at \notin {"not yet", "awaits code"} /\ GoesTo(n, at)
    <2>1. PICK at : at \notin {"not yet", "awaits code"} /\ GoesTo(n, at)
      BY <1>1
    <2>2. HandlerStep(ops)
      BY <2>1, Going
    <2>3. request'[n].at = at /\ \A m \in Requests \ {n} : request'[m] = request[m]
      BY <2>1, GoingOn
    <2> QED BY <2>1, <2>2, <2>3 DEF NoneAsked
  <1>2. CASE \E r : IsRequest(r) /\ r # NotYet /\ r.op = request[n].op /\ r.at # "awaits code" /\ Becomes(n, r)
    <2>1. PICK r : IsRequest(r) /\ r # NotYet /\ r.op = request[n].op /\ r.at # "awaits code" /\ Becomes(n, r)
      BY <1>2
    <2>2. HandlerStep(ops) /\ request'[n] = r
      BY <2>1, Becoming
    <2>3. \A m \in Requests \ {n} : request'[m] = request[m]
      BY <2>1 DEF Becomes, HandlerInv, RequestShape
    <2> QED BY <2>1, <2>2, <2>3 DEF NoneAsked
  <1> QED BY <1>1, <1>2 DEF Serves

LEMMA Resting == ASSUME HandlerInv, UNCHANGED handlerVars, NEW ops PROVE HandlerStep(ops) /\ NoneAsked
  BY HandlersRest DEF NoneAsked, handlerVars

LEMMA InProgress ==
  ASSUME HandlerInv, NEW n \in Busy
  PROVE  /\ n \in Requests /\ request[n] # NotYet /\ {"at", "op"} \subseteq DOMAIN request[n]
         /\ request[n] = [f \in DOMAIN request[n] |-> request[n][f]]
  <1>1. NotYet.at \in Ended
    BY DEF NotYet, Ended
  <1>2. n \in Requests /\ request[n] # NotYet /\ IsRequest(request[n])
    BY <1>1 DEF HandlerInv, RequestShape, Busy
  <1> QED BY <1>2 DEF IsRequest

(***************************************************************************)
(* What each service does to the requests.                                 *)
(***************************************************************************)
LEMMA TransferRequests == ASSUME HandlerInv, TransferNext PROVE HandlerStep({"transfer"}) /\ NoneAsked
  <1>1. CASE TransferArrives
    <2>1. Calls({"transfer"})
      BY <1>1 DEF Calls, TransferArrives, Transfer, IsRequest, NotYet
    <2> QED BY <2>1, CallEnters
  <1>2. CASE \E n \in Requests : TransferSteps(n)
    <2>1. PICK n \in Requests : TransferSteps(n)
      BY <1>2
    <2>2. n \in Busy /\ request[n].op = "transfer"
      BY <2>1, IsBusy DEF TransferSteps, CheckReplay, CheckTransfer, CommitTransfer, TransferConflicts,
                          FindReferral, PayReward, Ended
    <2>3. Serves(n)
      BY <2>1 DEF TransferSteps, CheckReplay, CheckTransfer, CommitTransfer, TransferConflicts,
                  FindReferral, PayReward, Refused, AfterTransfer, Serves
    <2> QED BY <2>2, <2>3, Serving
  <1> QED BY <1>1, <1>2 DEF TransferNext

LEMMA SavingsRequests == ASSUME HandlerInv, SavingsNext PROVE HandlerStep(SavingsOps) /\ NoneAsked
  <1>1. CASE SavingsArrives
    <2>1. Calls(SavingsOps)
      BY <1>1 DEF Calls, SavingsArrives, AutoSave, Deposit, Withdraw, IsRequest, NotYet, SavingsOps
    <2> QED BY <2>1, CallEnters
  <1>2. CASE \E g \in Goals : CreateGoal(g)
    BY <1>2, Resting DEF CreateGoal, sharedVars
  <1>3. CASE \E n \in Requests : SavingsSteps(n)
    <2>1. PICK n \in Requests : SavingsSteps(n)
      BY <1>3
    <2>2. n \in Busy /\ request[n].op \in SavingsOps
      BY <2>1, IsBusy DEF SavingsSteps, CheckDeposit, CommitDeposit, CheckWithdrawal, CommitWithdrawal,
                          NextAutoSave, SavingsOps, Ended
    <2>3. Serves(n)
      <3>1. CASE CheckDeposit(n) \/ CommitDeposit(n) \/ CheckWithdrawal(n) \/ CommitWithdrawal(n)
        BY <3>1 DEF CheckDeposit, CommitDeposit, CheckWithdrawal, CommitWithdrawal, AfterDeposit, Serves
      <3>2. CASE NextAutoSave(n)
        BY <2>2, <3>2, InProgress DEF NextAutoSave, Serves, IsRequest, NotYet
      <3> QED BY <2>1, <3>1, <3>2 DEF SavingsSteps
    <2> QED BY <2>2, <2>3, Serving
  <1> QED BY <1>1, <1>2, <1>3 DEF SavingsNext

LEMMA RemittanceRequests == ASSUME HandlerInv, RemittanceNext PROVE HandlerStep(RemittanceOps) /\ NoneAsked
  <1>1. CASE RemittanceArrives
    <2>1. Calls(RemittanceOps)
      BY <1>1 DEF Calls, RemittanceArrives, Send, SendQuote, Report, IsRequest, NotYet, RemittanceOps
    <2> QED BY <2>1, CallEnters
  <1>2. CASE \/ \E q \in Quotes : LockQuote(q) \/ QuoteExpires(q)
             \/ \E t \in Requests, verdict \in {"succeeded", "failed"} : RailDecides(t, verdict)
    BY <1>2, Resting DEF LockQuote, QuoteExpires, RailDecides, sharedVars
  <1>3. CASE \E n \in Requests : RemittanceSteps(n)
    <2>1. PICK n \in Requests : RemittanceSteps(n)
      BY <1>3
    <2>2. n \in Busy /\ request[n].op \in RemittanceOps
      BY <2>1, IsBusy DEF RemittanceSteps, ReadQuote, DropQuote, CheckSend, CallRail, RailRefuses, CommitSend,
                          FindRemittance, LookForRefund, CommitRefund, RefundConflicts, RemittanceOps, Ended
    <2>3. Serves(n)
      BY <2>1 DEF RemittanceSteps, ReadQuote, DropQuote, CheckSend, CallRail, RailRefuses, CommitSend, AfterCheck,
                  FindRemittance, LookForRefund, CommitRefund, RefundConflicts, Refused, Serves
    <2> QED BY <2>2, <2>3, Serving
  <1> QED BY <1>1, <1>2, <1>3 DEF RemittanceNext

LEMMA CardProceeds ==
  ASSUME HandlerInv, NEW n \in Requests, CardSteps(n)
  PROVE  n \in Busy /\ request[n].op \in CardOps /\ Serves(n)
  <1>1. n \in Busy /\ request[n].op \in CardOps
    BY DEF CardSteps, ReadCard, AskIssuer, IssuerRefuses, WriteCard, ReadStatusEvent, WriteStatusEvent,
                CheckOrder, IssuePlastic, CommitOrder, OrderConflicts, ReadEventCard, CheckEvent, CommitEvent,
                EventConflicts, SumCashback, PayCashback, Manages, Is, Busy, Ended, CardOps
  <1>2. Serves(n)
    <2>1. CASE ReadEventCard(n)
      BY <1>1, <2>1, InProgress DEF ReadEventCard, Serves, IsRequest, NotYet
    <2>2. CASE CheckEvent(n)
      BY <1>1, <2>2, InProgress DEF CheckEvent, Serves, IsRequest, NotYet
    <2>3. CASE SumCashback(n)
      <3> DEFINE earned == SumOf(Total, CashbackRows(today))
      <3> HIDE DEF earned
      <3> QED BY <1>1, <2>3, InProgress DEF SumCashback, Serves, IsRequest, NotYet
    <2>4. CASE \/ ReadCard(n) \/ AskIssuer(n) \/ IssuerRefuses(n) \/ WriteCard(n) \/ ReadStatusEvent(n)
               \/ WriteStatusEvent(n) \/ CheckOrder(n) \/ IssuePlastic(n) \/ CommitOrder(n) \/ OrderConflicts(n)
               \/ CommitEvent(n) \/ EventConflicts(n) \/ PayCashback(n)
      BY <2>4 DEF ReadCard, AskIssuer, IssuerRefuses, WriteCard, ReadStatusEvent, WriteStatusEvent,
                  CheckOrder, IssuePlastic, CommitOrder, OrderConflicts, CommitEvent,
                  EventConflicts, PayCashback, Refused, Serves
    <2> QED BY <2>1, <2>2, <2>3, <2>4 DEF CardSteps
  <1> QED BY <1>1, <1>2

LEMMA CardRequests == ASSUME HandlerInv, CardNext PROVE HandlerStep(CardOps) /\ NoneAsked
  <1>1. CASE ControlArrives \/ StatusEvent \/ EventArrives \/ OrderCard
    <2>1. Calls(CardOps)
      BY <1>1 DEF Calls, ControlArrives, Manage, StatusEvent, EventArrives, TransactionEvent, OrderCard,
                  IsRequest, NotYet, CardOps, Managing
    <2> QED BY <2>1, CallEnters
  <1>2. CASE Manage("tokenize")
    <2>1. Calls(CardOps)
      BY <1>2 DEF Calls, Manage, IsRequest, NotYet, CardOps, Managing
    <2> QED BY <2>1, CallEnters
  <1>3. CASE IssuerExpires
    BY <1>3, Resting DEF IssuerExpires, sharedVars
  <1>4. CASE \E n \in Requests : CardSteps(n)
    <2>1. PICK n \in Requests : CardSteps(n)
      BY <1>4
    <2>2. n \in Busy /\ request[n].op \in CardOps /\ Serves(n)
      BY <2>1, CardProceeds
    <2> QED BY <2>2, Serving
  <1> QED BY <1>1, <1>2, <1>3, <1>4 DEF CardNext

LEMMA AuthorizeRequests == ASSUME HandlerInv, AuthorizeNext PROVE HandlerStep({"authorize"}) /\ NoneAsked
  <1>1. CASE \E a \in Attempts : Authorization(a)
    <2>1. Calls({"authorize"})
      BY <1>1 DEF Calls, Authorization, IsRequest, NotYet
    <2> QED BY <2>1, CallEnters
  <1>2. CASE VelocityExpires
    BY <1>2, Resting DEF VelocityExpires, sharedVars
  <1>3. CASE \E n \in Requests : AuthorizeSteps(n)
    <2>1. PICK n \in Requests : AuthorizeSteps(n)
      BY <1>3
    <2>2. n \in Busy /\ request[n].op = "authorize"
      BY <2>1, IsBusy DEF AuthorizeSteps, ReadVelocity, CheckBalance, TimesOut, ReadCount, WriteCount, Ended
    <2>3. Serves(n)
      <3>1. CASE ReadVelocity(n)
        BY <2>2, <3>1, InProgress DEF ReadVelocity, Scores, Answers, AfterAnswer, Serves, IsRequest, NotYet
      <3>2. CASE ReadCount(n)
        BY <2>2, <3>2, InProgress DEF ReadCount, CountsOn, Serves, IsRequest, NotYet
      <3>3. CASE CheckBalance(n) \/ TimesOut(n) \/ WriteCount(n)
        BY <3>3 DEF CheckBalance, TimesOut, WriteCount, Answers, AfterAnswer, Serves
      <3> QED BY <2>1, <3>1, <3>2, <3>3 DEF AuthorizeSteps
    <2> QED BY <2>2, <2>3, Serving
  <1> QED BY <1>1, <1>2, <1>3 DEF AuthorizeNext

LEMMA LoanRequests == ASSUME HandlerInv, LoanNext PROVE HandlerStep(LoanOps) /\ NoneAsked
  <1>1. CASE \/ \E principal \in Principals : RequestAdvance(principal)
             \/ BatchUpdate
             \/ \E m \in Requests, decision \in Decisions : LenderReport(m, decision)
    <2>1. Calls(LoanOps)
      BY <1>1 DEF Calls, RequestAdvance, BatchUpdate, LenderReport, IsRequest, NotYet, LoanOps
    <2> QED BY <2>1, CallEnters
  <1>2. CASE ScoreAges \/ \E m \in Requests, decision \in Decisions : LenderDecides(m, decision)
    BY <1>2, Resting DEF ScoreAges, LenderDecides, sharedVars
  <1>3. CASE \E n \in Requests : LoanSteps(n)
    <2>1. PICK n \in Requests : LoanSteps(n)
      BY <1>3
    <2>2. n \in Busy /\ request[n].op \in LoanOps
      BY <2>1 DEF LoanSteps, ReadScore, CollectFactors, StoreScore, CallLender, CreateLoan, FindLoan, WriteLoan,
                  Scoring, Is, Busy, Ended, LoanOps
    <2>3. Serves(n)
      <3>1. CASE CollectFactors(n)
        <4> DEFINE counted == Defaults
        <4> HIDE DEF counted
        <4> QED BY <2>2, <3>1, InProgress DEF CollectFactors, Serves, IsRequest, NotYet
      <3>2. CASE FindLoan(n)
        BY <2>2, <3>2, InProgress DEF FindLoan, Serves, IsRequest, NotYet
      <3>3. CASE ReadScore(n) \/ StoreScore(n)
        BY <3>3 DEF ReadScore, StoreScore, Decides, Serves
      <3>4. CASE CallLender(n) \/ CreateLoan(n) \/ WriteLoan(n)
        BY <3>4 DEF CallLender, CreateLoan, WriteLoan, Serves
      <3> QED BY <2>1, <3>1, <3>2, <3>3, <3>4 DEF LoanSteps
    <2> QED BY <2>2, <2>3, Serving
  <1> QED BY <1>1, <1>2, <1>3 DEF LoanNext

LEMMA KeyedRequests == ASSUME HandlerInv, KeyedNext PROVE HandlerStep({"keyed"}) /\ NoneAsked
  <1>1. CASE KeyedArrives
    <2>1. Calls({"keyed"})
      BY <1>1 DEF Calls, KeyedArrives, KeyedCall, IsRequest, NotYet
    <2> QED BY <2>1, CallEnters
  <1>2. CASE \E w \in onTheWay : StoreAnswer(w)
    BY <1>2, Resting DEF StoreAnswer, sharedVars
  <1>3. CASE \E n \in Requests : KeyedSteps(n)
    <2>1. PICK n \in Requests : KeyedSteps(n)
      BY <1>3
    <2>2. n \in Busy /\ request[n].op = "keyed"
      BY <2>1, IsBusy DEF KeyedSteps, LookUpKey, Replay, Authenticate, CheckStepCode, Run, RunFails, AnswerRun, Ended
    <2>3. \A status : Hears(n, status) => Serves(n)
      BY <2>2, InProgress DEF Hears, Resends, Serves, IsRequest, NotYet
    <2>4. Serves(n)
      <3>1. CASE LookUpKey(n)
        <4> DEFINE alone == ~\E w \in onTheWay : w.key = request[n].key
        <4>1. Becomes(n, [request[n] EXCEPT !.at = "authenticates", !.alone = alone])
          BY <3>1 DEF LookUpKey
        <4> HIDE DEF alone
        <4> QED BY <2>2, <4>1, InProgress DEF Serves, IsRequest, NotYet
      <3>2. CASE Replay(n) \/ RunFails(n) \/ AnswerRun(n)
        BY <2>3, <3>2 DEF Replay, RunFails, AnswerRun, Refuses
      <3>3. CASE Authenticate(n) \/ CheckStepCode(n) \/ Run(n)
        BY <2>3, <3>3 DEF Authenticate, CheckStepCode, Run, Refuses, KeyedTo, Serves
      <3> QED BY <2>1, <3>1, <3>2, <3>3 DEF KeyedSteps
    <2> QED BY <2>2, <2>4, Serving
  <1> QED BY <1>1, <1>2, <1>3 DEF KeyedNext

(* The call the modal asks a code for waits for it. *)
ChallengeInv == \A n \in Requests : n = challenge => Is(n, "call", "awaits code")

LEMMA PhoneProceeds ==
  ASSUME HandlerInv, NEW n \in Requests, PhoneSteps(n), ~NeedsCode(n)
  PROVE  n \in Busy /\ request[n].op \in PhoneOps /\ Proceeds(n)
  <1>1. n \in Busy /\ request[n].op \in PhoneOps
    BY DEF PhoneSteps, Attach, Answered, IsRejected, Unauthorized, ReadRefresh, Refresh, Keep, Store, Clear,
           NeedsCode, EnterCode, CancelCode, OnPhone, Busy, Ended
  <1>13. \A at : at # "not yet" /\ GoesTo(n, at) => Proceeds(n)
    BY DEF Proceeds
  <1>2. CASE Attach(n)
    BY <1>1, <1>2, InProgress DEF Attach, Proceeds, IsRequest, NotYet
  <1>3. CASE Answered(n)
    BY <1>1, <1>3, InProgress DEF Answered, Clears, Proceeds, IsRequest, NotYet
  <1>4. CASE IsRejected(n) \/ EnterCode(n) \/ CancelCode(n)
    BY <1>1, <1>4, <1>13 DEF IsRejected, EnterCode, CancelCode
  <1>5. CASE Unauthorized(n)
    BY <1>1, <1>5, InProgress DEF Unauthorized, Proceeds, IsRequest, NotYet
  <1>6. CASE ReadRefresh(n)
    BY <1>1, <1>6, InProgress DEF ReadRefresh, Clears, Proceeds, IsRequest, NotYet
  <1>7. CASE Refresh(n)
    BY <1>1, <1>7, InProgress DEF Refresh, Clears, Proceeds, IsRequest, NotYet
  <1>8. ASSUME NEW item, GoesOn(n, item), request[n].at # "not yet" PROVE Proceeds(n)
    BY <1>1, <1>8, InProgress DEF GoesOn, Proceeds, IsRequest, NotYet
  <1>9. request[n].at # "not yet"
    BY <1>1 DEF Busy, Ended
  <1>10. CASE Keep(n)
    BY <1>1, <1>8, <1>9, <1>10, InProgress DEF Keep, Proceeds, IsRequest, NotYet
  <1>11. CASE Store(n)
    BY <1>1, <1>8, <1>9, <1>11, <1>13 DEF Store
  <1>12. CASE Clear(n)
    BY <1>1, <1>8, <1>9, <1>12, <1>13 DEF Clear
  <1> QED BY <1>1, <1>2, <1>3, <1>4, <1>5, <1>6, <1>7, <1>10, <1>11, <1>12 DEF PhoneSteps

LEMMA PhoneRequests == ASSUME HandlerInv, ChallengeInv, PhoneNext PROVE HandlerStep(PhoneOps)
  <1>1. CASE PhoneStarts
    <2>1. Enters(PhoneOps)
      BY <1>1 DEF Enters, PhoneStarts, Call, SignOut, SignIn, Starts, Phone, IsRequest, NotYet, PhoneOps
    <2> QED BY <2>1, Entering
  <1>2. ASSUME NEW n \in Requests, PhoneSteps(n) PROVE HandlerStep(PhoneOps)
    <2>1. CASE ~NeedsCode(n)
      BY <1>2, <2>1, PhoneProceeds, Proceeding
    <2>2. CASE NeedsCode(n)
      <3>1. n \in Busy /\ request[n].op = "call" /\ request[n].at = "sent" /\ met' = met
        BY <2>2 DEF NeedsCode, OnPhone, Busy, Ended
      <3> DEFINE asks == [request[n] EXCEPT !.at = "awaits code", !.stepped = TRUE]
      <3> DEFINE gone == [op |-> "call", at |-> "refused"]
      <3>2. request' = [m \in Requests |-> IF m = n THEN asks ELSE IF m = challenge THEN gone ELSE request[m]]
        BY <2>2 DEF NeedsCode
      <3>3. /\ IsRequest(asks) /\ asks # NotYet /\ asks.op = "call"
            /\ IsRequest(gone) /\ gone # NotYet /\ gone.op = "call" /\ gone.at \in Ended
        BY <3>1, InProgress DEF IsRequest, NotYet, Ended
      <3> HIDE DEF asks, gone
      <3>4. \A m \in Requests : m = challenge => request[m].op = "call" /\ m \in Busy
        BY DEF ChallengeInv, Is, Busy, Ended
      <3>5. RequestShape'
        BY <3>2, <3>3 DEF HandlerInv, RequestShape
      <3>6. Busy' \subseteq Busy
        BY <3>1, <3>2, <3>3 DEF Busy
      <3>7. BusyMet'
        BY <3>1, <3>6 DEF HandlerInv, BusyMet, Overlapped
      <3> QED BY <3>1, <3>2, <3>3, <3>4, <3>5, <3>7 DEF HandlerStep, HandlerInv, PhoneOps
    <2> QED BY <2>1, <2>2
  <1> QED BY <1>1, <1>2 DEF PhoneNext

LEMMA PhoneKeepsChallenge == ASSUME HandlerInv, ChallengeInv, PhoneNext PROVE ChallengeInv'
  <1>1. CASE PhoneStarts
    <2>1. challenge' = challenge
      BY <1>1 DEF PhoneStarts, Call, SignOut, SignIn, Starts, phoneVars
    <2>2. PICK r : Arrives(r)
      BY <1>1 DEF PhoneStarts, Call, SignOut, SignIn, Starts
    <2>3. \A m \in Requests : request[m] # NotYet => request'[m] = request[m]
      BY <2>2 DEF Arrives, HandlerInv, RequestShape
    <2>4. NotYet.at # "awaits code"
      BY DEF NotYet
    <2> QED BY <2>1, <2>3, <2>4 DEF ChallengeInv, Is
  <1>2. ASSUME NEW n \in Requests, PhoneSteps(n) PROVE ChallengeInv'
    <2>1. CASE NeedsCode(n)
      <3>1. n \in Busy /\ request[n].op = "call" /\ request[n].at = "sent" /\ challenge' = n
        BY <2>1 DEF NeedsCode, OnPhone, Busy, Ended
      <3>2. request'[n] = [request[n] EXCEPT !.at = "awaits code", !.stepped = TRUE]
        BY <2>1 DEF NeedsCode
      <3>3. request'[n].at = "awaits code" /\ request'[n].op = "call"
        BY <3>1, <3>2, InProgress
      <3> QED BY <3>1, <3>3 DEF ChallengeInv, Is
    <2>2. CASE EnterCode(n) \/ CancelCode(n)
      <3>1. challenge' = 0
        BY <2>2 DEF EnterCode, CancelCode
      <3>2. 0 \notin Requests
        BY MaxRequestsIsNatural DEF Requests
      <3> QED BY <3>1, <3>2 DEF ChallengeInv
    <2>3. CASE ~(NeedsCode(n) \/ EnterCode(n) \/ CancelCode(n))
      <3>1. challenge' = challenge /\ request[n].at # "awaits code"
        BY <1>2, <2>3 DEF PhoneSteps, Attach, Answered, IsRejected, Unauthorized, ReadRefresh, Refresh, Keep,
                          Store, Clear, OnPhone, phoneVars
      <3>2. \A m \in Requests \ {n} : request'[m] = request[m]
        <4>1. PICK r : Becomes(n, r)
          BY <1>2, <2>3, PhoneProceeds DEF Proceeds, GoesTo
        <4> QED BY <4>1 DEF Becomes, HandlerInv, RequestShape
      <3> QED BY <3>1, <3>2 DEF ChallengeInv, Is
    <2> QED BY <2>1, <2>2, <2>3
  <1> QED BY <1>1, <1>2 DEF PhoneNext

(***************************************************************************)
(* Most steps add rows that are neither transfers nor remittances, nor     *)
(* their refunds, under keys that are free.                                *)
(***************************************************************************)
RowFields == {"by", "employee", "type", "total", "status", "key", "ref"}
RowShape == \A row \in ledger : RowFields \subseteq DOMAIN row

IsPlain(row) ==
  /\ RowFields \subseteq DOMAIN row
  /\ row.type \notin {"TRANSFER", "REMITTANCE"}
  /\ row.type = "REFUND" => row.ref = NoKey
  /\ ~KeyTaken(row.key)

AddsPlain ==
  \E rows : /\ ledger' = ledger \cup rows
            /\ \A row \in rows : IsPlain(row)
            /\ \A r, s \in rows : r.key = s.key /\ r.key # NoKey => r = s

LEMMA PlainRow ==
  ASSUME NEW n, NEW e, NEW type, NEW total, NEW key, NEW ref, NEW note,
         type \notin {"TRANSFER", "REMITTANCE"}, type = "REFUND" => ref = NoKey, ~KeyTaken(key)
  PROVE  IsPlain(Row(n, e, type, total, key, ref, note))
  BY DEF IsPlain, Row, RowFields

LEMMA FreeKey == ~KeyTaken(NoKey)
  BY DEF KeyTaken

LEMMA AddsOne ==
  ASSUME NEW row, IsPlain(row), ledger' = ledger \cup {row}
  PROVE  AddsPlain
  <1> DEFINE rows == {row}
  <1>1. ledger' = ledger \cup rows /\ \A r \in rows : IsPlain(r)
    OBVIOUS
  <1>2. \A r, s \in rows : r = s
    OBVIOUS
  <1> HIDE DEF rows
  <1> QED BY <1>1, <1>2 DEF AddsPlain

LEMMA AddsNone == ASSUME UNCHANGED ledger PROVE AddsPlain
  <1> DEFINE rows == {}
  <1>1. ledger' = ledger \cup rows /\ \A r \in rows : IsPlain(r) /\ \A s \in rows : r = s
    OBVIOUS
  <1> HIDE DEF rows
  <1> QED BY <1>1 DEF AddsPlain

LEMMA SavingsRows == ASSUME SavingsNext PROVE AddsPlain
  <1>1. CASE \E n \in Requests : CommitDeposit(n) \/ CommitWithdrawal(n)
    <2>1. PICK n \in Requests : CommitDeposit(n) \/ CommitWithdrawal(n)
      BY <1>1
    <2>2. PICK note : ledger' = ledger \cup {Row(n, request[n].who, "SAVINGS_TRANSFER", request[n].amount, NoKey,
                                                 <<"goal", request[n].goal>>, note)}
      BY <2>1 DEF CommitDeposit, CommitWithdrawal, Posts
    <2> QED BY <2>2, PlainRow, FreeKey, AddsOne
  <1>2. CASE UNCHANGED ledger
    BY <1>2, AddsNone
  <1> QED BY <1>1, <1>2
       DEF SavingsNext, SavingsArrives, AutoSave, Deposit, Withdraw, CreateGoal, SavingsSteps, CheckDeposit,
           CheckWithdrawal, NextAutoSave, walletVars, sharedVars

LEMMA CardRows == ASSUME CardNext PROVE AddsPlain
  <1>1. CASE \E n \in Requests : CommitOrder(n)
    <2>1. PICK n \in Requests : CommitOrder(n)
      BY <1>1
    <2>2. ledger' = ledger \cup {Row(n, Holder, "FEE", CardFee, NoKey, <<"order", n>>, "")}
      BY <2>1 DEF CommitOrder, Posts
    <2> QED BY <2>2, PlainRow, FreeKey, AddsOne
  <1>2. CASE \E n \in Requests : CommitEvent(n)
    <2>1. PICK n \in Requests : CommitEvent(n)
      BY <1>2
    <2>2. PICK type \in {"REFUND", "CARD_PURCHASE"} :
            ledger' = ledger \cup {Row(n, Holder, type, Moves(request[n].event),
                                       EventKey(request[n].event), NoKey, "card")}
      BY <2>1 DEF CommitEvent, Posts
    <2>3. ~KeyTaken(EventKey(request[n].event))
      BY <2>1 DEF CommitEvent
    <2> QED BY <2>2, <2>3, PlainRow, AddsOne
  <1>3. CASE \E n \in Requests : PayCashback(n)
    <2>1. PICK n \in Requests : PayCashback(n)
      BY <1>3
    <2>2. ledger' = ledger \cup {Row(n, Holder, "CASHBACK", request[n].earned, NoKey, NoKey, "")}
      BY <2>1 DEF PayCashback, Posts
    <2> QED BY <2>2, PlainRow, FreeKey, AddsOne
  <1>4. CASE UNCHANGED ledger
    BY <1>4, AddsNone
  <1> QED BY <1>1, <1>2, <1>3, <1>4
       DEF CardNext, ControlArrives, Manage, StatusEvent, EventArrives, TransactionEvent, OrderCard, IssuerExpires,
           CardSteps, ReadCard, AskIssuer, IssuerRefuses, WriteCard, ReadStatusEvent, WriteStatusEvent, CheckOrder,
           IssuePlastic, OrderConflicts, ReadEventCard, CheckEvent, EventConflicts, SumCashback, Refused,
           walletVars, sharedVars

LEMMA OtherRows == ASSUME AuthorizeNext \/ LoanNext \/ PhoneNext \/ KeyedNext PROVE UNCHANGED ledger
  <1>1. CASE AuthorizeNext
    BY <1>1 DEF AuthorizeNext, Authorization, VelocityExpires, AuthorizeSteps, ReadVelocity, CheckBalance, TimesOut,
                ReadCount, WriteCount, Answers, Scores, CountsOn, walletVars, sharedVars
  <1>2. CASE LoanNext
    BY <1>2 DEF LoanNext, RequestAdvance, BatchUpdate, LenderReport, ScoreAges, LenderDecides, LoanSteps, ReadScore,
                CollectFactors, StoreScore, CallLender, CreateLoan, FindLoan, WriteLoan, walletVars, sharedVars
  <1>3. CASE PhoneNext
    BY <1>3 DEF PhoneNext, PhoneStarts, Call, SignOut, SignIn, Starts, PhoneSteps, Attach, Answered, IsRejected,
                Unauthorized, ReadRefresh, Refresh, Keep, Store, Clear, NeedsCode, EnterCode, CancelCode, walletVars
  <1>4. CASE KeyedNext
    BY <1>4 DEF KeyedNext, KeyedArrives, KeyedCall, StoreAnswer, KeyedSteps, LookUpKey, Replay, Authenticate,
                CheckStepCode, Run, RunFails, AnswerRun, Refuses, Stores, KeyedTo, walletVars, sharedVars
  <1> QED BY <1>1, <1>2, <1>3, <1>4

(***************************************************************************)
(* An idempotency key moves money once.                                    *)
(***************************************************************************)

(* A transfer keeps what it was called with, and writes between two people. *)
TransferInv ==
  \A n \in Busy : request[n].op = "transfer" =>
    /\ {"from", "to", "amount"} \subseteq DOMAIN request[n]
    /\ request[n].amount \in Nat
    /\ request[n].at = "writes" => request[n].from # request[n].to

KeyInv == RowShape /\ KeyMovesMoneyOnce

LEMMA PlainKeepsKeys == ASSUME KeyInv, AddsPlain PROVE KeyInv'
  <1>1. PICK rows : /\ ledger' = ledger \cup rows
                    /\ \A row \in rows : IsPlain(row)
                    /\ \A r, s \in rows : r.key = s.key /\ r.key # NoKey => r = s
    BY DEF AddsPlain
  <1>2. RowShape'
    BY <1>1 DEF KeyInv, RowShape, IsPlain
  <1>3. \A r, s \in ledger' : r.key = s.key /\ r.key # NoKey => r = s
    BY <1>1 DEF KeyInv, KeyMovesMoneyOnce, IsPlain, KeyTaken
  <1>4. \A r \in ledger' : r.type = "TRANSFER" => r \in ledger
    BY <1>1 DEF IsPlain
  <1>5. ledger \subseteq ledger'
    BY <1>1
  <1> QED BY <1>2, <1>3, <1>4, <1>5 DEF KeyInv, KeyMovesMoneyOnce, NoKey, FeeOf

LEMMA CommitTransferKeepsKeys ==
  ASSUME KeyInv, TransferInv, NEW n \in Requests, CommitTransfer(n)
  PROVE  KeyInv'
  <1> DEFINE p == request[n]
             total == p.amount + FeeOf(p.from)
             debit == Row(n, p.from, "TRANSFER", -total, p.key, NoKey, "")
             credited == Row(n, p.to, "RECEIVE", p.amount, NoKey, NoKey, "")
  <1>1. ledger' = ledger \cup {debit, credited} /\ ~KeyTaken(p.key)
    BY DEF CommitTransfer, Posts, KeyFree
  <1>2. p.amount \in Nat /\ p.from # p.to
    BY IsBusy DEF CommitTransfer, TransferInv, Ended
  <1>3. FeeOf(p.from) \in Nat
    BY PaymentsAreWhole DEF FeeOf
  <1>4. /\ debit.by = n /\ debit.employee = p.from /\ debit.type = "TRANSFER"
        /\ debit.total = -total /\ debit.key = p.key /\ RowFields \subseteq DOMAIN debit
    BY DEF Row, RowFields
  <1>5. /\ credited.by = n /\ credited.employee = p.to /\ credited.type = "RECEIVE"
        /\ credited.total = p.amount /\ credited.key = NoKey /\ RowFields \subseteq DOMAIN credited
    BY DEF Row, RowFields
  <1> HIDE DEF debit, credited
  <1>6. p.amount = -debit.total - FeeOf(p.from)
    <2>1. \A a, fee \in Nat : a = -(-(a + fee)) - fee
      OBVIOUS
    <2> QED BY <1>2, <1>3, <1>4, <2>1
  <1> HIDE DEF p, total
  <1>7. RowShape'
    BY <1>1, <1>4, <1>5 DEF KeyInv, RowShape
  <1>8. \A r, s \in ledger' : r.key = s.key /\ r.key # NoKey => r = s
    BY <1>1, <1>4, <1>5 DEF KeyInv, KeyMovesMoneyOnce, KeyTaken
  <1>9. \A r \in ledger' : r.type = "TRANSFER" =>
          \E s \in ledger' : /\ s.type = "RECEIVE" /\ s.by = r.by /\ s.employee # r.employee
                             /\ s.total = -r.total - FeeOf(r.employee)
    <2> TAKE r \in ledger'
    <2>1. CASE r = debit
      BY <2>1, <1>1, <1>2, <1>4, <1>5, <1>6
    <2>2. CASE r \in ledger
      BY <2>2, <1>1 DEF KeyInv, KeyMovesMoneyOnce
    <2>3. CASE r = credited
      BY <2>3, <1>5
    <2> QED BY <2>1, <2>2, <2>3, <1>1
  <1> QED BY <1>7, <1>8, <1>9 DEF KeyInv, KeyMovesMoneyOnce, FeeOf

(* A transfer that only steps, or the reward it earned. *)
LEMMA TransferRows ==
  ASSUME TransferNext, \A n \in Requests : ~CommitTransfer(n)
  PROVE  AddsPlain
  <1>1. CASE \E n \in Requests : PayReward(n)
    <2>1. PICK n \in Requests : PayReward(n)
      BY <1>1
    <2> DEFINE RewardTo(e) == Row(n, e, "REFERRAL_REWARD", Reward, NoKey, <<"referral", request[n].to>>, "")
               rows == {RewardTo(e) : e \in RewardedSides(Referrer[request[n].to], request[n].to)}
    <2>2. ledger' = ledger \cup rows
      BY <2>1 DEF PayReward, Posts
    <2>3. \A e : IsPlain(RewardTo(e)) /\ RewardTo(e).key = NoKey
      BY PlainRow, FreeKey DEF Row
    <2>4. \A row \in rows : IsPlain(row) /\ row.key = NoKey
      BY <2>3
    <2> HIDE DEF rows
    <2> QED BY <2>2, <2>4 DEF AddsPlain
  <1>2. CASE UNCHANGED ledger
    BY <1>2, AddsNone
  <1> QED BY <1>1, <1>2 DEF TransferNext, TransferArrives, Transfer, TransferSteps, CheckReplay, CheckTransfer,
                            TransferConflicts, FindReferral, Refused, walletVars

LEMMA CommitRefundKeepsKeys ==
  ASSUME KeyInv, NEW n \in Requests, CommitRefund(n)
  PROVE  KeyInv'
  <1> DEFINE t == request[n].transfer
             Failed(row) == [row EXCEPT !.status = "FAILED"]
             Refund(row) == Row(n, row.employee, "REFUND", row.total, KeyOfRefund(t), <<"transfer", t>>, "")
  <1>1. PICK row \in RemittanceRows(t) : ledger' = (ledger \ {row}) \cup {Failed(row), Refund(row)}
    BY DEF CommitRefund, Posts
  <1>2. row \in ledger /\ row.type = "REMITTANCE" /\ RowFields \subseteq DOMAIN row
    BY <1>1 DEF RemittanceRows, KeyInv, RowShape
  <1>3. /\ DOMAIN Failed(row) = DOMAIN row
        /\ Failed(row).type = "REMITTANCE" /\ Failed(row).key = row.key
    BY <1>2 DEF RowFields
  <1>4. /\ RowFields \subseteq DOMAIN Refund(row) /\ Refund(row).type = "REFUND"
        /\ Refund(row).key = KeyOfRefund(t) /\ ~KeyTaken(KeyOfRefund(t))
    BY DEF Row, RowFields, CommitRefund
  <1> HIDE DEF Failed, Refund, t
  <1>5. RowShape'
    BY <1>1, <1>2, <1>3, <1>4 DEF KeyInv, RowShape
  <1>6. \A r, s \in ledger' : r.key = s.key /\ r.key # NoKey => r = s
    <2>1. \A r, s \in ledger : r.key = s.key /\ r.key # NoKey => r = s
      BY DEF KeyInv, KeyMovesMoneyOnce
    <2>2. KeyOfRefund(t) # NoKey => \A r \in ledger : r.key # KeyOfRefund(t)
      BY <1>4 DEF KeyTaken
    <2> QED BY <1>1, <1>2, <1>3, <1>4, <2>1, <2>2
  <1>7. \A r \in ledger' : r.type = "TRANSFER" => r \in ledger
    BY <1>1, <1>3, <1>4
  <1>8. \A s \in ledger : s.type = "RECEIVE" => s \in ledger'
    BY <1>1, <1>2
  <1> QED BY <1>5, <1>6, <1>7, <1>8 DEF KeyInv, KeyMovesMoneyOnce, FeeOf

(***************************************************************************)
(* A refund mirrors a failure.                                             *)
(***************************************************************************)

(* A report is of what MoneyHash has said; only a failure is looked into.  *)
ReportInv ==
  \A n \in Busy : request[n].op = "report" =>
    /\ {"transfer", "verdict"} \subseteq DOMAIN request[n]
    /\ request[n].transfer \in Requests
    /\ request[n].verdict \in verdicts[request[n].transfer]
    /\ request[n].at \in {"looks for refund", "refunds"} => request[n].verdict = "failed"

IsRemittance(row) == row.type = "REMITTANCE"
TransferRef(t) == <<"transfer", t>>

(* A send has written its row last, and one row. *)
SendsWriteOnce ==
  /\ \A row \in ledger : IsRemittance(row) =>
       \E t \in Requests : /\ row.ref = TransferRef(t)
                           /\ request[t] # NotYet /\ request[t].op = "send" /\ t \notin Busy
  /\ \A r, s \in ledger : IsRemittance(r) /\ IsRemittance(s) /\ r.ref = s.ref => r = s

(* A refund of a remittance has the key of its transfer. *)
RefundsHaveKeys ==
  \A row \in ledger : row.type = "REFUND" /\ row.ref # NoKey =>
    /\ \E t \in Requests : row.ref = TransferRef(t) /\ row.key = RefundKey(t)
    /\ \E paid \in ledger : IsRemittance(paid) /\ paid.ref = row.ref

IsFailed(row) ==
  /\ \E s : Refunds(row) = {s} /\ s.total = row.total /\ s.employee = row.employee
  /\ \E t \in Requests : row.ref = TransferRef(t) /\ "failed" \in verdicts[t]

IsMirrored(row) == IF row.status = "FAILED" THEN IsFailed(row) ELSE Refunds(row) = {}

RemitInv ==
  /\ verdicts \in [Requests -> SUBSET {"succeeded", "failed"}]
  /\ SendsWriteOnce
  /\ RefundsHaveKeys
  /\ \A row \in ledger : IsRemittance(row) => IsMirrored(row)

LEMMA MirrorsFailure == RemitInv => RefundMirrorsFailure
  <1> SUFFICES ASSUME RemitInv, NEW row \in ledger, IsRemittance(row)
               PROVE  LET refunds == Refunds(row) IN
                      IF row.status = "FAILED"
                        THEN /\ Cardinality(refunds) = 1
                             /\ \A s \in refunds : s.total = row.total /\ s.employee = row.employee
                             /\ \E t \in Requests : row.ref = <<"transfer", t>> /\ "failed" \in verdicts[t]
                        ELSE refunds = {}
    BY DEF RefundMirrorsFailure, IsRemittance
  <1>1. CASE row.status = "FAILED"
    <2>1. IsFailed(row)
      BY <1>1 DEF RemitInv, IsMirrored
    <2>2. PICK s : Refunds(row) = {s} /\ s.total = row.total /\ s.employee = row.employee
      BY <2>1 DEF IsFailed
    <2>3. Cardinality({s}) = 1
      BY FS_Singleton
    <2> QED BY <1>1, <2>1, <2>2, <2>3 DEF IsFailed, TransferRef
  <1>2. CASE row.status # "FAILED"
    BY <1>2 DEF RemitInv, IsMirrored
  <1> QED BY <1>1, <1>2

LEMMA RefsDiffer == \A t : TransferRef(t) # NoKey
  BY DEF TransferRef, NoKey

LEMMA SameTransfer == \A s, t : TransferRef(s) = TransferRef(t) => s = t
  BY DEF TransferRef

(* Sends that have ended are left as they are. *)
SendsRest ==
  \A t \in Requests : request[t] # NotYet /\ request[t].op = "send" /\ t \notin Busy => request'[t] = request[t]

(* Rows that are neither remittances nor their refunds. *)
LEMMA AddsNoRemittance ==
  ASSUME RemitInv, SendsRest, NEW rows, ledger' = ledger \cup rows,
         \A row \in rows : row.type # "REMITTANCE" /\ (row.type = "REFUND" => row.ref = NoKey),
         verdicts' \in [Requests -> SUBSET {"succeeded", "failed"}],
         \A t \in Requests : verdicts[t] \subseteq verdicts'[t]
  PROVE  RemitInv'
  <1>1. ledger' = ledger \cup rows
    OBVIOUS
  <1>2. \A row \in ledger' : IsRemittance(row) => row \in ledger
    BY <1>1 DEF IsRemittance
  <1>3. SendsWriteOnce'
    <2>1. \A t \in Requests : /\ request[t] # NotYet /\ request[t].op = "send" /\ t \notin Busy
                              => /\ request'[t] # NotYet /\ request'[t].op = "send" /\ t \notin Busy'
      BY DEF SendsRest, Busy
    <2> QED BY <1>2, <2>1 DEF RemitInv, SendsWriteOnce, IsRemittance
  <1>4. RefundsHaveKeys'
    BY <1>1 DEF RemitInv, RefundsHaveKeys, IsRemittance
  <1>5. ASSUME NEW row \in ledger', IsRemittance(row) PROVE IsMirrored(row)'
    <2>1. row \in ledger /\ row.ref # NoKey
      BY <1>2, <1>5, RefsDiffer DEF RemitInv, SendsWriteOnce
    <2>2. Refunds(row)' = Refunds(row)
      BY <1>1, <2>1 DEF Refunds
    <2>3. IsMirrored(row)
      BY <1>5, <2>1 DEF RemitInv
    <2> QED BY <2>2, <2>3 DEF IsMirrored, IsFailed
  <1> QED BY <1>3, <1>4, <1>5 DEF RemitInv, IsRemittance

LEMMA PlainKeepsRemittances ==
  ASSUME RemitInv, AddsPlain, SendsRest,
         verdicts' \in [Requests -> SUBSET {"succeeded", "failed"}],
         \A t \in Requests : verdicts[t] \subseteq verdicts'[t]
  PROVE  RemitInv'
  <1>1. PICK rows : ledger' = ledger \cup rows /\ \A row \in rows : IsPlain(row)
    BY DEF AddsPlain
  <1> QED BY <1>1, AddsNoRemittance DEF IsPlain

LEMMA CommitTransferKeepsRemittances ==
  ASSUME RemitInv, SendsRest, UNCHANGED verdicts, NEW n \in Requests, CommitTransfer(n)
  PROVE  RemitInv'
  <1> DEFINE p == request[n]
             debit == Row(n, p.from, "TRANSFER", -(p.amount + FeeOf(p.from)), p.key, NoKey, "")
             credited == Row(n, p.to, "RECEIVE", p.amount, NoKey, NoKey, "")
             rows == {debit, credited}
  <1>1. ledger' = ledger \cup rows
    BY DEF CommitTransfer, Posts
  <1>2. debit.type = "TRANSFER" /\ credited.type = "RECEIVE"
    BY DEF Row
  <1> HIDE DEF debit, credited
  <1>3. \A row \in rows : row.type \in {"TRANSFER", "RECEIVE"}
    BY <1>2
  <1> HIDE DEF rows
  <1> QED BY <1>1, <1>3, AddsNoRemittance DEF RemitInv

LEMMA CommitSendKeeps ==
  ASSUME HandlerInv, KeyInv, RemitInv, NEW n \in Requests, CommitSend(n), UNCHANGED verdicts
  PROVE  KeyInv' /\ RemitInv'
  <1> DEFINE new == Row(n, request[n].who, "REMITTANCE", Price, NoKey, TransferRef(n), "")
  <1>1. ledger' = ledger \cup {new}
    BY DEF CommitSend, Posts, TransferRef
  <1>2. /\ new.type = "REMITTANCE" /\ new.status = "COMPLETED" /\ new.key = NoKey /\ new.ref = TransferRef(n)
        /\ RowFields \subseteq DOMAIN new
    BY DEF Row, RowFields
  <1> HIDE DEF new
  <1>3. n \in Busy /\ request[n].op = "send"
    BY IsBusy DEF CommitSend, Ended
  <1>4. request'[n] # NotYet /\ request'[n].op = "send" /\ n \notin Busy'
        /\ \A m \in Requests \ {n} : request'[m] = request[m]
    <2>1. GoesTo(n, "done")
      BY DEF CommitSend
    <2>2. HandlerStep({"send"}) /\ request'[n].at = "done" /\ request'[n].op = "send"
      BY <1>3, <2>1, Going
    <2>3. request'[n] # NotYet
      <3>1. NotYet.at # "done"
        BY DEF NotYet
      <3> QED BY <2>2, <3>1
    <2>4. \A m \in Requests \ {n} : request'[m] = request[m]
      BY <2>1 DEF GoesTo, Becomes, HandlerInv, RequestShape
    <2> QED BY <2>2, <2>3, <2>4 DEF Busy, Ended
  <1>5. \A row \in ledger : IsRemittance(row) => row.ref # new.ref
    BY <1>2, <1>3, SameTransfer DEF RemitInv, SendsWriteOnce
  <1>6. SendsWriteOnce'
    <2>1. ASSUME NEW row \in ledger', IsRemittance(row)
          PROVE  \E t \in Requests : /\ row.ref = TransferRef(t)
                                     /\ request'[t] # NotYet /\ request'[t].op = "send" /\ t \notin Busy'
      <3>1. CASE row = new
        BY <3>1, <1>2, <1>4
      <3>2. CASE row \in ledger
        <4>1. PICK t \in Requests : /\ row.ref = TransferRef(t)
                                    /\ request[t] # NotYet /\ request[t].op = "send" /\ t \notin Busy
          BY <3>2, <2>1 DEF RemitInv, SendsWriteOnce
        <4> QED BY <4>1, <1>3, <1>4 DEF Busy
      <3> QED BY <1>1, <2>1, <3>1, <3>2
    <2>2. \A r, s \in ledger' : IsRemittance(r) /\ IsRemittance(s) /\ r.ref = s.ref => r = s
      BY <1>1, <1>5 DEF RemitInv, SendsWriteOnce
    <2> QED BY <2>1, <2>2 DEF SendsWriteOnce, IsRemittance
  <1>7. RefundsHaveKeys'
    BY <1>1, <1>2 DEF RemitInv, RefundsHaveKeys, IsRemittance
  <1>8. ASSUME NEW row \in ledger', IsRemittance(row) PROVE IsMirrored(row)'
    <2>1. Refunds(row)' = Refunds(row)
      BY <1>1, <1>2 DEF Refunds
    <2>2. CASE row \in ledger
      BY <2>1, <2>2, <1>8 DEF RemitInv, IsMirrored, IsFailed
    <2>3. CASE row = new
      <3>1. Refunds(new) = {}
        <4> SUFFICES ASSUME NEW s \in ledger, s.type = "REFUND", s.ref = new.ref PROVE FALSE
          BY DEF Refunds
        <4>1. s.ref # NoKey
          BY <1>2, RefsDiffer
        <4> QED BY <4>1, <1>5 DEF RemitInv, RefundsHaveKeys
      <3> QED BY <2>1, <2>3, <3>1, <1>2 DEF IsMirrored
    <2> QED BY <1>1, <2>2, <2>3
  <1>9. RowShape' /\ KeyMovesMoneyOnce'
    <2>1. \A r \in ledger' : r.type = "TRANSFER" => r \in ledger
      BY <1>1, <1>2
    <2> QED BY <1>1, <1>2, <2>1 DEF KeyInv, RowShape, KeyMovesMoneyOnce, FeeOf
  <1> QED BY <1>6, <1>7, <1>8, <1>9 DEF RemitInv, KeyInv, IsRemittance

LEMMA CommitRefundKeepsRemittances ==
  ASSUME KeyInv, RemitInv, ReportInv, SendsRest, NEW n \in Requests, CommitRefund(n), UNCHANGED verdicts
  PROVE  RemitInv'
  <1> DEFINE t == request[n].transfer
             Failed(row) == [row EXCEPT !.status = "FAILED"]
             Refund(row) == Row(n, row.employee, "REFUND", row.total, KeyOfRefund(t), <<"transfer", t>>, "")
  <1>1. PICK row \in RemittanceRows(t) : ledger' = (ledger \ {row}) \cup {Failed(row), Refund(row)}
    BY DEF CommitRefund, Posts
  <1>2. row \in ledger /\ IsRemittance(row) /\ row.ref = TransferRef(t) /\ RowFields \subseteq DOMAIN row
    BY <1>1 DEF RemittanceRows, KeyInv, RowShape, IsRemittance, TransferRef
  <1> DEFINE failed == Failed(row)
             refund == Refund(row)
  <1>3. /\ IsRemittance(failed) /\ failed.ref = row.ref /\ failed.status = "FAILED"
        /\ failed.total = row.total /\ failed.employee = row.employee
    BY <1>2 DEF RowFields, IsRemittance
  <1>4. /\ refund.type = "REFUND" /\ refund.ref = TransferRef(t) /\ refund.key = RefundKey(t)
        /\ refund.total = row.total /\ refund.employee = row.employee
        /\ ~KeyTaken(RefundKey(t))
    BY DEF Row, TransferRef, KeyOfRefund, CommitRefund
  <1>5. ledger' = (ledger \ {row}) \cup {failed, refund}
    BY <1>1
  <1>6. n \in Busy /\ t \in Requests /\ "failed" \in verdicts[t]
    <2>1. n \in Busy /\ request[n].op = "report" /\ request[n].at = "refunds"
      BY IsBusy DEF CommitRefund, Ended
    <2> QED BY <2>1 DEF ReportInv
  <1> HIDE DEF failed, refund, Failed, Refund, t
  <1>7. Refunds(row) = {}
    <2>1. RefundKey(t) # NoKey
      BY DEF RefundKey, NoKey
    <2>2. \A s \in ledger : s.key # RefundKey(t)
      BY <1>4, <2>1 DEF KeyTaken
    <2> SUFFICES ASSUME NEW s \in ledger, s.type = "REFUND", s.ref = TransferRef(t) PROVE FALSE
      BY <1>2 DEF Refunds
    <2>3. PICK u \in Requests : s.ref = TransferRef(u) /\ s.key = RefundKey(u)
      BY RefsDiffer DEF RemitInv, RefundsHaveKeys
    <2> QED BY <2>2, <2>3, SameTransfer
  <1>8. SendsWriteOnce'
    <2>1. \A u \in Requests : /\ request[u] # NotYet /\ request[u].op = "send" /\ u \notin Busy
                              => /\ request'[u] # NotYet /\ request'[u].op = "send" /\ u \notin Busy'
      BY DEF SendsRest, Busy
    <2>2. \A r \in ledger' : IsRemittance(r) => \E s \in ledger : IsRemittance(s) /\ s.ref = r.ref
      BY <1>2, <1>3, <1>4, <1>5 DEF IsRemittance
    <2>3. \A r, s \in ledger' : IsRemittance(r) /\ IsRemittance(s) /\ r.ref = s.ref => r = s
      BY <1>2, <1>3, <1>4, <1>5 DEF IsRemittance, RemitInv, SendsWriteOnce
    <2> QED BY <2>1, <2>2, <2>3 DEF SendsWriteOnce, RemitInv, IsRemittance
  <1>9. RefundsHaveKeys'
    <2>1. \A paid \in ledger : IsRemittance(paid) => \E p \in ledger' : IsRemittance(p) /\ p.ref = paid.ref
      BY <1>2, <1>3, <1>5
    <2>2. \A r \in ledger' : r.type = "REFUND" => r \in ledger \/ r = refund
      BY <1>3, <1>5 DEF IsRemittance
    <2> QED BY <1>2, <1>4, <1>6, <2>1, <2>2 DEF RemitInv, RefundsHaveKeys, IsRemittance
  <1>10. ASSUME NEW r \in ledger', IsRemittance(r) PROVE IsMirrored(r)'
    <2>1. CASE r = failed
      <3>1. Refunds(r)' = {refund}
        <4>1. \A s \in ledger : s.type = "REFUND" => s.ref # row.ref
          BY <1>7 DEF Refunds
        <4> QED BY <2>1, <1>2, <1>3, <1>4, <1>5, <4>1 DEF Refunds, IsRemittance
      <3> QED BY <2>1, <3>1, <1>2, <1>3, <1>4, <1>6 DEF IsMirrored, IsFailed
    <2>2. CASE r \in ledger \ {row}
      <3>1. r.ref # row.ref
        BY <2>2, <1>2, <1>10 DEF RemitInv, SendsWriteOnce
      <3>2. Refunds(r)' = Refunds(r)
        BY <3>1, <1>2, <1>3, <1>4, <1>5 DEF Refunds, IsRemittance
      <3>3. IsMirrored(r)
        BY <2>2, <1>10 DEF RemitInv
      <3> QED BY <3>2, <3>3 DEF IsMirrored, IsFailed
    <2>3. r # refund
      BY <1>4, <1>10 DEF IsRemittance
    <2> QED BY <1>5, <2>1, <2>2, <2>3
  <1> QED BY <1>8, <1>9, <1>10 DEF RemitInv, IsRemittance

(***************************************************************************)
(* The invariant of the wallet plane, and the steps of its parts.          *)
(***************************************************************************)
RequestsInv == HandlerInv /\ ChallengeInv /\ TransferInv /\ ReportInv
WalletInv == RequestsInv /\ KeyInv /\ RemitInv

(* A step that changes requests of other services only. *)
LEMMA OthersKeepTransfers ==
  ASSUME TransferInv, NEW ops, HandlerStep(ops), "transfer" \notin ops
  PROVE  TransferInv'
  <1>1. \A n \in Busy' : request'[n].op = "transfer" => request'[n] = request[n] /\ n \in Busy
    BY DEF HandlerStep, Busy
  <1> QED BY <1>1 DEF TransferInv, Busy

LEMMA OthersKeepReports ==
  ASSUME ReportInv, UNCHANGED verdicts, NEW ops, HandlerStep(ops), "report" \notin ops
  PROVE  ReportInv'
  <1>1. \A n \in Busy' : request'[n].op = "report" => request'[n] = request[n] /\ n \in Busy
    BY DEF HandlerStep, Busy
  <1> QED BY <1>1 DEF ReportInv, Busy

LEMMA OthersLeaveSends == ASSUME NEW ops, HandlerStep(ops), "send" \notin ops PROVE SendsRest
  BY DEF SendsRest, HandlerStep

(* The challenge and a call that awaits its code are the phone's. *)
LEMMA OthersKeepChallenge ==
  ASSUME ChallengeInv, UNCHANGED challenge, NEW ops, HandlerStep(ops), "call" \notin ops
  PROVE  ChallengeInv'
  <1>1. \A n \in Requests : Is(n, "call", "awaits code") => request[n] # NotYet
    <2>1. NotYet.at # "awaits code"
      BY DEF NotYet
    <2> QED BY <2>1 DEF Is
  <1>2. \A n \in Requests : Is(n, "call", "awaits code") => request'[n] = request[n]
    BY <1>1 DEF HandlerStep, Is
  <1> QED BY <1>2 DEF ChallengeInv, Is

LEMMA OthersKeepAll ==
  ASSUME WalletInv, UNCHANGED <<verdicts, challenge>>, AddsPlain, NEW ops, HandlerStep(ops),
         ops \cap {"transfer", "send", "report", "call"} = {}
  PROVE  WalletInv'
  <1>1. HandlerInv'
    BY DEF HandlerStep
  <1>2. ChallengeInv'
    BY OthersKeepChallenge DEF WalletInv, RequestsInv
  <1>3. TransferInv' /\ ReportInv' /\ SendsRest
    BY OthersKeepTransfers, OthersKeepReports, OthersLeaveSends DEF WalletInv, RequestsInv
  <1>4. KeyInv'
    BY PlainKeepsKeys DEF WalletInv
  <1>5. RemitInv'
    BY <1>3, PlainKeepsRemittances DEF WalletInv, RemitInv
  <1> QED BY <1>1, <1>2, <1>3, <1>4, <1>5 DEF WalletInv, RequestsInv

LEMMA ServicesKeepAll ==
  ASSUME WalletInv, SavingsNext \/ CardNext \/ AuthorizeNext \/ LoanNext \/ KeyedNext
  PROVE  WalletInv'
  <1> USE DEF WalletInv, RequestsInv
  <1>1. UNCHANGED <<verdicts, challenge>>
    BY DEF SavingsNext, SavingsFrame, CardNext, CardFrame, AuthorizeNext, AuthorizeFrame, LoanNext, LoanFrame,
           KeyedNext, KeyedFrame, remittanceVars, phoneVars
  <1>2. CASE SavingsNext
    BY <1>1, <1>2, SavingsRequests, SavingsRows, OthersKeepAll DEF SavingsOps
  <1>3. CASE CardNext
    BY <1>1, <1>3, CardRequests, CardRows, OthersKeepAll DEF CardOps, Managing
  <1>4. CASE AuthorizeNext
    BY <1>1, <1>4, AuthorizeRequests, OtherRows, AddsNone, OthersKeepAll
  <1>5. CASE LoanNext
    BY <1>1, <1>5, LoanRequests, OtherRows, AddsNone, OthersKeepAll DEF LoanOps
  <1>6. CASE KeyedNext
    BY <1>1, <1>6, KeyedRequests, OtherRows, AddsNone, OthersKeepAll
  <1> QED BY <1>2, <1>3, <1>4, <1>5, <1>6

LEMMA PhoneKeepsAll == ASSUME WalletInv, PhoneNext PROVE WalletInv'
  <1> USE DEF WalletInv, RequestsInv
  <1>1. HandlerStep(PhoneOps)
    BY PhoneRequests
  <1>2. UNCHANGED verdicts
    BY DEF PhoneNext, PhoneFrame, remittanceVars
  <1>3. TransferInv' /\ ReportInv' /\ SendsRest
    BY <1>1, <1>2, OthersKeepTransfers, OthersKeepReports, OthersLeaveSends DEF PhoneOps
  <1>4. AddsPlain
    BY OtherRows, AddsNone
  <1>5. KeyInv' /\ RemitInv'
    BY <1>2, <1>3, <1>4, PlainKeepsKeys, PlainKeepsRemittances DEF RemitInv
  <1> QED BY <1>1, <1>3, <1>5, PhoneKeepsChallenge DEF HandlerStep

LEMMA TransferGoes ==
  ASSUME HandlerInv, TransferInv, NEW n \in Requests, NEW from, NEW at, from \notin Ended, at # "not yet",
         Is(n, "transfer", from), GoesTo(n, at),
         at = "writes" => request[n].from # request[n].to
  PROVE  HandlerStep({"transfer"}) /\ TransferInv'
  <1>1. n \in Busy /\ request[n].op = "transfer"
    BY IsBusy
  <1>2. /\ HandlerStep({"transfer"})
        /\ request'[n].at = at /\ request'[n].op = "transfer"
        /\ at \notin Ended => /\ DOMAIN request'[n] = DOMAIN request[n]
                              /\ \A f \in DOMAIN request[n] \ {"at"} : request'[n][f] = request[n][f]
    BY <1>1, Going
  <1>3. \A m \in Requests \ {n} : request'[m] = request[m]
    BY DEF GoesTo, Becomes, HandlerInv, RequestShape
  <1>4. /\ {"from", "to", "amount"} \subseteq DOMAIN request[n]
        /\ request[n].amount \in Nat
    BY <1>1 DEF TransferInv
  <1>5. at \notin Ended => /\ request'[n].from = request[n].from /\ request'[n].to = request[n].to
                           /\ request'[n].amount = request[n].amount
                           /\ {"from", "to", "amount"} \subseteq DOMAIN request'[n]
    BY <1>2, <1>4
  <1>6. ASSUME NEW m \in Busy', request'[m].op = "transfer"
        PROVE  /\ {"from", "to", "amount"} \subseteq DOMAIN request'[m]
               /\ request'[m].amount \in Nat
               /\ request'[m].at = "writes" => request'[m].from # request'[m].to
    <2>1. CASE m = n
      BY <2>1, <1>2, <1>4, <1>5, <1>6 DEF Busy
    <2>2. CASE m # n
      BY <2>2, <1>3, <1>6 DEF TransferInv, Busy
    <2> QED BY <2>1, <2>2
  <1> QED BY <1>2, <1>6 DEF TransferInv

LEMMA TransferKeepsRequests ==
  ASSUME HandlerInv, TransferInv,
         \/ TransferArrives
         \/ \E n \in Requests : TransferSteps(n) \/ TransferIsLost(n)
  PROVE  HandlerStep({"transfer"}) /\ TransferInv'
  <1>1. ASSUME NEW p \in Payments, Transfer(p) PROVE HandlerStep({"transfer"}) /\ TransferInv'
    <2> DEFINE r == [op |-> "transfer", at |-> IF p.key = NoKey THEN "checks" ELSE "replay check",
                     from |-> p.from, to |-> p.to, amount |-> p.amount, key |-> p.key]
    <2>1. /\ IsRequest(r) /\ r # NotYet /\ r.op = "transfer" /\ r.at # "writes"
          /\ {"from", "to", "amount"} \subseteq DOMAIN r /\ r.amount = p.amount
      BY DEF IsRequest, NotYet
    <2>2. p.amount \in Nat
      BY PaymentsAreWhole
    <2>3. Arrives(r)
      BY <1>1 DEF Transfer
    <2> HIDE DEF r
    <2>4. HandlerStep({"transfer"})
      BY <2>1, <2>3, Arriving
    <2>5. PICK n \in Requests : request'[n] = r /\ \A m \in Requests \ {n} : request'[m] = request[m]
      BY <2>1, <2>3, Arriving
    <2> QED BY <2>1, <2>2, <2>4, <2>5 DEF TransferInv, Busy
  <1>2. ASSUME NEW n \in Requests, TransferSteps(n) \/ TransferIsLost(n)
        PROVE  HandlerStep({"transfer"}) /\ TransferInv'
    <2>1. CASE CheckTransfer(n)
      <3>1. PICK at \in {"writes", "refused"} : GoesTo(n, at) /\ (at = "writes" => request[n].from # request[n].to)
        BY <2>1 DEF CheckTransfer
      <3> QED BY <2>1, <3>1, TransferGoes DEF CheckTransfer, Ended
    <2>2. CASE CheckReplay(n)
      <3>1. PICK at \in {"done", "checks"} : GoesTo(n, at)
        BY <2>2 DEF CheckReplay
      <3> QED BY <2>2, <3>1, TransferGoes DEF CheckReplay, Ended
    <2>3. CASE CommitTransfer(n) \/ TransferIsLost(n)
      <3>1. PICK at \in {"reward", "done"} : GoesTo(n, at)
        BY <2>3 DEF CommitTransfer, TransferIsLost, AfterTransfer
      <3> QED BY <2>3, <3>1, TransferGoes DEF CommitTransfer, TransferIsLost, Ended
    <2>4. CASE TransferConflicts(n)
      BY <2>4, TransferGoes DEF TransferConflicts, Refused, Ended
    <2>5. CASE FindReferral(n)
      <3>1. PICK at \in {"pays reward", "done"} : GoesTo(n, at)
        BY <2>5 DEF FindReferral
      <3> QED BY <2>5, <3>1, TransferGoes DEF FindReferral, Ended
    <2>6. CASE PayReward(n)
      BY <2>6, TransferGoes DEF PayReward, Ended
    <2> QED BY <1>2, <2>1, <2>2, <2>3, <2>4, <2>5, <2>6 DEF TransferSteps
  <1> QED BY <1>1, <1>2 DEF TransferArrives

LEMMA TransfersKeepAll ==
  ASSUME WalletInv,
         TransferNext \/ (TransferFrame /\ \E n \in Requests : TransferIsLost(n))
  PROVE  WalletInv'
  <1> USE DEF WalletInv, RequestsInv
  <1>1. UNCHANGED <<verdicts, challenge>>
    BY DEF TransferNext, TransferFrame, remittanceVars, phoneVars
  <1>2. HandlerStep({"transfer"}) /\ TransferInv'
    BY TransferKeepsRequests DEF TransferNext
  <1>3. ChallengeInv' /\ ReportInv' /\ SendsRest
    BY <1>1, <1>2, OthersKeepChallenge, OthersKeepReports, OthersLeaveSends
  <1>4. CASE AddsPlain
    BY <1>1, <1>2, <1>3, <1>4, PlainKeepsKeys, PlainKeepsRemittances DEF HandlerStep, RemitInv
  <1>5. CASE ~AddsPlain
    <2>1. PICK n \in Requests : CommitTransfer(n)
      <3>1. CASE \E n \in Requests : TransferIsLost(n)
        BY <3>1, <1>5, AddsNone DEF TransferIsLost, walletVars
      <3> QED BY <3>1, <1>5, TransferRows
    <2>2. KeyInv'
      BY <2>1, CommitTransferKeepsKeys
    <2>3. RemitInv'
      BY <2>1, <1>1, <1>3, CommitTransferKeepsRemittances
    <2> QED BY <1>2, <1>3, <2>2, <2>3 DEF HandlerStep
  <1> QED BY <1>4, <1>5

LEMMA RemittanceGoes ==
  ASSUME RequestsInv, NEW n \in Busy, request[n].op \in RemittanceOps, NEW at, at # "not yet", GoesTo(n, at),
         request[n].op = "report" /\ at \in {"looks for refund", "refunds"} => request[n].verdict = "failed",
         UNCHANGED <<verdicts, challenge>>
  PROVE  RequestsInv' /\ SendsRest
  <1> USE DEF RequestsInv
  <1>1. /\ HandlerStep(RemittanceOps)
        /\ request'[n].at = at /\ request'[n].op = request[n].op
        /\ at \notin Ended => /\ DOMAIN request'[n] = DOMAIN request[n]
                              /\ \A f \in DOMAIN request[n] \ {"at"} : request'[n][f] = request[n][f]
    BY Going
  <1>2. HandlerInv' /\ ChallengeInv' /\ TransferInv'
    BY <1>1, OthersKeepChallenge, OthersKeepTransfers DEF RemittanceOps, HandlerStep
  <1>3. \A m \in Requests \ {n} : request'[m] = request[m]
    BY DEF GoesTo, Becomes, HandlerInv, RequestShape
  <1>4. SendsRest
    BY <1>3 DEF SendsRest, Busy
  <1>5. ASSUME NEW m \in Busy', request'[m].op = "report"
        PROVE  /\ {"transfer", "verdict"} \subseteq DOMAIN request'[m]
               /\ request'[m].transfer \in Requests
               /\ request'[m].verdict \in verdicts[request'[m].transfer]
               /\ request'[m].at \in {"looks for refund", "refunds"} => request'[m].verdict = "failed"
    <2>1. CASE m = n
      <3>1. at \notin Ended /\ request[n].op = "report"
        BY <2>1, <1>1, <1>5 DEF Busy
      <3>2. {"transfer", "verdict"} \subseteq DOMAIN request[n]
        BY <3>1 DEF ReportInv
      <3>3. request'[n].transfer = request[n].transfer /\ request'[n].verdict = request[n].verdict
        BY <3>1, <3>2, <1>1
      <3> QED BY <2>1, <3>1, <3>2, <3>3, <1>1 DEF ReportInv
    <2>2. CASE m # n
      BY <2>2, <1>3, <1>5 DEF ReportInv, Busy
    <2> QED BY <2>1, <2>2
  <1>6. ReportInv'
    BY <1>5 DEF ReportInv
  <1> QED BY <1>2, <1>4, <1>6

LEMMA RemittanceArrivesKeeps ==
  ASSUME RequestsInv, RemittanceArrives, UNCHANGED <<verdicts, challenge>>
  PROVE  RequestsInv' /\ SendsRest
  <1> USE DEF RequestsInv
  <1>1. PICK r : /\ IsRequest(r) /\ r # NotYet /\ r.op \in RemittanceOps /\ Arrives(r)
                 /\ r.op = "report" => /\ {"transfer", "verdict"} \subseteq DOMAIN r
                                       /\ r.transfer \in Requests /\ r.verdict \in verdicts[r.transfer]
                                       /\ r.at \notin {"looks for refund", "refunds"}
    <2>1. CASE \E e \in Employees : Send(e) \/ \E q \in Quotes : SendQuote(e, q)
      <3>1. PICK r : IsRequest(r) /\ r # NotYet /\ r.op = "send" /\ Arrives(r)
        BY <2>1 DEF Send, SendQuote, IsRequest, NotYet
      <3> QED BY <3>1 DEF RemittanceOps
    <2>2. CASE \E t \in Requests, verdict \in {"succeeded", "failed"} : Report(t, verdict)
      <3>1. PICK t \in Requests, verdict \in {"succeeded", "failed"} : Report(t, verdict)
        BY <2>2
      <3> DEFINE r == [op |-> "report", at |-> "finds row", transfer |-> t, verdict |-> verdict]
      <3>2. Arrives(r) /\ verdict \in verdicts[t]
        BY <3>1 DEF Report
      <3>3. /\ IsRequest(r) /\ r # NotYet /\ r.op = "report" /\ r.at = "finds row"
            /\ {"transfer", "verdict"} \subseteq DOMAIN r /\ r.transfer = t /\ r.verdict = verdict
        BY DEF IsRequest, NotYet
      <3> HIDE DEF r
      <3> QED BY <3>2, <3>3 DEF RemittanceOps
    <2> QED BY <2>1, <2>2 DEF RemittanceArrives
  <1>2. HandlerStep(RemittanceOps)
    BY <1>1, Arriving
  <1>3. PICK n \in Requests : /\ request[n] = NotYet /\ request'[n] = r
                              /\ \A m \in Requests \ {n} : request'[m] = request[m]
    BY <1>1, Arriving
  <1>4. HandlerInv' /\ ChallengeInv' /\ TransferInv'
    BY <1>2, OthersKeepChallenge, OthersKeepTransfers DEF RemittanceOps, HandlerStep
  <1>5. SendsRest
    BY <1>3 DEF SendsRest
  <1>6. ASSUME NEW m \in Busy', request'[m].op = "report"
        PROVE  /\ {"transfer", "verdict"} \subseteq DOMAIN request'[m]
               /\ request'[m].transfer \in Requests
               /\ request'[m].verdict \in verdicts'[request'[m].transfer]
               /\ request'[m].at \in {"looks for refund", "refunds"} => request'[m].verdict = "failed"
    <2>1. CASE m = n
      BY <2>1, <1>1, <1>3, <1>6
    <2>2. CASE m # n
      BY <2>2, <1>3, <1>6 DEF ReportInv, Busy
    <2> QED BY <2>1, <2>2
  <1>7. ReportInv'
    BY <1>6 DEF ReportInv
  <1> QED BY <1>4, <1>5, <1>7

LEMMA RemittanceStepGoes ==
  ASSUME ReportInv, NEW n \in Requests, RemittanceSteps(n) \/ RailAnswerIsLost(n)
  PROVE  /\ n \in Busy /\ request[n].op \in RemittanceOps
         /\ \E at : /\ at # "not yet" /\ GoesTo(n, at)
                    /\ request[n].op = "report" /\ at \in {"looks for refund", "refunds"}
                         => request[n].verdict = "failed"
  <1>1. n \in Busy /\ request[n].op \in RemittanceOps
    BY IsBusy DEF RemittanceSteps, ReadQuote, DropQuote, CheckSend, CallRail, RailRefuses, CommitSend,
                  FindRemittance, LookForRefund, CommitRefund, RefundConflicts, RailAnswerIsLost, RemittanceOps, Ended
  <1>2. CASE FindRemittance(n)
    <2>1. PICK at \in {"looks for refund", "done"} :
            GoesTo(n, at) /\ (at = "looks for refund" => request[n].verdict = "failed")
      BY <1>2 DEF FindRemittance
    <2> QED BY <1>1, <2>1
  <1>3. CASE LookForRefund(n)
    <2>1. request[n].op = "report" => request[n].verdict = "failed"
      BY <1>1, <1>3 DEF LookForRefund, Is, ReportInv
    <2>2. PICK at \in {"done", "refunds"} : GoesTo(n, at)
      BY <1>3 DEF LookForRefund
    <2> QED BY <1>1, <2>1, <2>2
  <1>4. CASE CommitRefund(n) \/ RefundConflicts(n)
    <2>1. PICK at \in {"done", "refused"} : GoesTo(n, at)
      BY <1>4 DEF CommitRefund, RefundConflicts, Refused
    <2> QED BY <1>1, <2>1
  <1>5. CASE \/ ReadQuote(n) \/ DropQuote(n) \/ CheckSend(n) \/ CallRail(n) \/ RailRefuses(n) \/ CommitSend(n)
             \/ RailAnswerIsLost(n)
    <2>1. request[n].op = "send"
      BY <1>5 DEF ReadQuote, DropQuote, CheckSend, CallRail, RailRefuses, CommitSend, RailAnswerIsLost, Is
    <2>2. PICK at \in {"drops quote", "refused", "checks", "calls rail", "debits", "died", "done"} : GoesTo(n, at)
      BY <1>5 DEF ReadQuote, DropQuote, CheckSend, CallRail, RailRefuses, CommitSend, RailAnswerIsLost,
                  AfterCheck, Refused
    <2> QED BY <1>1, <2>1, <2>2
  <1> QED BY <1>2, <1>3, <1>4, <1>5 DEF RemittanceSteps

LEMMA RemittancesKeepAll ==
  ASSUME WalletInv,
         RemittanceNext \/ (RemittanceFrame /\ \E n \in Requests : RailAnswerIsLost(n))
  PROVE  WalletInv'
  <1> USE DEF WalletInv
  <1>1. UNCHANGED challenge
    BY DEF RemittanceNext, RemittanceFrame, phoneVars
  <1>2. CASE RemittanceArrives
    <2>1. UNCHANGED <<ledger, verdicts>>
      BY <1>2 DEF RemittanceArrives, Send, SendQuote, Report, walletVars, remittanceVars
    <2>2. RequestsInv' /\ SendsRest
      BY <1>1, <1>2, <2>1, RemittanceArrivesKeeps
    <2> QED BY <2>1, <2>2, AddsNone, PlainKeepsKeys, PlainKeepsRemittances DEF RemitInv
  <1>3. CASE \E q \in Quotes : LockQuote(q) \/ QuoteExpires(q)
    <2>1. UNCHANGED <<ledger, verdicts, request, met>>
      BY <1>3 DEF LockQuote, QuoteExpires, sharedVars, walletVars, handlerVars
    <2>2. HandlerStep({})
      BY <2>1, HandlersRest DEF RequestsInv, handlerVars
    <2> QED BY <1>1, <2>1, <2>2, AddsNone, OthersKeepAll
  <1>4. CASE \E t \in Requests, verdict \in {"succeeded", "failed"} : RailDecides(t, verdict)
    <2>1. PICK t \in Requests, verdict \in {"succeeded", "failed"} : RailDecides(t, verdict)
      BY <1>4
    <2>2. UNCHANGED <<ledger, request, met>>
      BY <2>1 DEF RailDecides, sharedVars, walletVars, handlerVars
    <2>3. /\ verdicts' \in [Requests -> SUBSET {"succeeded", "failed"}]
          /\ \A u \in Requests : verdicts[u] \subseteq verdicts'[u]
      BY <2>1 DEF RailDecides, RemitInv
    <2>4. HandlerStep({})
      BY <2>2, HandlersRest DEF RequestsInv, handlerVars
    <2>5. HandlerInv' /\ ChallengeInv' /\ TransferInv' /\ SendsRest
      <3>1. ChallengeInv'
        BY <1>1, <2>4, OthersKeepChallenge DEF RequestsInv
      <3>2. TransferInv'
        BY <2>4, OthersKeepTransfers DEF RequestsInv
      <3> QED BY <2>2, <2>4, <3>1, <3>2 DEF HandlerStep, SendsRest
    <2>6. ReportInv'
      BY <2>2, <2>3 DEF RequestsInv, ReportInv, Busy
    <2> QED BY <2>2, <2>3, <2>5, <2>6, AddsNone, PlainKeepsKeys, PlainKeepsRemittances DEF RequestsInv
  <1>5. ASSUME NEW n \in Requests, RemittanceSteps(n) \/ RailAnswerIsLost(n) PROVE WalletInv'
    <2>1. UNCHANGED verdicts
      BY <1>5 DEF RemittanceSteps, ReadQuote, DropQuote, CheckSend, CallRail, RailRefuses, CommitSend, remittanceVars,
                  FindRemittance, LookForRefund, CommitRefund, RefundConflicts, RailAnswerIsLost
    <2>2. RequestsInv' /\ SendsRest
      BY <1>1, <1>5, <2>1, RemittanceStepGoes, RemittanceGoes DEF RequestsInv
    <2>3. CASE CommitSend(n)
      BY <2>1, <2>2, <2>3, CommitSendKeeps DEF RequestsInv
    <2>4. CASE CommitRefund(n)
      BY <2>1, <2>2, <2>4, CommitRefundKeepsKeys, CommitRefundKeepsRemittances DEF RequestsInv
    <2>5. CASE ~(CommitSend(n) \/ CommitRefund(n))
      <3>1. UNCHANGED ledger
        BY <1>5, <2>5 DEF RemittanceSteps, ReadQuote, DropQuote, CheckSend, CallRail, RailRefuses, Refused, walletVars,
                          FindRemittance, LookForRefund, RefundConflicts, RailAnswerIsLost
      <3> QED BY <2>1, <2>2, <3>1, AddsNone, PlainKeepsKeys, PlainKeepsRemittances DEF RemitInv
    <2> QED BY <2>3, <2>4, <2>5
  <1> QED BY <1>2, <1>3, <1>4, <1>5 DEF RemittanceNext

(***************************************************************************)
(* Faults                                                                  *)
(***************************************************************************)
LEMMA DyingKeepsAll == ASSUME WalletInv, NEW n \in Requests, Dies(n) PROVE WalletInv'
  <1> USE DEF WalletInv
  <1>1. n \in Busy /\ request[n].op \notin PhoneOps /\ GoesTo(n, "died")
    BY DEF Dies
  <1>2. UNCHANGED <<ledger, verdicts, challenge>>
    BY DEF Dies, walletVars, planeVars, remittanceVars, phoneVars
  <1>3. AddsPlain
    BY <1>2, AddsNone
  <1>4. RequestsInv' /\ SendsRest
    <2>1. CASE request[n].op \in RemittanceOps
      BY <1>1, <1>2, <2>1, RemittanceGoes
    <2>2. CASE request[n].op = "transfer"
      <3>1. Is(n, "transfer", request[n].at) /\ request[n].at \notin Ended
        BY <1>1, <2>2 DEF Is, Busy
      <3>2. HandlerStep({"transfer"}) /\ TransferInv'
        BY <1>1, <3>1, TransferGoes DEF RequestsInv
      <3>3. ChallengeInv' /\ ReportInv' /\ SendsRest
        BY <1>2, <3>2, OthersKeepChallenge, OthersKeepReports, OthersLeaveSends DEF RequestsInv
      <3> QED BY <3>2, <3>3 DEF RequestsInv, HandlerStep
    <2>3. CASE request[n].op \notin RemittanceOps \cup {"transfer"}
      <3> DEFINE ops == {request[n].op}
      <3>1. HandlerStep(ops)
        BY <1>1, Going DEF RequestsInv
      <3>2. ops \cap {"transfer", "send", "report", "call"} = {}
        BY <1>1, <2>3 DEF RemittanceOps, PhoneOps
      <3> HIDE DEF ops
      <3>3. ChallengeInv' /\ ReportInv' /\ TransferInv' /\ SendsRest
        BY <1>2, <3>1, <3>2, OthersKeepChallenge, OthersKeepReports, OthersKeepTransfers, OthersLeaveSends
        DEF RequestsInv
      <3> QED BY <3>1, <3>3 DEF RequestsInv, HandlerStep
    <2> QED BY <2>1, <2>2, <2>3
  <1> QED BY <1>2, <1>3, <1>4, PlainKeepsKeys, PlainKeepsRemittances DEF RemitInv

LEMMA KillRequests ==
  ASSUME HandlerInv, AppIsKilled
  PROVE  HandlerStep(PhoneOps)
  <1> DEFINE Gone(n) == [op |-> request[n].op, at |-> "died"]
  <1>1. /\ request' = [n \in Requests |-> IF n \in Busy /\ request[n].op \in PhoneOps THEN Gone(n) ELSE request[n]]
        /\ met' = met
    BY DEF AppIsKilled
  <1>2. \A n : /\ IsRequest(Gone(n)) /\ Gone(n) # NotYet /\ Gone(n).op = request[n].op
               /\ Gone(n).at = "died"
    BY DEF IsRequest, NotYet
  <1> HIDE DEF Gone
  <1>3. RequestShape'
    BY <1>1, <1>2 DEF HandlerInv, RequestShape
  <1>4. Busy' \subseteq Busy
    BY <1>1, <1>2 DEF Busy, Ended
  <1>5. BusyMet'
    BY <1>1, <1>4 DEF HandlerInv, BusyMet, Overlapped
  <1> QED BY <1>1, <1>2, <1>3, <1>5 DEF HandlerStep, HandlerInv

LEMMA KillKeepsAll == ASSUME WalletInv, AppIsKilled, PhoneFrame PROVE WalletInv'
  <1> USE DEF WalletInv
  <1>1. challenge' = 0 /\ UNCHANGED <<ledger, verdicts>>
    BY DEF AppIsKilled, PhoneFrame, walletVars, remittanceVars
  <1>2. HandlerStep(PhoneOps)
    BY KillRequests DEF RequestsInv
  <1>3. ChallengeInv'
    <2>1. 0 \notin Requests
      BY MaxRequestsIsNatural DEF Requests
    <2> QED BY <1>1, <2>1 DEF ChallengeInv
  <1>4. ReportInv' /\ TransferInv' /\ SendsRest
    BY <1>1, <1>2, OthersKeepReports, OthersKeepTransfers, OthersLeaveSends DEF RequestsInv, PhoneOps
  <1> QED BY <1>1, <1>2, <1>3, <1>4, AddsNone, PlainKeepsKeys, PlainKeepsRemittances
          DEF RequestsInv, RemitInv, HandlerStep

OtherFault(n) ==
  \/ RedisFails(n) /\ AuthorizeFrame
  \/ LenderAnswerIsLost(n) /\ LoanFrame
  \/ (KeyIsNotRead(n) \/ AnswerIsNotStored) /\ KeyedFrame

LEMMA OtherFaultRequests ==
  ASSUME HandlerInv, NEW n \in Requests, OtherFault(n)
  PROVE  HandlerStep({"authorize", "ewa", "keyed"})
  <1>1. CASE RedisFails(n)
    <2>1. n \in Busy /\ request[n].op = "authorize"
      BY <1>1, IsBusy DEF RedisFails, Ended
    <2>2. Proceeds(n)
      BY <1>1, <2>1, InProgress DEF RedisFails, Scores, CountsOn, Answers, AfterAnswer, Proceeds, IsRequest, NotYet
    <2> QED BY <2>1, <2>2, Proceeding
  <1>2. CASE LenderAnswerIsLost(n)
    <2>1. n \in Busy /\ request[n].op = "ewa"
      BY <1>2, IsBusy DEF LenderAnswerIsLost, Ended
    <2>2. Proceeds(n)
      BY <1>2 DEF LenderAnswerIsLost, Proceeds
    <2> QED BY <2>1, <2>2, Proceeding
  <1>3. CASE KeyIsNotRead(n)
    <2>1. n \in Busy /\ request[n].op = "keyed"
      BY <1>3, IsBusy DEF KeyIsNotRead, Ended
    <2>2. Proceeds(n)
      BY <1>3 DEF KeyIsNotRead, KeyedTo, Proceeds
    <2> QED BY <2>1, <2>2, Proceeding
  <1>4. CASE AnswerIsNotStored
    BY <1>4, HandlersRest DEF AnswerIsNotStored, sharedVars
  <1> QED BY <1>1, <1>2, <1>3, <1>4 DEF OtherFault

LEMMA OtherFaultsKeepAll == ASSUME WalletInv, NEW n \in Requests, OtherFault(n) PROVE WalletInv'
  <1>1. UNCHANGED <<ledger, verdicts, challenge>>
    BY DEF OtherFault, RedisFails, Scores, CountsOn, Answers, AuthorizeFrame, LenderAnswerIsLost, LoanFrame,
           KeyIsNotRead, KeyedTo, AnswerIsNotStored, KeyedFrame, walletVars, sharedVars, remittanceVars, phoneVars
  <1>2. HandlerStep({"authorize", "ewa", "keyed"})
    BY OtherFaultRequests DEF WalletInv, RequestsInv
  <1> QED BY <1>1, <1>2, AddsNone, OthersKeepAll

LEMMA FaultsKeepAll == ASSUME WalletInv, Fault PROVE WalletInv'
  BY DyingKeepsAll, TransfersKeepAll, RemittancesKeepAll, KillKeepsAll, OtherFaultsKeepAll DEF Fault, OtherFault

LEMMA RestKeepsAll ==
  ASSUME WalletInv, UNCHANGED <<ledger, handlerVars, verdicts, challenge>>
  PROVE  WalletInv'
  <1>1. HandlerStep({"none"})
    BY HandlersRest DEF WalletInv, RequestsInv
  <1> QED BY <1>1, AddsNone, OthersKeepAll

(***************************************************************************)
(* The theorems                                                            *)
(***************************************************************************)
LEMMA WalletStarts == Init => WalletInv
  <1> SUFFICES ASSUME Init PROVE WalletInv
    OBVIOUS
  <1>1. HandlerInv
    BY HandlersInit DEF Init, InitShared
  <1>2. ChallengeInv
    <2>1. 0 \notin Requests
      BY MaxRequestsIsNatural DEF Requests
    <2> QED BY <2>1 DEF Init, InitPhone, ChallengeInv
  <1>3. Busy = {}
    BY DEF Init, InitShared, InitHandlers, Busy, NotYet, Ended
  <1>4. KeyInv
    BY DEF Init, InitShared, KeyInv, RowShape, KeyMovesMoneyOnce
  <1>5. RemitInv
    BY DEF Init, InitShared, InitRemittance, RemitInv, SendsWriteOnce, RefundsHaveKeys
  <1> QED BY <1>1, <1>2, <1>3, <1>4, <1>5 DEF WalletInv, RequestsInv, TransferInv, ReportInv

LEMMA WalletGoesOn == WalletInv /\ [Next]_vars => WalletInv'
  <1> SUFFICES ASSUME WalletInv, [Next]_vars PROVE WalletInv'
    OBVIOUS
  <1>1. CASE TransferNext
    BY <1>1, TransfersKeepAll
  <1>2. CASE RemittanceNext
    BY <1>2, RemittancesKeepAll
  <1>3. CASE SavingsNext \/ CardNext \/ AuthorizeNext \/ LoanNext \/ KeyedNext
    BY <1>3, ServicesKeepAll
  <1>4. CASE PhoneNext
    BY <1>4, PhoneKeepsAll
  <1>5. CASE Passes
    BY <1>5, RestKeepsAll DEF Passes, NextDay, planeVars, remittanceVars, phoneVars
  <1>6. CASE Fault
    BY <1>6, FaultsKeepAll
  <1>7. CASE UNCHANGED vars
    BY <1>7, RestKeepsAll DEF vars, sharedVars, walletVars, planeVars, remittanceVars, phoneVars
  <1> QED BY <1>1, <1>2, <1>3, <1>4, <1>5, <1>6, <1>7 DEF Next

(* What every service keeps, whatever dies or is lost on the way.          *)
THEOREM WalletHolds == Spec => []WalletInv
  BY WalletStarts, WalletGoesOn, PTL DEF Spec

(* A retried transfer, a card event that comes twice and a refund move     *)
(* money once, and what a transfer took less its fee reached somebody else *)
(* (WalletService.transfer, processTransaction, moneyhash-remittance).     *)
THEOREM KeyMovesMoneyOnceHolds == Spec => []KeyMovesMoneyOnce
  <1>1. WalletInv => KeyMovesMoneyOnce
    BY DEF WalletInv, KeyInv
  <1> QED BY <1>1, WalletHolds, PTL

(* A remittance is FAILED exactly when it has been refunded, once and in   *)
(* full, however MoneyHash's reports are repeated, delayed or interleaved. *)
THEOREM RefundMirrorsFailureHolds == Spec => []RefundMirrorsFailure
  <1>1. WalletInv => RefundMirrorsFailure
    BY MirrorsFailure DEF WalletInv
  <1> QED BY <1>1, WalletHolds, PTL

(***************************************************************************)
(* What is done outside is charged.                                        *)
(***************************************************************************)

(* A send has called MoneyHash exactly when it goes on to its debit, or    *)
(* has made it, unless it died.                                            *)
OutsideInv ==
  /\ sent \in [Requests -> Quotes \cup {"direct", "nothing"}]
  /\ \A n \in Busy : request[n].op = "send" =>
       "quote" \in DOMAIN request[n] /\ request[n].quote \in Quotes \cup {"direct"}
  /\ \A t \in Requests : RemittanceRows(t) # {} => sent[t] # "nothing"
  /\ \A t \in Requests : sent[t] # "nothing" =>
       /\ request[t] # NotYet /\ request[t].op = "send"
       /\ RemittanceRows(t) # {} \/ request[t].at \in {"debits", "died"}
  /\ \A t \in Requests : Is(t, "send", "debits") => sent[t] # "nothing"

HasPaid(n) == \E row \in ledger : row.type = "FEE" /\ row.by = n

PlasticInv ==
  \A n \in plastic :
    /\ n \in Requests /\ request[n] # NotYet /\ request[n].op = "order"
    /\ \/ HasPaid(n)
       \/ request[n].at \in {"writes", "died"}
       \/ request[n].at = "refused" /\ hasPlastic

ChargedInv == WalletInv /\ OutsideInv /\ PlasticInv

LEMMA OutsideIsCharged == OutsideInv /\ PlasticInv => WorkOutsideIsCharged
  BY DEF OutsideInv, PlasticInv, HasPaid, WorkOutsideIsCharged

(* No remittance is written or lost, and no fee is lost. *)
RowsRest ==
  /\ \A t \in Requests : RemittanceRows(t)' # {} <=> RemittanceRows(t) # {}
  /\ \A n \in Requests : HasPaid(n) => HasPaid(n)'

LEMMA PlainLeavesRows == ASSUME AddsPlain PROVE RowsRest
  <1>1. PICK rows : ledger' = ledger \cup rows /\ \A row \in rows : IsPlain(row)
    BY DEF AddsPlain
  <1>2. \A t \in Requests : RemittanceRows(t)' = RemittanceRows(t)
    BY <1>1 DEF RemittanceRows, IsPlain
  <1> QED BY <1>1, <1>2 DEF RowsRest, HasPaid

LEMMA TransferLeavesRows ==
  ASSUME TransferNext \/ \E n \in Requests : TransferIsLost(n)
  PROVE  RowsRest
  <1>1. CASE \E n \in Requests : CommitTransfer(n)
    <2>1. PICK n \in Requests : CommitTransfer(n)
      BY <1>1
    <2> DEFINE p == request[n]
               debit == Row(n, p.from, "TRANSFER", -(p.amount + FeeOf(p.from)), p.key, NoKey, "")
               credited == Row(n, p.to, "RECEIVE", p.amount, NoKey, NoKey, "")
    <2>2. ledger' = ledger \cup {debit, credited}
      BY <2>1 DEF CommitTransfer, Posts
    <2>3. debit.type = "TRANSFER" /\ credited.type = "RECEIVE"
      BY DEF Row
    <2> HIDE DEF debit, credited
    <2>4. \A t \in Requests : RemittanceRows(t)' = RemittanceRows(t)
      BY <2>2, <2>3 DEF RemittanceRows
    <2> QED BY <2>2, <2>4 DEF RowsRest, HasPaid
  <1>2. CASE TransferNext /\ \A n \in Requests : ~CommitTransfer(n)
    BY <1>2, TransferRows, PlainLeavesRows
  <1>3. CASE \E n \in Requests : TransferIsLost(n)
    BY <1>3, AddsNone, PlainLeavesRows DEF TransferIsLost, walletVars
  <1> QED BY <1>1, <1>2, <1>3

LEMMA OthersKeepOutside ==
  ASSUME OutsideInv, RowsRest, UNCHANGED sent, NEW ops, HandlerStep(ops), "send" \notin ops
  PROVE  OutsideInv'
  <1>1. \A n \in Busy' : request'[n].op = "send" => request'[n] = request[n] /\ n \in Busy
    BY DEF HandlerStep, Busy
  <1>2. \A t \in Requests : request[t] # NotYet /\ request[t].op = "send" => request'[t] = request[t]
    BY DEF HandlerStep
  <1>3. \A t \in Requests : Is(t, "send", "debits")' => Is(t, "send", "debits")
    BY DEF HandlerStep, Is
  <1> QED BY <1>1, <1>2, <1>3 DEF OutsideInv, RowsRest, Busy

LEMMA OthersKeepPlastic ==
  ASSUME PlasticInv, RowsRest, UNCHANGED <<plastic, hasPlastic>>, NEW ops, HandlerStep(ops), "order" \notin ops
  PROVE  PlasticInv'
  <1>1. \A n \in Requests : request[n] # NotYet /\ request[n].op = "order" => request'[n] = request[n]
    BY DEF HandlerStep
  <1> QED BY <1>1 DEF PlasticInv, RowsRest

(* The services that send nothing and issue nothing. *)
LEMMA ServicesKeepCharged ==
  ASSUME ChargedInv,
         \/ TransferNext \/ SavingsNext \/ AuthorizeNext \/ LoanNext \/ PhoneNext \/ KeyedNext
         \/ \E n \in Requests : OtherFault(n) \/ (TransferIsLost(n) /\ TransferFrame)
         \/ AppIsKilled /\ PhoneFrame
  PROVE  OutsideInv' /\ PlasticInv'
  <1> USE DEF ChargedInv, WalletInv, RequestsInv
  <1>1. UNCHANGED <<sent, plastic, hasPlastic>>
    BY DEF TransferNext, TransferFrame, SavingsNext, SavingsFrame, AuthorizeNext, AuthorizeFrame, LoanNext, LoanFrame,
           PhoneNext, PhoneFrame, KeyedNext, KeyedFrame, OtherFault, remittanceVars, cardVars
  <1>2. ASSUME RowsRest, NEW ops, HandlerStep(ops), ops \cap {"send", "order"} = {} PROVE OutsideInv' /\ PlasticInv'
    BY <1>1, <1>2, OthersKeepOutside, OthersKeepPlastic
  <1>3. CASE TransferNext \/ \E n \in Requests : TransferIsLost(n)
    <2>1. HandlerStep({"transfer"})
      BY <1>3, TransferKeepsRequests DEF TransferNext
    <2> QED BY <1>2, <1>3, <2>1, TransferLeavesRows
  <1>4. CASE SavingsNext
    <2>1. RowsRest
      BY <1>4, SavingsRows, PlainLeavesRows
    <2> QED BY <1>2, <1>4, <2>1, SavingsRequests DEF SavingsOps
  <1>5. CASE AuthorizeNext \/ LoanNext \/ PhoneNext \/ KeyedNext
    <2>1. RowsRest
      BY <1>5, OtherRows, AddsNone, PlainLeavesRows
    <2>2. CASE AuthorizeNext
      BY <1>2, <2>1, <2>2, AuthorizeRequests
    <2>3. CASE LoanNext
      BY <1>2, <2>1, <2>3, LoanRequests DEF LoanOps
    <2>4. CASE PhoneNext
      BY <1>2, <2>1, <2>4, PhoneRequests DEF PhoneOps
    <2>5. CASE KeyedNext
      BY <1>2, <2>1, <2>5, KeyedRequests
    <2> QED BY <1>5, <2>2, <2>3, <2>4, <2>5
  <1>6. CASE \E n \in Requests : OtherFault(n)
    <2>1. PICK n \in Requests : OtherFault(n)
      BY <1>6
    <2>2. UNCHANGED ledger
      BY <2>1 DEF OtherFault, RedisFails, Scores, CountsOn, Answers, LenderAnswerIsLost,
                  KeyIsNotRead, KeyedTo, AnswerIsNotStored, walletVars, sharedVars
    <2>3. RowsRest
      BY <2>2, AddsNone, PlainLeavesRows
    <2> QED BY <1>2, <2>1, <2>3, OtherFaultRequests
  <1>7. CASE AppIsKilled
    <2>1. RowsRest
      BY <1>7, AddsNone, PlainLeavesRows DEF AppIsKilled, walletVars
    <2> QED BY <1>2, <1>7, <2>1, KillRequests DEF PhoneOps
  <1> QED BY <1>3, <1>4, <1>5, <1>6, <1>7

(* The send or the report n goes on. *)
LEMMA OutsideGoes ==
  ASSUME HandlerInv, OutsideInv, NEW n \in Busy, request[n].op \in RemittanceOps,
         NEW at, at # "not yet", GoesTo(n, at),
         sent' \in [Requests -> Quotes \cup {"direct", "nothing"}],
         \A m \in Requests \ {n} : sent'[m] = sent[m] /\ (RemittanceRows(m)' # {} <=> RemittanceRows(m) # {}),
         RemittanceRows(n)' # {} => sent'[n] # "nothing",
         sent'[n] # "nothing" =>
           request[n].op = "send" /\ (RemittanceRows(n)' # {} \/ at \in {"debits", "died"}),
         request[n].op = "send" /\ at = "debits" => sent'[n] # "nothing"
  PROVE  OutsideInv'
  <1>1. /\ HandlerStep(RemittanceOps)
        /\ request'[n].at = at /\ request'[n].op = request[n].op
        /\ at \notin Ended => /\ DOMAIN request'[n] = DOMAIN request[n]
                              /\ \A f \in DOMAIN request[n] \ {"at"} : request'[n][f] = request[n][f]
    BY Going
  <1>2. \A m \in Requests \ {n} : request'[m] = request[m]
    BY DEF GoesTo, Becomes, HandlerInv, RequestShape
  <1>3. request'[n] # NotYet
    <2>1. NotYet.at = "not yet"
      BY DEF NotYet
    <2> QED BY <1>1, <2>1
  <1>4. ASSUME NEW m \in Busy', request'[m].op = "send"
        PROVE  "quote" \in DOMAIN request'[m] /\ request'[m].quote \in Quotes \cup {"direct"}
    <2>1. CASE m = n
      BY <2>1, <1>1, <1>4 DEF OutsideInv, Busy
    <2>2. CASE m # n
      BY <2>2, <1>2, <1>4 DEF OutsideInv, Busy
    <2> QED BY <2>1, <2>2
  <1>5. ASSUME NEW t \in Requests
        PROVE  /\ RemittanceRows(t)' # {} => sent'[t] # "nothing"
               /\ sent'[t] # "nothing" =>
                    /\ request'[t] # NotYet /\ request'[t].op = "send"
                    /\ RemittanceRows(t)' # {} \/ request'[t].at \in {"debits", "died"}
               /\ Is(t, "send", "debits")' => sent'[t] # "nothing"
    <2>1. CASE t = n
      BY <2>1, <1>1, <1>3 DEF Is
    <2>2. CASE t # n
      BY <2>2, <1>2 DEF OutsideInv, Is
    <2> QED BY <2>1, <2>2
  <1> QED BY <1>4, <1>5 DEF OutsideInv

LEMMA RemittanceStepKeepsOutside ==
  ASSUME HandlerInv, KeyInv, ReportInv, OutsideInv, NEW n \in Requests, RemittanceSteps(n) \/ RailAnswerIsLost(n)
  PROVE  OutsideInv'
  <1>1. n \in Busy /\ request[n].op \in RemittanceOps
    BY RemittanceStepGoes
  <1>2. CASE CallRail(n) \/ RailAnswerIsLost(n)
    <2>1. request[n].op = "send" /\ request[n].quote \in Quotes \cup {"direct"}
      BY <1>1, <1>2 DEF CallRail, RailAnswerIsLost, Is, OutsideInv
    <2>2. request[n].quote # "nothing"
      BY <2>1, QuotesAreNamed
    <2>3. sent' = [sent EXCEPT ![n] = request[n].quote] /\ UNCHANGED ledger
      BY <1>2 DEF CallRail, RailAnswerIsLost, walletVars
    <2>4. /\ sent' \in [Requests -> Quotes \cup {"direct", "nothing"}]
          /\ sent'[n] # "nothing" /\ \A m \in Requests \ {n} : sent'[m] = sent[m]
      BY <2>1, <2>2, <2>3 DEF OutsideInv
    <2>5. \A m \in Requests : RemittanceRows(m)' = RemittanceRows(m)
      BY <2>3 DEF RemittanceRows
    <2>6. PICK at \in {"debits", "died"} : GoesTo(n, at)
      BY <1>2 DEF CallRail, RailAnswerIsLost
    <2> QED BY <1>1, <2>1, <2>4, <2>5, <2>6, OutsideGoes
  <1>3. CASE CommitSend(n)
    <2> DEFINE new == Row(n, request[n].who, "REMITTANCE", Price, NoKey, <<"transfer", n>>, "")
    <2>1. ledger' = ledger \cup {new} /\ UNCHANGED sent /\ GoesTo(n, "done")
      BY <1>3 DEF CommitSend, Posts, remittanceVars
    <2>2. new.type = "REMITTANCE" /\ new.ref = TransferRef(n)
      BY DEF Row, TransferRef
    <2> HIDE DEF new
    <2>3. new \in RemittanceRows(n)'
      BY <2>1, <2>2 DEF RemittanceRows, TransferRef
    <2>4. \A m \in Requests \ {n} : RemittanceRows(m)' = RemittanceRows(m)
      BY <2>1, <2>2, SameTransfer DEF RemittanceRows, TransferRef
    <2>5. sent[n] # "nothing" /\ request[n].op = "send"
      BY <1>3 DEF CommitSend, OutsideInv, Is
    <2>6. sent' \in [Requests -> Quotes \cup {"direct", "nothing"}]
      BY <2>1 DEF OutsideInv
    <2> QED BY <1>1, <2>1, <2>3, <2>4, <2>5, <2>6, OutsideGoes
  <1>4. CASE ~(CallRail(n) \/ RailAnswerIsLost(n) \/ CommitSend(n))
    <2>1. UNCHANGED sent
      BY <1>4 DEF RemittanceSteps, ReadQuote, DropQuote, CheckSend, RailRefuses, remittanceVars,
                  FindRemittance, LookForRefund, CommitRefund, RefundConflicts
    <2>2. PICK at : GoesTo(n, at) /\ at # "not yet" /\ (request[n].op = "send" => at # "debits")
      <3>1. CASE ReadQuote(n) \/ DropQuote(n) \/ CheckSend(n) \/ RailRefuses(n)
        <4>1. PICK at \in {"drops quote", "refused", "checks", "calls rail"} : GoesTo(n, at)
          BY <3>1 DEF ReadQuote, DropQuote, CheckSend, RailRefuses, AfterCheck, Refused
        <4> QED BY <4>1
      <3>2. CASE FindRemittance(n) \/ LookForRefund(n) \/ CommitRefund(n) \/ RefundConflicts(n)
        <4>1. request[n].op = "report"
          BY <3>2 DEF FindRemittance, LookForRefund, CommitRefund, RefundConflicts, Is
        <4> QED BY <4>1, RemittanceStepGoes
      <3> QED BY <1>4, <3>1, <3>2 DEF RemittanceSteps
    <2>3. request[n].at \notin {"debits", "died"}
      BY <1>1, <1>4 DEF RemittanceSteps, ReadQuote, DropQuote, CheckSend, RailRefuses, Is,
                        FindRemittance, LookForRefund, CommitRefund, RefundConflicts
    <2>4. \A m \in Requests : RemittanceRows(m)' # {} <=> RemittanceRows(m) # {}
      <3>1. CASE CommitRefund(n)
        <4> DEFINE Refund(row) == Row(n, row.employee, "REFUND", row.total, KeyOfRefund(request[n].transfer),
                                      <<"transfer", request[n].transfer>>, "")
                   Failed(row) == [row EXCEPT !.status = "FAILED"]
        <4>1. PICK row \in RemittanceRows(request[n].transfer) :
                ledger' = (ledger \ {row}) \cup {Failed(row), Refund(row)}
          BY <3>1 DEF CommitRefund, Posts
        <4>2. row \in ledger /\ RowFields \subseteq DOMAIN row
          BY <4>1 DEF RemittanceRows, KeyInv, RowShape
        <4>3. Failed(row).type = row.type /\ Failed(row).ref = row.ref /\ Refund(row).type = "REFUND"
          BY <4>2 DEF RowFields, Row
        <4> HIDE DEF Failed, Refund
        <4> QED BY <4>1, <4>2, <4>3 DEF RemittanceRows
      <3>2. CASE ~CommitRefund(n)
        <4>1. UNCHANGED ledger
          BY <1>4, <3>2 DEF RemittanceSteps, ReadQuote, DropQuote, CheckSend, RailRefuses, Refused, walletVars,
                            FindRemittance, LookForRefund, RefundConflicts
        <4> QED BY <4>1 DEF RemittanceRows
      <3> QED BY <3>1, <3>2
    <2>5. /\ sent' \in [Requests -> Quotes \cup {"direct", "nothing"}]
          /\ RemittanceRows(n) # {} => sent[n] # "nothing"
          /\ sent[n] # "nothing" => request[n].op = "send" /\ RemittanceRows(n) # {}
      BY <2>1, <2>3 DEF OutsideInv
    <2> QED BY <1>1, <2>1, <2>2, <2>4, <2>5, OutsideGoes
  <1> QED BY <1>2, <1>3, <1>4

LEMMA RemittanceKeepsOutside == ASSUME ChargedInv, RemittanceNext PROVE OutsideInv'
  <1> USE DEF ChargedInv, WalletInv, RequestsInv
  <1>1. CASE RemittanceArrives
    <2>1. UNCHANGED <<sent, ledger>>
      BY <1>1 DEF RemittanceArrives, Send, SendQuote, Report, walletVars, remittanceVars
    <2>2. PICK r : /\ IsRequest(r) /\ r # NotYet /\ r.op \in RemittanceOps /\ Arrives(r) /\ r.at # "debits"
                   /\ r.op = "send" => "quote" \in DOMAIN r /\ r.quote \in Quotes \cup {"direct"}
      <3>1. CASE \E e \in Employees : Send(e)
        <4>1. PICK e \in Employees : Send(e)
          BY <3>1
        <4> DEFINE r == [op |-> "send", at |-> "checks", who |-> e, quote |-> "direct"]
        <4>2. Arrives(r)
          BY <4>1 DEF Send
        <4>3. /\ IsRequest(r) /\ r # NotYet /\ r.op = "send" /\ r.at = "checks"
              /\ "quote" \in DOMAIN r /\ r.quote = "direct"
          BY DEF IsRequest, NotYet
        <4> HIDE DEF r
        <4> QED BY <4>2, <4>3 DEF RemittanceOps
      <3>2. CASE \E e \in Employees, q \in Quotes : SendQuote(e, q)
        <4>1. PICK e \in Employees, q \in Quotes : SendQuote(e, q)
          BY <3>2
        <4> DEFINE r == [op |-> "send", at |-> "reads quote", who |-> e, quote |-> q]
        <4>2. Arrives(r)
          BY <4>1 DEF SendQuote
        <4>3. /\ IsRequest(r) /\ r # NotYet /\ r.op = "send" /\ r.at = "reads quote"
              /\ "quote" \in DOMAIN r /\ r.quote = q
          BY DEF IsRequest, NotYet
        <4> HIDE DEF r
        <4> QED BY <4>2, <4>3 DEF RemittanceOps
      <3>3. CASE \E t \in Requests, verdict \in {"succeeded", "failed"} : Report(t, verdict)
        <4>1. PICK r : IsRequest(r) /\ r # NotYet /\ r.op = "report" /\ r.at = "finds row" /\ Arrives(r)
          BY <3>3 DEF Report, IsRequest, NotYet
        <4> QED BY <4>1 DEF RemittanceOps
      <3> QED BY <1>1, <3>1, <3>2, <3>3 DEF RemittanceArrives
    <2>3. PICK n \in Requests : /\ request[n] = NotYet /\ request'[n] = r
                                /\ \A m \in Requests \ {n} : request'[m] = request[m]
      BY <2>2, Arriving
    <2>4. \A m \in Requests : RemittanceRows(m)' = RemittanceRows(m)
      BY <2>1 DEF RemittanceRows
    <2>5. ASSUME NEW m \in Busy', request'[m].op = "send"
          PROVE  "quote" \in DOMAIN request'[m] /\ request'[m].quote \in Quotes \cup {"direct"}
      <3>1. CASE m = n
        BY <3>1, <2>2, <2>3, <2>5
      <3>2. CASE m # n
        BY <3>2, <2>3, <2>5 DEF OutsideInv, Busy
      <3> QED BY <3>1, <3>2
    <2>6. \A t \in Requests : sent[t] # "nothing" => request'[t] = request[t]
      BY <2>3 DEF OutsideInv
    <2>7. \A t \in Requests : Is(t, "send", "debits")' => sent[t] # "nothing"
      BY <2>2, <2>3 DEF OutsideInv, Is
    <2> QED BY <2>1, <2>4, <2>5, <2>6, <2>7 DEF OutsideInv
  <1>2. CASE \/ \E q \in Quotes : LockQuote(q) \/ QuoteExpires(q)
             \/ \E t \in Requests, verdict \in {"succeeded", "failed"} : RailDecides(t, verdict)
    <2>1. UNCHANGED <<ledger, sent, request, met>>
      BY <1>2 DEF LockQuote, QuoteExpires, RailDecides, sharedVars, walletVars, handlerVars
    <2> QED BY <2>1 DEF OutsideInv, RemittanceRows, Busy, Is
  <1>3. CASE \E n \in Requests : RemittanceSteps(n)
    BY <1>3, RemittanceStepKeepsOutside
  <1> QED BY <1>1, <1>2, <1>3 DEF RemittanceNext

LEMMA RemittanceLeavesFees ==
  ASSUME KeyInv, RemittanceNext \/ \E n \in Requests : RailAnswerIsLost(n), NEW m \in Requests, HasPaid(m)
  PROVE  HasPaid(m)'
  <1>1. CASE \E n \in Requests : CommitSend(n)
    BY <1>1 DEF CommitSend, Posts, HasPaid
  <1>2. CASE \E n \in Requests : CommitRefund(n)
    <2>1. PICK n \in Requests : CommitRefund(n)
      BY <1>2
    <2>2. PICK row \in RemittanceRows(request[n].transfer) : ledger \ {row} \subseteq ledger'
      BY <2>1 DEF CommitRefund, Posts
    <2>3. row.type # "FEE"
      BY <2>2 DEF RemittanceRows
    <2> QED BY <2>2, <2>3 DEF HasPaid
  <1>3. CASE UNCHANGED ledger
    BY <1>3 DEF HasPaid
  <1> QED BY <1>1, <1>2, <1>3
          DEF RemittanceNext, RemittanceArrives, Send, SendQuote, Report, LockQuote, QuoteExpires, RailDecides,
              RemittanceSteps, ReadQuote, DropQuote, CheckSend, CallRail, RailRefuses, FindRemittance, LookForRefund,
              RefundConflicts, RailAnswerIsLost, Refused, walletVars, sharedVars

(* An order that goes on, or another request. *)
LEMMA OthersPlastic ==
  ASSUME PlasticInv, NEW ops, HandlerStep(ops), NEW m \in plastic, request'[m] = request[m],
         HasPaid(m) => HasPaid(m)', hasPlastic => hasPlastic'
  PROVE  /\ m \in Requests /\ request'[m] # NotYet /\ request'[m].op = "order"
         /\ \/ HasPaid(m)'
            \/ request'[m].at \in {"writes", "died"}
            \/ request'[m].at = "refused" /\ hasPlastic'
  BY DEF PlasticInv

LEMMA CardsKeepPlastic == ASSUME ChargedInv, CardNext PROVE PlasticInv'
  <1> USE DEF ChargedInv, WalletInv, RequestsInv
  <1>1. HandlerStep(CardOps)
    BY CardRequests
  <1>2. ASSUME NEW n \in Requests, HasPaid(n) PROVE HasPaid(n)'
    BY <1>2, CardRows DEF AddsPlain, HasPaid
  <1>3. hasPlastic => hasPlastic'
    BY DEF CardNext, ControlArrives, Manage, StatusEvent, EventArrives, TransactionEvent, OrderCard, IssuerExpires,
           CardSteps, ReadCard, AskIssuer, IssuerRefuses, WriteCard, ReadStatusEvent, WriteStatusEvent, CheckOrder,
           IssuePlastic, CommitOrder, OrderConflicts, ReadEventCard, CheckEvent, CommitEvent, EventConflicts,
           SumCashback, PayCashback, cardVars
  <1>4. ASSUME NEW m \in plastic, request'[m] # request[m], HasPaid(m) PROVE HasPaid(m)'
    BY <1>2, <1>4 DEF PlasticInv
  <1>5. ASSUME NEW n \in Requests, IssuePlastic(n) PROVE PlasticInv'
    <2>1. n \in Busy /\ request[n].op = "order" /\ GoesTo(n, "writes") /\ plastic' = plastic \cup {n}
      BY <1>5, IsBusy DEF IssuePlastic, Ended
    <2>2. request'[n].op = "order" /\ request'[n].at = "writes"
      BY <2>1, Going
    <2>3. NotYet.at # "writes"
      BY DEF NotYet
    <2>4. \A m \in Requests \ {n} : request'[m] = request[m]
      BY <2>1 DEF GoesTo, Becomes, HandlerInv, RequestShape
    <2> QED BY <1>1, <1>2, <1>3, <2>1, <2>2, <2>3, <2>4 DEF PlasticInv
  <1>6. ASSUME NEW n \in Requests, CommitOrder(n) PROVE PlasticInv'
    <2>1. n \in Busy /\ request[n].op = "order" /\ GoesTo(n, "done") /\ plastic' = plastic
      BY <1>6, IsBusy DEF CommitOrder, Ended
    <2>2. request'[n].op = "order" /\ request'[n].at = "done"
      BY <2>1, Going
    <2>3. NotYet.at # "done"
      BY DEF NotYet
    <2>4. \A m \in Requests \ {n} : request'[m] = request[m]
      BY <2>1 DEF GoesTo, Becomes, HandlerInv, RequestShape
    <2>5. HasPaid(n)'
      <3> DEFINE new == Row(n, Holder, "FEE", CardFee, NoKey, <<"order", n>>, "")
      <3>1. new \in ledger'
        BY <1>6 DEF CommitOrder, Posts
      <3>2. new.type = "FEE" /\ new.by = n
        BY DEF Row
      <3> HIDE DEF new
      <3> QED BY <3>1, <3>2 DEF HasPaid
    <2> QED BY <1>1, <1>2, <1>3, <2>1, <2>2, <2>3, <2>4, <2>5 DEF PlasticInv
  <1>7. ASSUME NEW n \in Requests, OrderConflicts(n) \/ CheckOrder(n) PROVE PlasticInv'
    <2>1. n \in Busy /\ request[n].op = "order" /\ plastic' = plastic
      BY <1>7, IsBusy DEF OrderConflicts, CheckOrder, Ended, cardVars
    <2>2. PICK at \in {"refused", "calls issuer"} : GoesTo(n, at)
      BY <1>7 DEF OrderConflicts, CheckOrder, Refused
    <2>3. request'[n].op = "order" /\ request'[n].at = at
      BY <2>1, <2>2, Going
    <2>4. NotYet.at = "not yet"
      BY DEF NotYet
    <2>5. \A m \in Requests \ {n} : request'[m] = request[m]
      BY <2>2 DEF GoesTo, Becomes, HandlerInv, RequestShape
    <2>6. n \in plastic => HasPaid(n) \/ (at = "refused" /\ hasPlastic)
      <3>1. CASE CheckOrder(n)
        BY <3>1 DEF CheckOrder, Is, PlasticInv
      <3>2. CASE OrderConflicts(n)
        <4>1. GoesTo(n, "refused") /\ hasPlastic
          BY <3>2 DEF OrderConflicts, Refused
        <4>2. request'[n].at = "refused"
          BY <2>1, <4>1, Going
        <4> QED BY <2>3, <4>1, <4>2
      <3> QED BY <1>7, <3>1, <3>2
    <2> QED BY <1>1, <1>2, <1>3, <2>1, <2>3, <2>4, <2>5, <2>6 DEF PlasticInv
  <1>8. CASE ~\E n \in Requests : IssuePlastic(n) \/ CommitOrder(n) \/ OrderConflicts(n) \/ CheckOrder(n)
    <2>1. plastic' = plastic
      BY <1>8 DEF CardNext, ControlArrives, Manage, StatusEvent, EventArrives, TransactionEvent, OrderCard,
           IssuerExpires, CardSteps, ReadCard, AskIssuer, IssuerRefuses, WriteCard, ReadStatusEvent, WriteStatusEvent,
           ReadEventCard, CheckEvent, CommitEvent, EventConflicts, SumCashback, PayCashback, cardVars
    <2>2. ASSUME NEW m \in Requests, request[m] # NotYet, request[m].op = "order" PROVE request'[m] = request[m]
      <3>1. CASE \E n \in Requests : CardSteps(n)
        <4>1. PICK n \in Requests : CardSteps(n)
          BY <3>1
        <4>2. request[n].op # "order"
          BY <1>8, <4>1 DEF CardSteps, ReadCard, AskIssuer, IssuerRefuses, WriteCard, ReadStatusEvent, WriteStatusEvent,
             ReadEventCard, CheckEvent, CommitEvent, EventConflicts, SumCashback, PayCashback, Manages, Is, Managing
        <4>3. \E r : Becomes(n, r)
          BY <1>8, <4>1 DEF CardSteps, ReadCard, AskIssuer, IssuerRefuses, WriteCard, ReadStatusEvent, WriteStatusEvent,
             ReadEventCard, CheckEvent, CommitEvent, EventConflicts, SumCashback, PayCashback, GoesTo, Refused
        <4> QED BY <2>2, <4>2, <4>3 DEF Becomes, HandlerInv, RequestShape
      <3>2. CASE IssuerExpires
        BY <3>2 DEF IssuerExpires, sharedVars, handlerVars
      <3>3. CASE ControlArrives \/ StatusEvent \/ EventArrives \/ OrderCard \/ Manage("tokenize")
        <4>1. PICK r : Arrives(r)
          BY <3>3 DEF ControlArrives, Manage, StatusEvent, EventArrives, TransactionEvent, OrderCard
        <4> QED BY <2>2, <4>1 DEF Arrives, HandlerInv, RequestShape
      <3> QED BY <3>1, <3>2, <3>3 DEF CardNext
    <2> QED BY <1>2, <1>3, <2>1, <2>2 DEF PlasticInv
  <1> QED BY <1>5, <1>6, <1>7, <1>8

LEMMA DyingKeepsCharged == ASSUME ChargedInv, NEW n \in Requests, Dies(n) PROVE OutsideInv' /\ PlasticInv'
  <1> USE DEF ChargedInv, WalletInv, RequestsInv
  <1>1. n \in Busy /\ GoesTo(n, "died") /\ UNCHANGED <<ledger, sent, plastic, hasPlastic>>
    BY DEF Dies, walletVars, planeVars, remittanceVars, cardVars
  <1>2. RowsRest
    BY <1>1, AddsNone, PlainLeavesRows
  <1> DEFINE ops == {request[n].op}
  <1>3. HandlerStep(ops) /\ request'[n].at = "died" /\ request'[n].op = request[n].op
    BY <1>1, Going
  <1>4. "send" \notin ops => request[n].op # "send"
    OBVIOUS
  <1>5. "order" \notin ops => request[n].op # "order"
    OBVIOUS
  <1>6. "order" \in ops => request[n].op = "order"
    OBVIOUS
  <1>7. "send" \in ops => request[n].op = "send"
    OBVIOUS
  <1> HIDE DEF ops
  <1>8. OutsideInv'
    <2>1. CASE "send" \in ops
      <3>1. request[n].op \in RemittanceOps /\ request[n].op = "send"
        BY <1>7, <2>1 DEF RemittanceOps
      <3> QED BY <1>1, <1>2, <3>1, OutsideGoes DEF OutsideInv, RowsRest
    <2>2. CASE "send" \notin ops
      BY <1>1, <1>2, <1>3, <2>2, OthersKeepOutside
    <2> QED BY <2>1, <2>2
  <1>9. PlasticInv'
    <2>1. CASE "order" \in ops
      <3>1. \A m \in Requests \ {n} : request'[m] = request[m]
        BY <1>1 DEF GoesTo, Becomes, HandlerInv, RequestShape
      <3>2. NotYet.at # "died"
        BY DEF NotYet
      <3> QED BY <1>1, <1>2, <1>3, <1>6, <2>1, <3>1, <3>2 DEF PlasticInv, RowsRest
    <2>2. CASE "order" \notin ops
      BY <1>1, <1>2, <1>3, <2>2, OthersKeepPlastic
    <2> QED BY <2>1, <2>2
  <1> QED BY <1>8, <1>9

LEMMA RestKeepsCharged ==
  ASSUME ChargedInv, UNCHANGED <<ledger, handlerVars, sent, plastic, hasPlastic>>
  PROVE  OutsideInv' /\ PlasticInv'
  <1>1. HandlerStep({})
    BY HandlersRest DEF ChargedInv, WalletInv, RequestsInv
  <1>2. RowsRest
    BY AddsNone, PlainLeavesRows
  <1> QED BY <1>1, <1>2, OthersKeepOutside, OthersKeepPlastic DEF ChargedInv

LEMMA RemittancesKeepCharged ==
  ASSUME ChargedInv,
         RemittanceNext \/ (RemittanceFrame /\ \E n \in Requests : RailAnswerIsLost(n))
  PROVE  OutsideInv' /\ PlasticInv'
  <1> USE DEF ChargedInv, WalletInv, RequestsInv
  <1>1. OutsideInv'
    BY RemittanceKeepsOutside, RemittanceStepKeepsOutside
  <1>2. HandlerStep(RemittanceOps)
    <2>1. CASE RemittanceNext
      BY <2>1, RemittanceRequests
    <2>2. CASE \E n \in Requests : RailAnswerIsLost(n)
      BY <2>2, RemittanceStepGoes, Going
    <2> QED BY <2>1, <2>2
  <1>3. UNCHANGED <<plastic, hasPlastic>>
    BY DEF RemittanceNext, RemittanceFrame, cardVars
  <1>4. \A n \in Requests : HasPaid(n) => HasPaid(n)'
    BY RemittanceLeavesFees
  <1>5. \A n \in Requests : request[n] # NotYet /\ request[n].op = "order" => request'[n] = request[n]
    BY <1>2 DEF HandlerStep, RemittanceOps
  <1>6. PlasticInv'
    BY <1>3, <1>4, <1>5 DEF PlasticInv
  <1> QED BY <1>1, <1>6

LEMMA CardsKeepOutside == ASSUME ChargedInv, CardNext PROVE OutsideInv'
  <1>1. HandlerStep(CardOps)
    BY CardRequests DEF ChargedInv, WalletInv, RequestsInv
  <1>2. RowsRest
    BY CardRows, PlainLeavesRows
  <1>3. UNCHANGED sent
    BY DEF CardNext, CardFrame, remittanceVars
  <1> QED BY <1>1, <1>2, <1>3, OthersKeepOutside DEF CardOps, Managing, ChargedInv

LEMMA ChargedStarts == Init => ChargedInv
  <1> SUFFICES ASSUME Init PROVE OutsideInv /\ PlasticInv
    BY WalletStarts DEF ChargedInv
  <1>1. Busy = {} /\ \A n \in Requests : request[n].at = "not yet"
    BY DEF Init, InitShared, InitHandlers, Busy, NotYet, Ended
  <1>2. ledger = {} /\ sent = [n \in Requests |-> "nothing"] /\ plastic = {}
    BY DEF Init, InitShared, InitRemittance, InitCards
  <1> QED BY <1>1, <1>2 DEF OutsideInv, PlasticInv, RemittanceRows, Is

LEMMA ChargedGoesOn == ChargedInv /\ [Next]_vars => ChargedInv'
  <1> SUFFICES ASSUME ChargedInv, [Next]_vars PROVE OutsideInv' /\ PlasticInv'
    BY WalletGoesOn DEF ChargedInv
  <1>1. CASE TransferNext \/ SavingsNext \/ AuthorizeNext \/ LoanNext \/ PhoneNext \/ KeyedNext
    BY <1>1, ServicesKeepCharged
  <1>2. CASE RemittanceNext
    BY <1>2, RemittancesKeepCharged
  <1>3. CASE CardNext
    BY <1>3, CardsKeepOutside, CardsKeepPlastic
  <1>4. CASE Passes
    BY <1>4, RestKeepsCharged DEF Passes, NextDay, planeVars, remittanceVars, cardVars
  <1>5. CASE Fault
    BY <1>5, DyingKeepsCharged, ServicesKeepCharged, RemittancesKeepCharged DEF Fault, OtherFault
  <1>6. CASE UNCHANGED vars
    BY <1>6, RestKeepsCharged DEF vars, sharedVars, walletVars, planeVars, remittanceVars, cardVars
  <1> QED BY <1>1, <1>2, <1>3, <1>4, <1>5, <1>6 DEF Next

(* What MoneyHash has sent and the plastic NymCard has issued have been    *)
(* charged, or the request is about to charge them, or has died on the way *)
(* (remittanceService.send, orderPhysicalCard).                            *)
THEOREM WorkOutsideIsChargedHolds == Spec => []WorkOutsideIsCharged
  <1>1. ChargedInv => WorkOutsideIsCharged
    BY OutsideIsCharged DEF ChargedInv
  <1> QED BY <1>1, ChargedStarts, ChargedGoesOn, PTL DEF Spec

(***************************************************************************)
(* One at a time: what holds while no two requests of some operations have *)
(* been in progress at once.                                               *)
(***************************************************************************)
Calm(ops) == \A m, n \in Doing(ops) : m # n => ~Overlapped(m, n)

LEMMA CalmBefore ==
  ASSUME NEW ops, HandlerStep(ops), NEW mine, Calm(mine)' PROVE Calm(mine)
  <1>1. \A n \in Doing(mine) : n \in Doing(mine)'
    BY DEF HandlerStep, Doing
  <1>2. \A m, n : Overlapped(m, n) => Overlapped(m, n)'
    BY DEF HandlerStep, Overlapped
  <1> QED BY <1>1, <1>2 DEF Calm

LEMMA OneAtATime ==
  ASSUME HandlerInv, NEW mine, Calm(mine), NEW n \in Busy, request[n].op \in mine
  PROVE  \A m \in Busy : request[m].op \in mine => m = n
  <1>1. \A m \in Busy : m \in Requests /\ request[m] # NotYet
    BY NotYetEnded DEF Busy
  <1> QED BY <1>1 DEF Calm, Doing, HandlerInv, BusyMet

(* Some operations are all that a step touches: Redis, the lender, the rail *)
(* and the database may fail, the application or a request may die.        *)
LEMMA FaultIsHandled == ASSUME RequestsInv, Fault PROVE \E ops : HandlerStep(ops)
  <1> USE DEF RequestsInv
  <1>1. PICK n \in Requests :
          \/ Dies(n)
          \/ TransferIsLost(n) /\ TransferFrame
          \/ RailAnswerIsLost(n) /\ RemittanceFrame
          \/ AppIsKilled /\ PhoneFrame
          \/ OtherFault(n)
    BY DEF Fault, OtherFault
  <1>2. CASE Dies(n) \/ RailAnswerIsLost(n) \/ TransferIsLost(n)
    <2> DEFINE ops == {request[n].op}
    <2>1. request[n].op \in ops
      OBVIOUS
    <2> HIDE DEF ops
    <2>2. n \in Busy
      BY <1>2 DEF Dies, RailAnswerIsLost, TransferIsLost, Is, Busy, Ended
    <2>3. PICK at : GoesTo(n, at) /\ at # "not yet"
      <3>1. PICK at \in {"died", "reward", "done"} : GoesTo(n, at)
        BY <1>2 DEF Dies, RailAnswerIsLost, TransferIsLost, AfterTransfer
      <3> QED BY <3>1
    <2> QED BY <2>1, <2>2, <2>3, Going
  <1>3. CASE AppIsKilled
    BY <1>3, KillRequests
  <1>4. CASE OtherFault(n)
    BY <1>4, OtherFaultRequests
  <1> QED BY <1>1, <1>2, <1>3, <1>4

LEMMA StepIsHandled == ASSUME RequestsInv, [Next]_vars PROVE \E ops : HandlerStep(ops)
  <1> USE DEF RequestsInv
  <1>1. CASE Fault
    BY <1>1, FaultIsHandled
  <1>2. CASE Passes \/ UNCHANGED vars
    BY <1>2, HandlersRest DEF Passes, NextDay, vars, sharedVars
  <1> QED BY <1>1, <1>2, TransferRequests, SavingsRequests, RemittanceRequests, CardRequests, AuthorizeRequests,
             LoanRequests, PhoneRequests, KeyedRequests DEF Next

LEMMA FaultIsCounted == ASSUME Fault, faults \in Nat PROVE faults' \in Nat /\ faults' # 0
  BY DEF Fault

(***************************************************************************)
(* Bursts of authorizations: what has been answered in the window is never *)
(* more than what Redis counts, or the request under way is about to count.*)
(***************************************************************************)
Velocities == [count : Nat, amount : Nat]
Within(seen, counted) == seen.count <= counted.count /\ seen.amount <= counted.amount

LEMMA PlusIsVelocity ==
  ASSUME NEW seen \in Velocities, NEW a \in Attempts PROVE Plus(seen, a) \in Velocities
  BY ScoresAreWhole DEF Plus, Velocities

LEMMA PlusIsMore ==
  ASSUME NEW seen \in Velocities, NEW counted \in Velocities, Within(seen, counted), NEW a \in Attempts
  PROVE  Within(Plus(seen, a), Plus(counted, a))
  BY ScoresAreWhole DEF Plus, Velocities, Within

LEMMA NothingIsWithin == NoVelocity \in Velocities /\ \A counted \in Velocities : Within(NoVelocity, counted)
  BY DEF NoVelocity, Velocities, Within

(* The smaller of two. *)
LEMMA MinOfTwo ==
  ASSUME NEW a \in Int, NEW b \in Int
  PROVE  Min({a, b}) = IF a <= b THEN a ELSE b
  BY DEF Min

(* The more has been counted, the higher the risk. *)
LEMMA RiskGrows ==
  ASSUME NEW a \in Attempts, NEW seen \in Velocities, NEW counted \in Velocities, Within(seen, counted)
  PROVE  Risk(a, seen) \in Int /\ Risk(a, counted) \in Int /\ Risk(a, seen) <= Risk(a, counted)
  <1> DEFINE Of(v) == Adds(v.count >= Burst, 60) + Adds(v.count \in Spike..(Burst - 1), 20)
             On(v) == Adds(v.amount + a.amount > SpendSpike, 25)
  <1>1. PICK before \in Nat : before = Adds(a.risky, 35) + Adds(a.country = "sanctioned", 50)
    BY DEF Adds
  <1>2. PICK after \in Nat : after = Adds(a.country # "home", 15) + Adds(a.amount > LargeTicket, 15)
                                     + Adds(~a.device /\ a.amount > BareTicket, 10)
    BY DEF Adds
  <1>3. Of(seen) \in Nat /\ Of(counted) \in Nat /\ Of(seen) <= Of(counted)
    BY ScoresAreWhole DEF Adds, Velocities, Within
  <1>4. On(seen) \in Nat /\ On(counted) \in Nat /\ On(seen) <= On(counted)
    BY ScoresAreWhole DEF Adds, Velocities, Within
  <1>5. ASSUME NEW v \in Velocities, Of(v) \in Nat, On(v) \in Nat
        PROVE  Risk(a, v) = Min({100, before + Of(v) + On(v) + after})
    <2> DEFINE p1 == Adds(a.risky, 35)
               p2 == Adds(a.country = "sanctioned", 50)
               p3 == Adds(v.count >= Burst, 60)
               p4 == Adds(v.count \in Spike..(Burst - 1), 20)
               p5 == On(v)
               p6 == Adds(a.country # "home", 15)
               p7 == Adds(a.amount > LargeTicket, 15)
               p8 == Adds(~a.device /\ a.amount > BareTicket, 10)
    <2>1. Risk(a, v) = Min({100, p1 + p2 + p3 + p4 + p5 + p6 + p7 + p8})
      BY DEF Risk
    <2>2. {p1, p2, p3, p4, p5, p6, p7, p8} \subseteq Nat
      BY <1>5 DEF Adds
    <2>3. before = p1 + p2 /\ Of(v) = p3 + p4 /\ On(v) = p5 /\ after = p6 + p7 + p8
      BY <1>1, <1>2
    <2> HIDE DEF p1, p2, p3, p4, p5, p6, p7, p8, Of, On
    <2>4. p1 + p2 + p3 + p4 + p5 + p6 + p7 + p8 = before + Of(v) + On(v) + after
      BY <2>2, <2>3
    <2> QED BY <2>1, <2>4
  <1>6. /\ Risk(a, seen) = Min({100, before + Of(seen) + On(seen) + after})
        /\ Risk(a, counted) = Min({100, before + Of(counted) + On(counted) + after})
    BY <1>3, <1>4, <1>5
  <1> HIDE DEF Of, On
  <1> QED BY <1>3, <1>4, <1>6, MinOfTwo

Counting(n) == Is(n, "authorize", "reads count") \/ Is(n, "authorize", "writes count")

AsksFit(r) ==
  r.op = "authorize" /\ r.at \notin Ended =>
    {"op", "at", "asks", "seen"} \subseteq DOMAIN r /\ r.asks \in Attempts /\ r.seen \in Velocities

VelocityFits ==
  /\ faults \in Nat /\ velocity \in Velocities /\ window \in Velocities
  /\ \A n \in Requests : AsksFit(request[n])

(* What a request that is at "at" knows of the window and the velocity. *)
Knows(r, answered, counted) ==
  r.op = "authorize" =>
    /\ r.at = "checks balance" => Risk(r.asks, r.seen) <= DeclineAbove
    /\ r.at = "reads count" => Within(answered, Plus(counted, r.asks))
    /\ r.at = "writes count" => Within(answered, Plus(r.seen, r.asks))

AllScored == \A a \in approvals : Risk(a.asks, a.earlier) <= DeclineAbove

Counted ==
  /\ AllScored
  /\ (\A n \in Requests : ~Counting(n)) => Within(window, velocity)
  /\ \A n \in Requests : Knows(request[n], window, velocity)

BurstInv == VelocityFits /\ (faults = 0 /\ Calm({"authorize"}) => Counted)

(* A step of another service. *)
LEMMA OthersKeepBursts ==
  ASSUME BurstInv, UNCHANGED <<authorizeVars, faults>>, NEW ops, HandlerStep(ops), "authorize" \notin ops
  PROVE  BurstInv'
  <1>1. \A n \in Requests : request'[n] = request[n] \/ (request'[n].op # "authorize" /\ ~Counting(n))
    BY NotYetEnded DEF HandlerStep, Counting, Is, Ended
  <1>2. \A n \in Requests : request'[n].op # "authorize" => AsksFit(request'[n]) /\ \A v, w : Knows(request'[n], v, w)
    BY DEF AsksFit, Knows
  <1>3. UNCHANGED <<velocity, window, approvals, faults>>
    BY DEF authorizeVars
  <1>4. VelocityFits'
    BY <1>1, <1>2, <1>3 DEF BurstInv, VelocityFits
  <1>5. ASSUME faults = 0, Calm({"authorize"})' PROVE Counted'
    <2>1. Counted
      <3>1. PICK mine : mine = {"authorize"}
        OBVIOUS
      <3> QED BY <1>5, <3>1, CalmBefore DEF BurstInv
    <2>2. (\A n \in Requests : ~Counting(n)') => \A n \in Requests : ~Counting(n)
      BY <1>1 DEF Counting, Is
    <2>3. Within(window, velocity)' = Within(window, velocity) /\ AllScored' = AllScored
      BY <1>3 DEF AllScored
    <2>4. \A n \in Requests : Knows(request'[n], window, velocity)
      BY <1>1, <1>2, <2>1 DEF Counted
    <2> QED BY <1>3, <2>1, <2>2, <2>3, <2>4 DEF Counted
  <1> QED BY <1>3, <1>4, <1>5 DEF BurstInv

(* A step of one authorization: nobody else counts while it is the only one.*)
LEMMA OneIsCounted ==
  ASSUME HandlerInv, BurstInv, NEW n \in Busy, request[n].op = "authorize", UNCHANGED faults,
         HandlerStep({"authorize"}), \A m \in Requests \ {n} : request'[m] = request[m],
         velocity' \in Velocities, window' \in Velocities, AsksFit(request'[n]),
         faults = 0 /\ Calm({"authorize"}) /\ Counted =>
           /\ AllScored'
           /\ ~Counting(n)' => Within(window', velocity')
           /\ Knows(request'[n], window', velocity')
  PROVE  BurstInv'
  <1>0. n \in Requests
    BY DEF Busy
  <1>1. VelocityFits'
    BY DEF BurstInv, VelocityFits
  <1>2. ASSUME faults = 0, Calm({"authorize"})' PROVE Counted'
    <2>1. Calm({"authorize"}) /\ Counted
      <3>1. PICK mine : mine = {"authorize"}
        OBVIOUS
      <3> QED BY <1>2, <3>1, CalmBefore DEF BurstInv
    <2>2. /\ AllScored'
          /\ ~Counting(n)' => Within(window', velocity')
          /\ Knows(request'[n], window', velocity')
      BY <1>2, <2>1
    <2>3. \A m \in Requests \ {n} : request[m].op = "authorize" => request[m].at \in Ended
      <3>1. PICK mine : mine = {"authorize"}
        OBVIOUS
      <3>2. \A m \in Busy : request[m].op \in mine => m = n
        BY <2>1, <3>1, OneAtATime
      <3> QED BY <3>1, <3>2 DEF Busy
    <2>4. ASSUME NEW m \in Requests PROVE Knows(request'[m], window', velocity')
      <3>1. CASE m = n
        BY <2>2, <3>1
      <3>2. CASE m # n
        BY <2>3, <3>2 DEF Knows, Ended
      <3> QED BY <3>1, <3>2
    <2> QED BY <1>0, <2>2, <2>4 DEF Counted
  <1> QED BY <1>1, <1>2 DEF BurstInv

LEMMA Authorizing ==
  ASSUME HandlerInv, BurstInv, NEW n \in Requests, NEW at, at \notin Ended, Is(n, "authorize", at)
  PROVE  /\ n \in Busy /\ request[n].op = "authorize" /\ request[n].at = at
         /\ request[n].asks \in Attempts /\ request[n].seen \in Velocities
         /\ {"op", "at", "asks", "seen"} \subseteq DOMAIN request[n]
         /\ faults \in Nat /\ velocity \in Velocities /\ window \in Velocities
  BY DEF Is, Busy, BurstInv, VelocityFits, AsksFit

(* It is answered: what has been answered in the window grows with it.     *)
LEMMA AnswersKeep ==
  ASSUME HandlerInv, BurstInv, NEW n \in Requests, UNCHANGED faults,
         NEW at \in {"reads velocity", "checks balance"}, Is(n, "authorize", at),
         NEW verdict, Answers(n, verdict),
         verdict = "APPROVE" => at = "checks balance"
  PROVE  BurstInv'
  <1>1. at \notin Ended /\ at \notin {"reads count", "writes count"} /\ "reads count" \notin Ended
        /\ "reads count" # "not yet" /\ "reads count" # "checks balance" /\ "reads count" # "writes count"
    BY DEF Ended
  <1>2. /\ n \in Busy /\ request[n].op = "authorize" /\ request[n].at = at
        /\ request[n].asks \in Attempts /\ request[n].seen \in Velocities
        /\ {"op", "at", "asks", "seen"} \subseteq DOMAIN request[n]
        /\ velocity \in Velocities /\ window \in Velocities
    BY <1>1, Authorizing
  <1>3. /\ GoesTo(n, "reads count") /\ window' = Plus(window, request[n].asks) /\ velocity' = velocity
        /\ approvals' = IF verdict = "APPROVE" THEN approvals \cup {[asks |-> request[n].asks, earlier |-> request[n].seen]}
                        ELSE approvals
    BY DEF Answers, AfterAnswer
  <1>4. /\ request'[n].at = "reads count" /\ request'[n].op = "authorize"
        /\ \A m \in Requests \ {n} : request'[m] = request[m]
        /\ DOMAIN request'[n] = DOMAIN request[n]
        /\ \A f \in DOMAIN request[n] \ {"at"} : request'[n][f] = request[n][f]
    BY <1>1, <1>2, <1>3, GoingOn
  <1>5. request'[n].asks = request[n].asks /\ AsksFit(request'[n])
    BY <1>2, <1>4 DEF AsksFit
  <1>6. HandlerStep({"authorize"})
    <2>1. request[n].op \in {"authorize"}
      BY <1>2
    <2> QED BY <1>1, <1>2, <1>3, <2>1, Going
  <1>7. window' \in Velocities /\ velocity' \in Velocities
    BY <1>2, <1>3, PlusIsVelocity
  <1>8. ASSUME faults = 0, Calm({"authorize"}), Counted
        PROVE  /\ AllScored' /\ (~Counting(n)' => Within(window', velocity')) /\ Knows(request'[n], window', velocity')
    <2>1. \A m \in Requests : ~Counting(m)
      <3>1. PICK mine : mine = {"authorize"}
        OBVIOUS
      <3>2. \A m \in Busy : request[m].op \in mine => m = n
        BY <1>2, <1>8, <3>1, OneAtATime
      <3> QED BY <1>1, <1>2, <3>1, <3>2 DEF Counting, Is, Busy, Ended
    <2>2. Within(Plus(window, request[n].asks), Plus(velocity, request[n].asks))
      BY <1>2, <1>8, <2>1, PlusIsMore DEF Counted
    <2>3. Knows(request'[n], window', velocity')
      BY <1>3, <1>4, <1>5, <2>2 DEF Knows
    <2>4. Counting(n)'
      BY <1>4 DEF Counting, Is
    <2>5. AllScored'
      <3> DEFINE new == [asks |-> request[n].asks, earlier |-> request[n].seen]
      <3>1. new.asks = request[n].asks /\ new.earlier = request[n].seen
        OBVIOUS
      <3>2. approvals' = IF verdict = "APPROVE" THEN approvals \cup {new} ELSE approvals
        BY <1>3
      <3> HIDE DEF new
      <3>3. verdict = "APPROVE" => Risk(request[n].asks, request[n].seen) <= DeclineAbove
        BY <1>2, <1>8 DEF Counted, Knows
      <3> QED BY <1>8, <3>1, <3>2, <3>3 DEF Counted, AllScored
    <2> QED BY <2>3, <2>4, <2>5
  <1> QED BY <1>2, <1>4, <1>5, <1>6, <1>7, <1>8, OneIsCounted

(* The request goes on, knowing what it has seen; nothing else changes.    *)
LEMMA SeesKeep ==
  ASSUME HandlerInv, BurstInv, NEW n \in Requests, UNCHANGED <<authorizeVars, faults>>,
         NEW from, from \notin Ended, Is(n, "authorize", from),
         NEW at \in {"checks balance", "writes count"}, NEW seen \in Velocities,
         Becomes(n, [request[n] EXCEPT !.at = at, !.seen = seen]),
         faults = 0 /\ Calm({"authorize"}) /\ Counted =>
           /\ at = "checks balance" => from = "reads velocity" /\ Risk(request[n].asks, seen) <= DeclineAbove
           /\ at = "writes count" => Within(window, Plus(seen, request[n].asks))
  PROVE  BurstInv'
  <1>1. /\ n \in Busy /\ request[n].op = "authorize" /\ request[n].at = from
        /\ request[n].asks \in Attempts /\ request[n].seen \in Velocities
        /\ {"op", "at", "asks", "seen"} \subseteq DOMAIN request[n]
        /\ velocity \in Velocities /\ window \in Velocities
    BY Authorizing
  <1> DEFINE r == [request[n] EXCEPT !.at = at, !.seen = seen]
  <1>2. /\ r.op = "authorize" /\ r.at = at /\ r.asks = request[n].asks /\ r.seen = seen
        /\ DOMAIN r = DOMAIN request[n] /\ IsRequest(r) /\ r # NotYet /\ Becomes(n, r)
    BY <1>1 DEF IsRequest, NotYet
  <1> HIDE DEF r
  <1>3. request'[n] = r /\ \A m \in Requests \ {n} : request'[m] = request[m]
    BY <1>1, <1>2 DEF Becomes, HandlerInv, RequestShape
  <1>4. HandlerStep({"authorize"})
    <2>1. r.op \in {"authorize"}
      BY <1>2
    <2> QED BY <1>1, <1>2, <2>1, Becoming
  <1>5. AsksFit(r)
    BY <1>1, <1>2 DEF AsksFit
  <1>6. UNCHANGED <<velocity, window, approvals>>
    BY DEF authorizeVars
  <1>7. ASSUME faults = 0, Calm({"authorize"}), Counted
        PROVE  /\ AllScored' /\ (~Counting(n)' => Within(window', velocity')) /\ Knows(request'[n], window', velocity')
    <2>1. Knows(r, window, velocity)
      BY <1>2, <1>7 DEF Knows
    <2>2. AllScored'
      BY <1>6, <1>7 DEF AllScored, Counted
    <2>3. ASSUME ~Counting(n)' PROVE Within(window, velocity)
      <3>1. at = "checks balance"
        BY <1>2, <1>3, <2>3 DEF Counting, Is
      <3>2. \A m \in Requests : ~Counting(m)
        <4>1. PICK mine : mine = {"authorize"}
          OBVIOUS
        <4>2. \A m \in Busy : request[m].op \in mine => m = n
          BY <1>1, <1>7, <4>1, OneAtATime
        <4>3. from = "reads velocity"
          BY <1>7, <3>1
        <4> QED BY <1>1, <4>1, <4>2, <4>3 DEF Counting, Is, Busy, Ended
      <3> QED BY <1>7, <3>2 DEF Counted
    <2> QED BY <1>3, <1>6, <2>1, <2>2, <2>3
  <1> QED BY <1>1, <1>3, <1>4, <1>5, <1>6, <1>7, OneIsCounted

LEMMA ThresholdIsWhole == DeclineAbove \in Int
  <1>1. DeclineAbove \in {DeclineAbove, Spike, Burst, SpendSpike, LargeTicket, BareTicket}
    OBVIOUS
  <1>2. DeclineAbove \in Nat
    BY <1>1, ScoresAreWhole
  <1> QED BY <1>2

LEMMA NotAbove ==
  ASSUME NEW low \in Int, NEW high \in Int, NEW most \in Int, low <= high, ~(high > most)
  PROVE  low <= most
  OBVIOUS

LEMMA ScoresKeep ==
  ASSUME HandlerInv, BurstInv, NEW n \in Requests, UNCHANGED faults, Is(n, "authorize", "reads velocity"),
         Scores(n, velocity)
  PROVE  BurstInv'
  <1>1. "reads velocity" \notin Ended /\ "reads velocity" \notin {"reads count", "writes count"}
    BY DEF Ended
  <1>2. /\ n \in Busy /\ request[n].op = "authorize" /\ request[n].at = "reads velocity"
        /\ request[n].asks \in Attempts /\ velocity \in Velocities /\ window \in Velocities
    BY <1>1, Authorizing
  <1>3. CASE Risk(request[n].asks, velocity) > DeclineAbove
    <2>1. Answers(n, "DECLINE")
      BY <1>3 DEF Scores
    <2> QED BY <2>1, AnswersKeep
  <1>4. CASE ~(Risk(request[n].asks, velocity) > DeclineAbove)
    <2>1. /\ Becomes(n, [request[n] EXCEPT !.at = "checks balance", !.seen = window])
          /\ UNCHANGED authorizeVars
      BY <1>4 DEF Scores
    <2>2. ASSUME faults = 0, Calm({"authorize"}), Counted PROVE Risk(request[n].asks, window) <= DeclineAbove
      <3>1. \A m \in Requests : ~Counting(m)
        <4>1. PICK mine : mine = {"authorize"}
          OBVIOUS
        <4>2. \A m \in Busy : request[m].op \in mine => m = n
          BY <1>2, <2>2, <4>1, OneAtATime
        <4> QED BY <1>2, <4>1, <4>2 DEF Counting, Is, Busy, Ended
      <3>2. Within(window, velocity)
        BY <2>2, <3>1 DEF Counted
      <3>3. /\ Risk(request[n].asks, window) \in Int /\ Risk(request[n].asks, velocity) \in Int
            /\ Risk(request[n].asks, window) <= Risk(request[n].asks, velocity)
        BY <1>2, <3>2, RiskGrows
      <3> QED BY <1>4, <3>3, ThresholdIsWhole, NotAbove
    <2>3. PICK at, from : at = "checks balance" /\ from = "reads velocity"
      OBVIOUS
    <2> QED BY <1>1, <1>2, <2>1, <2>2, <2>3, SeesKeep
  <1> QED BY <1>3, <1>4

LEMMA WriteCountKeeps ==
  ASSUME HandlerInv, BurstInv, NEW n \in Requests, WriteCount(n), UNCHANGED faults PROVE BurstInv'
  <1>1. Is(n, "authorize", "writes count") /\ "writes count" \notin Ended /\ "done" \in Ended /\ "done" # "not yet"
    BY DEF WriteCount, Ended
  <1>2. /\ n \in Busy /\ request[n].op = "authorize" /\ request[n].at = "writes count"
        /\ request[n].asks \in Attempts /\ request[n].seen \in Velocities
        /\ velocity \in Velocities /\ window \in Velocities
    BY <1>1, Authorizing
  <1>3. /\ GoesTo(n, "done") /\ velocity' = Plus(request[n].seen, request[n].asks)
        /\ UNCHANGED <<window, approvals>>
    BY DEF WriteCount
  <1>4. request'[n].at = "done" /\ \A m \in Requests \ {n} : request'[m] = request[m]
    BY <1>1, <1>2, <1>3, GoingOn
  <1>5. HandlerStep({"authorize"})
    <2>1. request[n].op \in {"authorize"}
      BY <1>2
    <2> QED BY <1>1, <1>2, <1>3, <2>1, Going
  <1>6. AsksFit(request'[n]) /\ velocity' \in Velocities /\ window' \in Velocities
    BY <1>1, <1>2, <1>3, <1>4, PlusIsVelocity DEF AsksFit
  <1>7. ASSUME Counted PROVE AllScored' /\ Within(window', velocity') /\ Knows(request'[n], window', velocity')
    <2>1. Within(window', velocity')
      BY <1>2, <1>3, <1>7 DEF Counted, Knows
    <2>2. Knows(request'[n], window', velocity')
      BY <1>4 DEF Knows
    <2> QED BY <1>3, <1>7, <2>1, <2>2 DEF Counted, AllScored
  <1> QED BY <1>2, <1>4, <1>5, <1>6, <1>7, OneIsCounted

(* The key expires, and the window with it.                                *)
LEMMA ExpiresKeeps == ASSUME HandlerInv, BurstInv, VelocityExpires, UNCHANGED faults PROVE BurstInv'
  <1>1. /\ velocity' = NoVelocity /\ window' = NoVelocity /\ UNCHANGED <<request, met, approvals>>
    BY DEF VelocityExpires, sharedVars, handlerVars
  <1>2. VelocityFits'
    BY <1>1, NothingIsWithin DEF BurstInv, VelocityFits
  <1>3. ASSUME faults = 0, Calm({"authorize"})' PROVE Counted'
    <2>1. Counted
      BY <1>1, <1>3 DEF BurstInv, Calm, Doing, Overlapped
    <2>2. ASSUME NEW n \in Requests PROVE Knows(request[n], NoVelocity, NoVelocity)
      <3>1. Knows(request[n], window, velocity)
        BY <2>1 DEF Counted
      <3>2. request[n].op = "authorize" /\ request[n].at \in {"reads count", "writes count"} =>
              request[n].asks \in Attempts /\ request[n].seen \in Velocities
        BY DEF BurstInv, VelocityFits, AsksFit, Ended
      <3>3. request[n].op = "authorize" /\ request[n].at \in {"reads count", "writes count"} =>
              Plus(NoVelocity, request[n].asks) \in Velocities /\ Plus(request[n].seen, request[n].asks) \in Velocities
        BY <3>2, PlusIsVelocity, NothingIsWithin
      <3> QED BY <3>1, <3>3, NothingIsWithin DEF Knows
    <2>3. AllScored' /\ Within(window', velocity')
      BY <1>1, <2>1, NothingIsWithin DEF Counted, AllScored
    <2> QED BY <1>1, <2>2, <2>3 DEF Counted
  <1> QED BY <1>2, <1>3 DEF BurstInv

LEMMA AuthorizationKeeps ==
  ASSUME HandlerInv, BurstInv, NEW a \in Attempts, Authorization(a), UNCHANGED faults PROVE BurstInv'
  <1> DEFINE r == [op |-> "authorize", at |-> "reads velocity", asks |-> a, seen |-> NoVelocity]
  <1>1. IsRequest(r) /\ r # NotYet /\ Arrives(r) /\ r.op \in {"authorize"}
    BY DEF Authorization, IsRequest, NotYet
  <1>2. AsksFit(r) /\ r.at = "reads velocity" /\ \A v, w : Knows(r, v, w)
    BY NothingIsWithin DEF AsksFit, Knows
  <1> HIDE DEF r
  <1>3. HandlerStep({"authorize"})
    BY <1>1, Arriving
  <1>4. PICK n \in Requests : /\ request[n] = NotYet /\ request'[n] = r
                              /\ \A m \in Requests \ {n} : request'[m] = request[m]
    <2>1. \E n \in Requests : /\ request[n] = NotYet /\ request'[n] = r
                              /\ \A m \in Requests \ {n} : request'[m] = request[m]
      BY <1>1, Arriving
    <2> QED BY <2>1
  <1>5. UNCHANGED <<velocity, window, approvals>>
    BY DEF Authorization, authorizeVars
  <1>6. VelocityFits'
    BY <1>2, <1>4, <1>5 DEF BurstInv, VelocityFits
  <1>7. ASSUME faults = 0, Calm({"authorize"})' PROVE Counted'
    <2>1. Counted
      <3>1. PICK mine : mine = {"authorize"}
        OBVIOUS
      <3> QED BY <1>3, <1>7, <3>1, CalmBefore DEF BurstInv
    <2>2. ~Counting(n) /\ \A m \in Requests \ {n} : Counting(m)' = Counting(m)
      BY <1>4, NotYetEnded DEF Counting, Is, Ended
    <2>3. \A m \in Requests : Knows(request'[m], window, velocity)
      BY <1>2, <1>4, <2>1 DEF Counted
    <2>4. (\A m \in Requests : ~Counting(m)') => Within(window, velocity)
      BY <2>1, <2>2 DEF Counted
    <2> QED BY <1>5, <2>1, <2>3, <2>4 DEF Counted, AllScored
  <1> QED BY <1>6, <1>7 DEF BurstInv

LEMMA AuthorizeKeepsBursts ==
  ASSUME HandlerInv, BurstInv, AuthorizeNext, UNCHANGED faults PROVE BurstInv'
  <1>1. CASE \E n \in Requests : AuthorizeSteps(n)
    <2>1. PICK n \in Requests : AuthorizeSteps(n)
      BY <1>1
    <2>2. CASE ReadVelocity(n)
      BY <2>2, ScoresKeep DEF ReadVelocity
    <2>3. CASE CheckBalance(n) \/ TimesOut(n)
      <3>1. ASSUME NEW at \in {"reads velocity", "checks balance"}, Is(n, "authorize", at), Answers(n, "DECLINE")
            PROVE  BurstInv'
        BY <3>1, AnswersKeep
      <3>2. ASSUME Is(n, "authorize", "checks balance"), Answers(n, "APPROVE") PROVE BurstInv'
        <4>1. PICK at \in {"reads velocity", "checks balance"} : at = "checks balance"
          OBVIOUS
        <4> QED BY <3>2, <4>1, AnswersKeep
      <3> QED BY <2>3, <3>1, <3>2 DEF CheckBalance, TimesOut
    <2>4. CASE ReadCount(n)
      <3>1. /\ Is(n, "authorize", "reads count") /\ "reads count" \notin Ended
            /\ Becomes(n, [request[n] EXCEPT !.at = "writes count", !.seen = velocity])
            /\ UNCHANGED authorizeVars
        BY <2>4 DEF ReadCount, CountsOn, Ended
      <3>2. velocity \in Velocities
        BY DEF BurstInv, VelocityFits
      <3>3. Counted => Within(window, Plus(velocity, request[n].asks))
        BY <3>1 DEF Counted, Knows, Is
      <3>4. PICK at, from : at = "writes count" /\ from = "reads count"
        OBVIOUS
      <3> QED BY <3>1, <3>2, <3>3, <3>4, SeesKeep
    <2> QED BY <2>1, <2>2, <2>3, <2>4, WriteCountKeeps DEF AuthorizeSteps
  <1> QED BY <1>1, ExpiresKeeps, AuthorizationKeeps DEF AuthorizeNext

LEMMA FaultSparesAuthorizations ==
  ASSUME RequestsInv, Fault, ~\E n \in Requests : RedisFails(n)
  PROVE  Spares("authorize")
  <1> USE DEF RequestsInv
  <1>1. PICK n \in Requests :
          \/ Dies(n) \/ RailAnswerIsLost(n)
          \/ TransferIsLost(n)
          \/ LenderAnswerIsLost(n)
          \/ AppIsKilled
          \/ KeyIsNotRead(n)
          \/ AnswerIsNotStored
    BY DEF Fault
  <1>2. CASE Dies(n) \/ RailAnswerIsLost(n)
    <2>1. n \in Busy /\ GoesTo(n, "died")
      BY <1>2 DEF Dies, RailAnswerIsLost, Is, Busy, Ended
    <2> QED BY <2>1, EndingIsSpared
  <1>3. CASE TransferIsLost(n) \/ LenderAnswerIsLost(n) \/ KeyIsNotRead(n)
    <2> DEFINE ops == {request[n].op}
    <2>1. request[n].op \in ops
      OBVIOUS
    <2>2. n \in Busy /\ "authorize" \notin ops
      BY <1>3 DEF TransferIsLost, LenderAnswerIsLost, KeyIsNotRead, Is, Busy, Ended
    <2> HIDE DEF ops
    <2>3. PICK at : GoesTo(n, at) /\ at # "not yet"
      <3>1. PICK at \in {"reward", "done", "refused", "authenticates"} : GoesTo(n, at)
        BY <1>3 DEF TransferIsLost, AfterTransfer, LenderAnswerIsLost, KeyIsNotRead, KeyedTo
      <3> QED BY <3>1
    <2> QED BY <2>1, <2>2, <2>3, Going, OthersAreSpared
  <1>4. CASE AppIsKilled
    <2>1. HandlerStep(PhoneOps) /\ "authorize" \notin PhoneOps
      BY <1>4, KillRequests DEF PhoneOps
    <2> QED BY <2>1, OthersAreSpared
  <1>5. CASE AnswerIsNotStored
    BY <1>5 DEF AnswerIsNotStored, sharedVars, handlerVars, Spares
  <1> QED BY <1>1, <1>2, <1>3, <1>4, <1>5

(* A fault is counted: the rest is what every request knows of itself.     *)
LEMMA FaultKeepsBursts == ASSUME RequestsInv, BurstInv, Fault PROVE BurstInv'
  <1> USE DEF RequestsInv
  <1>1. faults' \in Nat /\ faults' # 0
    BY FaultIsCounted DEF BurstInv, VelocityFits
  <1>2. PICK n \in Requests : RedisFails(n) \/ UNCHANGED authorizeVars
    BY DEF Fault, Dies, planeVars, TransferFrame, RemittanceFrame, LoanFrame, PhoneFrame, KeyedFrame
  <1>3. CASE \E m \in Requests : RedisFails(m)
    <2>1. PICK m \in Requests : RedisFails(m)
      BY <1>3
    <2>2. /\ m \in Busy /\ request[m].asks \in Attempts /\ request[m].seen \in Velocities
          /\ {"op", "at", "asks", "seen"} \subseteq DOMAIN request[m]
          /\ velocity \in Velocities /\ window \in Velocities
      <3>1. PICK at : at \notin Ended /\ Is(m, "authorize", at)
        BY <2>1 DEF RedisFails, Ended
      <3> QED BY <3>1, Authorizing
    <2>3. /\ \A l \in Requests \ {m} : request'[l] = request[l]
          /\ AsksFit(request'[m]) /\ velocity' \in Velocities /\ window' \in Velocities
      <3>1. CASE Answers(m, "DECLINE")
        <4>1. /\ GoesTo(m, "reads count") /\ window' = Plus(window, request[m].asks) /\ velocity' = velocity
              /\ "reads count" # "not yet" /\ "reads count" \notin Ended
          BY <3>1 DEF Answers, AfterAnswer, Ended
        <4>2. /\ \A l \in Requests \ {m} : request'[l] = request[l]
              /\ DOMAIN request'[m] = DOMAIN request[m]
              /\ \A f \in DOMAIN request[m] \ {"at"} : request'[m][f] = request[m][f]
          BY <2>2, <4>1, GoingOn
        <4> QED BY <2>2, <4>1, <4>2, PlusIsVelocity DEF AsksFit
      <3>2. ASSUME NEW at \in {"checks balance", "writes count"}, NEW seen \in Velocities,
                   Becomes(m, [request[m] EXCEPT !.at = at, !.seen = seen]), UNCHANGED authorizeVars
            PROVE  /\ \A l \in Requests \ {m} : request'[l] = request[l]
                   /\ AsksFit(request'[m]) /\ velocity' \in Velocities /\ window' \in Velocities
        <4> DEFINE r == [request[m] EXCEPT !.at = at, !.seen = seen]
        <4>1. AsksFit(r)
          BY <2>2 DEF AsksFit
        <4>2. Becomes(m, r)
          BY <3>2
        <4> HIDE DEF r
        <4>3. request'[m] = r /\ \A l \in Requests \ {m} : request'[l] = request[l]
          BY <4>2 DEF Becomes, HandlerInv, RequestShape
        <4> QED BY <2>2, <3>2, <4>1, <4>3 DEF authorizeVars
      <3>3. PICK at, seen : /\ at \in {"checks balance", "writes count"} /\ seen \in Velocities
                            /\ \/ Answers(m, "DECLINE")
                               \/ /\ Becomes(m, [request[m] EXCEPT !.at = at, !.seen = seen])
                                  /\ UNCHANGED authorizeVars
        <4>1. CASE Scores(m, NoVelocity)
          BY <2>2, <4>1 DEF Scores
        <4>2. CASE CountsOn(m, NoVelocity)
          BY <4>2, NothingIsWithin DEF CountsOn
        <4> QED BY <2>1, <4>1, <4>2 DEF RedisFails
      <3> QED BY <3>1, <3>2, <3>3
    <2>4. \A l \in Requests : AsksFit(request'[l])
      BY <2>3 DEF BurstInv, VelocityFits
    <2> QED BY <1>1, <2>3, <2>4 DEF BurstInv, VelocityFits
  <1>4. CASE ~\E m \in Requests : RedisFails(m)
    <2>1. UNCHANGED <<velocity, window>>
      BY <1>2, <1>4 DEF authorizeVars
    <2>2. ASSUME NEW m \in Requests PROVE AsksFit(request'[m])
      <3>1. request'[m] = request[m] \/ request'[m].op # "authorize" \/ request'[m].at \in Ended
        BY <1>4, FaultSparesAuthorizations DEF Spares
      <3> QED BY <3>1 DEF AsksFit, BurstInv, VelocityFits
    <2> QED BY <1>1, <2>1, <2>2 DEF BurstInv, VelocityFits
  <1> QED BY <1>3, <1>4

LEMMA BurstsGoOn == ASSUME RequestsInv, BurstInv, [Next]_vars PROVE BurstInv'
  <1> USE DEF RequestsInv
  <1>1. CASE (TransferNext \/ SavingsNext \/ RemittanceNext \/ CardNext \/ LoanNext \/ PhoneNext \/ KeyedNext)
             /\ UNCHANGED faults
    <2>1. UNCHANGED <<authorizeVars, faults>>
      BY <1>1 DEF TransferNext, TransferFrame, SavingsNext, SavingsFrame, RemittanceNext, RemittanceFrame, CardNext,
                  CardFrame, LoanNext, LoanFrame, PhoneNext, PhoneFrame, KeyedNext, KeyedFrame
    <2>2. /\ "authorize" \notin SavingsOps /\ "authorize" \notin CardOps /\ "authorize" \notin LoanOps
          /\ "authorize" \notin PhoneOps /\ "authorize" \notin RemittanceOps /\ "authorize" \notin {"transfer"}
          /\ "authorize" \notin {"keyed"}
      BY DEF SavingsOps, CardOps, Managing, LoanOps, PhoneOps, RemittanceOps
    <2> QED BY <1>1, <2>1, <2>2, TransferRequests, SavingsRequests, RemittanceRequests, CardRequests, LoanRequests,
               PhoneRequests, KeyedRequests, OthersKeepBursts
  <1>2. CASE (Passes /\ UNCHANGED faults) \/ UNCHANGED vars
    <2>1. UNCHANGED <<authorizeVars, handlerVars, faults>>
      BY <1>2 DEF Passes, NextDay, planeVars, vars, sharedVars
    <2>2. HandlerStep({})
      BY <2>1, HandlersRest
    <2> QED BY <2>1, <2>2, OthersKeepBursts
  <1> QED BY <1>1, <1>2, AuthorizeKeepsBursts, FaultKeepsBursts DEF Next

LEMMA BurstsStart == Init => BurstInv
  <1> SUFFICES ASSUME Init PROVE BurstInv
    OBVIOUS
  <1>1. /\ velocity = NoVelocity /\ window = NoVelocity /\ approvals = {} /\ faults = 0
        /\ \A n \in Requests : request[n] = NotYet
    BY DEF Init, InitShared, InitHandlers, InitAuthorize
  <1>2. AsksFit(NotYet) /\ \A v, w : Knows(NotYet, v, w)
    BY NotYetEnded DEF AsksFit, Knows, Ended
  <1> QED BY <1>1, <1>2, NothingIsWithin DEF BurstInv, VelocityFits, Counted, AllScored

LEMMA BurstsDeclined == BurstInv => BurstsAreDeclined
  <1> SUFFICES ASSUME BurstInv PROVE BurstsAreDeclined
    OBVIOUS
  <1>1. faults = 0 \/ faults > 0
    BY DEF BurstInv, VelocityFits
  <1>2. CASE faults = 0 /\ Calm({"authorize"})
    BY <1>2 DEF BurstInv, Counted, AllScored, BurstsAreDeclined
  <1>3. CASE ~Calm({"authorize"})
    BY <1>3 DEF Calm, BurstsAreDeclined
  <1>4. CASE faults > 0
    BY <1>4 DEF BurstsAreDeclined
  <1> QED BY <1>1, <1>2, <1>3, <1>4

(* While Redis works and no two authorizations overlap, for any thresholds *)
(* and amounts: an approval is one that the score allows for all that has  *)
(* been answered on the card in the window (nymcard-authorize.webhook.ts). *)
THEOREM BurstsAreDeclinedHolds == Spec => []BurstsAreDeclined
  <1>1. Spec => []WalletInv
    BY WalletHolds
  <1>2. WalletInv => RequestsInv
    BY DEF WalletInv
  <1>3. RequestsInv /\ BurstInv /\ [Next]_vars => BurstInv'
    BY BurstsGoOn
  <1> QED BY <1>1, <1>2, <1>3, BurstsStart, BurstsDeclined, PTL DEF Spec

(* A request that has not died had not before; and those of some           *)
(* operations stay as they are when the step is of others.                 *)
Undying(ops) == \A n \in Doing(ops) : request[n].at # "died"

LEMMA UndyingBefore ==
  ASSUME NEW ops, HandlerStep(ops), NEW mine, Undying(mine)' PROVE Undying(mine)
  BY DEF HandlerStep, Undying, Doing, Busy, Ended

Unmoved(mine) ==
  \A n \in Requests :
    \/ request'[n] = request[n]
    \/ /\ request'[n] # NotYet /\ request'[n].op \notin mine
       /\ request[n] = NotYet \/ request[n].op \notin mine

LEMMA OthersUnmoved ==
  ASSUME NEW ops, HandlerStep(ops), NEW mine, ops \cap mine = {} PROVE Unmoved(mine)
  BY DEF HandlerStep, Unmoved

LostOps == {"transfer", "send", "authorize", "ewa", "keyed"} \cup PhoneOps

LEMMA FaultTouches ==
  ASSUME RequestsInv, Fault
  PROVE  (\E n \in Requests : Dies(n)) \/ HandlerStep(LostOps)
  <1> USE DEF RequestsInv
  <1>1. PICK n \in Requests :
          \/ Dies(n)
          \/ TransferIsLost(n)
          \/ RailAnswerIsLost(n)
          \/ AppIsKilled
          \/ OtherFault(n)
    BY DEF Fault, OtherFault
  <1>2. CASE RailAnswerIsLost(n) \/ TransferIsLost(n)
    <2>1. n \in Busy /\ request[n].op \in LostOps
      BY <1>2 DEF RailAnswerIsLost, TransferIsLost, Is, Busy, Ended, LostOps
    <2>2. PICK at : GoesTo(n, at) /\ at # "not yet"
      <3>1. PICK at \in {"died", "reward", "done"} : GoesTo(n, at)
        BY <1>2 DEF RailAnswerIsLost, TransferIsLost, AfterTransfer
      <3> QED BY <3>1
    <2> QED BY <2>1, <2>2, Going
  <1>3. CASE AppIsKilled
    <2>1. HandlerStep(PhoneOps)
      BY <1>3, KillRequests
    <2> QED BY <2>1 DEF HandlerStep, LostOps
  <1>4. CASE OtherFault(n)
    <2>1. HandlerStep({"authorize", "ewa", "keyed"})
      BY <1>4, OtherFaultRequests
    <2> QED BY <2>1 DEF HandlerStep, LostOps
  <1> QED BY <1>1, <1>2, <1>3, <1>4

(***************************************************************************)
(* The card's row follows the issuer: what a freeze or an unfreeze has     *)
(* asked for is in force, or about to be written, and an expiry that has   *)
(* been told is written.                                                   *)
(***************************************************************************)
IssuerOps == {"freeze", "unfreeze", "status"}
ReportsExpiry(r) == r # NotYet /\ r.op = "status"
Writes(r) == r # NotYet /\ r.op \in {"freeze", "unfreeze"} /\ r.at = "writes card"

Agreed ==
  /\ \A n \in Requests : Writes(request[n]) =>
       (\A m \in Requests : ~ReportsExpiry(request[m])) /\ issuer \in {Wish(request[n].op), "EXPIRED"}
  /\ issuer # "EXPIRED" => card.status = issuer \/ \E n \in Requests : Writes(request[n])
  /\ \A n \in Requests : ReportsExpiry(request[n]) /\ request[n].at \in {"done", "refused"} => card.status = "EXPIRED"

IssuerInv ==
  /\ {"status", "spent", "day"} \subseteq DOMAIN card
  /\ issuer # "EXPIRED" => \A n \in Requests : ~ReportsExpiry(request[n])
  /\ Undying(IssuerOps) /\ Calm(IssuerOps) => Agreed

LEMMA UnmovedIssuer ==
  ASSUME IssuerInv, UNCHANGED issuer, card'.status = card.status, {"status", "spent", "day"} \subseteq DOMAIN card',
         NEW ops, HandlerStep(ops), Unmoved(IssuerOps)
  PROVE  IssuerInv'
  <1>1. \A n \in Requests : ReportsExpiry(request'[n]) = ReportsExpiry(request[n]) /\ Writes(request'[n]) = Writes(request[n])
    BY DEF Unmoved, ReportsExpiry, Writes, IssuerOps
  <1>2. \A n \in Requests : ReportsExpiry(request[n]) \/ Writes(request[n]) => request'[n] = request[n]
    BY DEF Unmoved, ReportsExpiry, Writes, IssuerOps
  <1>3. Undying(IssuerOps)' /\ Calm(IssuerOps)' => Undying(IssuerOps) /\ Calm(IssuerOps)
    BY UndyingBefore, CalmBefore
  <1>4. Agreed => Agreed'
    BY <1>1, <1>2 DEF Agreed
  <1> QED BY <1>1, <1>3, <1>4 DEF IssuerInv

(* One of these requests comes in, or goes on. *)
LEMMA OneMoves ==
  ASSUME HandlerInv, IssuerInv, {"status", "spent", "day"} \subseteq DOMAIN card', NEW ops, HandlerStep(ops),
         NEW n \in Requests, \A m \in Requests \ {n} : request'[m] = request[m],
         issuer # "EXPIRED" \/ issuer' = "EXPIRED",
         ReportsExpiry(request'[n]) => ReportsExpiry(request[n]) \/ issuer = "EXPIRED",
         request'[n] # NotYet /\ request'[n].op \in IssuerOps,
         n \in Busy /\ Agreed /\ (\A m \in Busy : request[m].op \in IssuerOps => m = n) => Agreed',
         n \in Busy \/ (request'[n].at \notin Ended /\ (Writes(request'[n]) = FALSE) /\ UNCHANGED <<issuer, card>>)
  PROVE  IssuerInv'
  <1>1. ASSUME Undying(IssuerOps)', Calm(IssuerOps)' PROVE Agreed'
    <2>1. Undying(IssuerOps) /\ Calm(IssuerOps) /\ Agreed
      BY <1>1, UndyingBefore, CalmBefore DEF IssuerInv
    <2>2. CASE n \in Busy
      <3>1. request[n].op \in IssuerOps
        BY <2>2, NotYetEnded DEF HandlerStep, Busy
      <3> QED BY <2>1, <2>2, <3>1, OneAtATime
    <2>3. CASE n \notin Busy
      <3>1. n \in Busy'
        BY <2>3 DEF Busy
      <3>2. \A m \in Busy' : request'[m].op \in IssuerOps => m = n
        <4>1. HandlerInv'
          BY DEF HandlerStep
        <4>2. \A m \in Busy' : m \in Requests /\ request'[m] # NotYet
          BY NotYetEnded DEF Busy
        <4> QED BY <1>1, <3>1, <4>1, <4>2 DEF Calm, Doing, HandlerInv, BusyMet, Overlapped
      <3>3. \A m \in Requests : ~Writes(request'[m])
        BY <2>3, <3>2 DEF Writes, IssuerOps, Busy, Ended
      <3>4. UNCHANGED <<issuer, card>> /\ request'[n].at \notin {"done", "refused"}
        BY <2>3 DEF Ended
      <3>5. \A m \in Requests \ {n} : ~Writes(request[m])
        BY <3>3
      <3>6. ~Writes(request[n])
        BY <2>3 DEF Writes, Busy, Ended
      <3> QED BY <2>1, <3>3, <3>4, <3>5, <3>6 DEF Agreed
    <2> QED BY <2>2, <2>3
  <1>2. issuer' # "EXPIRED" => \A m \in Requests : ~ReportsExpiry(request'[m])
    BY DEF IssuerInv
  <1> QED BY <1>1, <1>2 DEF IssuerInv

LEMMA IssuerRequestArrives ==
  ASSUME HandlerInv, IssuerInv, NEW op \in IssuerOps, NEW at, at \notin Ended, at # "writes card",
         Arrives([op |-> op, at |-> at]), UNCHANGED <<issuer, card>>, op = "status" => issuer = "EXPIRED"
  PROVE  IssuerInv'
  <1> DEFINE r == [op |-> op, at |-> at]
  <1>1. r.op = op /\ r.at = at /\ IsRequest(r) /\ r # NotYet /\ Arrives(r)
    <2>1. r.op = op /\ r.at = at
      OBVIOUS
    <2>3. at # "not yet" /\ NotYet.at # at
      BY NotYetEnded DEF Ended
    <2>4. r # NotYet
      BY <2>1, <2>3
    <2>2. r = [f \in DOMAIN r |-> r[f]] /\ "at" \in DOMAIN r /\ "op" \in DOMAIN r
      OBVIOUS
    <2> QED BY <2>1, <2>2, <2>3, <2>4 DEF IsRequest
  <1> HIDE DEF r
  <1>2. /\ HandlerStep(IssuerOps)
        /\ \E n \in Requests : /\ request[n] = NotYet /\ request'[n] = r
                               /\ \A m \in Requests \ {n} : request'[m] = request[m]
    BY <1>1, Arriving
  <1>3. PICK n \in Requests : /\ request[n] = NotYet /\ request'[n] = r
                              /\ \A m \in Requests \ {n} : request'[m] = request[m]
    BY <1>2
  <1>4. n \notin Busy
    BY <1>3, NotYetEnded DEF Busy
  <1>5. request'[n] # NotYet /\ request'[n].op \in IssuerOps /\ request'[n].at \notin Ended
        /\ Writes(request'[n]) = FALSE /\ (ReportsExpiry(request'[n]) => issuer = "EXPIRED")
    BY <1>1, <1>3 DEF Writes, ReportsExpiry
  <1>6. {"status", "spent", "day"} \subseteq DOMAIN card'
    BY DEF IssuerInv
  <1> QED BY <1>2, <1>3, <1>4, <1>5, <1>6, OneMoves

(* It goes on to where it is "at", alone. *)
LEMMA IssuerRequestGoes ==
  ASSUME HandlerInv, IssuerInv, NEW n \in Requests, NEW from, from \notin Ended, request[n].at = from,
         request[n].op \in IssuerOps, NEW at, at # "not yet", GoesTo(n, at),
         {"status", "spent", "day"} \subseteq DOMAIN card', issuer # "EXPIRED" \/ issuer' = "EXPIRED",
         Agreed =>
           LET wishes == request[n].op \in {"freeze", "unfreeze"} /\ at = "writes card" IN
           /\ wishes => /\ \A m \in Requests : ~ReportsExpiry(request[m])
                        /\ issuer' \in {Wish(request[n].op), "EXPIRED"}
           /\ issuer' # "EXPIRED" =>
                card'.status = issuer' \/ wishes
                \/ (UNCHANGED <<issuer, card>> /\ ~Writes(request[n]))
           /\ \/ card'.status = "EXPIRED" \/ \A m \in Requests : ~ReportsExpiry(request[m])
              \/ card'.status = card.status /\ (request[n].op = "status" => at \notin {"done", "refused"})
  PROVE  IssuerInv'
  <1>1. n \in Busy
    BY DEF Busy
  <1>2. /\ request'[n] # NotYet /\ request'[n].at = at /\ request'[n].op = request[n].op
        /\ \A m \in Requests \ {n} : request'[m] = request[m]
    BY <1>1, GoingOn
  <1>3. HandlerStep(IssuerOps)
    BY <1>1, Going
  <1>4. request[n] # NotYet
    BY <1>1, NotYetEnded DEF Busy
  <1>5. ReportsExpiry(request'[n]) = ReportsExpiry(request[n])
    BY <1>2, <1>4 DEF ReportsExpiry
  <1>6. ASSUME Agreed, \A m \in Busy : request[m].op \in IssuerOps => m = n PROVE Agreed'
    <2>1. \A m \in Requests \ {n} : ~Writes(request[m]) /\ ~Writes(request'[m])
      BY <1>2, <1>6 DEF Writes, Busy, IssuerOps, Ended
    <2>2. \A m \in Requests : ReportsExpiry(request'[m]) = ReportsExpiry(request[m])
      BY <1>2, <1>5
    <2>3. Writes(request'[n]) <=> request[n].op \in {"freeze", "unfreeze"} /\ at = "writes card"
      BY <1>2 DEF Writes
    <2>4. ASSUME NEW m \in Requests, Writes(request'[m])
          PROVE  (\A l \in Requests : ~ReportsExpiry(request'[l])) /\ issuer' \in {Wish(request'[m].op), "EXPIRED"}
      BY <1>2, <1>6, <2>1, <2>2, <2>3, <2>4
    <2>5. ASSUME issuer' # "EXPIRED" PROVE card'.status = issuer' \/ \E m \in Requests : Writes(request'[m])
      <3>1. (card'.status = issuer' \/ Writes(request'[n])) \/ (UNCHANGED <<issuer, card>> /\ ~Writes(request[n]))
        BY <1>6, <2>3, <2>5
      <3>2. ASSUME UNCHANGED <<issuer, card>>, ~Writes(request[n]) PROVE card'.status = issuer'
        BY <1>6, <2>1, <2>5, <3>2 DEF Agreed
      <3> QED BY <3>1, <3>2
    <2>6. ASSUME NEW m \in Requests, ReportsExpiry(request'[m]), request'[m].at \in {"done", "refused"}
          PROVE  card'.status = "EXPIRED"
      <3>1. ASSUME card'.status = card.status, request[n].op = "status" => at \notin {"done", "refused"}
            PROVE  card'.status = "EXPIRED"
        <4>1. m # n
          BY <1>2, <2>6, <3>1 DEF ReportsExpiry
        <4> QED BY <1>2, <1>6, <2>6, <3>1, <4>1 DEF Agreed
      <3>2. \/ card'.status = "EXPIRED" \/ \A l \in Requests : ~ReportsExpiry(request[l])
            \/ card'.status = card.status /\ (request[n].op = "status" => at \notin {"done", "refused"})
        BY <1>6
      <3> QED BY <2>2, <2>6, <3>1, <3>2
    <2> QED BY <2>4, <2>5, <2>6 DEF Agreed
  <1>7. ReportsExpiry(request'[n]) => ReportsExpiry(request[n])
    BY <1>5
  <1> QED BY <1>1, <1>2, <1>3, <1>6, <1>7, OneMoves

(* A step of the card's service, but the events'. *)
LEMMA ManagingKeepsIssuer ==
  ASSUME HandlerInv, IssuerInv, NEW n \in Requests, request[n].op \in {"freeze", "unfreeze"},
         \/ ReadCard(n)
         \/ AskIssuer(n)
         \/ IssuerRefuses(n)
         \/ WriteCard(n)
  PROVE  IssuerInv'
  <1> USE DEF Manages, IssuerInv
  <1>1. request[n].op \in IssuerOps /\ request[n].op \notin {"tokenize", "status"}
    BY DEF IssuerOps
  <1>2. CASE ReadCard(n) \/ IssuerRefuses(n)
    <2>1. PICK from \in {"reads card", "asks issuer"} : request[n].at = from
      BY <1>2 DEF ReadCard, IssuerRefuses
    <2>2. PICK at \in {"asks issuer", "refused"} : GoesTo(n, at) /\ UNCHANGED <<issuer, card>>
      BY <1>2 DEF ReadCard, IssuerRefuses, Refused, cardVars
    <2>3. from \notin Ended /\ at # "not yet" /\ at # "writes card" /\ ~Writes(request[n])
      BY <2>1, <2>2 DEF Ended, Writes
    <2> QED BY <1>1, <2>1, <2>2, <2>3, IssuerRequestGoes
  <1>3. CASE AskIssuer(n)
    <2>1. PICK from : from = "asks issuer"
      OBVIOUS
    <2>2. PICK at : at = "writes card"
      OBVIOUS
    <2>3. from \notin Ended /\ at # "not yet" /\ request[n].at = from /\ GoesTo(n, at) /\ UNCHANGED card
          /\ issuer # "EXPIRED" /\ issuer' = Wish(request[n].op)
      BY <1>1, <1>3, <2>1, <2>2 DEF AskIssuer, Ended
    <2> QED BY <1>1, <2>2, <2>3, IssuerRequestGoes
  <1>4. CASE WriteCard(n)
    <2>1. PICK from : from = "writes card"
      OBVIOUS
    <2>2. PICK at : at = "done"
      OBVIOUS
    <2>3. from \notin Ended /\ at # "not yet" /\ request[n].at = from /\ GoesTo(n, at) /\ UNCHANGED issuer
          /\ at # "writes card" /\ card'.status = Wish(request[n].op) /\ DOMAIN card' = DOMAIN card
      BY <1>1, <1>4, <2>1, <2>2 DEF WriteCard, Ended, Touches
    <2>4. Writes(request[n])
      <3>1. request[n] # NotYet
        BY <2>3, NotYetEnded
      <3> QED BY <2>1, <2>3, <3>1 DEF Writes
    <2>5. Agreed => /\ \A m \in Requests : ~ReportsExpiry(request[m])
                    /\ issuer \in {Wish(request[n].op), "EXPIRED"}
      BY <2>4 DEF Agreed
    <2> QED BY <1>1, <2>3, <2>5, IssuerRequestGoes
  <1> QED BY <1>2, <1>3, <1>4

LEMMA StatusKeepsIssuer ==
  ASSUME HandlerInv, IssuerInv, NEW n \in Requests, ReadStatusEvent(n) \/ WriteStatusEvent(n)
  PROVE  IssuerInv'
  <1> USE DEF IssuerInv
  <1>1. /\ request[n].op = "status" /\ request[n].op \in IssuerOps
        /\ request[n].op \notin {"freeze", "unfreeze"}
    BY DEF ReadStatusEvent, WriteStatusEvent, Is, IssuerOps
  <1>2. PICK from \in {"finds card", "writes"} : request[n].at = from
    BY DEF ReadStatusEvent, WriteStatusEvent, Is
  <1>3. from \notin Ended /\ from # "writes card"
    BY <1>2 DEF Ended
  <1>4. issuer = "EXPIRED" /\ ~Writes(request[n])
    BY <1>1, <1>2, <1>3, NotYetEnded DEF ReportsExpiry, Writes
  <1>5. PICK at \in {"writes", "done"} :
          /\ GoesTo(n, at) /\ UNCHANGED issuer /\ DOMAIN card' = DOMAIN card
          /\ card'.status = "EXPIRED" \/ (card' = card /\ at # "done")
    <2>1. CASE ReadStatusEvent(n)
      BY <2>1 DEF ReadStatusEvent, StatusChanges, cardVars
    <2>2. CASE WriteStatusEvent(n)
      BY <2>2 DEF WriteStatusEvent, Touches
    <2> QED BY <2>1, <2>2
  <1>6. at # "not yet" /\ at # "writes card" /\ at # "refused"
    BY <1>5
  <1> QED BY <1>1, <1>2, <1>3, <1>4, <1>5, <1>6, IssuerRequestGoes

(* Steps of other requests. *)
LEMMA OthersKeepIssuer ==
  ASSUME IssuerInv, UNCHANGED cardVars, NEW ops, HandlerStep(ops), ops \cap IssuerOps = {}
  PROVE  IssuerInv'
  <1>1. UNCHANGED <<issuer, card>>
    BY DEF cardVars
  <1>2. Unmoved(IssuerOps)
    <2>1. PICK mine : mine = IssuerOps
      OBVIOUS
    <2> QED BY <2>1, OthersUnmoved
  <1> QED BY <1>1, <1>2, UnmovedIssuer DEF IssuerInv

LEMMA OtherArrives ==
  ASSUME HandlerInv, Enters(CardOps \ IssuerOps) PROVE Unmoved(IssuerOps)
  <1>1. PICK ops : ops = CardOps \ IssuerOps
    OBVIOUS
  <1>2. HandlerStep(ops) /\ ops \cap IssuerOps = {}
    BY <1>1, Entering
  <1>3. PICK mine : mine = IssuerOps
    OBVIOUS
  <1> QED BY <1>2, <1>3, OthersUnmoved

LEMMA OtherProceeds ==
  ASSUME HandlerInv, NEW n \in Busy, Proceeds(n), request[n].op \notin IssuerOps PROVE Unmoved(IssuerOps)
  <1>1. PICK ops : ops = {request[n].op}
    OBVIOUS
  <1>2. HandlerStep(ops) /\ ops \cap IssuerOps = {}
    BY <1>1, Proceeding
  <1>3. PICK mine : mine = IssuerOps
    OBVIOUS
  <1> QED BY <1>2, <1>3, OthersUnmoved

LEMMA CardsKeepIssuer == ASSUME HandlerInv, IssuerInv, CardNext PROVE IssuerInv'
  <1>1. HandlerStep(CardOps)
    BY CardRequests
  <1>2. ASSUME NEW op \in {"freeze", "unfreeze"}, Manage(op) PROVE IssuerInv'
    <2>1. PICK at : at = "reads card"
      OBVIOUS
    <2>2. op \in IssuerOps /\ at \notin Ended /\ at # "writes card" /\ op # "status"
      BY <2>1 DEF IssuerOps, Ended
    <2>3. Arrives([op |-> op, at |-> at]) /\ UNCHANGED <<issuer, card>>
      BY <1>2, <2>1 DEF Manage, cardVars
    <2> QED BY <2>2, <2>3, IssuerRequestArrives
  <1>3. CASE StatusEvent
    <2>1. PICK at : at = "finds card"
      OBVIOUS
    <2>2. PICK op : op = "status"
      OBVIOUS
    <2>3. op \in IssuerOps /\ at \notin Ended /\ at # "writes card"
      BY <2>1, <2>2 DEF IssuerOps, Ended
    <2>4. Arrives([op |-> op, at |-> at]) /\ UNCHANGED <<issuer, card>> /\ issuer = "EXPIRED"
      BY <1>3, <2>1, <2>2 DEF StatusEvent, cardVars
    <2> QED BY <2>3, <2>4, IssuerRequestArrives
  <1>4. CASE IssuerExpires
    <2>1. UNCHANGED <<request, met, card>> /\ issuer' = "EXPIRED"
      BY <1>4 DEF IssuerExpires, sharedVars, handlerVars
    <2>2. Undying(IssuerOps)' = Undying(IssuerOps) /\ Calm(IssuerOps)' = Calm(IssuerOps)
      BY <2>1 DEF Undying, Calm, Doing, Overlapped
    <2>3. Agreed => Agreed'
      BY <2>1 DEF Agreed
    <2> QED BY <2>1, <2>2, <2>3 DEF IssuerInv
  <1>5. ASSUME NEW n \in Requests, CardSteps(n) PROVE IssuerInv'
    <2>1. n \in Busy /\ request[n].op \in CardOps /\ Proceeds(n)
      BY <1>5, CardProceeds DEF Serves, Proceeds
    <2>2. CASE request[n].op \in {"freeze", "unfreeze"}
      <3>1. ReadCard(n) \/ AskIssuer(n) \/ IssuerRefuses(n) \/ WriteCard(n)
        BY <1>5, <2>2 DEF CardSteps, ReadStatusEvent, WriteStatusEvent, CheckOrder, IssuePlastic, CommitOrder,
             OrderConflicts, ReadEventCard, CheckEvent, CommitEvent, EventConflicts, SumCashback, PayCashback, Is
      <3> QED BY <2>2, <3>1, ManagingKeepsIssuer
    <2>3. CASE request[n].op = "status"
      <3>1. ReadStatusEvent(n) \/ WriteStatusEvent(n)
        BY <1>5, <2>3 DEF CardSteps, ReadCard, AskIssuer, IssuerRefuses, WriteCard, CheckOrder, IssuePlastic, CommitOrder,
             OrderConflicts, ReadEventCard, CheckEvent, CommitEvent, EventConflicts, SumCashback, PayCashback, Is,
             Manages, Managing
      <3> QED BY <3>1, StatusKeepsIssuer
    <2>4. CASE request[n].op \notin IssuerOps
      <3>1. Unmoved(IssuerOps)
        BY <2>1, <2>4, OtherProceeds
      <3>2. UNCHANGED issuer /\ card'.status = card.status /\ DOMAIN card' = DOMAIN card
        BY <1>5, <2>4 DEF CardSteps, ReadCard, AskIssuer, IssuerRefuses, WriteCard, ReadStatusEvent, WriteStatusEvent,
             CheckOrder, IssuePlastic, CommitOrder, OrderConflicts, ReadEventCard, CheckEvent, CommitEvent,
             EventConflicts, SumCashback, PayCashback, Is, Manages, Managing, IssuerOps, Touches, cardVars, IssuerInv
      <3>3. {"status", "spent", "day"} \subseteq DOMAIN card'
        BY <3>2 DEF IssuerInv
      <3>4. PICK ops : HandlerStep(ops)
        BY <1>1
      <3> QED BY <3>1, <3>2, <3>3, <3>4, UnmovedIssuer
    <2> QED BY <2>2, <2>3, <2>4 DEF IssuerOps
  <1>6. CASE Manage("tokenize") \/ EventArrives \/ OrderCard
    <2>1. Enters(CardOps \ IssuerOps) /\ UNCHANGED <<issuer, card>>
      BY <1>6 DEF Enters, EventArrives, TransactionEvent, OrderCard, Manage, IsRequest, NotYet, CardOps, IssuerOps,
                  Managing, cardVars
    <2>2. Unmoved(IssuerOps)
      BY <2>1, OtherArrives
    <2>3. PICK ops : HandlerStep(ops)
      BY <1>1
    <2> QED BY <2>1, <2>2, <2>3, UnmovedIssuer DEF IssuerInv
  <1>7. CASE \E op \in Managing : Manage(op)
    <2>1. PICK op \in Managing : Manage(op)
      BY <1>7
    <2> QED BY <1>2, <1>6, <2>1 DEF Managing
  <1> QED BY <1>3, <1>4, <1>5, <1>6, <1>7 DEF CardNext, ControlArrives

LEMMA FaultKeepsIssuer == ASSUME RequestsInv, IssuerInv, Fault PROVE IssuerInv'
  <1> USE DEF RequestsInv
  <1>1. UNCHANGED cardVars
    BY DEF Fault, Dies, planeVars, TransferFrame, RemittanceFrame, AuthorizeFrame, LoanFrame, PhoneFrame, KeyedFrame
  <1>2. CASE HandlerStep(LostOps)
    <2>1. PICK ops : ops = LostOps
      OBVIOUS
    <2>2. ops \cap IssuerOps = {}
      BY <2>1 DEF LostOps, IssuerOps, PhoneOps
    <2> QED BY <1>1, <1>2, <2>1, <2>2, OthersKeepIssuer
  <1>3. ASSUME NEW n \in Requests, Dies(n) PROVE IssuerInv'
    <2>1. n \in Busy /\ GoesTo(n, "died")
      BY <1>3 DEF Dies
    <2>2. PICK ops : ops = {request[n].op}
      OBVIOUS
    <2>3. PICK at : at = "died"
      OBVIOUS
    <2>4. GoesTo(n, at) /\ at # "not yet"
      BY <2>1, <2>3
    <2>5. HandlerStep(ops) /\ request'[n].at = "died" /\ request'[n].op = request[n].op /\ request'[n] # NotYet
      BY <2>1, <2>2, <2>3, <2>4, Going, GoingOn
    <2>6. CASE request[n].op \in IssuerOps
      <3>1. ~Undying(IssuerOps)'
        BY <2>5, <2>6 DEF Undying, Doing
      <3>2. \A m \in Requests : ReportsExpiry(request'[m]) => ReportsExpiry(request[m])
        <4>1. \A m \in Requests \ {n} : request'[m] = request[m]
          BY <2>1, <2>4, GoingOn
        <4>2. request[n] # NotYet
          BY <2>1, NotYetEnded DEF Busy
        <4> QED BY <2>5, <4>1, <4>2 DEF ReportsExpiry
      <3> QED BY <1>1, <3>1, <3>2 DEF IssuerInv, cardVars
    <2>7. CASE request[n].op \notin IssuerOps
      BY <1>1, <2>2, <2>5, <2>7, OthersKeepIssuer
    <2> QED BY <2>6, <2>7
  <1> QED BY <1>2, <1>3, FaultTouches

LEMMA IssuerGoesOn == ASSUME RequestsInv, IssuerInv, [Next]_vars PROVE IssuerInv'
  <1> USE DEF RequestsInv
  <1>1. CASE TransferNext \/ SavingsNext \/ RemittanceNext \/ AuthorizeNext \/ LoanNext \/ PhoneNext \/ KeyedNext
    <2>1. UNCHANGED cardVars
      BY <1>1 DEF TransferNext, TransferFrame, SavingsNext, SavingsFrame, RemittanceNext, RemittanceFrame, AuthorizeNext,
                  AuthorizeFrame, LoanNext, LoanFrame, PhoneNext, PhoneFrame, KeyedNext, KeyedFrame
    <2>2. PICK ops : HandlerStep(ops) /\ ops \cap IssuerOps = {}
      <3>1. \A ops \in {{"transfer"}, SavingsOps, RemittanceOps, {"authorize"}, LoanOps, PhoneOps, {"keyed"}} :
              ops \cap IssuerOps = {}
        BY DEF SavingsOps, IssuerOps, LoanOps, PhoneOps, RemittanceOps
      <3>2. PICK ops \in {{"transfer"}, SavingsOps, RemittanceOps, {"authorize"}, LoanOps, PhoneOps, {"keyed"}} :
              HandlerStep(ops)
        BY <1>1, TransferRequests, SavingsRequests, RemittanceRequests, AuthorizeRequests, LoanRequests,
           PhoneRequests, KeyedRequests
      <3> QED BY <3>1, <3>2
    <2> QED BY <2>1, <2>2, OthersKeepIssuer
  <1>2. CASE Passes \/ UNCHANGED vars
    <2>1. UNCHANGED <<cardVars, handlerVars>>
      BY <1>2 DEF Passes, NextDay, planeVars, vars, sharedVars
    <2>2. PICK ops : ops = {}
      OBVIOUS
    <2>3. HandlerStep(ops) /\ ops \cap IssuerOps = {}
      BY <2>1, <2>2, HandlersRest
    <2> QED BY <2>1, <2>3, OthersKeepIssuer
  <1> QED BY <1>1, <1>2, CardsKeepIssuer, FaultKeepsIssuer DEF Next

LEMMA IssuerStarts == Init => IssuerInv
  <1> SUFFICES ASSUME Init PROVE IssuerInv
    OBVIOUS
  <1>1. card.status = issuer /\ {"status", "spent", "day"} \subseteq DOMAIN card
    BY DEF Init, InitCards
  <1>2. \A n \in Requests : request[n] = NotYet
    BY DEF Init, InitShared, InitHandlers
  <1>3. \A n \in Requests : ~ReportsExpiry(request[n]) /\ ~Writes(request[n])
    BY <1>2 DEF ReportsExpiry, Writes
  <1> QED BY <1>1, <1>3 DEF IssuerInv, Agreed

LEMMA IssuerIsFollowed == IssuerInv => CardFollowsIssuer
  <1> SUFFICES ASSUME IssuerInv, Undisturbed(IssuerOps), issuer = "EXPIRED" => Doing({"status"}) # {}
               PROVE  card.status = issuer
    BY DEF CardFollowsIssuer, IssuerOps
  <1>1. Undying(IssuerOps) /\ Calm(IssuerOps)
    BY DEF Undisturbed, Undying, Calm
  <1>2. Agreed
    BY <1>1 DEF IssuerInv
  <1>3. CASE issuer = "EXPIRED"
    <2>1. PICK n \in Requests : request[n] # NotYet /\ request[n].op = "status"
      BY <1>3 DEF Doing
    <2>2. ReportsExpiry(request[n]) /\ request[n].at \in {"done", "refused"}
      BY <2>1 DEF ReportsExpiry, Undisturbed, Doing, IssuerOps
    <2> QED BY <1>2, <1>3, <2>2 DEF Agreed
  <1>4. CASE issuer # "EXPIRED"
    <2>1. \A n \in Requests : ~Writes(request[n])
      BY DEF Undisturbed, Doing, IssuerOps, Writes
    <2> QED BY <1>2, <1>4, <2>1 DEF Agreed
  <1> QED BY <1>3, <1>4

(* Once the freezes, the unfreezes and the expiries have ended, none of    *)
(* them overlapping or dead, the card's row says what NymCard's card is:   *)
(* the issuer is asked before the row is written (cards.service.ts).       *)
THEOREM CardFollowsIssuerHolds == Spec => []CardFollowsIssuer
  <1>1. Spec => []WalletInv
    BY WalletHolds
  <1>2. WalletInv => RequestsInv
    BY DEF WalletInv
  <1>3. RequestsInv /\ IssuerInv /\ [Next]_vars => IssuerInv'
    BY IssuerGoesOn
  <1> QED BY <1>1, <1>2, <1>3, IssuerStarts, IssuerIsFollowed, PTL DEF Spec

(***************************************************************************)
(* Loans follow the lender.                                                *)
(***************************************************************************)
ScoringOps == {"ewa", "batch"}
LoanStatuses == {"PENDING", "APPROVED", "ACTIVE", "REPAID", "DEFAULTED", "REJECTED"}

IsLoan(l) ==
  /\ {"status", "principal", "disbursed"} = DOMAIN l
  /\ l.status \in LoanStatuses /\ l.principal \in Principals

LoanTypes ==
  /\ credit \in [counted : 0..MaxRequests, fresh : BOOLEAN] /\ aged \in 0..MaxRequests
  /\ lender \in [Requests -> Decisions \cup {"none", "requested"}]
  /\ said \in [Requests -> SUBSET Decisions]
  /\ loan = [n \in Requests |-> loan[n]]
  /\ \A n \in Requests : loan[n] # NoLoan => IsLoan(loan[n])
  /\ paidOut \subseteq Requests /\ unknown \subseteq Requests \X Requests

(* What the record of a request of this component holds while it goes on.  *)
LoanFits(r) ==
  r.at \notin Ended =>
    /\ r.op = "ewa" => {"principal", "counted"} \subseteq DOMAIN r /\ r.principal \in Principals
    /\ r.op = "batch" => "counted" \in DOMAIN r
    /\ r.op \in ScoringOps => r.counted \in 0..MaxRequests
    /\ r.op = "lender report" => {"of", "says", "disbursed"} \subseteq DOMAIN r
                                 /\ r.of \in Requests /\ r.says \in Decisions

(* What is known of the lender and the row of a request that asked for an  *)
(* advance: only one that is to create its row, or has ended, has been to  *)
(* the lender, and the row comes last.                                     *)
Follows(r, l, asked, told) ==
  /\ told # {} => asked # "none"
  /\ asked # "none" => /\ r # NotYet /\ r.op = "ewa"
                       /\ r.at \in {"creates loan", "done", "refused", "died"}
                       /\ r.at = "done" => l # NoLoan
  /\ l # NoLoan => r # NotYet /\ r.op = "ewa" /\ r.at = "done"

(* A report is of what the lender has said, and writes a row it has found. *)
Reports(r, told, rows) ==
  r.op = "lender report" /\ r.at \notin Ended =>
    told[r.of] # {} /\ (r.at = "writes loan" => rows[r.of] # NoLoan)

LenderInv ==
  /\ \A n \in Requests : Follows(request[n], loan[n], lender[n], said[n]) /\ Reports(request[n], said, loan)
  /\ \A m \in paidOut : loan[m] # NoLoan
  /\ \A w \in unknown : Overlapped(w[1], w[2]) \/ (request[w[2]] # NotYet /\ request[w[2]].at \in {"refused", "died"})

(* Reports one at a time keep what a disbursement has written.             *)
KeepsDisbursed ==
  /\ \A m \in paidOut : loan[m].disbursed = TRUE
  /\ \A n \in Requests : request[n].op = "lender report" /\ request[n].at = "writes loan"
                         /\ request[n].of \in paidOut => request[n].disbursed = TRUE
DisbursedInv == Calm({"lender report"}) => KeepsDisbursed

(* Scores computed one at a time count what the loans have shown.          *)
Computes(r, fresh, old) ==
  r.op \in ScoringOps =>
    /\ r.at \in {"collects factors", "stores score"} => fresh = FALSE
    /\ r.at = "stores score" => r.counted >= old
CountsAged ==
  /\ credit.fresh => credit.counted >= aged
  /\ \A n \in Requests : Computes(request[n], credit.fresh, aged)
ScoreInv == aged <= Defaults /\ (Calm(ScoringOps) => CountsAged)

LoanInv ==
  /\ LoanTypes /\ \A n \in Requests : LoanFits(request[n])
  /\ LenderInv /\ DisbursedInv /\ ScoreInv

LEMMA LoansTracked == LoanInv => LoansKeepTrack
  <1> SUFFICES ASSUME LoanInv PROVE LoansKeepTrack
    OBVIOUS
  <1>1. credit.fresh => credit.counted >= aged \/ \E m, n \in Doing({"ewa", "batch"}) : Overlapped(m, n)
    BY DEF LoanInv, ScoreInv, CountsAged, Calm, ScoringOps
  <1>2. \A m \in paidOut : loan[m].disbursed \/ \E i, j \in Doing({"lender report"}) : Overlapped(i, j)
    BY DEF LoanInv, DisbursedInv, KeepsDisbursed, Calm
  <1>3. \A w \in unknown : Overlapped(w[1], w[2]) \/ request[w[2]].at \in {"refused", "died"}
    BY DEF LoanInv, LenderInv
  <1> QED BY <1>1, <1>2, <1>3 DEF LoansKeepTrack

DefaultsOf(rows) == Cardinality({n \in Requests : rows[n].status = "DEFAULTED"})

LEMMA DefaultsCount == ASSUME NEW rows PROVE DefaultsOf(rows) \in 0..MaxRequests
  <1> DEFINE S == {n \in Requests : rows[n].status = "DEFAULTED"}
  <1>1. IsFiniteSet(Requests) /\ Cardinality(Requests) = MaxRequests
    <2>1. 1 \in Int /\ MaxRequests \in Int
      BY MaxRequestsIsNatural
    <2>2. IsFiniteSet(1..MaxRequests) /\ Cardinality(1..MaxRequests) = IF 1 > MaxRequests THEN 0 ELSE MaxRequests - 1 + 1
      BY <2>1, FS_Interval
    <2> QED BY <2>2, MaxRequestsIsNatural DEF Requests
  <1>2. S \subseteq Requests
    OBVIOUS
  <1>3. IsFiniteSet(S) /\ Cardinality(S) <= MaxRequests
    <2> HIDE DEF S
    <2> QED BY <1>1, <1>2, FS_Subset
  <1>4. Cardinality(S) \in Nat
    <2> HIDE DEF S
    <2> QED BY <1>3, FS_CardinalityType
  <1> QED BY <1>3, <1>4, MaxRequestsIsNatural DEF DefaultsOf

LEMMA DefaultsAre == Defaults \in 0..MaxRequests /\ Defaults' \in 0..MaxRequests
  <1>1. Defaults = DefaultsOf(loan) /\ Defaults' = DefaultsOf(loan')
    BY DEF Defaults, DefaultsOf
  <1> QED BY <1>1, DefaultsCount

LEMMA AgedIsWhole ==
  ASSUME LoanInv
  PROVE  /\ Defaults \in Int /\ aged \in Int /\ credit.counted \in Int /\ aged <= Defaults
         /\ \A n \in Requests : request[n].op \in ScoringOps /\ request[n].at = "stores score" => request[n].counted \in Int
  <1>1. 0..MaxRequests \subseteq Int
    BY MaxRequestsIsNatural
  <1>2. Defaults \in Int
    BY <1>1, DefaultsAre
  <1>3. aged \in Int /\ credit.counted \in Int /\ aged <= Defaults
    BY <1>1 DEF LoanInv, LoanTypes, ScoreInv
  <1>4. "stores score" \notin Ended
    BY DEF Ended
  <1> QED BY <1>1, <1>2, <1>3, <1>4 DEF LoanInv, LoanFits

LEMMA AtLeast == ASSUME NEW a \in Int, NEW b \in Int, NEW c \in Int, a >= b, c <= b PROVE a >= c
  OBVIOUS

LEMMA StillAtMost == ASSUME NEW a \in Int, NEW b \in Int, a <= b, NEW c, c = a PROVE c \in Int /\ c <= a /\ c <= b
  OBVIOUS

LEMMA MoreDefaults ==
  ASSUME \A n \in Requests : loan[n].status = "DEFAULTED" <=> loan'[n].status = "DEFAULTED"
  PROVE  Defaults' = Defaults
  <1>1. {n \in Requests : loan'[n].status = "DEFAULTED"} = {n \in Requests : loan[n].status = "DEFAULTED"}
    OBVIOUS
  <1> QED BY <1>1 DEF Defaults

(* Requests of other services come, go on or end. *)
LEMMA UnmovedLoans ==
  ASSUME LoanInv, UNCHANGED loanVars, NEW ops, HandlerStep(ops), Unmoved(LoanOps)
  PROVE  LoanInv'
  <1> USE DEF loanVars
  <1>1. LoanTypes'
    BY DEF LoanInv, LoanTypes
  <1>2. \A n \in Requests : request'[n] = request[n] \/ (request'[n] # NotYet /\ request'[n].op \notin LoanOps)
    BY DEF Unmoved
  <1>3. \A n \in Requests : LoanFits(request'[n])
    BY <1>2 DEF LoanInv, LoanFits, LoanOps, ScoringOps
  <1>4. LenderInv'
    <2>1. \A n \in Requests : Follows(request'[n], loan[n], lender[n], said[n])
      BY DEF LoanInv, LenderInv, Follows, Unmoved, LoanOps
    <2>2. \A n \in Requests : Reports(request'[n], said, loan)
      BY <1>2 DEF LoanInv, LenderInv, Reports, LoanOps
    <2>3. \A w \in unknown : Overlapped(w[1], w[2]) => Overlapped(w[1], w[2])'
      BY DEF HandlerStep, Overlapped
    <2>4. \A n \in Requests : request[n] # NotYet /\ request[n].at \in Ended => request'[n] = request[n]
      BY DEF HandlerStep, Busy
    <2>5. \A w \in unknown : Overlapped(w[1], w[2])' \/ (request'[w[2]] # NotYet /\ request'[w[2]].at \in {"refused", "died"})
      BY <2>3, <2>4 DEF LoanInv, LenderInv, LoanTypes, Ended
    <2> QED BY <2>1, <2>2, <2>5 DEF LoanInv, LenderInv
  <1>5. DisbursedInv'
    <2>1. Calm({"lender report"})' => Calm({"lender report"})
      <3>1. PICK mine : mine = {"lender report"}
        OBVIOUS
      <3> QED BY <3>1, CalmBefore
    <2>2. KeepsDisbursed => KeepsDisbursed'
      BY <1>2 DEF KeepsDisbursed, LoanOps
    <2> QED BY <2>1, <2>2 DEF LoanInv, DisbursedInv
  <1>6. ScoreInv'
    <2>1. Calm(ScoringOps)' => Calm(ScoringOps)
      <3>1. PICK mine : mine = ScoringOps
        OBVIOUS
      <3> QED BY <3>1, CalmBefore
    <2>2. CountsAged => CountsAged'
      BY <1>2 DEF CountsAged, Computes, LoanOps, ScoringOps
    <2>3. Defaults' = Defaults
      BY DEF Defaults
    <2> QED BY <2>1, <2>2, <2>3 DEF LoanInv, ScoreInv
  <1> QED BY <1>1, <1>3, <1>4, <1>5, <1>6 DEF LoanInv

(* One of these requests goes on or ends. *)
LEMMA OneFollows ==
  ASSUME LoanInv, NEW ops, HandlerStep(ops), NEW n \in Requests, \A m \in Requests \ {n} : request'[m] = request[m],
         LoanTypes', LoanFits(request'[n]), UNCHANGED said,
         Follows(request'[n], loan'[n], lender'[n], said[n]), Reports(request'[n], said, loan'),
         \A m \in Requests \ {n} : lender'[m] = lender[m] /\ (loan'[m] = NoLoan <=> loan[m] = NoLoan),
         loan'[n] = NoLoan => loan[n] = NoLoan,
         \A m \in paidOut' : loan'[m] # NoLoan,
         \A w \in unknown' : w \in unknown \/ Overlapped(w[1], w[2])'
                             \/ (request'[w[2]] # NotYet /\ request'[w[2]].at \in {"refused", "died"}),
         DisbursedInv', ScoreInv'
  PROVE  LoanInv'
  <1>1. \A m \in Requests : LoanFits(request'[m])
    BY DEF LoanInv
  <1>2. LenderInv'
    <2>1. ASSUME NEW m \in Requests PROVE Follows(request'[m], loan'[m], lender'[m], said'[m])
      <3>1. CASE m = n
        BY <3>1
      <3>2. CASE m # n
        <4>1. Follows(request[m], loan[m], lender[m], said[m])
          BY DEF LoanInv, LenderInv
        <4> QED BY <3>2, <4>1 DEF Follows
      <3> QED BY <3>1, <3>2
    <2>2. \A m \in Requests : Reports(request'[m], said', loan')
      <3>1. \A m \in Requests : loan'[m] = NoLoan => loan[m] = NoLoan
        OBVIOUS
      <3>2. \A m \in Requests : LoanFits(request[m]) /\ Reports(request[m], said, loan)
        BY DEF LoanInv, LenderInv
      <3> SUFFICES ASSUME NEW m \in Requests PROVE Reports(request'[m], said', loan')
        OBVIOUS
      <3>3. CASE m = n
        BY <3>3
      <3>4. CASE m # n
        <4>1. request'[m] = request[m] /\ LoanFits(request[m]) /\ Reports(request[m], said, loan)
          BY <3>2, <3>4
        <4>2. request[m].op = "lender report" /\ request[m].at \notin Ended => request[m].of \in Requests
          BY <4>1 DEF LoanFits
        <4> QED BY <3>1, <4>1, <4>2 DEF Reports
      <3> QED BY <3>3, <3>4
    <2>3. \A w \in unknown : Overlapped(w[1], w[2]) => Overlapped(w[1], w[2])'
      BY DEF HandlerStep, Overlapped
    <2>4. \A m \in Requests : request[m] # NotYet /\ request[m].at \in Ended => request'[m] = request[m]
      BY DEF HandlerStep, Busy
    <2>5. \A w \in unknown : Overlapped(w[1], w[2])' \/ (request'[w[2]] # NotYet /\ request'[w[2]].at \in {"refused", "died"})
      BY <2>3, <2>4 DEF LoanInv, LenderInv, LoanTypes, Ended
    <2> QED BY <2>1, <2>2, <2>5 DEF LoanInv, LenderInv
  <1> QED BY <1>1, <1>2 DEF LoanInv

LEMMA OtherDisbursed ==
  ASSUME LoanInv, NEW ops, HandlerStep(ops), NEW n \in Requests, \A m \in Requests \ {n} : request'[m] = request[m],
         request'[n].op # "lender report", UNCHANGED paidOut,
         \A m \in paidOut : loan'[m].disbursed = loan[m].disbursed
  PROVE  DisbursedInv'
  <1>1. Calm({"lender report"})' => Calm({"lender report"})
    <2>1. PICK mine : mine = {"lender report"}
      OBVIOUS
    <2> QED BY <2>1, CalmBefore
  <1>2. KeepsDisbursed => KeepsDisbursed'
    BY DEF KeepsDisbursed
  <1> QED BY <1>1, <1>2 DEF LoanInv, DisbursedInv

LEMMA OneDisbursed ==
  ASSUME HandlerInv, LoanInv, NEW ops, HandlerStep(ops), NEW n \in Busy,
         \A m \in Requests \ {n} : request'[m] = request[m], request[n].op = "lender report",
         KeepsDisbursed =>
           /\ \A m \in paidOut' : loan'[m].disbursed = TRUE
           /\ request'[n].at = "writes loan" /\ request'[n].of \in paidOut' => request'[n].disbursed = TRUE
  PROVE  DisbursedInv'
  <1>1. ASSUME Calm({"lender report"})' PROVE KeepsDisbursed'
    <2>1. PICK mine : mine = {"lender report"}
      OBVIOUS
    <2>2. Calm(mine)
      BY <1>1, <2>1, CalmBefore
    <2>3. \A m \in Busy : request[m].op \in mine => m = n
      BY <2>1, <2>2, OneAtATime
    <2>4. \A m \in Requests \ {n} : request[m].op = "lender report" => request[m].at # "writes loan"
      BY <2>1, <2>3 DEF Busy, Ended
    <2>5. KeepsDisbursed
      BY <2>1, <2>2 DEF LoanInv, DisbursedInv
    <2> QED BY <2>4, <2>5 DEF KeepsDisbursed
  <1> QED BY <1>1 DEF DisbursedInv

LEMMA OtherScores ==
  ASSUME LoanInv, NEW ops, HandlerStep(ops), NEW n \in Requests, \A m \in Requests \ {n} : request'[m] = request[m],
         request'[n].op \notin ScoringOps, UNCHANGED credit, aged' \in Int, aged' <= aged, aged' <= Defaults'
  PROVE  ScoreInv'
  <1>1. Calm(ScoringOps)' => Calm(ScoringOps)
    <2>1. PICK mine : mine = ScoringOps
      OBVIOUS
    <2> QED BY <2>1, CalmBefore
  <1>2. aged \in Int /\ credit.counted \in Int
    BY AgedIsWhole
  <1>3. \A m \in Requests : request[m].op \in ScoringOps /\ request[m].at = "stores score" => request[m].counted \in Int
    BY AgedIsWhole
  <1>4. ASSUME CountsAged PROVE CountsAged'
    <2>1. ASSUME NEW m \in Requests PROVE Computes(request'[m], credit'.fresh, aged')
      <3>1. CASE m = n
        BY <3>1 DEF Computes
      <3>2. CASE m # n
        <4>1. request'[m] = request[m] /\ Computes(request[m], credit.fresh, aged)
          BY <1>4, <3>2 DEF CountsAged
        <4>2. request[m].op \in ScoringOps /\ request[m].at = "stores score" => request[m].counted >= aged'
          <5>1. request[m].op \in ScoringOps /\ request[m].at = "stores score" => request[m].counted >= aged
            BY <4>1 DEF Computes
          <5> QED BY <1>2, <1>3, <5>1, AtLeast
        <4>3. credit'.fresh = credit.fresh
          OBVIOUS
        <4> QED BY <4>1, <4>2, <4>3 DEF Computes
      <3> QED BY <3>1, <3>2
    <2>2. credit'.fresh => credit'.counted >= aged'
      BY <1>2, <1>4, AtLeast DEF CountsAged
    <2> QED BY <2>1, <2>2 DEF CountsAged
  <1> QED BY <1>1, <1>4 DEF LoanInv, ScoreInv

LEMMA OneScores ==
  ASSUME HandlerInv, LoanInv, NEW ops, HandlerStep(ops), NEW n \in Busy,
         \A m \in Requests \ {n} : request'[m] = request[m], request[n].op \in ScoringOps,
         UNCHANGED <<aged, loan>>,
         CountsAged => /\ Computes(request'[n], credit'.fresh, aged)
                       /\ credit'.fresh => credit'.counted >= aged
  PROVE  ScoreInv'
  <1>1. ASSUME Calm(ScoringOps)' PROVE CountsAged'
    <2>1. PICK mine : mine = ScoringOps
      OBVIOUS
    <2>2. Calm(mine)
      BY <1>1, <2>1, CalmBefore
    <2>3. \A m \in Busy : request[m].op \in mine => m = n
      BY <2>1, <2>2, OneAtATime
    <2>4. \A m \in Requests \ {n} : Computes(request'[m], credit'.fresh, aged)
      BY <2>1, <2>3 DEF Busy, Ended, Computes
    <2>5. CountsAged
      BY <2>1, <2>2 DEF LoanInv, ScoreInv
    <2> QED BY <2>4, <2>5 DEF CountsAged
  <1>2. Defaults' = Defaults
    BY DEF Defaults
  <1> QED BY <1>1, <1>2 DEF LoanInv, ScoreInv

(* It has ended, or goes on, and has left all rows as they were. *)
LEMMA OneRests ==
  ASSUME HandlerInv, LoanInv, NEW ops, HandlerStep(ops), NEW n \in Busy,
         \A m \in Requests \ {n} : request'[m] = request[m], request[n].op \in LoanOps,
         request'[n] # NotYet, request'[n].op = request[n].op,
         UNCHANGED <<credit, aged, said, loan, paidOut, unknown>>, LoanTypes', LoanFits(request'[n]),
         Follows(request'[n], loan[n], lender'[n], said[n]), Reports(request'[n], said, loan),
         \A m \in Requests \ {n} : lender'[m] = lender[m],
         CountsAged => Computes(request'[n], credit.fresh, aged),
         request[n].op = "lender report" /\ KeepsDisbursed =>
           (request'[n].at = "writes loan" /\ request'[n].of \in paidOut => request'[n].disbursed = TRUE)
  PROVE  LoanInv'
  <1>1. DisbursedInv'
    <2>1. CASE request[n].op = "lender report"
      BY <2>1, OneDisbursed DEF KeepsDisbursed
    <2>2. CASE request[n].op # "lender report"
      BY <2>2, OtherDisbursed DEF Busy
    <2> QED BY <2>1, <2>2
  <1>2. ScoreInv'
    <2>1. CASE request[n].op \in ScoringOps
      BY <2>1, OneScores DEF CountsAged
    <2>2. CASE request[n].op \notin ScoringOps
      <3>1. Defaults' = Defaults
        BY DEF Defaults
      <3>3. aged' \in Int /\ aged' <= aged /\ aged' <= Defaults' /\ credit' = credit
        BY <3>1, AgedIsWhole, StillAtMost
      <3> QED BY <2>2, <3>3, OtherScores DEF Busy
    <2> QED BY <2>1, <2>2
  <1>3. n \in Requests /\ \A m \in paidOut' : loan'[m] # NoLoan
    BY DEF LoanInv, LenderInv, Busy
  <1> QED BY <1>1, <1>2, <1>3, OneFollows

(* It ends without a row: it is refused, or it dies.  The lender may have  *)
(* it all the same.                                                        *)
LEMMA LoanRequestEnds ==
  ASSUME HandlerInv, LoanInv, NEW n \in Busy, request[n].op \in LoanOps,
         NEW at \in {"refused", "died"}, GoesTo(n, at),
         UNCHANGED <<credit, aged, said, loan, paidOut, unknown>>,
         lender' = lender \/ (request[n].op = "ewa" /\ lender' = [lender EXCEPT ![n] = "requested"])
  PROVE  LoanInv'
  <1>1. at \in Ended /\ at # "not yet"
    BY DEF Ended
  <1>2. HandlerStep(LoanOps) /\ n \in Requests
    BY <1>1, Going DEF Busy
  <1>3. /\ request'[n] # NotYet /\ request'[n].at = at /\ request'[n].op = request[n].op
        /\ \A m \in Requests \ {n} : request'[m] = request[m]
    BY <1>1, GoingOn
  <1>4. LoanFits(request'[n]) /\ Reports(request'[n], said, loan) /\ Computes(request'[n], credit.fresh, aged)
    BY <1>1, <1>3 DEF LoanFits, Reports, Computes
  <1>5. LoanTypes' /\ \A m \in Requests \ {n} : lender'[m] = lender[m]
    BY <1>2 DEF LoanInv, LoanTypes
  <1>6. Follows(request'[n], loan[n], lender'[n], said[n])
    <2>1. Follows(request[n], loan[n], lender[n], said[n])
      BY <1>2 DEF LoanInv, LenderInv
    <2>2. lender'[n] # "none" => request[n].op = "ewa"
      BY <1>2, <2>1 DEF Follows
    <2>3. loan[n] = NoLoan
      BY <2>1 DEF Follows, Busy, Ended
    <2>4. lender[n] # "none" => lender'[n] # "none"
      BY <1>2 DEF LoanInv, LoanTypes
    <2> QED BY <1>3, <2>1, <2>2, <2>3, <2>4 DEF Follows
  <1>7. request'[n].at # "writes loan"
    BY <1>3
  <1> QED BY <1>2, <1>3, <1>4, <1>5, <1>6, <1>7, OneRests

(* One comes in. *)
LEMMA LoanRequestArrives ==
  ASSUME HandlerInv, LoanInv, UNCHANGED loanVars, NEW r, Arrives(r), IsRequest(r), r # NotYet, r.op \in LoanOps,
         LoanFits(r), Reports(r, said, loan), r.at \notin {"writes loan", "stores score"},
         r.at = "collects factors" => credit.fresh = FALSE
  PROVE  LoanInv'
  <1> USE DEF loanVars
  <1>1. HandlerStep(LoanOps)
    BY Arriving
  <1>2. PICK n \in Requests : /\ request[n] = NotYet /\ request'[n] = r
                              /\ \A m \in Requests \ {n} : request'[m] = request[m]
    <2>1. r.op \in {r.op}
      OBVIOUS
    <2> QED BY <2>1, Arriving
  <1>3. LoanTypes'
    BY DEF LoanInv, LoanTypes
  <1>4. Follows(request'[n], loan'[n], lender'[n], said[n])
    BY <1>2 DEF LoanInv, LenderInv, Follows
  <1>5. DisbursedInv'
    <2>1. Calm({"lender report"})' => Calm({"lender report"})
      <3>1. PICK mine : mine = {"lender report"}
        OBVIOUS
      <3> QED BY <1>1, <3>1, CalmBefore
    <2>2. KeepsDisbursed => KeepsDisbursed'
      BY <1>2 DEF KeepsDisbursed
    <2> QED BY <2>1, <2>2 DEF LoanInv, DisbursedInv
  <1>6. ScoreInv'
    <2>1. Calm(ScoringOps)' => Calm(ScoringOps)
      <3>1. PICK mine : mine = ScoringOps
        OBVIOUS
      <3> QED BY <1>1, <3>1, CalmBefore
    <2>2. CountsAged => CountsAged'
      BY <1>2 DEF CountsAged, Computes
    <2>3. Defaults' = Defaults
      BY DEF Defaults
    <2> QED BY <2>1, <2>2, <2>3 DEF LoanInv, ScoreInv
  <1>7. \A m \in paidOut' : loan'[m] # NoLoan
    BY DEF LoanInv, LenderInv
  <1> QED BY <1>1, <1>2, <1>3, <1>4, <1>5, <1>6, <1>7, OneFollows

LEMMA NoneCounted == 0 \in 0..MaxRequests
  BY MaxRequestsIsNatural

LEMMA LoanRequestsCome ==
  ASSUME HandlerInv, LoanInv,
         \/ \E principal \in Principals : RequestAdvance(principal)
         \/ BatchUpdate
         \/ \E m \in Requests, decision \in Decisions : LenderReport(m, decision)
  PROVE  LoanInv'
  <1>1. ASSUME NEW principal \in Principals, RequestAdvance(principal) PROVE LoanInv'
    <2> DEFINE r == [op |-> "ewa", at |-> "reads score", principal |-> principal, counted |-> 0]
    <2>1. Arrives(r) /\ UNCHANGED loanVars
      BY <1>1 DEF RequestAdvance
    <2>2. /\ IsRequest(r) /\ r # NotYet /\ r.op \in LoanOps /\ LoanFits(r) /\ Reports(r, said, loan)
          /\ r.at \notin {"writes loan", "stores score", "collects factors"}
      BY NoneCounted DEF IsRequest, NotYet, LoanOps, LoanFits, Reports
    <2> HIDE DEF r
    <2> QED BY <2>1, <2>2, LoanRequestArrives
  <1>2. CASE BatchUpdate
    <2> DEFINE r == [op |-> "batch", at |-> "collects factors", counted |-> 0]
    <2>1. Arrives(r) /\ UNCHANGED loanVars /\ credit.fresh = FALSE
      <3>1. credit.fresh \in BOOLEAN
        BY DEF LoanInv, LoanTypes
      <3> QED BY <1>2, <3>1 DEF BatchUpdate
    <2>2. /\ IsRequest(r) /\ r # NotYet /\ r.op \in LoanOps /\ LoanFits(r) /\ Reports(r, said, loan)
          /\ r.at \notin {"writes loan", "stores score"}
      BY NoneCounted DEF IsRequest, NotYet, LoanOps, LoanFits, Reports
    <2> HIDE DEF r
    <2> QED BY <2>1, <2>2, LoanRequestArrives
  <1>3. ASSUME NEW m \in Requests, NEW decision \in Decisions, LenderReport(m, decision) PROVE LoanInv'
    <2> DEFINE r == [op |-> "lender report", at |-> "finds loan", of |-> m, says |-> decision, disbursed |-> FALSE]
    <2>1. Arrives(r) /\ UNCHANGED loanVars /\ said[m] # {}
      BY <1>3 DEF LenderReport
    <2>2. /\ IsRequest(r) /\ r # NotYet /\ r.op \in LoanOps /\ LoanFits(r) /\ Reports(r, said, loan)
          /\ r.at \notin {"writes loan", "stores score", "collects factors"}
      BY <1>3, <2>1 DEF IsRequest, NotYet, LoanOps, LoanFits, Reports, ScoringOps
    <2> HIDE DEF r
    <2> QED BY <2>1, <2>2, LoanRequestArrives
  <1> QED BY <1>1, <1>2, <1>3

(* A score grows old, and the lender decides. *)
LEMMA ScoreAgesKeeps == ASSUME HandlerInv, LoanInv, ScoreAges PROVE LoanInv'
  <1>1. /\ credit.fresh /\ aged' = Defaults /\ UNCHANGED <<request, met, lender, said, loan, paidOut, unknown>>
        /\ credit' = [credit EXCEPT !.fresh = FALSE]
    BY DEF ScoreAges, sharedVars, handlerVars
  <1>2. LoanTypes' /\ credit'.fresh = FALSE
    BY <1>1, DefaultsAre DEF LoanInv, LoanTypes
  <1>3. LenderInv'
    BY <1>1 DEF LoanInv, LenderInv, Overlapped
  <1>4. DisbursedInv'
    BY <1>1 DEF LoanInv, DisbursedInv, KeepsDisbursed, Calm, Doing, Overlapped
  <1>5. ScoreInv'
    <2>1. CountsAged => CountsAged'
      <3>1. ASSUME CountsAged, NEW n \in Requests PROVE Computes(request[n], FALSE, aged')
        BY <1>1, <3>1 DEF CountsAged, Computes
      <3> QED BY <1>1, <1>2, <3>1 DEF CountsAged
    <2>2. Calm(ScoringOps)' = Calm(ScoringOps)
      BY <1>1 DEF Calm, Doing, Overlapped
    <2>3. Defaults' = Defaults /\ aged' <= Defaults
      <3>1. Defaults \in Int
        BY AgedIsWhole
      <3> QED BY <1>1, <3>1 DEF Defaults
    <2> QED BY <2>1, <2>2, <2>3 DEF LoanInv, ScoreInv
  <1>6. \A n \in Requests : LoanFits(request'[n])
    BY <1>1 DEF LoanInv
  <1> QED BY <1>2, <1>3, <1>4, <1>5, <1>6 DEF LoanInv

LEMMA LenderDecidesKeeps ==
  ASSUME HandlerInv, LoanInv, NEW m \in Requests, NEW decision \in Decisions, LenderDecides(m, decision)
  PROVE  LoanInv'
  <1>1. /\ decision \in NextOf(lender[m]) /\ UNCHANGED <<request, met, credit, aged, loan, paidOut, unknown>>
        /\ lender' = [lender EXCEPT ![m] = decision]
        /\ said' = [said EXCEPT ![m] = said[m] \cup {decision}]
    BY DEF LenderDecides, sharedVars, handlerVars
  <1>2. lender[m] # "none" /\ decision # "none"
    BY <1>1 DEF NextOf, Decisions
  <1>3. LoanTypes'
    BY <1>1 DEF LoanInv, LoanTypes
  <1>4. \A n \in Requests \ {m} : lender'[n] = lender[n] /\ said'[n] = said[n]
    BY <1>1 DEF LoanInv, LoanTypes
  <1>5. lender'[m] = decision /\ said'[m] # {}
    BY <1>1 DEF LoanInv, LoanTypes
  <1>6. \A n \in Requests : LoanFits(request'[n])
    BY <1>1 DEF LoanInv
  <1>7. LenderInv'
    <2>1. ASSUME NEW n \in Requests PROVE Follows(request[n], loan[n], lender'[n], said'[n])
      BY <1>2, <1>4, <1>5 DEF LoanInv, LenderInv, Follows
    <2>2. ASSUME NEW n \in Requests PROVE Reports(request[n], said', loan)
      BY <1>4, <1>5 DEF LoanInv, LenderInv, LoanFits, Reports
    <2> QED BY <1>1, <2>1, <2>2 DEF LoanInv, LenderInv, Overlapped
  <1>8. DisbursedInv'
    BY <1>1 DEF LoanInv, DisbursedInv, KeepsDisbursed, Calm, Doing, Overlapped
  <1>9. ScoreInv'
    BY <1>1 DEF LoanInv, ScoreInv, CountsAged, Calm, Doing, Overlapped, Defaults
  <1> QED BY <1>3, <1>6, <1>7, <1>8, <1>9 DEF LoanInv

(***************************************************************************)
(* The score, and the way to the lender.                                   *)
(***************************************************************************)
LEMMA Ongoing ==
  ASSUME HandlerInv, LoanInv, NEW n \in Requests, NEW at, at \notin Ended, request[n].at = at,
         request[n].op \in LoanOps
  PROVE  /\ n \in Busy /\ LoanFits(request[n]) /\ {"at", "op"} \subseteq DOMAIN request[n]
         /\ Follows(request[n], loan[n], lender[n], said[n]) /\ Reports(request[n], said, loan)
         /\ loan[n] = NoLoan /\ request[n] # NotYet
         /\ at # "creates loan" => lender[n] = "none" /\ said[n] = {}
  <1>1. n \in Busy
    BY DEF Busy
  <1>2. /\ LoanFits(request[n])
        /\ Follows(request[n], loan[n], lender[n], said[n]) /\ Reports(request[n], said, loan)
    BY DEF LoanInv, LenderInv
  <1>3. loan[n] = NoLoan /\ (at # "creates loan" => lender[n] = "none")
    BY <1>2 DEF Follows, Ended
  <1> QED BY <1>1, <1>2, <1>3, InProgress DEF Follows

(* It goes on to "at", having left all as it was. *)
LEMMA ScoringGoesOn ==
  ASSUME HandlerInv, LoanInv, NEW n \in Requests, NEW from, from \notin Ended, request[n].at = from,
         request[n].op \in ScoringOps, UNCHANGED loanVars,
         NEW at, at # "not yet", at # "creates loan", GoesTo(n, at),
         at = "done" => request[n].op = "batch",
         at \in {"collects factors", "stores score"} => at = "collects factors" /\ credit.fresh = FALSE,
         from # "creates loan"
  PROVE  LoanInv'
  <1> USE DEF loanVars
  <1>1. request[n].op \in LoanOps /\ request[n].op # "lender report"
    BY DEF LoanOps, ScoringOps
  <1>2. /\ n \in Busy /\ LoanFits(request[n]) /\ lender[n] = "none" /\ said[n] = {} /\ loan[n] = NoLoan
    BY <1>1, Ongoing
  <1>3. /\ request'[n] # NotYet /\ request'[n].at = at /\ request'[n].op = request[n].op
        /\ \A m \in Requests \ {n} : request'[m] = request[m]
        /\ at \notin Ended => /\ DOMAIN request'[n] = DOMAIN request[n]
                              /\ \A f \in DOMAIN request[n] \ {"at"} : request'[n][f] = request[n][f]
    BY <1>2, GoingOn
  <1>4. HandlerStep(LoanOps)
    BY <1>1, <1>2, Going
  <1>5. LoanFits(request'[n])
    BY <1>1, <1>2, <1>3 DEF LoanFits, ScoringOps
  <1>6. Follows(request'[n], loan[n], lender'[n], said[n]) /\ Reports(request'[n], said, loan)
    BY <1>1, <1>2, <1>3 DEF Follows, Reports
  <1>7. Computes(request'[n], credit.fresh, aged)
    BY <1>3 DEF Computes
  <1>8. LoanTypes'
    BY DEF LoanInv, LoanTypes
  <1> QED BY <1>1, <1>2, <1>3, <1>4, <1>5, <1>6, <1>7, <1>8, OneRests

(* Where the score of a request leads it. *)
LEMMA DecidesTo ==
  ASSUME NEW n \in Requests, request[n].op \in ScoringOps, NEW score, Decides(n, score)
  PROVE  \E at \in {"done", "refused", "calls lender"} :
           GoesTo(n, at) /\ (at = "done" => request[n].op = "batch")
  BY DEF Decides, ScoringOps

LEMMA ReadScoreKeeps ==
  ASSUME HandlerInv, LoanInv, NEW n \in Requests, ReadScore(n) PROVE LoanInv'
  <1>1. /\ request[n].at = "reads score" /\ request[n].op = "ewa" /\ UNCHANGED loanVars
        /\ "reads score" \notin Ended /\ request[n].op \in ScoringOps
    BY DEF ReadScore, Is, ScoringOps, Ended
  <1>2. PICK from : from = "reads score"
    OBVIOUS
  <1>3. ASSUME NEW at \in {"done", "refused", "calls lender"}, GoesTo(n, at), at = "done" => request[n].op = "batch"
        PROVE  LoanInv'
    <2>1. at # "not yet" /\ at # "creates loan" /\ at \notin {"collects factors", "stores score"}
      BY <1>3
    <2> QED BY <1>1, <1>2, <1>3, <2>1, ScoringGoesOn
  <1>4. CASE credit.fresh
    <2>1. PICK score : Decides(n, score)
      BY <1>4 DEF ReadScore
    <2> QED BY <1>1, <1>3, <2>1, DecidesTo
  <1>5. CASE ~credit.fresh
    <2>1. PICK at : at = "collects factors"
      OBVIOUS
    <2>2. GoesTo(n, at) /\ at # "not yet" /\ at # "creates loan" /\ at # "done"
      BY <1>5, <2>1 DEF ReadScore
    <2>3. credit.fresh = FALSE
      BY <1>5 DEF LoanInv, LoanTypes
    <2> QED BY <1>1, <1>2, <2>1, <2>2, <2>3, ScoringGoesOn
  <1> QED BY <1>4, <1>5

LEMMA CollectFactorsKeeps ==
  ASSUME HandlerInv, LoanInv, NEW n \in Requests, CollectFactors(n) PROVE LoanInv'
  <1>1. /\ request[n].at = "collects factors" /\ request[n].op \in ScoringOps /\ UNCHANGED loanVars
        /\ "collects factors" \notin Ended /\ request[n].op \in LoanOps /\ request[n].op # "lender report"
    BY DEF CollectFactors, Scoring, ScoringOps, LoanOps, Ended
  <1>2. PICK from : from = "collects factors"
    OBVIOUS
  <1>3. /\ n \in Busy /\ LoanFits(request[n]) /\ lender[n] = "none" /\ said[n] = {} /\ loan[n] = NoLoan
        /\ {"at", "op"} \subseteq DOMAIN request[n]
    BY <1>1, <1>2, Ongoing
  <1>4. "counted" \in DOMAIN request[n]
    BY <1>1, <1>3 DEF LoanFits, ScoringOps
  <1>5. PICK counted : counted = Defaults
    OBVIOUS
  <1> DEFINE r == [request[n] EXCEPT !.at = "stores score", !.counted = counted]
  <1>6. Becomes(n, r)
    BY <1>5 DEF CollectFactors
  <1>7. /\ r.op = request[n].op /\ r.at = "stores score" /\ r.counted = counted
        /\ "principal" \in DOMAIN request[n] => r.principal = request[n].principal
        /\ DOMAIN r = DOMAIN request[n] /\ IsRequest(r) /\ r # NotYet
    BY <1>3, <1>4 DEF IsRequest, NotYet
  <1> HIDE DEF r
  <1>8. HandlerStep(LoanOps) /\ request'[n] = r
    BY <1>1, <1>3, <1>6, <1>7, Becoming
  <1>9. \A m \in Requests \ {n} : request'[m] = request[m]
    BY <1>6 DEF Becomes, HandlerInv, RequestShape
  <1>10. LoanFits(r)
    BY <1>1, <1>3, <1>5, <1>7, DefaultsAre DEF LoanFits, ScoringOps, Ended
  <1>11. Follows(r, loan[n], lender'[n], said[n]) /\ Reports(r, said, loan)
    BY <1>1, <1>3, <1>7 DEF Follows, Reports, loanVars
  <1>12. CountsAged => Computes(r, credit.fresh, aged)
    <2>1. counted >= aged
      BY <1>5, AgedIsWhole
    <2>2. CountsAged => credit.fresh = FALSE
      BY <1>1 DEF CountsAged, Computes
    <2> QED BY <1>7, <2>1, <2>2 DEF Computes
  <1>13. LoanTypes'
    BY <1>1 DEF LoanInv, LoanTypes, loanVars
  <1>14. UNCHANGED <<credit, aged, said, loan, paidOut, unknown, lender>>
    BY <1>1 DEF loanVars
  <1> QED BY <1>1, <1>3, <1>7, <1>8, <1>9, <1>10, <1>11, <1>12, <1>13, <1>14, OneRests

LEMMA StoreScoreKeeps ==
  ASSUME HandlerInv, LoanInv, NEW n \in Requests, StoreScore(n) PROVE LoanInv'
  <1>1. /\ request[n].at = "stores score" /\ request[n].op \in ScoringOps
        /\ "stores score" \notin Ended /\ request[n].op \in LoanOps /\ request[n].op # "lender report"
        /\ credit' = [counted |-> request[n].counted, fresh |-> TRUE]
        /\ UNCHANGED <<aged, lender, said, loan, paidOut, unknown>>
    BY DEF StoreScore, Scoring, ScoringOps, LoanOps, Ended
  <1>2. PICK from : from = "stores score"
    OBVIOUS
  <1>3. /\ n \in Busy /\ LoanFits(request[n]) /\ lender[n] = "none" /\ said[n] = {} /\ loan[n] = NoLoan
    BY <1>1, <1>2, Ongoing
  <1>4. PICK at \in {"done", "refused", "calls lender"} : GoesTo(n, at)
    BY <1>1, DecidesTo DEF StoreScore
  <1>5. /\ request'[n] # NotYet /\ request'[n].at = at /\ request'[n].op = request[n].op
        /\ \A m \in Requests \ {n} : request'[m] = request[m]
        /\ at \notin Ended => /\ DOMAIN request'[n] = DOMAIN request[n]
                              /\ \A f \in DOMAIN request[n] \ {"at"} : request'[n][f] = request[n][f]
    BY <1>3, <1>4, GoingOn
  <1>6. HandlerStep(LoanOps)
    BY <1>1, <1>3, <1>4, Going
  <1>7. LoanFits(request'[n])
    BY <1>1, <1>3, <1>5 DEF LoanFits, ScoringOps
  <1>8. Follows(request'[n], loan'[n], lender'[n], said[n]) /\ Reports(request'[n], said, loan')
    BY <1>1, <1>3, <1>5 DEF Follows, Reports
  <1>9. request[n].counted \in 0..MaxRequests
    BY <1>1, <1>3 DEF LoanFits
  <1>10. LoanTypes'
    BY <1>1, <1>9 DEF LoanInv, LoanTypes
  <1>11. DisbursedInv'
    BY <1>1, <1>5, <1>6, OtherDisbursed
  <1>12. ScoreInv'
    <2>1. CountsAged => credit'.counted >= aged
      BY <1>1 DEF CountsAged, Computes
    <2>2. Computes(request'[n], credit'.fresh, aged)
      BY <1>4, <1>5 DEF Computes
    <2> QED BY <1>1, <1>3, <1>5, <1>6, <2>1, <2>2, OneScores
  <1>13. \A m \in paidOut' : loan'[m] # NoLoan
    BY <1>1 DEF LoanInv, LenderInv
  <1> QED BY <1>1, <1>5, <1>6, <1>7, <1>8, <1>10, <1>11, <1>12, <1>13, OneFollows

(***************************************************************************)
(* The lender is asked, the row is created, and reports write it.          *)
(***************************************************************************)
LEMMA CallLenderKeeps ==
  ASSUME HandlerInv, LoanInv, NEW n \in Requests, CallLender(n) PROVE LoanInv'
  <1>1. /\ request[n].at = "calls lender" /\ request[n].op = "ewa" /\ "calls lender" \notin Ended
        /\ request[n].op \in LoanOps /\ request[n].op \in ScoringOps /\ request[n].op # "lender report"
        /\ UNCHANGED <<credit, aged, said, loan, paidOut, unknown>>
    BY DEF CallLender, Is, ScoringOps, LoanOps, Ended
  <1>2. PICK from : from = "calls lender"
    OBVIOUS
  <1>3. /\ n \in Busy /\ LoanFits(request[n]) /\ lender[n] = "none" /\ said[n] = {} /\ loan[n] = NoLoan
    BY <1>1, <1>2, Ongoing
  <1>4. CASE GoesTo(n, "refused") /\ UNCHANGED lender
    <2>1. PICK at \in {"refused", "died"} : at = "refused"
      OBVIOUS
    <2> QED BY <1>1, <1>3, <1>4, <2>1, LoanRequestEnds
  <1>5. CASE GoesTo(n, "creates loan") /\ lender' = [lender EXCEPT ![n] = "requested"]
    <2>1. PICK at : at = "creates loan"
      OBVIOUS
    <2>2. GoesTo(n, at) /\ at # "not yet" /\ at \notin Ended
      BY <1>5, <2>1 DEF Ended
    <2>3. /\ request'[n] # NotYet /\ request'[n].at = at /\ request'[n].op = request[n].op
          /\ \A m \in Requests \ {n} : request'[m] = request[m]
          /\ DOMAIN request'[n] = DOMAIN request[n]
          /\ \A f \in DOMAIN request[n] \ {"at"} : request'[n][f] = request[n][f]
      BY <1>3, <2>2, GoingOn
    <2>4. HandlerStep(LoanOps)
      BY <1>1, <1>3, <2>2, Going
    <2>5. LoanFits(request'[n])
      BY <1>1, <1>3, <2>3 DEF LoanFits, ScoringOps
    <2>6. LoanTypes' /\ \A m \in Requests \ {n} : lender'[m] = lender[m]
      BY <1>1, <1>5 DEF LoanInv, LoanTypes
    <2>7. lender'[n] = "requested"
      BY <1>5 DEF LoanInv, LoanTypes
    <2>8. Follows(request'[n], loan[n], lender'[n], said[n]) /\ Reports(request'[n], said, loan)
      BY <1>1, <1>3, <2>1, <2>3, <2>7 DEF Follows, Reports
    <2>9. Computes(request'[n], credit.fresh, aged)
      BY <2>1, <2>3 DEF Computes
    <2> QED BY <1>1, <1>3, <2>3, <2>4, <2>5, <2>6, <2>8, <2>9, OneRests
  <1> QED BY <1>4, <1>5 DEF CallLender

LEMMA LenderAnswerIsLostKeeps ==
  ASSUME HandlerInv, LoanInv, NEW n \in Requests, LenderAnswerIsLost(n) PROVE LoanInv'
  <1>1. /\ request[n].op = "ewa" /\ n \in Busy /\ request[n].op \in LoanOps
        /\ UNCHANGED <<credit, aged, said, loan, paidOut, unknown>>
        /\ lender' = [lender EXCEPT ![n] = "requested"]
    BY DEF LenderAnswerIsLost, Is, LoanOps, Busy, Ended
  <1>2. PICK at \in {"refused", "died"} : GoesTo(n, at)
    BY DEF LenderAnswerIsLost
  <1> QED BY <1>1, <1>2, LoanRequestEnds

LEMMA CreateLoanKeeps ==
  ASSUME HandlerInv, LoanInv, NEW n \in Requests, CreateLoan(n) PROVE LoanInv'
  <1> DEFINE row == [status |-> "PENDING", principal |-> request[n].principal, disbursed |-> FALSE]
  <1>1. /\ request[n].at = "creates loan" /\ request[n].op = "ewa" /\ "creates loan" \notin Ended
        /\ request[n].op \in LoanOps /\ request[n].op \in ScoringOps /\ request[n].op # "lender report"
        /\ UNCHANGED <<credit, aged, lender, said, paidOut, unknown>>
        /\ loan' = [loan EXCEPT ![n] = row]
    BY DEF CreateLoan, Is, ScoringOps, LoanOps, Ended
  <1>2. PICK from : from = "creates loan"
    OBVIOUS
  <1>3. /\ n \in Busy /\ LoanFits(request[n]) /\ Follows(request[n], loan[n], lender[n], said[n]) /\ loan[n] = NoLoan
    BY <1>1, <1>2, Ongoing
  <1>4. request[n].principal \in Principals
    BY <1>1, <1>3 DEF LoanFits
  <1>5. IsLoan(row) /\ row # NoLoan /\ row.status # "DEFAULTED"
    BY <1>4 DEF IsLoan, LoanStatuses, NoLoan
  <1>6. PICK at : at = "done"
    OBVIOUS
  <1>7. GoesTo(n, at) /\ at # "not yet" /\ at \in Ended
    BY <1>6 DEF CreateLoan, Ended
  <1>8. /\ request'[n] # NotYet /\ request'[n].at = at /\ request'[n].op = request[n].op
        /\ \A m \in Requests \ {n} : request'[m] = request[m]
    BY <1>3, <1>7, GoingOn
  <1>9. HandlerStep(LoanOps)
    BY <1>1, <1>3, <1>7, Going
  <1> HIDE DEF row
  <1>10. LoanTypes' /\ loan'[n] = row /\ \A m \in Requests \ {n} : loan'[m] = loan[m]
    BY <1>1, <1>5 DEF LoanInv, LoanTypes
  <1>11. LoanFits(request'[n])
    BY <1>7, <1>8 DEF LoanFits
  <1>12. Follows(request'[n], loan'[n], lender'[n], said[n]) /\ Reports(request'[n], said, loan')
    BY <1>1, <1>3, <1>5, <1>6, <1>8, <1>10 DEF Follows, Reports
  <1>13. n \notin paidOut
    BY <1>3 DEF LoanInv, LenderInv
  <1>14. /\ \A m \in paidOut : loan'[m].disbursed = loan[m].disbursed /\ loan'[m] # NoLoan
    BY <1>10, <1>13 DEF LoanInv, LenderInv, LoanTypes
  <1>15. DisbursedInv'
    BY <1>1, <1>8, <1>9, <1>14, OtherDisbursed
  <1>16. Defaults' = Defaults
    <2>1. NoLoan.status # "DEFAULTED"
      BY DEF NoLoan
    <2> QED BY <1>3, <1>5, <1>10, <2>1, MoreDefaults
  <1>17. ScoreInv'
    <2>1. CountsAged => CountsAged'
      <3>1. Computes(request'[n], credit.fresh, aged)
        BY <1>6, <1>8 DEF Computes
      <3> QED BY <1>1, <1>8, <3>1 DEF CountsAged
    <2>2. Calm(ScoringOps)' => Calm(ScoringOps)
      <3>1. PICK mine : mine = ScoringOps
        OBVIOUS
      <3> QED BY <1>9, <3>1, CalmBefore
    <2> QED BY <1>1, <1>16, <2>1, <2>2 DEF LoanInv, ScoreInv
  <1> QED BY <1>1, <1>8, <1>9, <1>10, <1>11, <1>12, <1>5, <1>14, <1>15, <1>17, OneFollows

LEMMA FindLoanKeeps ==
  ASSUME HandlerInv, LoanInv, NEW n \in Requests, FindLoan(n) PROVE LoanInv'
  <1>0. PICK of : of = request[n].of
    OBVIOUS
  <1>1. /\ request[n].at = "finds loan" /\ request[n].op = "lender report" /\ "finds loan" \notin Ended
        /\ request[n].op \in LoanOps /\ request[n].op \notin ScoringOps
        /\ UNCHANGED <<credit, aged, lender, said, loan, paidOut>>
    BY DEF FindLoan, Is, ScoringOps, LoanOps, Ended
  <1>2. PICK from : from = "finds loan"
    OBVIOUS
  <1>3. /\ n \in Busy /\ LoanFits(request[n]) /\ lender[n] = "none" /\ said[n] = {} /\ loan[n] = NoLoan
        /\ Reports(request[n], said, loan) /\ {"at", "op"} \subseteq DOMAIN request[n]
    BY <1>1, <1>2, Ongoing
  <1>4. /\ {"of", "says", "disbursed"} \subseteq DOMAIN request[n]
        /\ of \in Requests /\ request[n].says \in Decisions /\ said[of] # {}
    BY <1>0, <1>1, <1>3 DEF LoanFits, Reports
  <1>5. CASE loan[of] = NoLoan
    <2>1. unknown' = unknown \cup {<<n, of>>} /\ GoesTo(n, "done")
      BY <1>0, <1>5 DEF FindLoan
    <2>2. PICK at : at = "done"
      OBVIOUS
    <2>3. GoesTo(n, at) /\ at # "not yet" /\ at \in Ended
      BY <2>1, <2>2 DEF Ended
    <2>4. /\ request'[n] # NotYet /\ request'[n].at = at /\ request'[n].op = request[n].op
          /\ \A m \in Requests \ {n} : request'[m] = request[m]
      BY <1>3, <2>3, GoingOn
    <2>5. HandlerStep(LoanOps)
      BY <1>1, <1>3, <2>3, Going
    <2>6. LoanTypes'
      <3>1. <<n, of>> \in Requests \X Requests
        BY <1>4
      <3>2. LoanTypes
        BY DEF LoanInv
      <3> QED BY <1>1, <2>1, <3>1, <3>2 DEF LoanTypes
    <2>7. LoanFits(request'[n]) /\ Reports(request'[n], said, loan')
      BY <2>3, <2>4 DEF LoanFits, Reports
    <2>8. Follows(request'[n], loan'[n], lender'[n], said[n])
      BY <1>1, <1>3, <2>4 DEF Follows
    <2>9. Follows(request[of], loan[of], lender[of], said[of])
      BY <1>4 DEF LoanInv, LenderInv
    <2>10. request[of].op = "ewa" /\ request[of] # NotYet /\ request[of].at \in {"creates loan", "refused", "died"}
      BY <1>4, <1>5, <2>9 DEF Follows
    <2>11. of # n
      BY <1>1, <2>10
    <2>12. Overlapped(n, of)' \/ (request'[of] # NotYet /\ request'[of].at \in {"refused", "died"})
      <3>1. CASE request[of].at = "creates loan"
        <4>1. of \in Busy
          BY <1>4, <3>1 DEF Busy, Ended
        <4>2. Overlapped(n, of)
          BY <1>3, <2>11, <4>1 DEF HandlerInv, BusyMet
        <4> QED BY <2>5, <4>2 DEF HandlerStep, Overlapped
      <3>2. CASE request[of].at # "creates loan"
        BY <1>4, <2>4, <2>10, <2>11, <3>2
      <3> QED BY <3>1, <3>2
    <2>13. \A w \in unknown' : w \in unknown \/ Overlapped(w[1], w[2])'
                               \/ (request'[w[2]] # NotYet /\ request'[w[2]].at \in {"refused", "died"})
      BY <2>1, <2>12
    <2>14. DisbursedInv'
      BY <1>1, <1>3, <2>2, <2>4, <2>5, OneDisbursed DEF KeepsDisbursed
    <2>15. ScoreInv'
      <3>1. Defaults' = Defaults
        BY <1>1 DEF Defaults
      <3>2. aged' \in Int /\ aged' <= aged /\ aged' <= Defaults'
        BY <1>1, <3>1, AgedIsWhole, StillAtMost
      <3> QED BY <1>1, <2>4, <2>5, <3>2, OtherScores
    <2>16. \A m \in paidOut' : loan'[m] # NoLoan
      BY <1>1 DEF LoanInv, LenderInv
    <2> QED BY <1>1, <2>4, <2>5, <2>6, <2>7, <2>8, <2>13, <2>14, <2>15, <2>16, OneFollows
  <1>6. CASE loan[of] # NoLoan
    <2>1. PICK stored : stored = loan[of].disbursed
      OBVIOUS
    <2> DEFINE r == [request[n] EXCEPT !.at = "writes loan", !.disbursed = stored]
    <2>2. Becomes(n, r) /\ UNCHANGED unknown
      BY <1>0, <1>6, <2>1 DEF FindLoan
    <2>3. /\ r.op = request[n].op /\ r.at = "writes loan" /\ r.disbursed = stored /\ r.of = of
          /\ r.says = request[n].says /\ DOMAIN r = DOMAIN request[n] /\ IsRequest(r) /\ r # NotYet
      BY <1>0, <1>3, <1>4 DEF IsRequest, NotYet
    <2> HIDE DEF r
    <2>4. HandlerStep(LoanOps) /\ request'[n] = r
      BY <1>1, <1>3, <2>2, <2>3, Becoming
    <2>5. \A m \in Requests \ {n} : request'[m] = request[m]
      BY <2>2 DEF Becomes, HandlerInv, RequestShape
    <2>6. LoanFits(r)
      BY <1>1, <1>3, <1>4, <2>3 DEF LoanFits
    <2>7. Follows(r, loan[n], lender'[n], said[n]) /\ Reports(r, said, loan)
      BY <1>1, <1>3, <1>4, <1>6, <2>3 DEF Follows, Reports
    <2>8. Computes(r, credit.fresh, aged)
      BY <1>1, <2>3 DEF Computes
    <2>9. LoanTypes'
      BY <1>1, <2>2 DEF LoanInv, LoanTypes
    <2>10. KeepsDisbursed => (r.of \in paidOut => r.disbursed = TRUE)
      BY <2>1, <2>3 DEF KeepsDisbursed
    <2>11. UNCHANGED <<credit, aged, said, loan, paidOut, unknown, lender>>
      BY <1>1, <2>2
    <2> QED BY <1>1, <1>3, <2>3, <2>4, <2>5, <2>6, <2>7, <2>8, <2>9, <2>10, <2>11, OneRests
  <1> QED BY <1>5, <1>6

LEMMA StatusesAre == ASSUME NEW d \in Decisions PROVE StatusOf(d) \in LoanStatuses
  BY DEF Decisions, StatusOf, LoanStatuses

LEMMA FewerOfTwo ==
  ASSUME NEW a \in 0..MaxRequests, NEW b \in 0..MaxRequests
  PROVE  Min({a, b}) \in 0..MaxRequests /\ Min({a, b}) \in Int /\ Min({a, b}) <= a /\ Min({a, b}) <= b
  <1>1. a \in Int /\ b \in Int
    BY MaxRequestsIsNatural
  <1> QED BY <1>1, MinOfTwo

(* One row is rewritten: its status and whether it was disbursed. *)
LEMMA RowRewritten ==
  ASSUME LoanInv, NEW of \in Requests, loan[of] # NoLoan, NEW status \in LoanStatuses, NEW disbursed,
         loan' = [loan EXCEPT ![of].status = status, ![of].disbursed = disbursed]
  PROVE  /\ loan' = [m \in Requests |-> loan'[m]]
         /\ loan'[of].disbursed = disbursed /\ loan'[of] # NoLoan /\ IsLoan(loan'[of])
         /\ \A m \in Requests \ {of} : loan'[m] = loan[m]
  <1>1. loan = [m \in Requests |-> loan[m]] /\ IsLoan(loan[of])
    BY DEF LoanInv, LoanTypes
  <1> DEFINE row == [[loan[of] EXCEPT !.status = status] EXCEPT !.disbursed = disbursed]
  <1>2. loan' = [loan EXCEPT ![of] = row]
    BY <1>1
  <1>3. IsLoan(row) /\ row.disbursed = disbursed /\ row.status = status
    BY <1>1 DEF IsLoan
  <1>4. row # NoLoan
    BY <1>3 DEF NoLoan, LoanStatuses
  <1> HIDE DEF row
  <1>5. loan'[of] = row /\ (\A m \in Requests \ {of} : loan'[m] = loan[m]) /\ loan' = [m \in Requests |-> loan'[m]]
    BY <1>1, <1>2
  <1> QED BY <1>3, <1>4, <1>5

LEMMA WriteLoanKeeps ==
  ASSUME HandlerInv, LoanInv, NEW n \in Requests, WriteLoan(n) PROVE LoanInv'
  <1>0. PICK of : of = request[n].of
    OBVIOUS
  <1>1. /\ request[n].at = "writes loan" /\ request[n].op = "lender report" /\ "writes loan" \notin Ended
        /\ request[n].op \in LoanOps /\ request[n].op \notin ScoringOps
        /\ UNCHANGED <<credit, lender, said, unknown>>
        /\ aged' = Min({aged, Defaults'})
        /\ paidOut' = IF request[n].says = "disbursed" THEN paidOut \cup {of} ELSE paidOut
    BY <1>0 DEF WriteLoan, Is, ScoringOps, LoanOps, Ended
  <1>2. PICK from : from = "writes loan"
    OBVIOUS
  <1>3. /\ n \in Busy /\ LoanFits(request[n]) /\ lender[n] = "none" /\ said[n] = {} /\ loan[n] = NoLoan
        /\ Reports(request[n], said, loan) /\ {"at", "op"} \subseteq DOMAIN request[n]
    BY <1>1, <1>2, Ongoing
  <1>4. of \in Requests /\ request[n].says \in Decisions /\ loan[of] # NoLoan /\ of # n
    BY <1>0, <1>1, <1>3 DEF LoanFits, Reports
  <1>5. PICK disbursed : disbursed = AmountAfter(request[n].says, request[n].disbursed)
    OBVIOUS
  <1>6. PICK status \in LoanStatuses : status = StatusOf(request[n].says)
    BY <1>4, StatusesAre
  <1>7. loan' = [loan EXCEPT ![of].status = status, ![of].disbursed = disbursed]
    BY <1>0, <1>5, <1>6 DEF WriteLoan
  <1>8. /\ loan' = [m \in Requests |-> loan'[m]]
        /\ loan'[of].disbursed = disbursed /\ loan'[of] # NoLoan /\ IsLoan(loan'[of])
        /\ \A m \in Requests \ {of} : loan'[m] = loan[m]
    BY <1>4, <1>7, RowRewritten
  <1>9. PICK at : at = "done"
    OBVIOUS
  <1>10. GoesTo(n, at) /\ at # "not yet" /\ at \in Ended
    BY <1>9 DEF WriteLoan, Ended
  <1>11. /\ request'[n] # NotYet /\ request'[n].at = at /\ request'[n].op = request[n].op
         /\ \A m \in Requests \ {n} : request'[m] = request[m]
    BY <1>3, <1>10, GoingOn
  <1>12. HandlerStep(LoanOps)
    BY <1>1, <1>3, <1>10, Going
  <1>13. aged' \in 0..MaxRequests /\ aged' \in Int /\ aged' <= aged /\ aged' <= Defaults'
    <2>1. aged \in 0..MaxRequests /\ Defaults' \in 0..MaxRequests
      BY DefaultsAre DEF LoanInv, LoanTypes
    <2>2. PICK showed : showed = Defaults'
      OBVIOUS
    <2> QED BY <1>1, <2>1, <2>2, FewerOfTwo
  <1>14. LoanTypes'
    <2>1. \A m \in Requests : loan'[m] # NoLoan => IsLoan(loan'[m])
      BY <1>8 DEF LoanInv, LoanTypes
    <2>2. paidOut' \subseteq Requests
      BY <1>1, <1>4 DEF LoanInv, LoanTypes
    <2> QED BY <1>1, <1>8, <1>13, <2>1, <2>2 DEF LoanInv, LoanTypes
  <1>15. LoanFits(request'[n]) /\ Reports(request'[n], said, loan')
    BY <1>10, <1>11 DEF LoanFits, Reports
  <1>16. Follows(request'[n], loan'[n], lender'[n], said[n])
    BY <1>1, <1>3, <1>4, <1>8, <1>11 DEF Follows
  <1>17. \A m \in paidOut' : loan'[m] # NoLoan
    BY <1>1, <1>8 DEF LoanInv, LoanTypes, LenderInv
  <1>18. DisbursedInv'
    <2>1. ASSUME KeepsDisbursed, NEW m \in paidOut' PROVE loan'[m].disbursed = TRUE
      <3>1. CASE m # of
        BY <1>1, <1>8, <2>1, <3>1 DEF KeepsDisbursed, LoanInv, LoanTypes
      <3>2. CASE m = of /\ request[n].says = "disbursed"
        BY <1>5, <1>8, <3>2 DEF AmountAfter
      <3>3. CASE m = of /\ request[n].says # "disbursed"
        <4>1. of \in paidOut
          BY <1>1, <2>1, <3>3
        <4>2. request[n].disbursed = TRUE
          BY <1>0, <1>1, <2>1, <4>1 DEF KeepsDisbursed
        <4> QED BY <1>5, <1>8, <3>3, <4>2 DEF AmountAfter
      <3> QED BY <3>1, <3>2, <3>3
    <2>2. request'[n].at # "writes loan"
      BY <1>9, <1>11
    <2> QED BY <1>1, <1>3, <1>11, <1>12, <2>1, <2>2, OneDisbursed
  <1>19. ScoreInv'
    BY <1>1, <1>11, <1>12, <1>13, OtherScores
  <1>20. \A m \in Requests \ {n} : lender'[m] = lender[m] /\ (loan'[m] = NoLoan <=> loan[m] = NoLoan)
    BY <1>1, <1>4, <1>8
  <1>21. \A w \in unknown' : w \in unknown
    BY <1>1
  <1>22. UNCHANGED said
    BY <1>1
  <1> QED BY <1>3, <1>11, <1>12, <1>14, <1>15, <1>16, <1>17, <1>18, <1>19, <1>20, <1>21, <1>22, OneFollows

LEMMA LoansKeepLoans == ASSUME HandlerInv, LoanInv, LoanNext PROVE LoanInv'
  <1>1. \A n \in Requests : LoanSteps(n) => LoanInv'
    BY ReadScoreKeeps, CollectFactorsKeeps, StoreScoreKeeps, CallLenderKeeps, CreateLoanKeeps, FindLoanKeeps,
       WriteLoanKeeps DEF LoanSteps
  <1> QED BY <1>1, LoanRequestsCome, ScoreAgesKeeps, LenderDecidesKeeps DEF LoanNext

LEMMA OthersKeepLoans ==
  ASSUME LoanInv, UNCHANGED loanVars, NEW ops, HandlerStep(ops), ops \cap LoanOps = {}
  PROVE  LoanInv'
  <1>1. PICK mine : mine = LoanOps
    OBVIOUS
  <1>2. Unmoved(LoanOps)
    BY <1>1, OthersUnmoved
  <1> QED BY <1>2, UnmovedLoans

LEMMA FaultKeepsLoans == ASSUME RequestsInv, LoanInv, Fault PROVE LoanInv'
  <1> USE DEF RequestsInv
  <1>1. PICK n \in Requests :
          \/ Dies(n)
          \/ TransferIsLost(n) /\ TransferFrame
          \/ RailAnswerIsLost(n) /\ RemittanceFrame
          \/ RedisFails(n) /\ AuthorizeFrame
          \/ LenderAnswerIsLost(n)
          \/ AppIsKilled /\ PhoneFrame
          \/ (KeyIsNotRead(n) \/ AnswerIsNotStored) /\ KeyedFrame
    BY DEF Fault
  <1>2. CASE LenderAnswerIsLost(n)
    <2>1. PICK at \in {"refused", "died"} : GoesTo(n, at)
      BY <1>2 DEF LenderAnswerIsLost
    <2>2. n \in Busy /\ request[n].op = "ewa"
      BY <1>2 DEF LenderAnswerIsLost, Is, Busy, Ended
    <2>3. request[n].op \in LoanOps
      BY <2>2 DEF LoanOps
    <2>4. /\ UNCHANGED <<credit, aged, said, loan, paidOut, unknown>>
          /\ lender' = [lender EXCEPT ![n] = "requested"]
      BY <1>2 DEF LenderAnswerIsLost
    <2> QED BY <2>1, <2>2, <2>3, <2>4, LoanRequestEnds
  <1>3. CASE Dies(n)
    <2>1. PICK at \in {"refused", "died"} : at = "died"
      OBVIOUS
    <2>2. n \in Busy /\ GoesTo(n, at) /\ at # "not yet" /\ UNCHANGED loanVars
      BY <1>3, <2>1 DEF Dies, planeVars
    <2>3. CASE request[n].op \in LoanOps
      BY <2>2, <2>3, LoanRequestEnds DEF loanVars
    <2>4. CASE request[n].op \notin LoanOps
      <3>1. PICK ops : ops = {request[n].op}
        OBVIOUS
      <3>2. HandlerStep(ops)
        BY <2>2, <3>1, Going
      <3> QED BY <2>2, <2>4, <3>1, <3>2, OthersKeepLoans
    <2> QED BY <2>3, <2>4
  <1>4. CASE (TransferIsLost(n) /\ TransferFrame) \/ (RailAnswerIsLost(n) /\ RemittanceFrame)
    <2>1. n \in Busy /\ request[n].op \in {"transfer", "send"} /\ UNCHANGED loanVars
      BY <1>4 DEF RailAnswerIsLost, TransferIsLost, Is, Busy, Ended, TransferFrame, RemittanceFrame
    <2>2. PICK at : GoesTo(n, at) /\ at # "not yet"
      <3>1. PICK at \in {"died", "reward", "done"} : GoesTo(n, at)
        BY <1>4 DEF RailAnswerIsLost, TransferIsLost, AfterTransfer
      <3> QED BY <3>1
    <2>3. PICK ops : ops = {"transfer", "send"}
      OBVIOUS
    <2>4. HandlerStep(ops)
      BY <2>1, <2>2, <2>3, Going
    <2>5. ops \cap LoanOps = {}
      BY <2>3 DEF LoanOps
    <2> QED BY <2>1, <2>4, <2>5, OthersKeepLoans
  <1>5. CASE AppIsKilled /\ PhoneFrame
    <2>1. UNCHANGED loanVars
      BY <1>5 DEF PhoneFrame
    <2>2. PICK ops : ops = PhoneOps
      OBVIOUS
    <2>3. HandlerStep(ops)
      BY <1>5, <2>2, KillRequests
    <2>4. ops \cap LoanOps = {}
      BY <2>2 DEF LoanOps, PhoneOps
    <2> QED BY <2>1, <2>3, <2>4, OthersKeepLoans
  <1>6. CASE (RedisFails(n) /\ AuthorizeFrame) \/ ((KeyIsNotRead(n) \/ AnswerIsNotStored) /\ KeyedFrame)
    <2>1. UNCHANGED loanVars
      BY <1>6 DEF AuthorizeFrame, KeyedFrame
    <2>2. PICK ops : ops = {"authorize", "keyed"}
      OBVIOUS
    <2>3. HandlerStep(ops)
      <3>1. CASE RedisFails(n) \/ KeyIsNotRead(n)
        <4>1. n \in Busy /\ request[n].op \in ops
          BY <2>2, <3>1, IsBusy DEF RedisFails, KeyIsNotRead, Ended
        <4>2. Proceeds(n)
          BY <3>1, <4>1, InProgress DEF RedisFails, Scores, CountsOn, Answers, AfterAnswer, KeyIsNotRead, KeyedTo,
                                        Proceeds, IsRequest, NotYet
        <4> QED BY <4>1, <4>2, Proceeding
      <3>2. CASE AnswerIsNotStored
        BY <3>2, HandlersRest DEF AnswerIsNotStored, sharedVars
      <3> QED BY <1>6, <3>1, <3>2
    <2>4. ops \cap LoanOps = {}
      BY <2>2 DEF LoanOps
    <2> QED BY <2>1, <2>3, <2>4, OthersKeepLoans
  <1> QED BY <1>1, <1>2, <1>3, <1>4, <1>5, <1>6

LEMMA LoansGoOn == ASSUME RequestsInv, LoanInv, [Next]_vars PROVE LoanInv'
  <1> USE DEF RequestsInv
  <1>1. CASE TransferNext \/ SavingsNext \/ RemittanceNext \/ AuthorizeNext \/ CardNext \/ PhoneNext \/ KeyedNext
    <2>1. UNCHANGED loanVars
      BY <1>1 DEF TransferNext, TransferFrame, SavingsNext, SavingsFrame, RemittanceNext, RemittanceFrame, AuthorizeNext,
                  AuthorizeFrame, CardNext, CardFrame, PhoneNext, PhoneFrame, KeyedNext, KeyedFrame
    <2>2. PICK ops : HandlerStep(ops) /\ ops \cap LoanOps = {}
      <3>1. \A ops \in {{"transfer"}, SavingsOps, RemittanceOps, {"authorize"}, CardOps, PhoneOps, {"keyed"}} :
              ops \cap LoanOps = {}
        BY DEF SavingsOps, CardOps, Managing, LoanOps, PhoneOps, RemittanceOps
      <3>2. PICK ops \in {{"transfer"}, SavingsOps, RemittanceOps, {"authorize"}, CardOps, PhoneOps, {"keyed"}} :
              HandlerStep(ops)
        BY <1>1, TransferRequests, SavingsRequests, RemittanceRequests, AuthorizeRequests, CardRequests,
           PhoneRequests, KeyedRequests
      <3> QED BY <3>1, <3>2
    <2> QED BY <2>1, <2>2, OthersKeepLoans
  <1>2. CASE Passes \/ UNCHANGED vars
    <2>1. UNCHANGED <<loanVars, handlerVars>>
      BY <1>2 DEF Passes, NextDay, planeVars, vars, sharedVars
    <2>2. PICK ops : ops = {}
      OBVIOUS
    <2>3. HandlerStep(ops) /\ ops \cap LoanOps = {}
      BY <2>1, <2>2, HandlersRest
    <2> QED BY <2>1, <2>3, OthersKeepLoans
  <1> QED BY <1>1, <1>2, LoansKeepLoans, FaultKeepsLoans DEF Next

LEMMA LoansStart == Init => LoanInv
  <1> SUFFICES ASSUME Init PROVE LoanInv
    OBVIOUS
  <1>1. /\ credit = [counted |-> 0, fresh |-> FALSE] /\ aged = 0
        /\ lender = [n \in Requests |-> "none"] /\ said = [n \in Requests |-> {}]
        /\ loan = [n \in Requests |-> NoLoan] /\ paidOut = {} /\ unknown = {}
    BY DEF Init, InitLoans
  <1>2. \A n \in Requests : request[n] = NotYet
    BY DEF Init, InitShared, InitHandlers
  <1>3. 0 \in 0..MaxRequests
    BY MaxRequestsIsNatural
  <1>4. LoanTypes
    BY <1>1, <1>3 DEF LoanTypes
  <1>5. \A n \in Requests : LoanFits(request[n]) /\ Computes(request[n], credit.fresh, aged)
    <2>1. NotYet.at \in Ended /\ NotYet.at \notin {"collects factors", "stores score"}
      BY DEF NotYet, Ended
    <2> QED BY <1>2, <2>1 DEF LoanFits, Computes
  <1>6. LenderInv
    <2>1. NotYet.at \in Ended
      BY DEF NotYet, Ended
    <2> QED BY <1>1, <1>2, <2>1 DEF LenderInv, Follows, Reports
  <1>7. DisbursedInv
    BY <1>1 DEF DisbursedInv, KeepsDisbursed
  <1>8. aged <= Defaults
    <2>1. Defaults \in 0..MaxRequests
      BY DefaultsAre
    <2> QED BY <1>1, <2>1
  <1> QED BY <1>1, <1>4, <1>5, <1>6, <1>7, <1>8 DEF LoanInv, ScoreInv, CountsAged

(* Scores computed one at a time count the defaults the loans showed when  *)
(* they were a day old at the latest, reports written one at a time keep   *)
(* what a disbursement has written, and a report without a row is one that *)
(* came before the row or after a request that ended without it: the       *)
(* request has been to the lender before it creates the row                *)
(* (ewa.controller.ts, scoring.service.ts, flexxpay.webhook.ts).           *)
THEOREM LoansKeepTrackHolds == Spec => []LoansKeepTrack
  <1>1. Spec => []WalletInv
    BY WalletHolds
  <1>2. WalletInv => RequestsInv
    BY DEF WalletInv
  <1>3. RequestsInv /\ LoanInv /\ [Next]_vars => LoanInv'
    BY LoansGoOn
  <1> QED BY <1>1, <1>2, <1>3, LoansStart, LoansTracked, PTL DEF Spec

(***************************************************************************)
(* The session is one person's.                                            *)
(***************************************************************************)
PhoneFields == {"op", "at", "for", "token", "todo", "retried", "stepped"}
PhoneFits(r) ==
  r.op \in PhoneOps /\ r.at \notin Ended =>
    PhoneFields \subseteq DOMAIN r /\ (r.at = "stores" => r.op = "sign in" /\ r.token = r.for)

(* The modal asks for the code of the one call that waits.                 *)
CodeInv == \A n \in Requests : request[n].at = "awaits code" => challenge = n

OnPhoneNow(r) == r.op \in PhoneOps /\ r.at \notin Ended
Rewriting(r) == r.op \in PhoneOps /\ r.at \in {"stores", "clears", "forces out"}

(* No sign-in has been in progress with anything else on the phone.        *)
SignsInAlone == \A m \in Doing({"sign in"}), n \in Doing(PhoneOps) : ~Overlapped(m, n)

(* All that the phone holds and does is one person's, until a sign-in      *)
(* stores the next.                                                        *)
OfOne(r, person, chain, onScreen) ==
  OnPhoneNow(r) =>
    /\ r.op = "sign in" => onScreen = Nobody
    /\ r.op = "call" => r.for = person
    /\ r.at # "stores" => r.token \in {person, Nobody}
    /\ r.at = "stores" => \A item \in Items \ r.todo : chain[item] = r.for

OnePerson(person) ==
  /\ shown \in {person, Nobody}
  /\ \/ \A item \in Items : keychain[item] \in {person, Nobody}
     \/ \E n \in Requests : OnPhone(n, "stores")
  /\ \A n \in Requests : OfOne(request[n], person, keychain, shown)

ActsAsOneself == \A call \in acted : call.as = call.for
PersonInv == faults = 0 /\ SignsInAlone => ActsAsOneself /\ \E person : OnePerson(person)

(* One thing at a time: the keychain is that of the person on screen, or   *)
(* the one request in progress is rewriting it.                            *)
KeepsUp(r, chain, onScreen) ==
  r.op \in PhoneOps =>
    /\ r.at \in {"refreshes", "keeps"} => r.token = onScreen
    /\ r.at = "stores" => \A item \in Items \ r.todo : chain[item] = r.for
    /\ r.at \in {"clears", "forces out"} => \A item \in Items \ r.todo : chain[item] = Nobody

IsWhole == \A item \in Items : keychain[item] = shown
Whole ==
  /\ (\A n \in Requests : ~Rewriting(request[n])) => IsWhole
  /\ \A n \in Requests : KeepsUp(request[n], keychain, shown)
WholeInv == faults = 0 /\ Calm(PhoneOps) => Whole

PhoneInv ==
  /\ faults \in Nat /\ keychain = [item \in Items |-> keychain[item]]
  /\ \A n \in Requests : PhoneFits(request[n])
  /\ CodeInv /\ PersonInv /\ WholeInv

LEMMA PhoneIsOnes == PhoneInv => SessionIsOnePersons
  <1> SUFFICES ASSUME PhoneInv PROVE SessionIsOnePersons
    OBVIOUS
  <1>1. faults = 0 \/ faults > 0
    BY DEF PhoneInv
  <1>2. CASE faults > 0
    <2>1. ~(faults = 0)
      BY <1>2
    <2> QED BY <1>2, <2>1 DEF SessionIsOnePersons, PhoneInv, CodeInv
  <1>3. CASE faults = 0
    <2>1. \/ \A call \in acted : call.as = call.for
          \/ \E m \in Doing({"sign in"}), n \in Doing(PhoneOps) : Overlapped(m, n)
      BY <1>3 DEF PhoneInv, PersonInv, SignsInAlone, ActsAsOneself
    <2>2. ASSUME Undisturbed(PhoneOps) PROVE \A item \in Items : keychain[item] = shown
      <3>1. Calm(PhoneOps)
        BY <2>2 DEF Undisturbed, Calm
      <3>2. \A n \in Requests : ~Rewriting(request[n])
        <4>1. NotYet.at = "not yet"
          BY DEF NotYet
        <4> QED BY <2>2, <4>1 DEF Undisturbed, Doing, Rewriting
      <3> QED BY <1>3, <3>1, <3>2 DEF PhoneInv, WholeInv, Whole, IsWhole
    <2> QED BY <2>1, <2>2 DEF SessionIsOnePersons, PhoneInv, CodeInv
  <1> QED BY <1>1, <1>2, <1>3

(* Of requests in progress with a sign-in there is none.                   *)
LEMMA SignsInByItself ==
  ASSUME HandlerInv, SignsInAlone, NEW m \in Busy, request[m].op = "sign in", NEW n \in Busy, request[n].op \in PhoneOps
  PROVE  m = n
  <1>1. m \in Requests /\ n \in Requests /\ request[m] # NotYet /\ request[n] # NotYet
    BY NotYetEnded DEF Busy
  <1>2. m \in Doing({"sign in"}) /\ n \in Doing(PhoneOps)
    BY <1>1 DEF Doing
  <1> QED BY <1>2 DEF SignsInAlone, HandlerInv, BusyMet

LEMMA SignedInAloneBefore ==
  ASSUME NEW ops, HandlerStep(ops), SignsInAlone' PROVE SignsInAlone
  <1>1. \A n \in Requests : request[n] # NotYet => request'[n] # NotYet /\ request'[n].op = request[n].op
    BY DEF HandlerStep
  <1>2. \A m, n : Overlapped(m, n) => Overlapped(m, n)'
    BY DEF HandlerStep, Overlapped
  <1> QED BY <1>1, <1>2 DEF SignsInAlone, Doing

LEMMA OthersKeepPhone ==
  ASSUME PhoneInv, UNCHANGED phoneVars, Unmoved(PhoneOps), NEW ops, HandlerStep(ops), NoneAsked,
         faults' \in Nat, faults' = faults \/ faults' # 0
  PROVE  PhoneInv'
  <1>1. UNCHANGED <<keychain, shown, challenge, acted>>
    BY DEF phoneVars
  <1>2. \A n \in Requests : request'[n] = request[n] \/ (request'[n] # NotYet /\ request'[n].op \notin PhoneOps)
    BY DEF Unmoved
  <1>3. \A n \in Requests : PhoneFits(request'[n])
    BY <1>2 DEF PhoneInv, PhoneFits
  <1>4. CodeInv'
    BY <1>1 DEF PhoneInv, CodeInv, NoneAsked
  <1>5. "call" \in PhoneOps /\ "sign in" \in PhoneOps
    BY DEF PhoneOps
  <1>6. PersonInv'
    <2> SUFFICES ASSUME faults' = 0, SignsInAlone' PROVE ActsAsOneself' /\ \E person : OnePerson(person)'
      BY DEF PersonInv
    <2>1. faults = 0 /\ SignsInAlone
      BY SignedInAloneBefore
    <2>2. PICK person : ActsAsOneself /\ OnePerson(person)
      BY <2>1 DEF PhoneInv, PersonInv
    <2>3. \A n \in Requests : OfOne(request'[n], person, keychain, shown)
      BY <1>2, <2>2 DEF OnePerson, OfOne, OnPhoneNow
    <2>4. \A n \in Requests : OnPhone(n, "stores") => OnPhone(n, "stores")'
      BY NotYetEnded DEF OnPhone, Unmoved
    <2>5. OnePerson(person)'
      BY <1>1, <2>2, <2>3, <2>4 DEF OnePerson
    <2> QED BY <1>1, <2>2, <2>5 DEF ActsAsOneself
  <1>7. WholeInv'
    <2> SUFFICES ASSUME faults' = 0, Calm(PhoneOps)' PROVE Whole'
      BY DEF WholeInv
    <2>1. faults = 0 /\ Calm(PhoneOps)
      <3>1. PICK mine : mine = PhoneOps
        OBVIOUS
      <3> QED BY <3>1, CalmBefore
    <2>2. Whole
      BY <2>1 DEF PhoneInv, WholeInv
    <2>3. ASSUME NEW n \in Requests PROVE KeepsUp(request'[n], keychain, shown)
      <3>1. KeepsUp(request[n], keychain, shown)
        BY <2>2 DEF Whole
      <3>2. CASE request'[n] # request[n]
        <4>1. request'[n].op \notin PhoneOps
          BY <1>2, <3>2
        <4> QED BY <4>1 DEF KeepsUp
      <3> QED BY <3>1, <3>2
    <2>4. \A n \in Requests : Rewriting(request[n]) => Rewriting(request'[n])
      BY NotYetEnded DEF Rewriting, Unmoved
    <2> QED BY <1>1, <2>2, <2>3, <2>4 DEF Whole, IsWhole
  <1> QED BY <1>1, <1>3, <1>4, <1>6, <1>7 DEF PhoneInv

(* A request of the phone goes on or ends; another may be turned away.     *)
LEMMA OneOnPhone ==
  ASSUME HandlerInv, PhoneInv, NEW n \in Busy, request[n].op \in PhoneOps, HandlerStep(PhoneOps), UNCHANGED faults,
         \A m \in Requests \ {n} : request'[m] = request[m] \/ request'[m].at \in Ended,
         keychain' = [item \in Items |-> keychain'[item]],
         PhoneFits(request'[n]), CodeInv',
         SignsInAlone /\ ActsAsOneself /\ (\E person : OnePerson(person)) =>
           ActsAsOneself' /\ \E person : OnePerson(person)',
         Calm(PhoneOps) /\ Whole /\ (~Rewriting(request[n]) => IsWhole) =>
           (~Rewriting(request'[n]) => IsWhole') /\ KeepsUp(request'[n], keychain', shown')
  PROVE  PhoneInv'
  <1>0. n \in Requests
    BY DEF Busy
  <1>1. \A m \in Requests : PhoneFits(request'[m])
    BY DEF PhoneInv, PhoneFits
  <1>2. PersonInv'
    <2>1. SignsInAlone' => SignsInAlone
      BY SignedInAloneBefore
    <2> QED BY <2>1 DEF PhoneInv, PersonInv
  <1>3. ASSUME faults = 0, Calm(PhoneOps)' PROVE Whole'
    <2>1. PICK mine : mine = PhoneOps
      OBVIOUS
    <2>2. Calm(PhoneOps)
      BY <1>3, <2>1, CalmBefore
    <2>3. \A m \in Busy : request[m].op \in mine => m = n
      BY <2>1, <2>2, OneAtATime
    <2>4. \A m \in Requests \ {n} : request[m].op \in PhoneOps => request[m].at \in Ended
      BY <2>1, <2>3 DEF Busy
    <2>5. \A m \in Requests \ {n} : ~Rewriting(request[m])
      BY <2>4 DEF Rewriting, Ended
    <2>6. Whole /\ (~Rewriting(request[n]) => IsWhole)
      BY <1>3, <2>2, <2>5 DEF PhoneInv, WholeInv, Whole
    <2>7. \A m \in Requests \ {n} : KeepsUp(request'[m], keychain', shown')
      BY <2>4 DEF KeepsUp, Ended
    <2> QED BY <1>0, <2>2, <2>6, <2>7 DEF Whole
  <1> QED BY <1>1, <1>2, <1>3 DEF PhoneInv, WholeInv

(* The keychain and the screen are as they were: the request's next place  *)
(* and token come from what it had and what the keychain holds.            *)
LEMMA PhoneRests ==
  ASSUME HandlerInv, PhoneInv, NEW n \in Busy, request[n].op \in PhoneOps, ~Rewriting(request[n]),
         HandlerStep(PhoneOps), UNCHANGED <<keychain, shown, faults>>,
         \A m \in Requests \ {n} : request'[m] = request[m] \/ request'[m].at \in Ended,
         NEW r, r = request'[n], PhoneFits(r), CodeInv', r.op = request[n].op,
         r.at \notin Ended => r.for = request[n].for,
         r.at \notin Ended /\ r.at # "stores" => r.token = request[n].token \/ \E item \in Items : r.token = keychain[item],
         r.at \in {"stores", "clears", "forces out"} => r.todo = Items,
         r.at = "refreshes" => \E item \in Items : r.token = keychain[item],
         r.at = "keeps" => request[n].at = "refreshes" /\ r.token = request[n].token,
         acted' = acted \/ (/\ request[n].op = "call" /\ request[n].token # Nobody
                            /\ acted' = acted \cup {[for |-> request[n].for, as |-> request[n].token]})
  PROVE  PhoneInv'
  <1>0. n \in Requests /\ request[n].at \notin Ended /\ OnPhoneNow(request[n]) /\ request[n].at # "stores"
    BY DEF Busy, OnPhoneNow, Rewriting
  <1>1. ASSUME SignsInAlone, ActsAsOneself, NEW person, OnePerson(person)
        PROVE  ActsAsOneself' /\ OnePerson(person)'
    <2>1. \A m \in Requests : ~OnPhone(m, "stores")
      <3> SUFFICES ASSUME NEW m \in Requests, OnPhone(m, "stores") PROVE FALSE
        OBVIOUS
      <3>1. m \in Busy /\ request[m].at = "stores" /\ request[m].op \in PhoneOps
        BY DEF OnPhone, Busy, Ended
      <3>2. request[m].op = "sign in"
        BY <3>1 DEF PhoneInv, PhoneFits, Busy
      <3>3. m = n
        BY <1>1, <3>1, <3>2, SignsInByItself
      <3> QED BY <1>0, <3>1, <3>3
    <2>2. \A item \in Items : keychain[item] \in {person, Nobody}
      BY <1>1, <2>1 DEF OnePerson
    <2>3. /\ request[n].op = "sign in" => shown = Nobody
          /\ request[n].op = "call" => request[n].for = person
          /\ request[n].token \in {person, Nobody}
      BY <1>0, <1>1 DEF OnePerson, OfOne
    <2>4. OfOne(r, person, keychain, shown)
      BY <2>2, <2>3 DEF OfOne, OnPhoneNow
    <2>5. \A m \in Requests : OfOne(request'[m], person, keychain, shown)
      <3> SUFFICES ASSUME NEW m \in Requests PROVE OfOne(request'[m], person, keychain, shown)
        OBVIOUS
      <3>1. CASE m = n
        BY <2>4, <3>1
      <3>2. CASE m # n /\ request'[m] = request[m]
        BY <1>1, <3>2 DEF OnePerson
      <3>3. CASE request'[m].at \in Ended
        BY <3>3 DEF OfOne, OnPhoneNow
      <3> QED BY <3>1, <3>2, <3>3
    <2>6. OnePerson(person)'
      BY <1>1, <2>2, <2>5 DEF OnePerson
    <2>7. ActsAsOneself'
      <3>1. PICK new : new = [for |-> request[n].for, as |-> request[n].token]
        OBVIOUS
      <3>2. new.for = request[n].for /\ new.as = request[n].token
        BY <3>1
      <3>3. request[n].op = "call" /\ request[n].token # Nobody => new.as = new.for
        BY <2>3, <3>2
      <3>4. acted' = acted \/ (acted' = acted \cup {new} /\ new.as = new.for)
        BY <3>1, <3>3
      <3> HIDE <3>1, <3>2
      <3> QED BY <1>1, <3>4 DEF ActsAsOneself
    <2> QED BY <2>6, <2>7
  <1>2. ASSUME Whole, ~Rewriting(request[n]) => IsWhole
        PROVE  (~Rewriting(r) => IsWhole') /\ KeepsUp(r, keychain, shown)
    <2>1. IsWhole /\ IsWhole'
      BY <1>2 DEF IsWhole
    <2>2. request[n].at = "refreshes" => request[n].token = shown
      BY <1>0, <1>2 DEF Whole, KeepsUp, OnPhoneNow
    <2>3. r.at \in {"refreshes", "keeps"} => r.token = shown
      BY <2>1, <2>2 DEF IsWhole
    <2>4. r.at \in {"stores", "clears", "forces out"} => Items \ r.todo = {}
      OBVIOUS
    <2> QED BY <2>1, <2>3, <2>4 DEF KeepsUp
  <1>3. keychain' = [item \in Items |-> keychain'[item]]
    BY DEF PhoneInv
  <1>4. SignsInAlone /\ ActsAsOneself /\ (\E person : OnePerson(person)) =>
          ActsAsOneself' /\ \E person : OnePerson(person)'
    BY <1>1
  <1>5. Calm(PhoneOps) /\ Whole /\ (~Rewriting(request[n]) => IsWhole) =>
          (~Rewriting(request'[n]) => IsWhole') /\ KeepsUp(request'[n], keychain', shown')
    BY <1>2
  <1> QED BY <1>3, <1>4, <1>5, OneOnPhone

(* A step of one request which is not to, and does not come to, wait for a *)
(* code.                                                                   *)
LEMMA NoneWaitsAnew ==
  ASSUME PhoneInv, NEW n \in Requests, UNCHANGED challenge, \A m \in Requests \ {n} : request'[m] = request[m],
         request'[n].at # "awaits code"
  PROVE  CodeInv'
  BY DEF PhoneInv, CodeInv

LEMMA PhoneBusy ==
  ASSUME HandlerInv, PhoneInv, NEW n \in Requests, NEW at, at \notin Ended, OnPhone(n, at)
  PROVE  /\ n \in Busy /\ request[n].at = at /\ request[n].op \in PhoneOps
         /\ PhoneFields \subseteq DOMAIN request[n] /\ request[n] = [f \in DOMAIN request[n] |-> request[n][f]]
         /\ at = "stores" => request[n].op = "sign in" /\ request[n].token = request[n].for
  <1>1. n \in Busy /\ request[n].at = at /\ request[n].op \in PhoneOps
    BY DEF OnPhone, Busy
  <1> QED BY <1>1, InProgress DEF PhoneInv, PhoneFits

LEMMA BecomingOn ==
  ASSUME HandlerInv, NEW n \in Busy, NEW r, Becomes(n, r)
  PROVE  request'[n] = r /\ \A m \in Requests \ {n} : request'[m] = request[m]
  BY DEF Becomes, HandlerInv, RequestShape, Busy

(* It ends where it is. *)
LEMMA PhoneCallEnds ==
  ASSUME HandlerInv, PhoneInv, NEW n \in Requests, NEW at, at \notin Ended, OnPhone(n, at), ~Rewriting(request[n]),
         HandlerStep(PhoneOps), UNCHANGED <<keychain, shown, faults>>,
         NEW to \in {"done", "refused"}, GoesTo(n, to),
         challenge' = challenge \/ \A m \in Requests \ {n} : request[m].at # "awaits code",
         acted' = acted \/ (/\ request[n].op = "call" /\ request[n].token # Nobody
                            /\ acted' = acted \cup {[for |-> request[n].for, as |-> request[n].token]})
  PROVE  PhoneInv'
  <1>1. n \in Busy /\ request[n].op \in PhoneOps
    BY PhoneBusy
  <1>2. to \in Ended /\ to # "not yet" /\ to # "awaits code"
    BY DEF Ended
  <1>3. PICK r : r = request'[n]
    OBVIOUS
  <1>4. r.at = to /\ r.op = request[n].op /\ \A m \in Requests \ {n} : request'[m] = request[m]
    BY <1>1, <1>2, <1>3, GoingOn
  <1>5. PhoneFits(r)
    BY <1>2, <1>4 DEF PhoneFits
  <1>6. CodeInv'
    BY <1>2, <1>3, <1>4 DEF PhoneInv, CodeInv
  <1> QED BY <1>1, <1>2, <1>3, <1>4, <1>5, <1>6, PhoneRests DEF Ended

(* It goes on, and the phone is as it was. *)
LEMMA PhoneCallGoesOn ==
  ASSUME HandlerInv, PhoneInv, NEW n \in Requests, NEW at, at \notin Ended, OnPhone(n, at), ~Rewriting(request[n]),
         HandlerStep(PhoneOps), UNCHANGED <<phoneVars, faults>>,
         NEW r, Becomes(n, r), PhoneFields \subseteq DOMAIN r,
         r.op = request[n].op, r.for = request[n].for, r.at # "awaits code",
         r.at = "stores" => r.op = "sign in" /\ r.token = r.for,
         r.at # "stores" => r.token = request[n].token \/ \E item \in Items : r.token = keychain[item],
         r.at \in {"stores", "clears", "forces out"} => r.todo = Items,
         r.at = "refreshes" => \E item \in Items : r.token = keychain[item],
         r.at = "keeps" => request[n].at = "refreshes" /\ r.token = request[n].token
  PROVE  PhoneInv'
  <1>1. n \in Busy /\ request[n].op \in PhoneOps
    BY PhoneBusy
  <1>2. r = request'[n] /\ \A m \in Requests \ {n} : request'[m] = request[m]
    BY <1>1, BecomingOn
  <1>3. PhoneFits(r)
    BY DEF PhoneFits
  <1>4. UNCHANGED <<keychain, shown, challenge, acted>>
    BY DEF phoneVars
  <1>5. CodeInv'
    BY <1>2, <1>4, NoneWaitsAnew
  <1> QED BY <1>1, <1>2, <1>3, <1>4, <1>5, PhoneRests

LEMMA AttachKeeps ==
  ASSUME HandlerInv, PhoneInv, NEW n \in Requests, Attach(n), HandlerStep(PhoneOps), UNCHANGED faults PROVE PhoneInv'
  <1>1. PICK at : at = "attaches" /\ at \notin Ended
    <2>1. "attaches" \notin Ended
      BY DEF Ended
    <2> QED BY <2>1
  <1>2. OnPhone(n, at) /\ UNCHANGED phoneVars /\ "access" \in Items
    BY <1>1 DEF Attach, Items
  <1>3. /\ n \in Busy /\ request[n].at = "attaches" /\ request[n].op \in PhoneOps
        /\ PhoneFields \subseteq DOMAIN request[n] /\ request[n] = [f \in DOMAIN request[n] |-> request[n][f]]
    BY <1>1, <1>2, PhoneBusy
  <1>4. ~Rewriting(request[n])
    BY <1>3 DEF Rewriting
  <1>5. PICK token : token = keychain["access"]
    OBVIOUS
  <1> DEFINE r == [request[n] EXCEPT !.at = "sent", !.token = token]
  <1>6. Becomes(n, r)
    BY <1>5 DEF Attach
  <1>7. /\ PhoneFields \subseteq DOMAIN r /\ r.op = request[n].op /\ r.for = request[n].for
        /\ r.at = "sent" /\ r.token = token
    BY <1>3 DEF PhoneFields
  <1> HIDE DEF r
  <1> QED BY <1>1, <1>2, <1>4, <1>5, <1>6, <1>7, PhoneCallGoesOn

LEMMA UnauthorizedKeeps ==
  ASSUME HandlerInv, PhoneInv, NEW n \in Requests, Unauthorized(n), HandlerStep(PhoneOps), UNCHANGED faults
  PROVE  PhoneInv'
  <1>1. PICK at : at = "sent" /\ at \notin Ended
    <2>1. "sent" \notin Ended
      BY DEF Ended
    <2> QED BY <2>1
  <1>2. OnPhone(n, at) /\ UNCHANGED phoneVars
    BY <1>1 DEF Unauthorized
  <1>3. /\ n \in Busy /\ request[n].at = "sent" /\ request[n].op \in PhoneOps
        /\ PhoneFields \subseteq DOMAIN request[n] /\ request[n] = [f \in DOMAIN request[n] |-> request[n][f]]
    BY <1>1, <1>2, PhoneBusy
  <1>4. ~Rewriting(request[n])
    BY <1>3 DEF Rewriting
  <1> DEFINE r == [request[n] EXCEPT !.at = "reads refresh", !.retried = TRUE]
  <1>6. Becomes(n, r)
    BY DEF Unauthorized
  <1>7. /\ PhoneFields \subseteq DOMAIN r /\ r.op = request[n].op /\ r.for = request[n].for
        /\ r.at = "reads refresh" /\ r.token = request[n].token
    BY <1>3 DEF PhoneFields
  <1> HIDE DEF r
  <1> QED BY <1>1, <1>2, <1>4, <1>6, <1>7, PhoneCallGoesOn

(* It clears the keychain, with all items to do. *)
LEMMA ClearsKeeps ==
  ASSUME HandlerInv, PhoneInv, NEW n \in Requests, NEW from, from \notin Ended, OnPhone(n, from), ~Rewriting(request[n]),
         NEW at \in {"clears", "forces out"}, Clears(n, at), HandlerStep(PhoneOps), UNCHANGED <<phoneVars, faults>>
  PROVE  PhoneInv'
  <1>3. /\ n \in Busy /\ request[n].op \in PhoneOps
        /\ PhoneFields \subseteq DOMAIN request[n] /\ request[n] = [f \in DOMAIN request[n] |-> request[n][f]]
    BY PhoneBusy
  <1> DEFINE r == [request[n] EXCEPT !.at = at, !.todo = Items]
  <1>6. Becomes(n, r)
    BY DEF Clears
  <1>7. /\ PhoneFields \subseteq DOMAIN r /\ r.op = request[n].op /\ r.for = request[n].for
        /\ r.at = at /\ r.token = request[n].token /\ r.todo = Items
    BY <1>3 DEF PhoneFields
  <1> HIDE DEF r
  <1> QED BY <1>6, <1>7, PhoneCallGoesOn

LEMMA ReadRefreshKeeps ==
  ASSUME HandlerInv, PhoneInv, NEW n \in Requests, ReadRefresh(n), HandlerStep(PhoneOps), UNCHANGED faults
  PROVE  PhoneInv'
  <1>1. PICK at : at = "reads refresh" /\ at \notin Ended
    <2>1. "reads refresh" \notin Ended
      BY DEF Ended
    <2> QED BY <2>1
  <1>2. OnPhone(n, at) /\ UNCHANGED phoneVars /\ "refresh" \in Items
    BY <1>1 DEF ReadRefresh, Items
  <1>3. /\ n \in Busy /\ request[n].at = "reads refresh" /\ request[n].op \in PhoneOps
        /\ PhoneFields \subseteq DOMAIN request[n] /\ request[n] = [f \in DOMAIN request[n] |-> request[n][f]]
    BY <1>1, <1>2, PhoneBusy
  <1>4. ~Rewriting(request[n])
    BY <1>3 DEF Rewriting
  <1>5. CASE Clears(n, "forces out")
    BY <1>1, <1>2, <1>4, <1>5, ClearsKeeps
  <1>6. CASE ~Clears(n, "forces out")
    <2>1. PICK token : token = keychain["refresh"]
      OBVIOUS
    <2> DEFINE r == [request[n] EXCEPT !.at = "refreshes", !.token = token]
    <2>2. Becomes(n, r)
      BY <1>6, <2>1 DEF ReadRefresh
    <2>3. /\ PhoneFields \subseteq DOMAIN r /\ r.op = request[n].op /\ r.for = request[n].for
          /\ r.at = "refreshes" /\ r.token = token
      BY <1>3 DEF PhoneFields
    <2> HIDE DEF r
    <2> QED BY <1>1, <1>2, <1>4, <2>1, <2>2, <2>3, PhoneCallGoesOn
  <1> QED BY <1>5, <1>6

LEMMA RefreshKeeps ==
  ASSUME HandlerInv, PhoneInv, NEW n \in Requests, Refresh(n), HandlerStep(PhoneOps), UNCHANGED faults
  PROVE  PhoneInv'
  <1>1. PICK at : at = "refreshes" /\ at \notin Ended
    <2>1. "refreshes" \notin Ended
      BY DEF Ended
    <2> QED BY <2>1
  <1>2. OnPhone(n, at) /\ UNCHANGED phoneVars
    BY <1>1 DEF Refresh
  <1>3. /\ n \in Busy /\ request[n].at = "refreshes" /\ request[n].op \in PhoneOps
        /\ PhoneFields \subseteq DOMAIN request[n] /\ request[n] = [f \in DOMAIN request[n] |-> request[n][f]]
    BY <1>1, <1>2, PhoneBusy
  <1>4. ~Rewriting(request[n])
    BY <1>3 DEF Rewriting
  <1>5. CASE Clears(n, "forces out")
    BY <1>1, <1>2, <1>4, <1>5, ClearsKeeps
  <1>6. CASE ~Clears(n, "forces out")
    <2> DEFINE r == [request[n] EXCEPT !.at = "keeps", !.todo = {"access", "refresh"}]
    <2>2. Becomes(n, r)
      BY <1>6 DEF Refresh
    <2>3. /\ PhoneFields \subseteq DOMAIN r /\ r.op = request[n].op /\ r.for = request[n].for
          /\ r.at = "keeps" /\ r.token = request[n].token
      BY <1>3 DEF PhoneFields
    <2> HIDE DEF r
    <2> QED BY <1>1, <1>2, <1>3, <1>4, <2>2, <2>3, PhoneCallGoesOn
  <1> QED BY <1>5, <1>6

LEMMA IsRejectedKeeps ==
  ASSUME HandlerInv, PhoneInv, NEW n \in Requests, IsRejected(n), HandlerStep(PhoneOps), UNCHANGED faults
  PROVE  PhoneInv'
  <1>1. PICK at : at = "sent" /\ at \notin Ended
    <2>1. "sent" \notin Ended
      BY DEF Ended
    <2> QED BY <2>1
  <1>2. OnPhone(n, at) /\ UNCHANGED <<keychain, shown, challenge, acted>>
    BY <1>1 DEF IsRejected, phoneVars
  <1>3. ~Rewriting(request[n])
    BY <1>1, <1>2 DEF Rewriting, OnPhone
  <1>4. PICK to \in {"done", "refused"} : GoesTo(n, to)
    BY DEF IsRejected
  <1> QED BY <1>1, <1>2, <1>3, <1>4, PhoneCallEnds

LEMMA AnsweredKeeps ==
  ASSUME HandlerInv, PhoneInv, NEW n \in Requests, Answered(n), HandlerStep(PhoneOps), UNCHANGED faults
  PROVE  PhoneInv'
  <1>1. PICK at : at = "sent" /\ at \notin Ended
    <2>1. "sent" \notin Ended
      BY DEF Ended
    <2> QED BY <2>1
  <1>2. OnPhone(n, at) /\ UNCHANGED <<keychain, shown, challenge>>
    BY <1>1 DEF Answered
  <1>3. /\ n \in Busy /\ request[n].at = "sent" /\ request[n].op \in PhoneOps
        /\ PhoneFields \subseteq DOMAIN request[n] /\ request[n] = [f \in DOMAIN request[n] |-> request[n][f]]
    BY <1>1, <1>2, PhoneBusy
  <1>4. ~Rewriting(request[n])
    BY <1>3 DEF Rewriting
  <1>5. CASE request[n].op = "call"
    <2>1. PICK to \in {"done", "refused"} : GoesTo(n, to)
      BY <1>5 DEF Answered
    <2>2. request[n].token # Nobody /\ acted' = acted \cup {[for |-> request[n].for, as |-> request[n].token]}
      BY <1>5 DEF Answered
    <2> QED BY <1>1, <1>2, <1>4, <1>5, <2>1, <2>2, PhoneCallEnds
  <1>6. CASE request[n].op = "sign out"
    <2>1. Clears(n, "clears") /\ UNCHANGED phoneVars
      BY <1>2, <1>6 DEF Answered, phoneVars
    <2> QED BY <1>1, <1>2, <1>4, <2>1, ClearsKeeps
  <1>7. CASE request[n].op = "sign in"
    <2> DEFINE r == [request[n] EXCEPT !.at = "stores", !.token = request[n].for, !.todo = Items]
    <2>2. Becomes(n, r) /\ UNCHANGED phoneVars
      BY <1>2, <1>7 DEF Answered, phoneVars
    <2>3. /\ PhoneFields \subseteq DOMAIN r /\ r.op = request[n].op /\ r.for = request[n].for
          /\ r.at = "stores" /\ r.token = request[n].for /\ r.todo = Items
      BY <1>3 DEF PhoneFields
    <2> HIDE DEF r
    <2> QED BY <1>1, <1>2, <1>4, <1>7, <2>2, <2>3, PhoneCallGoesOn
  <1> QED BY <1>3, <1>5, <1>6, <1>7 DEF PhoneOps

LEMMA NeedsCodeKeeps ==
  ASSUME HandlerInv, PhoneInv, NEW n \in Requests, NeedsCode(n), HandlerStep(PhoneOps), UNCHANGED faults
  PROVE  PhoneInv'
  <1>1. PICK at : at = "sent" /\ at \notin Ended
    <2>1. "sent" \notin Ended
      BY DEF Ended
    <2> QED BY <2>1
  <1>2. OnPhone(n, at) /\ UNCHANGED <<keychain, shown, acted>> /\ challenge' = n
    BY <1>1 DEF NeedsCode
  <1>3. /\ n \in Busy /\ request[n].at = "sent" /\ request[n].op \in PhoneOps
        /\ PhoneFields \subseteq DOMAIN request[n] /\ request[n] = [f \in DOMAIN request[n] |-> request[n][f]]
    BY <1>1, <1>2, PhoneBusy
  <1>4. ~Rewriting(request[n])
    BY <1>3 DEF Rewriting
  <1> DEFINE r == [request[n] EXCEPT !.at = "awaits code", !.stepped = TRUE]
             gone == [op |-> "call", at |-> "refused"]
  <1>5. request' = [m \in Requests |-> IF m = n THEN r ELSE IF m = challenge THEN gone ELSE request[m]]
    BY DEF NeedsCode
  <1>6. /\ PhoneFields \subseteq DOMAIN r /\ r.op = request[n].op /\ r.for = request[n].for
        /\ r.at = "awaits code" /\ r.token = request[n].token
    BY <1>3 DEF PhoneFields
  <1>7. gone.at \in Ended /\ gone.at # "awaits code"
    BY DEF Ended
  <1> HIDE DEF r, gone
  <1>8. r = request'[n] /\ \A m \in Requests \ {n} : request'[m] = request[m] \/ request'[m].at \in Ended
    BY <1>5, <1>7
  <1>9. CodeInv'
    BY <1>2, <1>5, <1>7 DEF PhoneInv, CodeInv
  <1>10. PhoneFits(r)
    BY <1>6 DEF PhoneFits
  <1> QED BY <1>2, <1>3, <1>4, <1>6, <1>8, <1>9, <1>10, PhoneRests

LEMMA CodeEndsKeeps ==
  ASSUME HandlerInv, PhoneInv, NEW n \in Requests, EnterCode(n) \/ CancelCode(n), HandlerStep(PhoneOps), UNCHANGED faults
  PROVE  PhoneInv'
  <1>1. PICK at : at = "awaits code" /\ at \notin Ended
    <2>1. "awaits code" \notin Ended
      BY DEF Ended
    <2> QED BY <2>1
  <1>2. OnPhone(n, at) /\ UNCHANGED <<keychain, shown, acted>> /\ challenge = n
    BY <1>1 DEF EnterCode, CancelCode
  <1>3. /\ n \in Busy /\ request[n].at = "awaits code" /\ request[n].op \in PhoneOps
        /\ PhoneFields \subseteq DOMAIN request[n] /\ request[n] = [f \in DOMAIN request[n] |-> request[n][f]]
    BY <1>1, <1>2, PhoneBusy
  <1>4. ~Rewriting(request[n])
    BY <1>3 DEF Rewriting
  <1>5. \A m \in Requests \ {n} : request[m].at # "awaits code"
    BY <1>2 DEF PhoneInv, CodeInv
  <1>6. CASE CancelCode(n)
    <2>1. PICK to \in {"done", "refused"} : GoesTo(n, to)
      BY <1>6 DEF CancelCode
    <2> QED BY <1>1, <1>2, <1>4, <1>5, <2>1, PhoneCallEnds
  <1>7. CASE EnterCode(n)
    <2>1. PICK to : to = "attaches" /\ to \notin Ended
      <3>1. "attaches" \notin Ended
        BY DEF Ended
      <3> QED BY <3>1
    <2>2. GoesTo(n, to) /\ to # "not yet" /\ to # "awaits code"
      BY <1>7, <2>1 DEF EnterCode
    <2>3. PICK r : r = request'[n]
      OBVIOUS
    <2>4. /\ r.at = to /\ r.op = request[n].op /\ DOMAIN r = DOMAIN request[n]
          /\ \A f \in DOMAIN request[n] \ {"at"} : r[f] = request[n][f]
          /\ \A m \in Requests \ {n} : request'[m] = request[m]
      BY <1>3, <2>1, <2>2, <2>3, GoingOn
    <2>5. r.for = request[n].for /\ r.token = request[n].token
      BY <1>3, <2>4 DEF PhoneFields
    <2>6. PhoneFits(r)
      BY <1>3, <2>1, <2>4 DEF PhoneFits
    <2>7. CodeInv'
      BY <1>5, <2>2, <2>3, <2>4 DEF PhoneInv, CodeInv
    <2> QED BY <1>2, <1>3, <1>4, <2>1, <2>3, <2>4, <2>5, <2>6, <2>7, PhoneRests
  <1> QED BY <1>6, <1>7

(***************************************************************************)
(* The keychain, item by item.                                             *)
(***************************************************************************)
LEMMA ItemPut ==
  ASSUME PhoneInv, NEW item, NEW person, Puts(item, person)
  PROVE  /\ keychain' = [i \in Items |-> keychain'[i]]
         /\ \A i \in Items : keychain'[i] = IF i = item THEN person ELSE keychain[i]
  BY DEF PhoneInv, Puts

(* No sign-in stores while another request of the phone goes on by itself. *)
LEMMA NoneStores ==
  ASSUME HandlerInv, PhoneInv, SignsInAlone, NEW n \in Busy, request[n].op \in PhoneOps, request[n].at # "stores",
         NEW person, OnePerson(person)
  PROVE  /\ \A item \in Items : keychain[item] \in {person, Nobody}
         /\ request[n].op = "sign in" => shown = Nobody
         /\ request[n].op = "call" => request[n].for = person
         /\ request[n].token \in {person, Nobody}
  <1>1. \A m \in Requests : ~OnPhone(m, "stores")
    <2> SUFFICES ASSUME NEW m \in Requests, OnPhone(m, "stores") PROVE FALSE
      OBVIOUS
    <2>1. m \in Busy /\ request[m].at = "stores" /\ request[m].op \in PhoneOps
      BY DEF OnPhone, Busy, Ended
    <2>2. request[m].op = "sign in"
      BY <2>1 DEF PhoneInv, PhoneFits, Busy
    <2>3. m = n
      BY <2>1, <2>2, SignsInByItself
    <2> QED BY <2>1, <2>3
  <1> QED BY <1>1 DEF OnePerson, OfOne, OnPhoneNow, Busy

LEMMA KeepKeeps ==
  ASSUME HandlerInv, PhoneInv, NEW n \in Requests, Keep(n), HandlerStep(PhoneOps), UNCHANGED faults
  PROVE  PhoneInv'
  <1>1. PICK at : at = "keeps" /\ at \notin Ended
    <2>1. "keeps" \notin Ended
      BY DEF Ended
    <2> QED BY <2>1
  <1>2. OnPhone(n, at) /\ UNCHANGED <<shown, challenge, acted>>
    BY <1>1 DEF Keep
  <1>3. /\ n \in Busy /\ request[n].at = "keeps" /\ request[n].op \in PhoneOps
        /\ PhoneFields \subseteq DOMAIN request[n] /\ request[n] = [f \in DOMAIN request[n] |-> request[n][f]]
    BY <1>1, <1>2, PhoneBusy
  <1>4. PICK item \in request[n].todo :
          /\ Puts(item, request[n].token)
          /\ IF Left(n, item) # {} THEN GoesOn(n, item)
             ELSE Becomes(n, [request[n] EXCEPT !.todo = {}, !.at = IF request[n].op = "sign in" THEN "sent" ELSE "attaches"])
    BY DEF Keep
  <1>5. PICK token : token = request[n].token
    OBVIOUS
  <1>6. /\ keychain' = [i \in Items |-> keychain'[i]]
        /\ \A i \in Items : keychain'[i] = IF i = item THEN token ELSE keychain[i]
    BY <1>4, <1>5, ItemPut
  <1>7. PICK todo, to : /\ to \in {"keeps", "sent", "attaches"}
                        /\ Becomes(n, [request[n] EXCEPT !.todo = todo, !.at = to])
    <2>1. CASE Left(n, item) # {}
      <3>1. [request[n] EXCEPT !.todo = Left(n, item)] = [request[n] EXCEPT !.todo = Left(n, item), !.at = "keeps"]
        BY <1>3 DEF PhoneFields
      <3> QED BY <1>4, <2>1, <3>1 DEF GoesOn
    <2>2. CASE Left(n, item) = {}
      BY <1>4, <2>2
    <2> QED BY <2>1, <2>2
  <1> DEFINE r == [request[n] EXCEPT !.todo = todo, !.at = to]
  <1>8. /\ PhoneFields \subseteq DOMAIN r /\ r.op = request[n].op /\ r.for = request[n].for
        /\ r.at = to /\ to \in {"keeps", "sent", "attaches"} /\ r.token = token /\ Becomes(n, r)
    BY <1>3, <1>5, <1>7 DEF PhoneFields
  <1> HIDE DEF r
  <1>9. r = request'[n] /\ \A m \in Requests \ {n} : request'[m] = request[m]
    BY <1>3, <1>8, BecomingOn
  <1>10. PhoneFits(r) /\ to # "awaits code"
    BY <1>8 DEF PhoneFits
  <1>11. CodeInv'
    BY <1>2, <1>8, <1>9, <1>10, NoneWaitsAnew
  <1>12. ASSUME SignsInAlone, ActsAsOneself, NEW person, OnePerson(person) PROVE ActsAsOneself' /\ OnePerson(person)'
    <2>1. /\ \A i \in Items : keychain[i] \in {person, Nobody}
          /\ request[n].op = "sign in" => shown = Nobody
          /\ request[n].op = "call" => request[n].for = person
          /\ token \in {person, Nobody}
      BY <1>3, <1>5, <1>12, NoneStores
    <2>2. \A i \in Items : keychain'[i] \in {person, Nobody}
      BY <1>6, <2>1
    <2>3. OfOne(r, person, keychain', shown')
      BY <1>2, <1>8, <2>1 DEF OfOne, OnPhoneNow
    <2>4. \A m \in Requests \ {n} : OfOne(request[m], person, keychain', shown')
      <3> SUFFICES ASSUME NEW m \in Requests \ {n}, OnPhoneNow(request[m]), request[m].at = "stores" PROVE FALSE
        BY <1>2, <1>12 DEF OnePerson, OfOne
      <3>1. m \in Busy
        BY DEF OnPhoneNow, Busy
      <3>2. request[m].op = "sign in"
        BY DEF PhoneInv, PhoneFits, OnPhoneNow
      <3> QED BY <1>3, <1>12, <3>1, <3>2, SignsInByItself
    <2> QED BY <1>2, <1>9, <1>12, <2>2, <2>3, <2>4 DEF OnePerson, ActsAsOneself
  <1>13. ASSUME Whole, ~Rewriting(request[n]) => IsWhole
         PROVE  (~Rewriting(r) => IsWhole') /\ KeepsUp(r, keychain', shown')
    <2>1. IsWhole /\ token = shown
      BY <1>3, <1>5, <1>13 DEF Whole, KeepsUp, Rewriting
    <2>2. IsWhole'
      BY <1>2, <1>6, <2>1 DEF IsWhole
    <2> QED BY <1>2, <1>8, <2>1, <2>2 DEF KeepsUp
  <1> QED BY <1>3, <1>6, <1>8, <1>9, <1>10, <1>11, <1>12, <1>13, OneOnPhone

LEMMA StoreKeeps ==
  ASSUME HandlerInv, PhoneInv, NEW n \in Requests, Store(n), HandlerStep(PhoneOps), UNCHANGED faults
  PROVE  PhoneInv'
  <1>1. PICK at : at = "stores" /\ at \notin Ended
    <2>1. "stores" \notin Ended
      BY DEF Ended
    <2> QED BY <2>1
  <1>2. OnPhone(n, at) /\ UNCHANGED <<challenge, acted>>
    BY <1>1 DEF Store
  <1>3. /\ n \in Busy /\ request[n].at = "stores" /\ request[n].op \in PhoneOps /\ request[n].op = "sign in"
        /\ PhoneFields \subseteq DOMAIN request[n] /\ request[n] = [f \in DOMAIN request[n] |-> request[n][f]]
        /\ request[n].token = request[n].for
    BY <1>1, <1>2, PhoneBusy
  <1>4. PICK item \in request[n].todo :
          /\ Puts(item, request[n].token)
          /\ IF Left(n, item) # {} THEN GoesOn(n, item) /\ UNCHANGED shown
             ELSE shown' = request[n].for /\ GoesTo(n, "done")
    BY DEF Store
  <1>5. PICK owner : owner = request[n].for
    OBVIOUS
  <1>6. /\ keychain' = [i \in Items |-> keychain'[i]]
        /\ \A i \in Items : keychain'[i] = IF i = item THEN owner ELSE keychain[i]
    <2>1. Puts(item, owner)
      BY <1>3, <1>4, <1>5
    <2> QED BY <2>1, ItemPut
  <1>7. CASE Left(n, item) # {}
    <2> DEFINE r == [request[n] EXCEPT !.todo = Left(n, item)]
    <2>1. /\ PhoneFields \subseteq DOMAIN r /\ r.op = request[n].op /\ r.for = owner
          /\ r.at = "stores" /\ r.token = owner /\ r.todo = request[n].todo \ {item} /\ Becomes(n, r) /\ UNCHANGED shown
      BY <1>3, <1>4, <1>5, <1>7 DEF PhoneFields, GoesOn, Left
    <2> HIDE DEF r
    <2>2. r = request'[n] /\ \A m \in Requests \ {n} : request'[m] = request[m]
      BY <1>3, <2>1, BecomingOn
    <2>3. PhoneFits(r)
      BY <1>3, <2>1 DEF PhoneFits
    <2>4. CodeInv'
      BY <1>2, <2>1, <2>2, NoneWaitsAnew
    <2>5. (\A i \in Items \ request[n].todo : keychain[i] = owner) => \A i \in Items \ r.todo : keychain'[i] = owner
      BY <1>6, <2>1
    <2>6. ASSUME SignsInAlone, ActsAsOneself, NEW person, OnePerson(person) PROVE ActsAsOneself' /\ OnePerson(person)'
      <3>1. OfOne(request[n], person, keychain, shown) /\ OnPhoneNow(request[n])
        BY <1>1, <1>3, <2>6 DEF OnePerson, OnPhoneNow
      <3>2. OfOne(r, person, keychain', shown')
        BY <1>3, <1>5, <2>1, <2>5, <3>1 DEF OfOne
      <3>3. \A m \in Requests \ {n} : ~OnPhoneNow(request[m])
        BY <1>3, <2>6, SignsInByItself DEF OnPhoneNow, Busy
      <3>4. OnPhone(n, "stores")'
        BY <1>3, <2>1, <2>2 DEF OnPhone
      <3>5. \A m \in Requests : OfOne(request'[m], person, keychain', shown')
        BY <2>2, <3>2, <3>3 DEF OfOne
      <3> QED BY <1>2, <2>1, <2>6, <3>4, <3>5 DEF OnePerson, ActsAsOneself
    <2>7. ASSUME Whole PROVE Rewriting(r) /\ KeepsUp(r, keychain', shown')
      <3>1. \A i \in Items \ request[n].todo : keychain[i] = owner
        BY <1>3, <1>5, <2>7 DEF Whole, KeepsUp
      <3> QED BY <1>3, <2>1, <2>5, <3>1 DEF KeepsUp, Rewriting
    <2> QED BY <1>3, <1>6, <2>1, <2>2, <2>3, <2>4, <2>6, <2>7, OneOnPhone
  <1>8. CASE Left(n, item) = {}
    <2>0. PICK to : to = "done"
      OBVIOUS
    <2>1. to = "done" /\ to \in Ended /\ to # "not yet" /\ to # "awaits code"
      BY <2>0 DEF Ended
    <2>2. shown' = owner /\ GoesTo(n, to)
      BY <1>4, <1>5, <1>8, <2>1
    <2>3. PICK r : r = request'[n]
      OBVIOUS
    <2>4. r.at = to /\ r.op = request[n].op /\ \A m \in Requests \ {n} : request'[m] = request[m]
      BY <1>3, <2>1, <2>2, <2>3, GoingOn
    <2>5. PhoneFits(r) /\ ~Rewriting(r)
      BY <2>1, <2>4 DEF PhoneFits, Rewriting, Ended
    <2>6. CodeInv'
      BY <1>2, <2>1, <2>3, <2>4, NoneWaitsAnew
    <2>7. (\A i \in Items \ request[n].todo : keychain[i] = owner) => \A i \in Items : keychain'[i] = owner
      BY <1>6, <1>8 DEF Left
    <2>8. ASSUME SignsInAlone, ActsAsOneself, NEW person, OnePerson(person) PROVE ActsAsOneself' /\ OnePerson(owner)'
      <3>1. OfOne(request[n], person, keychain, shown) /\ OnPhoneNow(request[n])
        BY <1>1, <1>3, <2>8 DEF OnePerson, OnPhoneNow
      <3>2. \A i \in Items : keychain'[i] = owner
        BY <1>3, <1>5, <2>7, <3>1 DEF OfOne
      <3>3. \A m \in Requests \ {n} : ~OnPhoneNow(request[m])
        BY <1>3, <2>8, SignsInByItself DEF OnPhoneNow, Busy
      <3>4. ~OnPhoneNow(r)
        BY <2>1, <2>4 DEF OnPhoneNow
      <3>5. \A m \in Requests : OfOne(request'[m], owner, keychain', shown')
        BY <2>3, <2>4, <3>3, <3>4 DEF OfOne
      <3> QED BY <1>2, <2>2, <2>8, <3>2, <3>5 DEF OnePerson, ActsAsOneself
    <2>9. ASSUME Whole PROVE IsWhole' /\ KeepsUp(r, keychain', shown')
      <3>1. \A i \in Items \ request[n].todo : keychain[i] = owner
        BY <1>3, <1>5, <2>9 DEF Whole, KeepsUp
      <3> QED BY <2>1, <2>2, <2>4, <2>7, <3>1 DEF KeepsUp, IsWhole, Ended
    <2> QED BY <1>3, <1>6, <2>3, <2>4, <2>5, <2>6, <2>8, <2>9, OneOnPhone
  <1> QED BY <1>7, <1>8

LEMMA ClearKeeps ==
  ASSUME HandlerInv, PhoneInv, NEW n \in Requests, Clear(n), HandlerStep(PhoneOps), UNCHANGED faults
  PROVE  PhoneInv'
  <1>1. PICK at : at \in {"clears", "forces out"} /\ at \notin Ended /\ OnPhone(n, at)
    <2>1. {"clears", "forces out"} \cap Ended = {}
      BY DEF Ended
    <2>2. \E at \in {"clears", "forces out"} : OnPhone(n, at)
      BY DEF Clear
    <2> QED BY <2>1, <2>2
  <1>2. UNCHANGED <<challenge, acted>>
    BY DEF Clear
  <1>3. /\ n \in Busy /\ request[n].at = at /\ request[n].op \in PhoneOps
        /\ PhoneFields \subseteq DOMAIN request[n] /\ request[n] = [f \in DOMAIN request[n] |-> request[n][f]]
    BY <1>1, PhoneBusy
  <1>4. PICK item \in request[n].todo :
          /\ Puts(item, Cleared(item, keychain[item]))
          /\ IF Left(n, item) # {} THEN GoesOn(n, item) /\ UNCHANGED shown
             ELSE shown' = Nobody /\ GoesTo(n, IF request[n].at = "clears" THEN "done" ELSE "refused")
    BY DEF Clear
  <1>5. PICK none : none = Nobody
    OBVIOUS
  <1>6. /\ keychain' = [i \in Items |-> keychain'[i]]
        /\ \A i \in Items : keychain'[i] = IF i = item THEN none ELSE keychain[i]
    BY <1>4, <1>5, ItemPut DEF Cleared
  <1>7. shown' = shown \/ shown' = Nobody
    BY <1>4
  (* Whatever becomes of the request, the phone stays one person's. *)
  <1>8. ASSUME SignsInAlone, ActsAsOneself, NEW person, OnePerson(person), NEW r, r = request'[n],
               r.op = request[n].op, OnPhoneNow(r) => r.at # "stores" /\ r.for = request[n].for /\ r.token = request[n].token,
               \A m \in Requests \ {n} : request'[m] = request[m]
        PROVE  ActsAsOneself' /\ OnePerson(person)'
    <2>1. /\ \A i \in Items : keychain[i] \in {person, Nobody}
          /\ request[n].op = "sign in" => shown = Nobody
          /\ request[n].op = "call" => request[n].for = person
          /\ request[n].token \in {person, Nobody}
      BY <1>1, <1>3, <1>8, NoneStores
    <2>2. \A i \in Items : keychain'[i] \in {person, Nobody}
      BY <1>5, <1>6, <2>1
    <2>3. OfOne(r, person, keychain', shown')
      BY <1>7, <1>8, <2>1 DEF OfOne
    <2>4. \A m \in Requests \ {n} : OfOne(request[m], person, keychain', shown')
      <3> SUFFICES ASSUME NEW m \in Requests \ {n}, OnPhoneNow(request[m]), request[m].at = "stores" PROVE FALSE
        BY <1>7, <1>8 DEF OnePerson, OfOne
      <3>1. m \in Busy
        BY DEF OnPhoneNow, Busy
      <3>2. request[m].op = "sign in"
        BY DEF PhoneInv, PhoneFits, OnPhoneNow
      <3> QED BY <1>3, <1>8, <3>1, <3>2, SignsInByItself
    <2> QED BY <1>2, <1>7, <1>8, <2>2, <2>3, <2>4 DEF OnePerson, ActsAsOneself
  <1>9. Whole => \A i \in Items \ Left(n, item) : keychain'[i] = Nobody
    <2> SUFFICES ASSUME Whole PROVE \A i \in Items \ Left(n, item) : keychain'[i] = Nobody
      OBVIOUS
    <2>1. \A i \in Items \ request[n].todo : keychain[i] = Nobody
      BY <1>1, <1>3 DEF Whole, KeepsUp
    <2> QED BY <1>5, <1>6, <2>1 DEF Left
  <1>10. CASE Left(n, item) # {}
    <2> DEFINE r == [request[n] EXCEPT !.todo = Left(n, item)]
    <2>1. /\ PhoneFields \subseteq DOMAIN r /\ r.op = request[n].op /\ r.for = request[n].for
          /\ r.at = at /\ r.token = request[n].token /\ r.todo = Left(n, item) /\ Becomes(n, r) /\ UNCHANGED shown
      BY <1>3, <1>4, <1>10 DEF PhoneFields, GoesOn
    <2> HIDE DEF r
    <2>2. r = request'[n] /\ \A m \in Requests \ {n} : request'[m] = request[m]
      BY <1>3, <2>1, BecomingOn
    <2>3. PhoneFits(r) /\ Rewriting(r) /\ at # "awaits code"
      BY <1>1, <1>3, <2>1 DEF PhoneFits, Rewriting
    <2>4. CodeInv'
      BY <1>2, <2>1, <2>2, <2>3, NoneWaitsAnew
    <2>5. Whole => KeepsUp(r, keychain', shown')
      BY <1>1, <1>9, <2>1 DEF KeepsUp
    <2>6. OnPhoneNow(r) => r.at # "stores" /\ r.for = request[n].for /\ r.token = request[n].token
      BY <1>1, <2>1
    <2> QED BY <1>3, <1>6, <1>8, <2>1, <2>2, <2>3, <2>4, <2>5, <2>6, OneOnPhone
  <1>11. CASE Left(n, item) = {}
    <2>0. PICK to : to = IF request[n].at = "clears" THEN "done" ELSE "refused"
      OBVIOUS
    <2>1. to \in Ended /\ to # "not yet" /\ to # "awaits code"
      BY <2>0 DEF Ended
    <2>2. shown' = Nobody /\ GoesTo(n, to)
      BY <1>4, <1>11, <2>0
    <2>3. PICK r : r = request'[n]
      OBVIOUS
    <2>4. r.at = to /\ r.op = request[n].op /\ \A m \in Requests \ {n} : request'[m] = request[m]
      BY <1>3, <2>1, <2>2, <2>3, GoingOn
    <2>5. PhoneFits(r) /\ ~OnPhoneNow(r)
      BY <2>1, <2>4 DEF PhoneFits, OnPhoneNow
    <2>6. CodeInv'
      BY <1>2, <2>1, <2>3, <2>4, NoneWaitsAnew
    <2>7. Whole => IsWhole' /\ KeepsUp(r, keychain', shown')
      BY <1>9, <1>11, <2>1, <2>2, <2>4 DEF KeepsUp, IsWhole, Ended
    <2> QED BY <1>3, <1>6, <1>8, <2>3, <2>4, <2>5, <2>6, <2>7, OneOnPhone
  <1> QED BY <1>10, <1>11

(* A request of the phone comes in: for the person on screen, or, when     *)
(* there is none, to sign in.                                              *)
LEMMA PhoneStartsKeep ==
  ASSUME HandlerInv, PhoneInv, PhoneStarts, UNCHANGED faults
  PROVE  PhoneInv'
  <1>1. PICK op, at, person :
          /\ Starts(op, at, person) /\ op \in PhoneOps /\ at \in {"attaches", "sent"}
          /\ op = "sign in" => shown = Nobody
          /\ op # "sign in" => person = shown /\ shown # Nobody
    BY DEF PhoneStarts, Call, SignOut, SignIn, PhoneOps
  <1> DEFINE r == Phone(op, at, person)
  <1>2. /\ r.op = op /\ r.at = at /\ r.for = person /\ r.token = Nobody /\ PhoneFields \subseteq DOMAIN r
        /\ IsRequest(r) /\ r # NotYet /\ Arrives(r) /\ UNCHANGED phoneVars
    BY <1>1 DEF Phone, PhoneFields, Starts, IsRequest, NotYet
  <1> HIDE DEF r
  <1>3. HandlerStep(PhoneOps)
    BY <1>1, <1>2, Arriving
  <1>4. PICK n \in Requests : /\ request[n] = NotYet /\ request'[n] = r
                              /\ \A m \in Requests \ {n} : request'[m] = request[m]
    BY <1>2, Arriving
  <1>5. UNCHANGED <<keychain, shown, challenge, acted>> /\ at \notin {"stores", "awaits code", "refreshes", "keeps", "clears", "forces out"}
    BY <1>1, <1>2 DEF phoneVars
  <1>6. \A m \in Requests : PhoneFits(request'[m])
    BY <1>2, <1>4, <1>5 DEF PhoneInv, PhoneFits
  <1>7. CodeInv'
    BY <1>2, <1>4, <1>5, NoneWaitsAnew
  <1>8. ~OnPhone(n, "stores") /\ ~Rewriting(request[n])
    BY <1>4, NotYetEnded DEF OnPhone, Rewriting
  <1>9. PersonInv'
    <2> SUFFICES ASSUME faults' = 0, SignsInAlone' PROVE ActsAsOneself' /\ \E p : OnePerson(p)'
      BY DEF PersonInv
    <2>1. SignsInAlone
      BY <1>3, SignedInAloneBefore
    <2>2. PICK p : ActsAsOneself /\ OnePerson(p)
      BY <2>1 DEF PhoneInv, PersonInv
    <2>3. OfOne(r, p, keychain, shown)
      BY <1>1, <1>2, <1>5, <2>2 DEF OfOne, OnePerson
    <2>4. \A m \in Requests : OfOne(request'[m], p, keychain, shown)
      BY <1>4, <2>2, <2>3 DEF OnePerson
    <2>5. \A m \in Requests : OnPhone(m, "stores") => OnPhone(m, "stores")'
      BY <1>4, <1>8 DEF OnPhone
    <2>6. OnePerson(p)'
      BY <1>5, <2>2, <2>4, <2>5 DEF OnePerson
    <2> QED BY <1>5, <2>2, <2>6 DEF ActsAsOneself
  <1>10. WholeInv'
    <2> SUFFICES ASSUME faults' = 0, Calm(PhoneOps)' PROVE Whole'
      BY DEF WholeInv
    <2>1. PICK mine : mine = PhoneOps
      OBVIOUS
    <2>2. Calm(PhoneOps)
      BY <1>3, <2>1, CalmBefore
    <2>3. Whole
      BY <2>2 DEF PhoneInv, WholeInv
    <2>4. KeepsUp(r, keychain, shown)
      BY <1>2, <1>5 DEF KeepsUp
    <2>5. \A m \in Requests : KeepsUp(request'[m], keychain, shown)
      BY <1>4, <2>3, <2>4 DEF Whole
    <2>6. \A m \in Requests : Rewriting(request[m]) => Rewriting(request'[m])
      BY <1>4, <1>8
    <2> QED BY <1>5, <2>3, <2>5, <2>6 DEF Whole, IsWhole
  <1>11. keychain' = [i \in Items |-> keychain'[i]]
    BY <1>5 DEF PhoneInv
  <1> QED BY <1>6, <1>7, <1>9, <1>10, <1>11 DEF PhoneInv

LEMMA PhoneKeepsPhone ==
  ASSUME HandlerInv, ChallengeInv, PhoneInv, PhoneNext, UNCHANGED faults PROVE PhoneInv'
  <1>1. HandlerStep(PhoneOps)
    BY PhoneRequests
  <1>2. \A n \in Requests : PhoneSteps(n) => PhoneInv'
    BY <1>1, AttachKeeps, AnsweredKeeps, IsRejectedKeeps, UnauthorizedKeeps, ReadRefreshKeeps, RefreshKeeps, KeepKeeps,
       StoreKeeps, ClearKeeps, NeedsCodeKeeps, CodeEndsKeeps DEF PhoneSteps
  <1> QED BY <1>2, PhoneStartsKeep DEF PhoneNext

LEMMA KillKeepsPhone ==
  ASSUME HandlerInv, ChallengeInv, PhoneInv, AppIsKilled, faults' \in Nat, faults' # 0 PROVE PhoneInv'
  <1>1. keychain' = keychain
    BY DEF AppIsKilled
  <1>2. ASSUME NEW n \in Requests PROVE PhoneFits(request'[n]) /\ request'[n].at # "awaits code"
    <2> DEFINE gone == [op |-> request[n].op, at |-> "died"]
    <2>1. gone.at = "died" /\ gone.op = request[n].op
      OBVIOUS
    <2>2. request'[n] = IF n \in Busy /\ request[n].op \in PhoneOps THEN gone ELSE request[n]
      BY DEF AppIsKilled
    <2> HIDE DEF gone
    <2>3. CASE n \in Busy /\ request[n].op \in PhoneOps
      BY <2>1, <2>2, <2>3 DEF PhoneFits, Ended
    <2>4. CASE ~(n \in Busy /\ request[n].op \in PhoneOps)
      <3>1. request[n].at = "awaits code" => request[n].op \in PhoneOps /\ n \in Busy
        BY DEF PhoneInv, CodeInv, ChallengeInv, Is, PhoneOps, Busy, Ended
      <3> QED BY <2>2, <2>4, <3>1 DEF PhoneInv
    <2> QED BY <2>3, <2>4
  <1> QED BY <1>1, <1>2 DEF PhoneInv, CodeInv, PersonInv, WholeInv

LEMMA FaultKeepsPhone == ASSUME RequestsInv, PhoneInv, Fault PROVE PhoneInv'
  <1> USE DEF RequestsInv
  <1>1. PICK n \in Requests :
          \/ Dies(n)
          \/ TransferIsLost(n) /\ TransferFrame
          \/ RailAnswerIsLost(n) /\ RemittanceFrame
          \/ RedisFails(n) /\ AuthorizeFrame
          \/ LenderAnswerIsLost(n) /\ LoanFrame
          \/ AppIsKilled /\ PhoneFrame
          \/ (KeyIsNotRead(n) \/ AnswerIsNotStored) /\ KeyedFrame
    BY DEF Fault
  <1>2. faults' \in Nat /\ faults' # 0
    BY FaultIsCounted DEF PhoneInv
  <1>3. CASE AppIsKilled /\ PhoneFrame
    BY <1>2, <1>3, KillKeepsPhone
  <1>4. CASE ~(AppIsKilled /\ PhoneFrame)
    <2>1. UNCHANGED phoneVars
      BY <1>1, <1>4 DEF Dies, planeVars, TransferFrame, RemittanceFrame, AuthorizeFrame, LoanFrame, KeyedFrame
    <2>2. CASE AnswerIsNotStored
      <3>1. PICK ops : ops = {}
        OBVIOUS
      <3>2. HandlerStep(ops) /\ NoneAsked /\ ops \cap PhoneOps = {}
        BY <2>2, <3>1, Resting DEF AnswerIsNotStored, sharedVars
      <3>3. Unmoved(PhoneOps)
        BY <3>2, OthersUnmoved
      <3> QED BY <1>2, <2>1, <3>2, <3>3, OthersKeepPhone
    <2>3. CASE ~AnswerIsNotStored
      <3>1. n \in Busy /\ request[n].op \notin PhoneOps
        BY <1>1, <1>4, <2>3, IsBusy DEF Dies, TransferIsLost, RailAnswerIsLost, RedisFails, LenderAnswerIsLost, KeyIsNotRead,
                                        Is, Busy, Ended, PhoneOps
      <3>2. Serves(n)
        <4>1. CASE Dies(n)
          BY <4>1 DEF Dies, Serves
        <4>2. CASE TransferIsLost(n) \/ RailAnswerIsLost(n)
          <5>1. PICK at \in {"died", "reward", "done"} : GoesTo(n, at)
            BY <4>2 DEF RailAnswerIsLost, TransferIsLost, AfterTransfer
          <5> QED BY <5>1 DEF Serves
        <4>3. CASE RedisFails(n)
          BY <3>1, <4>3, InProgress DEF RedisFails, Scores, CountsOn, Answers, AfterAnswer, Serves, IsRequest, NotYet
        <4>4. CASE LenderAnswerIsLost(n) \/ KeyIsNotRead(n)
          BY <4>4 DEF LenderAnswerIsLost, KeyIsNotRead, KeyedTo, Serves
        <4> QED BY <1>1, <1>4, <2>3, <4>1, <4>2, <4>3, <4>4
      <3>3. PICK ops : ops = {request[n].op}
        OBVIOUS
      <3>4. HandlerStep(ops) /\ NoneAsked
        BY <3>1, <3>2, <3>3, Serving
      <3>5. Unmoved(PhoneOps)
        BY <3>1, <3>3, <3>4, OthersUnmoved
      <3> QED BY <1>2, <2>1, <3>4, <3>5, OthersKeepPhone
    <2> QED BY <2>2, <2>3
  <1> QED BY <1>3, <1>4

LEMMA PhoneGoesOn == ASSUME RequestsInv, PhoneInv, [Next]_vars PROVE PhoneInv'
  <1> USE DEF RequestsInv
  <1>1. CASE (TransferNext \/ SavingsNext \/ RemittanceNext \/ AuthorizeNext \/ CardNext \/ LoanNext \/ KeyedNext)
               /\ UNCHANGED faults
    <2>1. UNCHANGED phoneVars
      BY <1>1 DEF TransferNext, TransferFrame, SavingsNext, SavingsFrame, RemittanceNext, RemittanceFrame, AuthorizeNext,
                  AuthorizeFrame, CardNext, CardFrame, LoanNext, LoanFrame, KeyedNext, KeyedFrame
    <2>2. PICK ops : HandlerStep(ops) /\ NoneAsked /\ ops \cap PhoneOps = {}
      <3>1. \A ops \in {{"transfer"}, SavingsOps, RemittanceOps, {"authorize"}, CardOps, LoanOps, {"keyed"}} :
              ops \cap PhoneOps = {}
        BY DEF SavingsOps, CardOps, Managing, LoanOps, PhoneOps, RemittanceOps
      <3>2. PICK ops \in {{"transfer"}, SavingsOps, RemittanceOps, {"authorize"}, CardOps, LoanOps, {"keyed"}} :
              HandlerStep(ops) /\ NoneAsked
        BY <1>1, TransferRequests, SavingsRequests, RemittanceRequests, AuthorizeRequests, CardRequests,
           LoanRequests, KeyedRequests
      <3> QED BY <3>1, <3>2
    <2>3. Unmoved(PhoneOps)
      BY <2>2, OthersUnmoved
    <2>4. faults' \in Nat /\ faults' = faults
      BY <1>1 DEF PhoneInv
    <2> QED BY <2>1, <2>2, <2>3, <2>4, OthersKeepPhone
  <1>2. CASE (Passes /\ UNCHANGED faults) \/ UNCHANGED vars
    <2>1. UNCHANGED <<phoneVars, handlerVars, faults>>
      BY <1>2 DEF Passes, NextDay, planeVars, vars, sharedVars
    <2>2. PICK ops : ops = {}
      OBVIOUS
    <2>3. HandlerStep(ops) /\ NoneAsked
      BY <2>1, <2>2, Resting
    <2>4. Unmoved(PhoneOps)
      BY <2>2, <2>3, OthersUnmoved
    <2>5. faults' \in Nat /\ faults' = faults
      BY <2>1 DEF PhoneInv
    <2> QED BY <2>1, <2>3, <2>4, <2>5, OthersKeepPhone
  <1> QED BY <1>1, <1>2, PhoneKeepsPhone, FaultKeepsPhone DEF Next

LEMMA PhoneStartsOnes == Init => PhoneInv
  <1> SUFFICES ASSUME Init PROVE PhoneInv
    OBVIOUS
  <1>1. keychain = [item \in Items |-> shown] /\ challenge = 0 /\ acted = {} /\ faults = 0
    BY DEF Init, InitPhone
  <1>2. \A n \in Requests : request[n] = NotYet
    BY DEF Init, InitShared, InitHandlers
  <1>3. NotYet.at \in Ended /\ NotYet.at = "not yet"
    BY DEF NotYet, Ended
  <1>4. \A n \in Requests : PhoneFits(request[n])
    BY <1>2, <1>3 DEF PhoneFits
  <1>5. OnePerson(shown)
    BY <1>1, <1>2, <1>3 DEF OnePerson, OfOne, OnPhoneNow
  <1>6. Whole
    BY <1>1, <1>2, <1>3 DEF Whole, IsWhole, KeepsUp
  <1> QED BY <1>1, <1>2, <1>3, <1>4, <1>5, <1>6 DEF PhoneInv, CodeInv, PersonInv, WholeInv, ActsAsOneself

(* As long as the app is not killed and nobody signs in beside another     *)
(* request, a call acts for the one who made it; with one request at a     *)
(* time the tokens in the keychain are those of the person on screen; and  *)
(* the modal asks for the code of the call that waits (api.ts, auth store, *)
(* step-up modal).                                                         *)
THEOREM SessionIsOnePersonsHolds == Spec => []SessionIsOnePersons
  <1>1. Spec => []WalletInv
    BY WalletHolds
  <1>2. WalletInv => RequestsInv
    BY DEF WalletInv
  <1>3. RequestsInv /\ PhoneInv /\ [Next]_vars => PhoneInv'
    BY PhoneGoesOn
  <1> QED BY <1>1, <1>2, <1>3, PhoneStartsOnes, PhoneIsOnes, PTL DEF Spec
============================================================================
