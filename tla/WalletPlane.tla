---------------------------- MODULE WalletPlane ----------------------------
(***************************************************************************)
(* The wallet plane: transfers, savings, remittances, cards with their     *)
(* authorizations, loans, the phone the employee uses them from, and calls *)
(* with a key, all interleaved await by await.  A request may die anywhere *)
(* (its process crashes, or its database connection is lost): what it has  *)
(* not committed is then never done, and nothing resumes it.               *)
(***************************************************************************)
EXTENDS Transfers, Savings, Remittance, Authorize, EwaLoan, MobileSession, KeyedCalls

CONSTANTS
  MaxFaults,  \* bound: requests that die, commits and answers that are lost
  Mixes       \* bound: the services the requests of one behaviour are for

ASSUME MaxFaultsIsNatural == MaxFaults \in Nat

VARIABLES faults, mix

planeVars == <<rewarded, goal, remittanceVars, cardVars, authorizeVars, loanVars, phoneVars, keyedVars>>
vars == <<sharedVars, planeVars, faults, mix>>

Init ==
  /\ InitShared
  /\ InitTransfers
  /\ InitSavings
  /\ InitRemittance
  /\ InitCards
  /\ InitAuthorize
  /\ InitLoans
  /\ InitPhone
  /\ InitKeyed
  /\ faults = 0
  /\ mix \in Mixes

Dies(n) ==
  /\ n \in Busy /\ request[n].op \notin PhoneOps
  /\ GoesTo(n, "died")
  /\ UNCHANGED <<walletVars, planeVars>>

TransferFrame == UNCHANGED <<goal, remittanceVars, cardVars, authorizeVars, loanVars, phoneVars, keyedVars>>
SavingsFrame == UNCHANGED <<rewarded, remittanceVars, cardVars, authorizeVars, loanVars, phoneVars, keyedVars>>
RemittanceFrame == UNCHANGED <<rewarded, goal, cardVars, authorizeVars, loanVars, phoneVars, keyedVars>>
CardFrame == UNCHANGED <<rewarded, goal, remittanceVars, authorizeVars, loanVars, phoneVars, keyedVars>>
AuthorizeFrame == UNCHANGED <<rewarded, goal, remittanceVars, cardVars, loanVars, phoneVars, keyedVars>>
LoanFrame == UNCHANGED <<rewarded, goal, remittanceVars, cardVars, authorizeVars, phoneVars, keyedVars>>
PhoneFrame == UNCHANGED <<rewarded, goal, remittanceVars, cardVars, authorizeVars, loanVars, keyedVars>>
KeyedFrame == UNCHANGED <<rewarded, goal, remittanceVars, cardVars, authorizeVars, loanVars, phoneVars>>

TransferNext ==
  /\ "transfers" \in mix
  /\ TransferArrives \/ \E n \in Requests : TransferSteps(n)
  /\ TransferFrame

SavingsNext ==
  /\ "savings" \in mix
  /\ \/ SavingsArrives
     \/ \E g \in Goals : CreateGoal(g)
     \/ \E n \in Requests : SavingsSteps(n)
  /\ SavingsFrame

RemittanceNext ==
  /\ "remittance" \in mix
  /\ \/ RemittanceArrives
     \/ \E q \in Quotes : LockQuote(q) \/ QuoteExpires(q)
     \/ \E t \in Requests, verdict \in {"succeeded", "failed"} : RailDecides(t, verdict)
     \/ \E n \in Requests : RemittanceSteps(n)
  /\ RemittanceFrame

CardNext ==
  /\ \/ "card control" \in mix /\ ControlArrives
     \/ "card expiry" \in mix /\ (IssuerExpires \/ StatusEvent)
     \/ "card tokens" \in mix /\ Manage("tokenize")
     \/ "card events" \in mix /\ EventArrives
     \/ "card orders" \in mix /\ OrderCard
     \/ \E n \in Requests : CardSteps(n)
  /\ CardFrame

AuthorizeNext ==
  /\ "authorizations" \in mix
  /\ \/ \E a \in Attempts : Authorization(a)
     \/ VelocityExpires
     \/ \E n \in Requests : AuthorizeSteps(n)
  /\ AuthorizeFrame

LoanNext ==
  /\ "loans" \in mix
  /\ \/ \E principal \in Principals : RequestAdvance(principal)
     \/ BatchUpdate
     \/ ScoreAges
     \/ \E m \in Requests, decision \in Decisions : LenderDecides(m, decision) \/ LenderReport(m, decision)
     \/ \E n \in Requests : LoanSteps(n)
  /\ LoanFrame

PhoneNext ==
  /\ "phone" \in mix
  /\ PhoneStarts \/ \E n \in Requests : PhoneSteps(n)
  /\ PhoneFrame

KeyedNext ==
  /\ "keyed calls" \in mix
  /\ \/ KeyedArrives
     \/ \E w \in onTheWay : StoreAnswer(w)
     \/ \E n \in Requests : KeyedSteps(n)
  /\ KeyedFrame

Fault ==
  /\ faults < MaxFaults
  /\ faults' = faults + 1
  /\ \E n \in Requests :
       \/ Dies(n)
       \/ TransferIsLost(n) /\ TransferFrame
       \/ RailAnswerIsLost(n) /\ RemittanceFrame
       \/ RedisFails(n) /\ AuthorizeFrame
       \/ LenderAnswerIsLost(n) /\ LoanFrame
       \/ AppIsKilled /\ PhoneFrame
       \/ (KeyIsNotRead(n) \/ AnswerIsNotStored) /\ KeyedFrame

(* Only the card's events look at the day. *)
Passes == "card events" \in mix /\ NextDay /\ UNCHANGED planeVars

Next ==
  \/ (TransferNext \/ SavingsNext \/ RemittanceNext \/ CardNext \/ AuthorizeNext \/ LoanNext
        \/ PhoneNext \/ KeyedNext \/ Passes)
       /\ UNCHANGED <<faults, mix>>
  \/ Fault /\ UNCHANGED mix

Spec == Init /\ [][Next]_vars

(***************************************************************************)
(* Properties                                                              *)
(***************************************************************************)

Ops == {"transfer", "deposit", "withdraw", "send", "report", "freeze", "unfreeze",
        "tokenize", "status", "order", "event", "authorize", "ewa", "batch", "lender report", "keyed"} \cup PhoneOps
Types == {"TRANSFER", "RECEIVE", "REFERRAL_REWARD", "SAVINGS_TRANSFER", "REMITTANCE",
          "REFUND", "FEE", "CARD_PURCHASE", "CASHBACK"}

(* Every variable stays in its type.  The wallet is an integer, not a      *)
(* natural: no constraint of the database keeps a balance from going below *)
(* zero.                                                                   *)
TypeOK ==
  /\ wallet \in [Employees -> Int]
  /\ \A row \in ledger :
       /\ row.by \in Requests /\ row.employee \in Employees /\ row.type \in Types
       /\ row.total \in Int /\ row.status \in {"COMPLETED", "FAILED"} /\ row.day \in 0..today
  /\ today \in 0..LastDay
  /\ \A n \in Requests : request[n] = NotYet \/ request[n].op \in Ops
  /\ met \subseteq {{m, n} : m, n \in Requests}
  /\ rewarded \in [DOMAIN Referrer -> BOOLEAN]
  /\ goal \in [Goals -> [status : {"none", "ACTIVE", "COMPLETED"}, saved : Int]]
  /\ quote \in [Quotes -> {"none", "locked", "gone"}]
  /\ sent \in [Requests -> Quotes \cup {"direct", "nothing"}]
  /\ verdicts \in [Requests -> SUBSET {"succeeded", "failed"}]
  /\ card \in [status : {"ACTIVE", "BLOCKED", "EXPIRED"}, spent : Nat, day : 0..today]
  /\ issuer \in {"ACTIVE", "BLOCKED", "EXPIRED"}
  /\ plastic \subseteq Requests
  /\ hasPlastic \in BOOLEAN /\ carried \in BOOLEAN
  /\ {velocity, window} \cup {a.earlier : a \in approvals} \subseteq [count : Nat, amount : Nat]
  /\ credit \in [counted : 0..MaxRequests, fresh : BOOLEAN] /\ aged \in 0..MaxRequests
  /\ lender \in [Requests -> Decisions \cup {"none", "requested"}]
  /\ said \in [Requests -> SUBSET Decisions]
  /\ \A n \in Requests : loan[n] # NoLoan => loan[n].principal \in Principals
  /\ paidOut \subseteq Requests /\ unknown \subseteq Requests \X Requests
  /\ keychain \in [Items -> Employees \cup {Nobody}] /\ shown \in Employees \cup {Nobody}
  /\ challenge \in 0..MaxRequests /\ acted \subseteq [for : Employees, as : Employees]
  /\ kept \in [Keys -> Statuses \cup {"none"}]
  /\ onTheWay \subseteq [key : Keys, by : Requests, status : Statuses]
  /\ ran \subseteq [key : Keys, by : Requests, alone : BOOLEAN]
  /\ unheard \subseteq Requests
  /\ faults \in 0..MaxFaults /\ mix \in Mixes

(* Every balance is the opening balance and what the employee's rows say   *)
(* happened to it, and a goal holds what its rows moved into it: no        *)
(* service moves money without the row that tells of it, whatever races,   *)
(* dies or is rolled back on the way.                                      *)
LedgerExplainsBalances ==
  /\ \A e \in Employees : wallet[e] = Opening[e] + SumOf(Effect, RowsOf(e))
  /\ \A g \in Goals : goal[g].saved = SavedInto(g)

CheckedDebits(e) == {row \in RowsOf(e) : Effect(row) < 0 /\ row.type # "CARD_PURCHASE"}
Withdrawals(g) == {row \in ledger : row.ref = <<"goal", g>> /\ row.note = "withdrawal"}
SomeOverlap(rows) == \E r, s \in rows : r.by # s.by /\ Overlapped(r.by, s.by)
Purchased(e) == -SumOf(Effect, {row \in RowsOf(e) : row.type = "CARD_PURCHASE"})

(* A transfer, a deposit, a remittance and the card fee check the balance  *)
(* before they take from it, and a withdrawal what was saved.  What card   *)
(* purchases (which nobody checks here) do not account for goes below zero *)
(* only if two of those requests were in progress at once.                 *)
OverdraftNeedsOverlap ==
  /\ \A e \in Employees : wallet[e] + Purchased(e) < 0 => SomeOverlap(CheckedDebits(e))
  /\ \A g \in Goals : goal[g].saved < 0 => SomeOverlap(Withdrawals(g))

(* An idempotency key names one row, so a transfer retried with its key,   *)
(* a card event and a refund have moved money once; and what a transfer    *)
(* took, less its fee, has reached its recipient.                          *)
KeyMovesMoneyOnce ==
  /\ \A r, s \in ledger : r.key = s.key /\ r.key # NoKey => r = s
  /\ \A r \in ledger : r.type = "TRANSFER" =>
       \E s \in ledger : /\ s.type = "RECEIVE" /\ s.by = r.by /\ s.employee # r.employee
                         /\ s.total = -r.total - FeeOf(r.employee)

Refunds(row) == {s \in ledger : s.type = "REFUND" /\ s.ref = row.ref}

(* A remittance is FAILED exactly when it has been refunded, once, in full *)
(* and to the employee who paid, and MoneyHash has reported it failed,     *)
(* whatever reports come twice, late or against each other.                *)
RefundMirrorsFailure ==
  \A row \in ledger : row.type = "REMITTANCE" =>
    LET refunds == Refunds(row) IN
    IF row.status = "FAILED"
      THEN /\ Cardinality(refunds) = 1
           /\ \A s \in refunds : s.total = row.total /\ s.employee = row.employee
           /\ \E t \in Requests : row.ref = <<"transfer", t>> /\ "failed" \in verdicts[t]
      ELSE refunds = {}

(* Money that MoneyHash has sent, and a physical card NymCard has issued,  *)
(* have been charged, unless the request is about to or has died; a card   *)
(* is also free when the holder had one already, which is found out last.  *)
WorkOutsideIsCharged ==
  /\ \A t \in Requests : RemittanceRows(t) # {} => sent[t] # "nothing"
  /\ \A t \in Requests : sent[t] # "nothing" =>
       RemittanceRows(t) # {} \/ request[t].at \in {"debits", "died"}
  /\ \A n \in plastic :
       \/ \E row \in ledger : row.type = "FEE" /\ row.by = n
       \/ request[n].at \in {"writes", "died"}
       \/ request[n].at = "refused" /\ hasPlastic

(* Each of these is done twice only by two requests in progress at once: a *)
(* referral is rewarded, a locked quote is sent, a month's cashback goes   *)
(* on past its cap, and the handler of an idempotency key runs: unless     *)
(* Redis fails, or has not yet stored the answer when the next call comes. *)
OnceOnlyNeedsOverlap ==
  /\ \A r, s \in ledger :
       r.type = "REFERRAL_REWARD" /\ s.type = "REFERRAL_REWARD" /\ r.ref = s.ref /\ r.by # s.by
         => Overlapped(r.by, s.by)
  /\ \A m, n \in Requests :
       m # n /\ sent[m] = sent[n] /\ sent[m] \in Quotes => Overlapped(m, n)
  /\ \A d \in 0..LastDay :
       SumOf(Total, CashbackRows(d)) > CashbackCap => SomeOverlap(CashbackRows(d))
  /\ faults > 0 \/ \A u, v \in ran :
       u.key = v.key /\ u.by # v.by /\ u.alone /\ v.alone => Overlapped(u.by, v.by)

Doing(ops) == {n \in Requests : request[n] # NotYet /\ request[n].op \in ops}

(* While Redis works and no two authorizations overlap, an approval is one *)
(* the fraud score allows for everything answered on the card in the       *)
(* window: what was declined, or answered late, does not drop out of it.   *)
BurstsAreDeclined ==
  \/ \A a \in approvals : Risk(a.asks, a.earlier) <= DeclineAbove
  \/ \E m, n \in Doing({"authorize"}) : Overlapped(m, n)
  \/ faults > 0

Undisturbed(ops) ==
  /\ \A n \in Doing(ops) : request[n].at \in {"done", "refused"}
  /\ \A m, n \in Doing(ops) : m # n => ~Overlapped(m, n)

(* The card's row says what NymCard's does once the requests about it have *)
(* ended and an expiry has been delivered, unless two of them overlapped   *)
(* or one died between the issuer and the row.                             *)
CardFollowsIssuer ==
  (/\ Undisturbed({"freeze", "unfreeze", "status"})
   /\ issuer = "EXPIRED" => Doing({"status"}) # {})
  => card.status = issuer

TodaysEvents == {row \in ledger : row.note = "card" /\ row.day = today}

(* spentToday lies between what today's events add up to (a refund of an   *)
(* earlier day leaves it at zero) and today's purchases, unless events     *)
(* overlapped, one was read before midnight and written after, or another  *)
(* update of the row has made an earlier day's counter look like today's.  *)
SpentTodayIsTodays ==
  (card.day = today /\ TodaysEvents # {} /\ ~carried /\ Undisturbed({"event"})) =>
    /\ card.spent >= -SumOf(Effect, TodaysEvents)
    /\ card.spent <= -SumOf(Effect, {row \in TodaysEvents : row.type = "CARD_PURCHASE"})

(* A loan follows the lender.  A score that is not a day old counts the    *)
(* defaults shown all along since it last was, unless two computed it at   *)
(* once; a disbursement that was reported stays on the loan through later  *)
(* reports, unless two were in progress at once; and a report finds the    *)
(* loan it is about unless it overtakes the request that is creating it,   *)
(* or that request ended after it had called the lender.                   *)
LoansKeepTrack ==
  /\ credit.fresh =>
       \/ credit.counted >= aged
       \/ \E m, n \in Doing({"ewa", "batch"}) : Overlapped(m, n)
  /\ \A m \in paidOut :
       \/ loan[m].disbursed
       \/ \E i, j \in Doing({"lender report"}) : Overlapped(i, j)
  /\ \A w \in unknown : Overlapped(w[1], w[2]) \/ request[w[2]].at \in {"refused", "died"}

(* A call is executed as the person it was made for, unless a sign-in was  *)
(* in progress with something else or the application was killed.  Once    *)
(* what was done one thing at a time has ended, the keychain's three items *)
(* are those of the person on screen.  And a call that waits for a step-up *)
(* code is the one the modal asks for: no other is left to wait forever.   *)
SessionIsOnePersons ==
  /\ \/ \A call \in acted : call.as = call.for
     \/ \E m \in Doing({"sign in"}), n \in Doing(PhoneOps) : Overlapped(m, n)
     \/ faults > 0
  /\ (Undisturbed(PhoneOps) /\ faults = 0) => \A item \in Items : keychain[item] = shown
  /\ \A n \in Requests : request[n].at = "awaits code" => challenge = n

(***************************************************************************)
(* What the documents say and the code does not do                         *)
(***************************************************************************)

(* A call that is made again with what it was refused for, a code or a     *)
(* fresh token, is tried: it is not answered with the refusal itself.      *)
MendedCallIsTried == unheard = {}
============================================================================
