---------------------------- MODULE Remittance ----------------------------
(***************************************************************************)
(* Remittances: the quote the mobile gateway locks in Redis                *)
(* (mobile-api/remittance.service.ts), the send (remittance.service.ts),   *)
(* MoneyHash, which is external, and its status webhook                    *)
(* (moneyhash-remittance.webhook.ts).  A transfer is named by the request  *)
(* that made it.                                                           *)
(***************************************************************************)
EXTENDS EmployeeWallet

CONSTANTS
  Quotes,      \* quote ids
  QuoteHolder, \* the employee a quote is issued to
  Price        \* totalDebit, the amount and the fee on it

ASSUME QuotesAreNamed == Quotes \cap {"direct", "nothing"} = {}
ASSUME PriceIsNatural == Price \in Nat

VARIABLES
  quote,    \* the lock of each quote in Redis
  sent,     \* what each request has sent: a quote, "direct" or "nothing"
  verdicts  \* what MoneyHash reports of each of them

remittanceVars == <<quote, sent, verdicts>>

InitRemittance ==
  /\ quote = [q \in Quotes |-> "none"]
  /\ sent = [n \in Requests |-> "nothing"]
  /\ verdicts = [t \in Requests |-> {}]

(***************************************************************************)
(* MobileRemittanceService: quote, send                                    *)
(***************************************************************************)
LockQuote(q) ==
  /\ quote[q] = "none"
  /\ quote' = [quote EXCEPT ![q] = "locked"]
  /\ UNCHANGED <<sharedVars, sent, verdicts>>

QuoteExpires(q) ==
  /\ quote[q] = "locked"
  /\ quote' = [quote EXCEPT ![q] = "gone"]
  /\ UNCHANGED <<sharedVars, sent, verdicts>>

SendQuote(e, q) ==
  /\ Arrives([op |-> "send", at |-> "reads quote", who |-> e, quote |-> q])
  /\ UNCHANGED <<walletVars, remittanceVars>>

ReadQuote(n) ==
  LET r == request[n] IN
  /\ Is(n, "send", "reads quote")
  /\ GoesTo(n, IF quote[r.quote] = "locked" /\ QuoteHolder[r.quote] = r.who
                 THEN "drops quote" ELSE "refused")
  /\ UNCHANGED <<walletVars, remittanceVars>>

(* Mutant: the quote stays until it expires. *)
Kept(q) == quote
Dropped(q) == [quote EXCEPT ![q] = "gone"]

DropQuote(n) ==
  /\ Is(n, "send", "drops quote")
  /\ quote' = Dropped(request[n].quote)
  /\ GoesTo(n, "checks")
  /\ UNCHANGED <<walletVars, sent, verdicts>>

(***************************************************************************)
(* remittanceService.send                                                  *)
(***************************************************************************)
Send(e) ==
  /\ Arrives([op |-> "send", at |-> "checks", who |-> e, quote |-> "direct"])
  /\ UNCHANGED <<walletVars, remittanceVars>>

(* Mutant: the wallet is debited before the rail is called. *)
DebitFirst == "debits"
AfterCheck == "calls rail"

CheckSend(n) ==
  /\ Is(n, "send", "checks")
  /\ GoesTo(n, IF wallet[request[n].who] >= Price THEN AfterCheck ELSE "refused")
  /\ UNCHANGED <<walletVars, remittanceVars>>

CallRail(n) ==
  /\ Is(n, "send", "calls rail")
  /\ sent' = [sent EXCEPT ![n] = request[n].quote]
  /\ GoesTo(n, "debits")
  /\ UNCHANGED <<walletVars, quote, verdicts>>

RailRefuses(n) ==
  /\ Is(n, "send", "calls rail")
  /\ Refused(n)
  /\ UNCHANGED remittanceVars

(* MoneyHash has the transfer, and its answer does not come. *)
RailAnswerIsLost(n) ==
  /\ Is(n, "send", "calls rail")
  /\ sent' = [sent EXCEPT ![n] = request[n].quote]
  /\ GoesTo(n, "died")
  /\ UNCHANGED <<walletVars, quote, verdicts>>

CommitSend(n) ==
  LET e == request[n].who IN
  /\ Is(n, "send", "debits")
  /\ Posts([wallet EXCEPT ![e] = @ - Price],
           ledger \cup {Row(n, e, "REMITTANCE", Price, NoKey, <<"transfer", n>>, "")})
  /\ GoesTo(n, "done")
  /\ UNCHANGED remittanceVars

(***************************************************************************)
(* MoneyHash and its webhook: a report may come at any time after the      *)
(* verdict, in any order and more than once.  "failed" stands for failed   *)
(* and reversed.                                                           *)
(***************************************************************************)
RailDecides(t, verdict) ==
  /\ sent[t] # "nothing"
  /\ verdict \notin verdicts[t]
  /\ "failed" \notin verdicts[t]
  /\ verdicts' = [verdicts EXCEPT ![t] = @ \cup {verdict}]
  /\ UNCHANGED <<sharedVars, quote, sent>>

Report(t, verdict) ==
  /\ verdict \in verdicts[t]
  /\ Arrives([op |-> "report", at |-> "finds row", transfer |-> t, verdict |-> verdict])
  /\ UNCHANGED <<walletVars, remittanceVars>>

RemittanceRows(t) == {row \in ledger : row.type = "REMITTANCE" /\ row.ref = <<"transfer", t>>}

(* A success changes nothing: the row is COMPLETED from the start, and one *)
(* that has FAILED is left to operations.                                  *)
FindRemittance(n) ==
  LET r == request[n] IN
  /\ Is(n, "report", "finds row")
  /\ GoesTo(n, IF r.verdict = "failed" /\ \E row \in RemittanceRows(r.transfer) : row.status = "COMPLETED"
                 THEN "looks for refund" ELSE "done")
  /\ UNCHANGED <<walletVars, remittanceVars>>

RefundKey(t) == <<"refund", t>>

LookForRefund(n) ==
  /\ Is(n, "report", "looks for refund")
  /\ GoesTo(n, IF KeyTaken(RefundKey(request[n].transfer)) THEN "done" ELSE "refunds")
  /\ UNCHANGED <<walletVars, remittanceVars>>

(* Mutant: the refund row is written without its key. *)
NoRefundKey(t) == NoKey
KeyOfRefund(t) == RefundKey(t)

CommitRefund(n) ==
  LET t == request[n].transfer IN
  /\ Is(n, "report", "refunds")
  /\ ~KeyTaken(KeyOfRefund(t))
  /\ \E row \in RemittanceRows(t) :
       Posts([wallet EXCEPT ![row.employee] = @ + row.total],
             (ledger \ {row}) \cup
               {[row EXCEPT !.status = "FAILED"],
                Row(n, row.employee, "REFUND", row.total, KeyOfRefund(t), <<"transfer", t>>, "")})
  /\ GoesTo(n, "done")
  /\ UNCHANGED remittanceVars

(* The refund has been written since: the insert fails and MoneyHash is    *)
(* answered with an error.                                                 *)
RefundConflicts(n) ==
  /\ Is(n, "report", "refunds")
  /\ KeyTaken(KeyOfRefund(request[n].transfer))
  /\ Refused(n)
  /\ UNCHANGED remittanceVars

RemittanceSteps(n) ==
  \/ ReadQuote(n)
  \/ DropQuote(n)
  \/ CheckSend(n)
  \/ CallRail(n)
  \/ RailRefuses(n)
  \/ CommitSend(n)
  \/ FindRemittance(n)
  \/ LookForRefund(n)
  \/ CommitRefund(n)
  \/ RefundConflicts(n)

RemittanceArrives ==
  \/ \E e \in Employees : Send(e) \/ \E q \in Quotes : SendQuote(e, q)
  \/ \E t \in Requests, verdict \in {"succeeded", "failed"} : Report(t, verdict)
============================================================================
