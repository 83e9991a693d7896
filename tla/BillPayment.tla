---------------------------- MODULE BillPayment ----------------------------
(***************************************************************************)
(* Bill payments of one employee: payBill calls (bill-payment.service.ts), *)
(* the refund flow, the biller's webhook (biller.webhook.ts) and the rail  *)
(* behind the adapter, which is external.                                  *)
(*                                                                         *)
(* The money moves in three transactions, each atomic at its commit:       *)
(* the debit, the refund and the settlement.  What a caller or a handler   *)
(* read before its transaction (the replay check, the bill row a webhook   *)
(* found, the lookup of an earlier refund) is kept and may be stale when   *)
(* the transaction runs.                                                   *)
(***************************************************************************)
EXTENDS Integers

CONSTANTS
  Bills,       \* idempotency keys of the employee's bills
  Calls,       \* payBill calls, several of which may carry the same key
  Deliveries,  \* webhook requests handled at once
  Cost,        \* amount plus fee of each bill
  Opening      \* the wallet balance before the first call

ASSUME CostIsPositive == Cost \in [Bills -> Nat \ {0}]
ASSUME OpeningIsNatural == Opening \in Nat
ASSUME CallsAreNotDeliveries == Calls \cap Deliveries = {}

None == "NONE"

Actors == Calls \cup Deliveries

VARIABLES
  wallet,    \* Employee.walletBalance
  bill,      \* BillPayment.status of each key, "NONE" for no row
  txn,       \* status of the debit EmployeeTransaction `bill:<key>`
  refund,    \* the REFUND EmployeeTransaction `bill:refund:<key>` exists
  ref,       \* BillPayment.externalRef is set
  rail,      \* what the rail has made of the bill
  said,      \* verdicts the rail has reported or will report by webhook
  submits,   \* how often the adapter has been asked to pay the bill
  pc,        \* where each call and each webhook handler is
  key,       \* the bill it is about
  snap,      \* the status of the row a handler holds
  knowsRef,  \* it passes the rail's reference to the refund
  answer     \* the status in the row payBill returned

rows == <<bill, txn, refund, ref>>
railVars == <<rail, said, submits>>
actorVars == <<pc, key, snap, knowsRef, answer>>
vars == <<wallet, rows, railVars, actorVars>>

BillStatus == {None, "PENDING", "COMPLETED", "FAILED"}
Verdicts == {"completed", "failed"}
ActorPc == {"idle", "preflight", "fresh", "locked", "funded", "debited", "accepted",
            "completed", "settle", "refund", "unissued", "heal", "over"}

TypeOK ==
  /\ wallet \in Int
  /\ bill \in [Bills -> BillStatus]
  /\ txn \in [Bills -> BillStatus]
  /\ refund \in [Bills -> BOOLEAN]
  /\ ref \in [Bills -> BOOLEAN]
  /\ rail \in [Bills -> {None, "accepted", "completed", "failed"}]
  /\ said \in [Bills -> SUBSET Verdicts]
  /\ submits \in [Bills -> Nat]
  /\ pc \in [Actors -> ActorPc]
  /\ key \in [Actors -> Bills \cup {None}]
  /\ snap \in [Actors -> BillStatus]
  /\ knowsRef \in [Actors -> BOOLEAN]
  /\ answer \in [Calls -> BillStatus]

Init ==
  /\ wallet = Opening
  /\ bill = [b \in Bills |-> None]
  /\ txn = [b \in Bills |-> None]
  /\ refund = [b \in Bills |-> FALSE]
  /\ ref = [b \in Bills |-> FALSE]
  /\ rail = [b \in Bills |-> None]
  /\ said = [b \in Bills |-> {}]
  /\ submits = [b \in Bills |-> 0]
  /\ pc = [a \in Actors |-> "idle"]
  /\ key = [a \in Actors |-> None]
  /\ snap = [a \in Actors |-> None]
  /\ knowsRef = [a \in Actors |-> FALSE]
  /\ answer = [c \in Calls |-> None]

(* Mutant: the lock is not taken. *)
NoLock == TRUE

(* The WALLET_DEBIT lock of the employee, held to the end of a transaction. *)
LockFree == \A c \in Calls : pc[c] \notin {"locked", "funded"}

GoTo(a, where) == pc' = [pc EXCEPT ![a] = where]

(* payBill returns the row, or throws. *)
Returns(c, status) ==
  /\ GoTo(c, "over")
  /\ answer' = [answer EXCEPT ![c] = status]

Throws(c) == GoTo(c, "over") /\ UNCHANGED answer

(***************************************************************************)
(* payBill.                                                                *)
(***************************************************************************)

PayBill(c, b) ==
  /\ pc[c] = "idle"
  /\ key' = [key EXCEPT ![c] = b]
  /\ GoTo(c, "preflight")
  /\ UNCHANGED <<wallet, rows, railVars, snap, knowsRef, answer>>

(* The replay check, outside the transaction. *)
Preflight(c) ==
  LET b == key[c] IN
  /\ pc[c] = "preflight"
  /\ IF bill[b] # None THEN Returns(c, bill[b])
                       ELSE GoTo(c, "fresh") /\ UNCHANGED answer
  /\ UNCHANGED <<wallet, rows, railVars, key, snap, knowsRef>>

AcquireWalletLock(c) ==
  /\ pc[c] = "fresh"
  /\ LockFree
  /\ GoTo(c, "locked")
  /\ UNCHANGED <<wallet, rows, railVars, key, snap, knowsRef, answer>>

CheckBalance(c) ==
  /\ pc[c] = "locked"
  /\ IF wallet < Cost[key[c]] THEN Throws(c) ELSE GoTo(c, "funded") /\ UNCHANGED answer
  /\ UNCHANGED <<wallet, rows, railVars, key, snap, knowsRef>>

(* The bill, the debit row and the decrement; the unique key of the bill   *)
(* fails the duplicate that passed the replay check.                       *)
CommitDebit(c) ==
  LET b == key[c] IN
  /\ pc[c] = "funded"
  /\ bill[b] = None
  /\ bill' = [bill EXCEPT ![b] = "PENDING"]
  /\ txn' = [txn EXCEPT ![b] = "PENDING"]
  /\ wallet' = wallet - Cost[b]
  /\ snap' = [snap EXCEPT ![c] = "PENDING"]
  /\ GoTo(c, "debited")
  /\ UNCHANGED <<refund, ref, railVars, key, knowsRef, answer>>

(* Mutant: the duplicate adopts the row of the first call and goes on. *)
DuplicateKeyGoesOn(c) ==
  /\ pc[c] = "funded"
  /\ bill[key[c]] # None
  /\ snap' = [snap EXCEPT ![c] = "PENDING"]
  /\ GoTo(c, "debited")
  /\ UNCHANGED <<wallet, rows, railVars, key, knowsRef, answer>>

DuplicateKey(c) ==
  /\ pc[c] = "funded"
  /\ bill[key[c]] # None
  /\ Throws(c)
  /\ UNCHANGED <<wallet, rows, railVars, key, snap, knowsRef>>

(* The adapter's answer, after the commit: the rail accepts and is still   *)
(* working on it or is done, or refuses; or the call throws, whether or    *)
(* not the request has reached the rail.                                   *)
Submit(c) ==
  LET b == key[c] IN
  /\ pc[c] = "debited"
  /\ submits' = [submits EXCEPT ![b] = @ + 1]
  /\ \/ /\ GoTo(c, "accepted")
        /\ rail' = [rail EXCEPT ![b] = "accepted"]
        /\ UNCHANGED <<said, knowsRef>>
     \/ /\ GoTo(c, "completed")
        /\ rail' = [rail EXCEPT ![b] = "completed"]
        /\ said' = [said EXCEPT ![b] = @ \cup {"completed"}]
        /\ UNCHANGED knowsRef
     \/ /\ GoTo(c, "refund")
        /\ rail' = [rail EXCEPT ![b] = "failed"]
        /\ said' = [said EXCEPT ![b] = @ \cup {"failed"}]
        /\ knowsRef' = [knowsRef EXCEPT ![c] = TRUE]
     \/ /\ GoTo(c, "refund")
        /\ \/ UNCHANGED rail
           \/ rail' = [rail EXCEPT ![b] = "accepted"]
        /\ UNCHANGED <<said, knowsRef>>
  /\ UNCHANGED <<wallet, rows, key, snap, answer>>

(* The rail's reference is stored, with the status when the rail is done;  *)
(* the update is by id and the linked debit row is not touched.            *)
StoreReference(c) ==
  LET b == key[c]
      status == IF pc[c] = "completed" THEN "COMPLETED" ELSE bill[b] IN
  /\ pc[c] \in {"accepted", "completed"}
  /\ ref' = [ref EXCEPT ![b] = TRUE]
  /\ bill' = [bill EXCEPT ![b] = status]
  /\ Returns(c, status)
  /\ UNCHANGED <<wallet, txn, refund, railVars, key, snap, knowsRef>>

(* The process of the call dies; an open transaction rolls back.           *)
CrashCall(c) ==
  /\ pc[c] \notin {"idle", "over"}
  /\ Throws(c)
  /\ UNCHANGED <<wallet, rows, railVars, key, snap, knowsRef>>

(***************************************************************************)
(* The rail, external: it decides on what it accepted, may reverse what it *)
(* completed, and reports every verdict any number of times, in any order. *)
(***************************************************************************)

Decide(b, verdict) ==
  /\ rail[b] = "accepted" \/ (rail[b] = "completed" /\ verdict = "failed")
  /\ rail' = [rail EXCEPT ![b] = verdict]
  /\ said' = [said EXCEPT ![b] = @ \cup {verdict}]
  /\ UNCHANGED <<wallet, rows, submits, actorVars>>

(***************************************************************************)
(* handleStatus: the bill is looked up by the rail's reference; an unknown *)
(* one is acknowledged and dropped.                                        *)
(***************************************************************************)

(* Mutant: the bill is found by its id, reference or not. *)
FoundById(b) == bill[b] # None

Found(b) == ref[b]

Deliver(d, b, verdict) ==
  /\ pc[d] = "idle"
  /\ verdict \in said[b]
  /\ Found(b)
  /\ key' = [key EXCEPT ![d] = b]
  /\ snap' = [snap EXCEPT ![d] = bill[b]]
  /\ knowsRef' = [knowsRef EXCEPT ![d] = TRUE]
  /\ GoTo(d, IF verdict = "completed" THEN "settle" ELSE "refund")
  /\ UNCHANGED <<wallet, rows, railVars, answer>>

(* The rail counts an acknowledged webhook as delivered. *)
DropUnknown(b, verdict) ==
  /\ verdict \in said[b]
  /\ ~ Found(b)
  /\ said' = [said EXCEPT ![b] = @ \ {verdict}]
  /\ UNCHANGED <<wallet, rows, rail, submits, actorVars>>

(* A handler is over: its process answers, throws or dies.                 *)
HandlerEnds(d) ==
  /\ GoTo(d, "idle")
  /\ key' = [key EXCEPT ![d] = None]
  /\ snap' = [snap EXCEPT ![d] = None]
  /\ knowsRef' = [knowsRef EXCEPT ![d] = FALSE]
  /\ UNCHANGED answer

(* settleBillPayment on the row the handler found: nothing to do for one   *)
(* that is COMPLETED, an audit entry for one that is FAILED, and otherwise *)
(* an update by id that does not look at the row again.                    *)
SettleBill(d) ==
  LET b == key[d] IN
  /\ pc[d] = "settle"
  /\ IF snap[d] = "PENDING"
     THEN /\ bill' = [bill EXCEPT ![b] = "COMPLETED"]
          /\ txn' = [txn EXCEPT ![b] = "COMPLETED"]
     ELSE UNCHANGED <<bill, txn>>
  /\ HandlerEnds(d)
  /\ UNCHANGED <<wallet, refund, ref, railVars>>

CrashHandler(d) ==
  /\ pc[d] # "idle"
  /\ HandlerEnds(d)
  /\ UNCHANGED <<wallet, rows, railVars>>

(***************************************************************************)
(* refundFailedBill, for the call whose rail refused and for the webhook.  *)
(***************************************************************************)

(* The caller goes on with the row, or with the error, of the refund.      *)
RefundEnds(a, status) ==
  IF a \in Calls THEN Returns(a, status) /\ UNCHANGED <<key, snap, knowsRef>>
                 ELSE HandlerEnds(a)

RefundThrows(a) ==
  IF a \in Calls THEN Throws(a) /\ UNCHANGED <<key, snap, knowsRef>>
                 ELSE HandlerEnds(a)

(* Mutant: the error of the adapter counts as a FAILED row. *)
HeldOrToldFailed(a) == snap[a] = "FAILED" \/ a \in Calls

HeldFailed(a) == snap[a] = "FAILED"

(* A row held as FAILED is returned as it is; then the refund is looked up. *)
LookUpRefund(a) ==
  /\ pc[a] = "refund"
  /\ IF HeldFailed(a) THEN RefundEnds(a, "FAILED")
     ELSE /\ GoTo(a, IF refund[key[a]] THEN "heal" ELSE "unissued")
          /\ UNCHANGED <<key, snap, knowsRef, answer>>
  /\ UNCHANGED <<wallet, rows, railVars>>

(* Mutant: a refunded bill is REVERSED. *)
ReverseBill(a) ==
  /\ bill' = [bill EXCEPT ![key[a]] = "REVERSED"]
  /\ ref' = [ref EXCEPT ![key[a]] = @ \/ knowsRef[a]]

FailBill(a) ==
  /\ bill' = [bill EXCEPT ![key[a]] = "FAILED"]
  /\ ref' = [ref EXCEPT ![key[a]] = @ \/ knowsRef[a]]

(* A refund that exists: the row of the bill is made FAILED, no money moves. *)
HealBill(a) ==
  /\ pc[a] = "heal"
  /\ FailBill(a)
  /\ RefundEnds(a, "FAILED")
  /\ UNCHANGED <<wallet, txn, refund, railVars>>

(* Mutant: no unique key on the refund row. *)
AnyRefund(a) == TRUE

NewRefund(a) == ~ refund[key[a]]

(* Mutant: the debit row is left as it was. *)
KeepDebit(a) == UNCHANGED txn

FailDebit(a) == txn' = [txn EXCEPT ![key[a]] = "FAILED"]

(* The refund row, whose key is unique, the credit and the FAILED bill.    *)
CommitRefund(a) ==
  LET b == key[a] IN
  /\ pc[a] = "unissued"
  /\ LockFree
  /\ NewRefund(a)
  /\ FailBill(a)
  /\ FailDebit(a)
  /\ refund' = [refund EXCEPT ![b] = TRUE]
  /\ wallet' = wallet + Cost[b]
  /\ RefundEnds(a, "FAILED")
  /\ UNCHANGED railVars

DuplicateRefund(a) ==
  /\ pc[a] = "unissued"
  /\ LockFree
  /\ ~ NewRefund(a)
  /\ RefundThrows(a)
  /\ UNCHANGED <<wallet, rows, railVars>>

-----------------------------------------------------------------------------
CallStep(c) ==
  \/ Preflight(c)
  \/ AcquireWalletLock(c)
  \/ CheckBalance(c)
  \/ CommitDebit(c)
  \/ DuplicateKey(c)
  \/ Submit(c)
  \/ StoreReference(c)

RefundStep(a) ==
  \/ LookUpRefund(a)
  \/ HealBill(a)
  \/ CommitRefund(a)
  \/ DuplicateRefund(a)

Next ==
  \/ \E c \in Calls, b \in Bills : PayBill(c, b)
  \/ \E c \in Calls : CallStep(c) \/ CrashCall(c)
  \/ \E b \in Bills, v \in Verdicts : Decide(b, v) \/ DropUnknown(b, v)
  \/ \E d \in Deliveries, b \in Bills, v \in Verdicts : Deliver(d, b, v)
  \/ \E d \in Deliveries : SettleBill(d) \/ CrashHandler(d)
  \/ \E a \in Actors : RefundStep(a)

Spec == Init /\ [][Next]_vars

-----------------------------------------------------------------------------
(***************************************************************************)
(* Properties.                                                             *)
(***************************************************************************)

(* payBill's re-read under the lock: bills alone never overdraw the        *)
(* wallet, whatever calls, replays and refunds run at once.                *)
NeverOverdrawn == wallet >= 0

(* "No second rail dispatch" and "the rail never sees an unfunded          *)
(* request": one submission per key over every replay, duplicate and       *)
(* crash, and none before the debit.                                       *)
SubmittedOnceFunded ==
  \A b \in Bills : submits[b] <= (IF txn[b] = None THEN 0 ELSE 1)

(* "A failure => wallet is whole": whoever is told that the bill FAILED,   *)
(* at once or in a replay, has the refund in its wallet.                   *)
FailureIsWhole ==
  \A c \in Calls : answer[c] = "FAILED" => refund[key[c]]

(* The four rows of a bill tell one story at every commit: a FAILED bill   *)
(* and a FAILED debit have their refund, and no refunded debit is left     *)
(* PENDING.                                                                *)
RowsAgree ==
  \A b \in Bills :
    /\ bill[b] = None <=> txn[b] = None
    /\ bill[b] = "FAILED" => refund[b]
    /\ txn[b] = "FAILED" => refund[b] /\ bill[b] = "FAILED"
    /\ refund[b] => txn[b] \in {"FAILED", "COMPLETED"}

(* The payment of bills implements BillEscrow: per key, one debit the      *)
(* balance covered and at most one refund of it, in full.                  *)
Held ==
  [b \in Bills |-> IF refund[b] THEN "returned"
                   ELSE IF txn[b] # None THEN "taken" ELSE "none"]

Escrow == INSTANCE BillEscrow WITH balance <- wallet, held <- Held

KeepsEscrow == Escrow!Spec

-----------------------------------------------------------------------------
(***************************************************************************)
(* The inductive invariant.                                                *)
(***************************************************************************)

(* The call that has committed the debit and still answers for the bill.   *)
Owner(c) == pc[c] \in {"debited", "accepted", "completed", "refund", "unissued", "heal"}

(* A handler runs on a bill that has a reference and so was dispatched; a  *)
(* row it holds as FAILED has its refund.                                  *)
HandlerShape ==
  \A d \in Deliveries :
    /\ pc[d] \in {"idle", "settle", "refund", "unissued", "heal"}
    /\ pc[d] # "idle" => /\ key[d] \in Bills
                         /\ ref[key[d]]
                         /\ txn[key[d]] # None
                         /\ snap[d] = "FAILED" => refund[key[d]]
    /\ pc[d] = "heal" => refund[key[d]]

(* One call at a time holds the lock, and what it has read of the balance  *)
(* is still there.                                                         *)
LockShape ==
  /\ \A c, e \in Calls :
       pc[c] \in {"locked", "funded"} /\ pc[e] \in {"locked", "funded"} => c = e
  /\ \A c \in Calls : pc[c] = "funded" => wallet >= Cost[key[c]]

(* A debited bill has one owner until it is answered for, and until then   *)
(* no webhook can find it: the reference is not stored and nothing is      *)
(* refunded.                                                               *)
OwnerShape ==
  /\ \A c \in Calls :
       /\ pc[c] # "settle"
       /\ pc[c] # "idle" => key[c] \in Bills
       /\ answer[c] # None => key[c] \in Bills /\ pc[c] = "over"
       /\ Owner(c) => /\ txn[key[c]] = "PENDING"
                      /\ bill[key[c]] = "PENDING"
                      /\ ~ ref[key[c]]
                      /\ ~ refund[key[c]]
                      /\ snap[c] = "PENDING"
                      /\ pc[c] # "heal"
       /\ pc[c] = "debited" => submits[key[c]] = 0
  /\ \A c, e \in Calls : Owner(c) /\ Owner(e) /\ key[c] = key[e] => c = e
  /\ \A b \in Bills : ref[b] => txn[b] # None

IInv ==
  /\ TypeOK
  /\ HandlerShape
  /\ LockShape
  /\ OwnerShape
  /\ NeverOverdrawn
  /\ SubmittedOnceFunded
  /\ FailureIsWhole
  /\ RowsAgree

(* No two webhooks of one bill are handled at once.                        *)
SerialHandlers ==
  \A d, e \in Deliveries :
    pc[d] # "idle" /\ pc[e] # "idle" /\ key[d] = key[e] => d = e

-----------------------------------------------------------------------------
(* What the documentation of the code says and the code does not do.       *)

(* "A successful return from payBill() => wallet has been debited and the  *)
(* rail has accepted the request (status pending or completed)".           *)
SuccessMeansAccepted ==
  \A c \in Calls :
    answer[c] \in {"PENDING", "COMPLETED"} => rail[key[c]] # None

(* A success reported for a bill that was refunded is never reconciled:    *)
(* "that would create a phantom debit because the wallet was already       *)
(* credited back".                                                         *)
RefundedIsNotCompleted ==
  \A b \in Bills : refund[b] => bill[b] # "COMPLETED"
=============================================================================
