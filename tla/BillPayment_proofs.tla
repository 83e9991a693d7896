------------------------- MODULE BillPayment_proofs -------------------------
(***************************************************************************)
(* Proofs about BillPayment, for any bills, calls, webhooks and costs.     *)
(***************************************************************************)
EXTENDS BillPayment, TLAPS

USE DEF None

LEMMA InitIInv == Init => IInv
BY OpeningIsNatural
DEF Init, IInv, TypeOK, HandlerShape, LockShape, OwnerShape, NeverOverdrawn,
    SubmittedOnceFunded, FailureIsWhole, RowsAgree, Owner, BillStatus, Verdicts,
    ActorPc, Actors

(* The ways a call or a handler can go on, whatever it has done.           *)
ActorsTyped ==
  /\ pc \in [Actors -> ActorPc]
  /\ key \in [Actors -> Bills \cup {None}]
  /\ snap \in [Actors -> BillStatus]
  /\ knowsRef \in [Actors -> BOOLEAN]
  /\ answer \in [Calls -> BillStatus]

LEMMA EndsTyped ==
  ASSUME TypeOK, NEW a \in Actors,
         \/ RefundEnds(a, "FAILED")
         \/ RefundThrows(a)
         \/ a \in Deliveries /\ HandlerEnds(a)
  PROVE  ActorsTyped'
<1> USE DEF TypeOK, ActorsTyped, Actors, ActorPc, BillStatus, GoTo
<1>1. CASE HandlerEnds(a)
  BY <1>1 DEF HandlerEnds
<1>2. CASE a \in Calls /\ Returns(a, "FAILED") /\ UNCHANGED <<key, snap, knowsRef>>
  BY <1>2 DEF Returns
<1>3. CASE Throws(a) /\ UNCHANGED <<key, snap, knowsRef>>
  BY <1>3 DEF Throws
<1>4. QED BY <1>1, <1>2, <1>3 DEF RefundEnds, RefundThrows

LEMMA NextTyped == IInv /\ [Next]_vars => TypeOK'
<1> SUFFICES ASSUME IInv, [Next]_vars PROVE TypeOK'
  OBVIOUS
<1> USE CostIsPositive
<1> USE DEF TypeOK, rows, railVars, actorVars, GoTo, Returns, Throws, Actors,
            BillStatus, ActorPc
<1>0. TypeOK
  BY DEF IInv
<1>1. CASE UNCHANGED vars
  BY <1>0, <1>1 DEF vars
<1>2. ASSUME NEW c \in Calls, NEW b \in Bills, PayBill(c, b) PROVE TypeOK'
  BY <1>0, <1>2 DEF PayBill
<1>3. ASSUME NEW c \in Calls, Preflight(c) \/ AcquireWalletLock(c) \/ CheckBalance(c)
      PROVE  TypeOK'
  <2>1. pc[c] = "preflight" => key[c] \in Bills
    BY DEF IInv, OwnerShape
  <2>2. QED BY <1>0, <1>3, <2>1 DEF Preflight, AcquireWalletLock, CheckBalance
<1>4. ASSUME NEW c \in Calls, CommitDebit(c) PROVE TypeOK'
  <2>1. Cost[key[c]] \in Nat
    BY <1>4 DEF CommitDebit, IInv, OwnerShape
  <2>2. wallet' \in Int
    BY <1>0, <1>4, <2>1 DEF CommitDebit
  <2>3. QED BY <1>0, <1>4, <2>2 DEF CommitDebit
<1>5. ASSUME NEW c \in Calls, DuplicateKey(c) \/ CrashCall(c) PROVE TypeOK'
  BY <1>0, <1>5 DEF DuplicateKey, CrashCall
<1>6. ASSUME NEW c \in Calls, Submit(c) PROVE TypeOK'
  <2>1. pc' \in [Actors -> ActorPc]
    BY <1>0, <1>6 DEF Submit
  <2>2. rail' \in [Bills -> {None, "accepted", "completed", "failed"}]
    BY <1>0, <1>6 DEF Submit
  <2>3. said' \in [Bills -> SUBSET Verdicts]
    <3>1. PICK v \in Verdicts :
            said' = said \/ said' = [said EXCEPT ![key[c]] = @ \cup {v}]
      BY <1>6 DEF Submit, Verdicts
    <3>2. QED BY <1>0, <3>1
  <2>4. submits' \in [Bills -> Nat]
    <3>1. \A b \in Bills : submits[b] + 1 \in Nat
      BY <1>0
    <3>2. submits' = [submits EXCEPT ![key[c]] = @ + 1]
      BY <1>6 DEF Submit
    <3>3. QED BY <1>0, <3>1, <3>2
  <2>5. knowsRef' \in [Actors -> BOOLEAN]
    BY <1>0, <1>6 DEF Submit
  <2>6. QED BY <1>0, <1>6, <2>1, <2>2, <2>3, <2>4, <2>5 DEF Submit
<1>7. ASSUME NEW c \in Calls, StoreReference(c) PROVE TypeOK'
  <2>1. key[c] \in Bills
    BY <1>7 DEF StoreReference, IInv, OwnerShape
  <2>2. QED BY <1>0, <1>7, <2>1 DEF StoreReference
<1>8. ASSUME NEW b \in Bills, NEW v \in Verdicts, Decide(b, v) \/ DropUnknown(b, v)
      PROVE  TypeOK'
  BY <1>0, <1>8 DEF Decide, DropUnknown, Found, Verdicts
<1>9. ASSUME NEW d \in Deliveries, NEW b \in Bills, NEW v \in Verdicts, Deliver(d, b, v)
      PROVE  TypeOK'
  BY <1>0, <1>9 DEF Deliver, Found
<1>10. ASSUME NEW d \in Deliveries, SettleBill(d) PROVE TypeOK'
  <2>1. ActorsTyped'
    BY <1>0, <1>10, EndsTyped DEF SettleBill
  <2>2. QED BY <1>0, <1>10, <2>1 DEF SettleBill, ActorsTyped
<1>11. ASSUME NEW d \in Deliveries, CrashHandler(d) PROVE TypeOK'
  <2>1. ActorsTyped'
    BY <1>0, <1>11, EndsTyped DEF CrashHandler
  <2>2. QED BY <1>0, <1>11, <2>1 DEF CrashHandler, ActorsTyped
<1>12. ASSUME NEW a \in Actors, LookUpRefund(a) PROVE TypeOK'
  <2>1. ActorsTyped'
    <3>1. CASE RefundEnds(a, "FAILED")
      BY <1>0, <3>1, EndsTyped
    <3>2. CASE /\ pc' = [pc EXCEPT ![a] = IF refund[key[a]] THEN "heal" ELSE "unissued"]
               /\ UNCHANGED <<key, snap, knowsRef, answer>>
      BY <1>0, <3>2 DEF ActorsTyped
    <3>3. QED BY <1>12, <3>1, <3>2 DEF LookUpRefund, HeldFailed
  <2>2. QED BY <1>0, <1>12, <2>1 DEF LookUpRefund, HeldFailed, ActorsTyped
<1>13. ASSUME NEW a \in Actors, HealBill(a) PROVE TypeOK'
  <2>1. ActorsTyped'
    BY <1>0, <1>13, EndsTyped DEF HealBill
  <2>2. QED BY <1>0, <1>13, <2>1 DEF HealBill, FailBill, ActorsTyped
<1>14. ASSUME NEW a \in Actors, CommitRefund(a) PROVE TypeOK'
  <2>1. ActorsTyped'
    BY <1>0, <1>14, EndsTyped DEF CommitRefund, NewRefund, FailDebit
  <2>2. key[a] \in Bills
    BY <1>14 DEF CommitRefund, NewRefund, FailDebit, IInv, OwnerShape, HandlerShape
  <2>3. wallet' \in Int
    <3>1. wallet \in Int /\ Cost[key[a]] \in Nat
      BY <1>0, <2>2
    <3>2. wallet' = wallet + Cost[key[a]]
      BY <1>14 DEF CommitRefund, NewRefund, FailDebit
    <3>3. QED BY <3>1, <3>2
  <2>4. QED BY <1>0, <1>14, <2>1, <2>3 DEF CommitRefund, NewRefund, FailDebit, FailBill, ActorsTyped
<1>15. ASSUME NEW a \in Actors, DuplicateRefund(a) PROVE TypeOK'
  <2>1. ActorsTyped'
    BY <1>0, <1>15, EndsTyped DEF DuplicateRefund, NewRefund
  <2>2. QED BY <1>0, <1>15, <2>1 DEF DuplicateRefund, NewRefund, ActorsTyped
<1>16. CASE Next
  BY <1>16, <1>2, <1>3, <1>4, <1>5, <1>6, <1>7, <1>8, <1>9, <1>10, <1>11, <1>12,
     <1>13, <1>14, <1>15 DEF Next, CallStep, RefundStep
<1>17. QED BY <1>1, <1>16

(* The debit is out of reach of a call that does not own the bill, so only *)
(* the owner's own steps and the refund of a handler change the rows.      *)

(* The shape of a state that differs only in the program counter and the   *)
(* answer of a call that leaves the bill alone.                            *)
LEMMA CallMoves ==
  ASSUME IInv, TypeOK', NEW c \in Calls, UNCHANGED <<wallet, rows, railVars, knowsRef, snap>>,
         \A a \in Actors \ {c} : pc'[a] = pc[a] /\ key'[a] = key[a],
         \A e \in Calls \ {c} : answer'[e] = answer[e],
         pc'[c] \in {"preflight", "fresh", "locked", "funded", "over"},
         key'[c] \in Bills,
         pc'[c] \in {"locked", "funded"} =>
           \A e \in Calls \ {c} : pc[e] \notin {"locked", "funded"},
         pc'[c] = "funded" => wallet >= Cost[key'[c]],
         answer'[c] # None => pc'[c] = "over",
         answer'[c] = "FAILED" => refund[key'[c]]
  PROVE  IInv'
<1> USE CallsAreNotDeliveries DEF rows, railVars, Actors
<1>1. HandlerShape'
  BY DEF IInv, HandlerShape
<1>2. LockShape'
  BY DEF IInv, LockShape
<1>3. OwnerShape'
  BY DEF IInv, OwnerShape, Owner
<1>4. NeverOverdrawn' /\ SubmittedOnceFunded' /\ RowsAgree'
  BY DEF IInv, NeverOverdrawn, SubmittedOnceFunded, RowsAgree
<1>5. FailureIsWhole'
  BY DEF IInv, FailureIsWhole, OwnerShape
<1>6. QED BY <1>1, <1>2, <1>3, <1>4, <1>5 DEF IInv

LEMMA CallKeeps ==
  ASSUME IInv, TypeOK', NEW c \in Calls,
         \/ \E b \in Bills : PayBill(c, b)
         \/ Preflight(c) \/ AcquireWalletLock(c) \/ CheckBalance(c)
         \/ DuplicateKey(c) \/ CrashCall(c)
  PROVE  IInv'
<1> USE CallsAreNotDeliveries
<1> USE DEF GoTo, Throws, Returns, Actors
<1>0. /\ TypeOK
      /\ pc[c] # "idle" => key[c] \in Bills
      /\ answer[c] # None => pc[c] = "over"
  BY DEF IInv, OwnerShape
<1>1. CASE \E b \in Bills : PayBill(c, b)
  BY <1>0, <1>1, CallMoves DEF PayBill, TypeOK
<1>2. CASE Preflight(c)
  <2>1. bill[key[c]] = "FAILED" => refund[key[c]]
    BY <1>0, <1>2 DEF Preflight, IInv, RowsAgree
  <2>2. QED BY <1>0, <1>2, <2>1, CallMoves DEF Preflight, TypeOK
<1>3. CASE AcquireWalletLock(c)
  BY <1>0, <1>3, CallMoves DEF AcquireWalletLock, LockFree, TypeOK
<1>4. CASE CheckBalance(c)
  <2>1. \A e \in Calls \ {c} : pc[e] \notin {"locked", "funded"}
    BY <1>4 DEF CheckBalance, IInv, LockShape
  <2>2. wallet \in Int /\ Cost[key[c]] \in Nat
    BY <1>0, <1>4, CostIsPositive DEF CheckBalance, TypeOK
  <2>3. ~ (wallet < Cost[key[c]]) => wallet >= Cost[key[c]]
    BY <2>2
  <2>4. QED BY <1>0, <1>4, <2>1, <2>3, CallMoves DEF CheckBalance, TypeOK
<1>5. CASE DuplicateKey(c) \/ CrashCall(c)
  BY <1>0, <1>5, CallMoves DEF DuplicateKey, CrashCall, TypeOK
<1>6. QED BY <1>1, <1>2, <1>3, <1>4, <1>5

(* The commit of the debit makes its call the one owner of the bill.       *)
LEMMA DebitKeeps ==
  ASSUME IInv, TypeOK', NEW c \in Calls, CommitDebit(c)
  PROVE  IInv'
<1> USE CallsAreNotDeliveries
<1> USE DEF GoTo, Actors
<1> DEFINE b == key[c]
<1>1. /\ TypeOK
      /\ b \in Bills /\ pc[c] = "funded" /\ bill[b] = None /\ txn[b] = None
      /\ answer[c] = None
      /\ wallet >= Cost[b]
      /\ ~ refund[b] /\ ~ ref[b]
      /\ submits[b] = 0
  <2>1. TypeOK /\ pc[c] = "funded" /\ bill[b] = None /\ b \in Bills /\ wallet >= Cost[b]
        /\ answer[c] = None
    BY DEF IInv, CommitDebit, OwnerShape, LockShape
  <2>2. txn[b] = None /\ ~ refund[b] /\ ~ ref[b] /\ submits[b] <= 0
    BY <2>1 DEF IInv, RowsAgree, OwnerShape, SubmittedOnceFunded
  <2>3. QED BY <2>1, <2>2 DEF TypeOK
<1>2. \A e \in Calls \ {c} : Owner(e) => key[e] # b
  BY <1>1 DEF IInv, OwnerShape
<1>3. \A d \in Deliveries : pc[d] # "idle" => key[d] # b
  BY <1>1 DEF IInv, HandlerShape
<1>4. HandlerShape'
  BY <1>1, <1>3 DEF CommitDebit, IInv, HandlerShape, TypeOK
<1>5. \A e \in Calls \ {c} : pc[e] \notin {"locked", "funded"}
  BY <1>1 DEF IInv, LockShape
<1>6. LockShape'
  BY <1>1, <1>5 DEF CommitDebit, LockShape, TypeOK
<1>7. OwnerShape'
  <2>1. /\ bill' = [bill EXCEPT ![b] = "PENDING"] /\ txn' = [txn EXCEPT ![b] = "PENDING"]
        /\ snap' = [snap EXCEPT ![c] = "PENDING"] /\ pc' = [pc EXCEPT ![c] = "debited"]
        /\ UNCHANGED <<refund, ref, submits, key, answer>>
    BY DEF CommitDebit, railVars
  <2>2. Owner(c)' /\ \A e \in Calls \ {c} : Owner(e)' <=> Owner(e)
    BY <1>1, <2>1 DEF Owner, TypeOK
  <2>3. ASSUME NEW e \in Calls
        PROVE  /\ pc'[e] # "settle"
               /\ pc'[e] # "idle" => key'[e] \in Bills
               /\ answer'[e] # None => key'[e] \in Bills /\ pc'[e] = "over"
               /\ Owner(e)' => /\ txn'[key'[e]] = "PENDING"
                               /\ bill'[key'[e]] = "PENDING"
                               /\ ~ ref'[key'[e]]
                               /\ ~ refund'[key'[e]]
                               /\ snap'[e] = "PENDING"
                               /\ pc'[e] # "heal"
               /\ pc'[e] = "debited" => submits'[key'[e]] = 0
    <3>1. CASE e = c
      BY <1>1, <2>1, <2>2, <3>1 DEF TypeOK
    <3>2. CASE e # c
      BY <1>1, <1>2, <2>1, <2>2, <3>2 DEF IInv, OwnerShape, TypeOK, Owner
    <3>3. QED BY <3>1, <3>2
  <2>4. \A e, f \in Calls : Owner(e)' /\ Owner(f)' /\ key'[e] = key'[f] => e = f
    BY <1>2, <2>1, <2>2 DEF IInv, OwnerShape
  <2>5. \A x \in Bills : ref'[x] => txn'[x] # None
    BY <1>1, <2>1 DEF IInv, OwnerShape, TypeOK
  <2>6. QED BY <2>3, <2>4, <2>5 DEF OwnerShape
<1>8. NeverOverdrawn'
  <2>1. wallet \in Int /\ Cost[b] \in Nat /\ wallet' = wallet - Cost[b]
    BY <1>1, CostIsPositive DEF CommitDebit, TypeOK
  <2>2. QED BY <1>1, <2>1 DEF NeverOverdrawn
<1>9. SubmittedOnceFunded'
  BY <1>1 DEF CommitDebit, IInv, SubmittedOnceFunded, TypeOK, railVars
<1>10. FailureIsWhole'
  BY DEF CommitDebit, IInv, FailureIsWhole
<1>11. RowsAgree'
  BY <1>1 DEF CommitDebit, IInv, RowsAgree, TypeOK
<1>12. QED BY <1>4, <1>6, <1>7, <1>8, <1>9, <1>10, <1>11 DEF IInv

LEMMA SubmitKeeps ==
  ASSUME IInv, TypeOK', NEW c \in Calls, Submit(c)
  PROVE  IInv'
<1> USE CallsAreNotDeliveries
<1> USE DEF GoTo, Actors, rows
<1> DEFINE b == key[c]
<1>1. /\ TypeOK /\ pc[c] = "debited" /\ Owner(c) /\ b \in Bills /\ submits[b] = 0
      /\ txn[b] # None
  BY DEF Submit, IInv, OwnerShape, Owner
<1>2. /\ pc' \in [Actors -> ActorPc]
      /\ \A a \in Actors \ {c} : pc'[a] = pc[a]
      /\ pc'[c] \in {"accepted", "completed", "refund"}
      /\ UNCHANGED <<wallet, rows, key, snap, answer>>
      /\ submits' = [submits EXCEPT ![b] = @ + 1]
  BY <1>1 DEF Submit, TypeOK
<1>3. HandlerShape'
  BY <1>2 DEF IInv, HandlerShape
<1>4. LockShape'
  BY <1>2 DEF IInv, LockShape
<1>5. OwnerShape'
  BY <1>1, <1>2 DEF IInv, OwnerShape, Owner, TypeOK
<1>6. SubmittedOnceFunded'
  BY <1>1, <1>2 DEF IInv, SubmittedOnceFunded, TypeOK
<1>7. NeverOverdrawn' /\ FailureIsWhole' /\ RowsAgree'
  BY <1>2 DEF IInv, NeverOverdrawn, FailureIsWhole, RowsAgree
<1>8. QED BY <1>3, <1>4, <1>5, <1>6, <1>7 DEF IInv

LEMMA StoreKeeps ==
  ASSUME IInv, TypeOK', NEW c \in Calls, StoreReference(c)
  PROVE  IInv'
<1> USE CallsAreNotDeliveries
<1> USE DEF GoTo, Returns, Actors, railVars
<1> DEFINE b == key[c]
<1>1. /\ TypeOK /\ Owner(c) /\ pc[c] \in {"accepted", "completed"} /\ b \in Bills
      /\ bill[b] = "PENDING" /\ txn[b] = "PENDING" /\ ~ refund[b]
  BY DEF StoreReference, IInv, OwnerShape, Owner
<1>2. PICK status \in {"PENDING", "COMPLETED"} :
        /\ bill' = [bill EXCEPT ![b] = status]
        /\ answer' = [answer EXCEPT ![c] = status]
  BY <1>1 DEF StoreReference
<1>3. /\ ref' = [ref EXCEPT ![b] = TRUE]
      /\ pc' = [pc EXCEPT ![c] = "over"]
      /\ UNCHANGED <<wallet, txn, refund, submits, key, snap>>
  BY DEF StoreReference
<1>4. \A e \in Calls \ {c} : Owner(e) => key[e] # b
  BY <1>1 DEF IInv, OwnerShape
<1>5. HandlerShape'
  BY <1>1, <1>3 DEF IInv, HandlerShape, TypeOK
<1>6. LockShape'
  BY <1>1, <1>3 DEF IInv, LockShape, TypeOK
<1>7. OwnerShape'
  BY <1>1, <1>2, <1>3, <1>4 DEF IInv, OwnerShape, Owner, TypeOK
<1>8. NeverOverdrawn' /\ SubmittedOnceFunded'
  BY <1>3 DEF IInv, NeverOverdrawn, SubmittedOnceFunded
<1>9. FailureIsWhole'
  BY <1>2, <1>3 DEF IInv, FailureIsWhole, TypeOK
<1>10. RowsAgree'
  BY <1>1, <1>2, <1>3 DEF IInv, RowsAgree, TypeOK
<1>11. QED BY <1>5, <1>6, <1>7, <1>8, <1>9, <1>10 DEF IInv

(* The rail and the arrival of a webhook.                                  *)
LEMMA RailKeeps ==
  ASSUME IInv, TypeOK', NEW b \in Bills, NEW v \in Verdicts,
         Decide(b, v) \/ DropUnknown(b, v)
  PROVE  IInv'
<1>1. UNCHANGED <<wallet, rows, submits, actorVars>>
  BY DEF Decide, DropUnknown, Found
<1>2. QED
  BY <1>1 DEF IInv, HandlerShape, LockShape, OwnerShape, Owner, NeverOverdrawn,
              SubmittedOnceFunded, FailureIsWhole, RowsAgree, rows, actorVars

LEMMA DeliverKeeps ==
  ASSUME IInv, TypeOK', NEW d \in Deliveries, NEW b \in Bills, NEW v \in Verdicts,
         Deliver(d, b, v)
  PROVE  IInv'
<1> USE CallsAreNotDeliveries
<1> USE DEF GoTo, Actors, rows, railVars
<1>1. TypeOK /\ ref[b] /\ txn[b] # None /\ (bill[b] = "FAILED" => refund[b])
  BY DEF Deliver, Found, IInv, OwnerShape, RowsAgree
<1>2. HandlerShape'
  BY <1>1 DEF Deliver, Found, IInv, HandlerShape, TypeOK
<1>3. LockShape'
  BY DEF Deliver, Found, IInv, LockShape, TypeOK
<1>4. OwnerShape'
  BY DEF Deliver, Found, IInv, OwnerShape, Owner, TypeOK
<1>5. NeverOverdrawn' /\ SubmittedOnceFunded' /\ RowsAgree'
  BY DEF Deliver, Found, IInv, NeverOverdrawn, SubmittedOnceFunded, RowsAgree
<1>6. FailureIsWhole'
  BY DEF Deliver, Found, IInv, FailureIsWhole, TypeOK
<1>7. QED BY <1>2, <1>3, <1>4, <1>5, <1>6 DEF IInv

(* How the actor of a refund or a settlement leaves: nobody else moves.    *)
EndsMove(a) ==
  /\ pc' = [pc EXCEPT ![a] = IF a \in Calls THEN "over" ELSE "idle"]
  /\ \A x \in Actors \ {a} : key'[x] = key[x] /\ snap'[x] = snap[x]
  /\ \A c \in Calls : key'[c] = key[c]
  /\ \A c \in Calls : answer'[c] = answer[c] \/ (c = a /\ answer'[c] = "FAILED")

LEMMA EndsMoved ==
  ASSUME TypeOK, NEW a \in Actors,
         \/ RefundEnds(a, "FAILED")
         \/ RefundThrows(a)
         \/ a \in Deliveries /\ HandlerEnds(a)
  PROVE  EndsMove(a)
<1> USE CallsAreNotDeliveries DEF EndsMove, Actors, TypeOK, GoTo
<1>1. CASE a \in Calls
  BY <1>1 DEF RefundEnds, RefundThrows, Returns, Throws
<1>2. CASE a \in Deliveries
  BY <1>2 DEF RefundEnds, RefundThrows, HandlerEnds
<1>3. QED BY <1>1, <1>2

(* It may change the rows of its own bill, as long as those still agree.   *)
LEMMA EndKeeps ==
  ASSUME IInv, TypeOK', NEW a \in Actors, EndsMove(a), NEW b \in Bills, b = key[a],
         pc[a] \in {"settle", "refund", "unissued", "heal"},
         \A x \in Bills \ {b} : /\ bill'[x] = bill[x] /\ txn'[x] = txn[x]
                                /\ refund'[x] = refund[x] /\ ref'[x] = ref[x],
         bill'[b] # None, txn'[b] # None,
         refund[b] => refund'[b], ref[b] => ref'[b],
         bill'[b] = "FAILED" => refund'[b],
         txn'[b] = "FAILED" => refund'[b] /\ bill'[b] = "FAILED",
         refund'[b] => txn'[b] \in {"FAILED", "COMPLETED"},
         \A c \in Calls : answer'[c] # answer[c] => refund'[b],
         wallet' >= wallet, UNCHANGED submits
  PROVE  IInv'
<1> USE CallsAreNotDeliveries DEF Actors
<1>1. /\ TypeOK /\ txn[b] # None
      /\ a \in Calls => Owner(a)
      /\ a \in Deliveries => ref[b]
  BY DEF IInv, OwnerShape, HandlerShape, Owner
<1>2. \A c \in Calls \ {a} : Owner(c) => key[c] # b
  BY <1>1 DEF IInv, OwnerShape
<1>3. \A x \in Actors \ {a} : pc'[x] = pc[x]
  BY DEF EndsMove, IInv, TypeOK
<1>4. pc'[a] = IF a \in Calls THEN "over" ELSE "idle"
  BY <1>1 DEF EndsMove, TypeOK
<1>5. HandlerShape'
  <2> SUFFICES ASSUME NEW d \in Deliveries
               PROVE  /\ pc'[d] \in {"idle", "settle", "refund", "unissued", "heal"}
                      /\ pc'[d] # "idle" => /\ key'[d] \in Bills
                                            /\ ref'[key'[d]]
                                            /\ txn'[key'[d]] # None
                                            /\ snap'[d] = "FAILED" => refund'[key'[d]]
                      /\ pc'[d] = "heal" => refund'[key'[d]]
    BY DEF HandlerShape
  <2>1. CASE d = a
    BY <1>4, <2>1
  <2>2. CASE d # a
    <3>1. pc'[d] = pc[d] /\ key'[d] = key[d] /\ snap'[d] = snap[d]
      BY <1>3, <2>2 DEF EndsMove
    <3>2. CASE key[d] = b
      BY <3>1, <3>2 DEF IInv, HandlerShape
    <3>3. CASE key[d] # b
      BY <3>1, <3>3 DEF IInv, HandlerShape
    <3>4. QED BY <3>2, <3>3
  <2>3. QED BY <2>1, <2>2
<1>6. wallet \in Int /\ wallet' \in Int
  BY <1>1 DEF TypeOK
<1>7. LockShape'
  <2>1. \A c \in Calls : pc'[c] \in {"locked", "funded"} => pc[c] = pc'[c]
    BY <1>3, <1>4
  <2>2. \A c, e \in Calls :
          pc'[c] \in {"locked", "funded"} /\ pc'[e] \in {"locked", "funded"} => c = e
    BY <2>1 DEF IInv, LockShape
  <2>3. ASSUME NEW c \in Calls, pc'[c] = "funded" PROVE wallet' >= Cost[key'[c]]
    <3>1. pc[c] = "funded" /\ key'[c] = key[c] /\ key[c] \in Bills
      BY <2>1, <2>3 DEF IInv, OwnerShape, EndsMove
    <3>2. wallet >= Cost[key[c]] /\ Cost[key[c]] \in Nat
      BY <3>1, CostIsPositive DEF IInv, LockShape
    <3>3. QED BY <1>6, <3>1, <3>2
  <2>4. QED BY <2>2, <2>3 DEF LockShape
<1>8. OwnerShape'
  <2>1. ASSUME NEW c \in Calls
        PROVE  /\ pc'[c] # "settle"
               /\ pc'[c] # "idle" => key'[c] \in Bills
               /\ answer'[c] # None => key'[c] \in Bills /\ pc'[c] = "over"
               /\ Owner(c)' => /\ txn'[key'[c]] = "PENDING"
                               /\ bill'[key'[c]] = "PENDING"
                               /\ ~ ref'[key'[c]]
                               /\ ~ refund'[key'[c]]
                               /\ snap'[c] = "PENDING"
                               /\ pc'[c] # "heal"
               /\ pc'[c] = "debited" => submits'[key'[c]] = 0
    <3>1. CASE c = a
      BY <1>4, <3>1 DEF Owner, EndsMove
    <3>2. CASE c # a
      <4>1. pc'[c] = pc[c] /\ key'[c] = key[c] /\ snap'[c] = snap[c]
            /\ answer'[c] = answer[c]
        BY <1>3, <3>2 DEF EndsMove
      <4>2. Owner(c)' <=> Owner(c)
        BY <4>1 DEF Owner
      <4>3. Owner(c)' => /\ key[c] \in Bills \ {b}
                         /\ txn[key[c]] = "PENDING" /\ bill[key[c]] = "PENDING"
                         /\ ~ ref[key[c]] /\ ~ refund[key[c]]
                         /\ snap[c] = "PENDING" /\ pc[c] # "heal"
        <5>1. Owner(c) => pc[c] # "idle"
          BY DEF Owner
        <5>2. QED BY <1>2, <3>2, <4>2, <5>1 DEF IInv, OwnerShape
      <4>4. Owner(c)' => /\ txn'[key'[c]] = "PENDING"
                         /\ bill'[key'[c]] = "PENDING"
                         /\ ~ ref'[key'[c]]
                         /\ ~ refund'[key'[c]]
                         /\ snap'[c] = "PENDING"
                         /\ pc'[c] # "heal"
        BY <4>1, <4>3
      <4>5. QED BY <4>1, <4>4 DEF IInv, OwnerShape
    <3>3. QED BY <3>1, <3>2
  <2>2. \A c, e \in Calls : Owner(c)' /\ Owner(e)' /\ key'[c] = key'[e] => c = e
    <3>1. \A c \in Calls : Owner(c)' => Owner(c) /\ key'[c] = key[c]
      BY <1>3, <1>4 DEF Owner, EndsMove
    <3>2. QED BY <3>1 DEF IInv, OwnerShape
  <2>3. \A x \in Bills : ref'[x] => txn'[x] # None
    BY DEF IInv, OwnerShape
  <2>4. QED BY <2>1, <2>2, <2>3 DEF OwnerShape
<1>9. NeverOverdrawn'
  BY <1>6 DEF IInv, NeverOverdrawn
<1>10. SubmittedOnceFunded'
  BY <1>1 DEF IInv, SubmittedOnceFunded
<1>11. FailureIsWhole'
  <2> SUFFICES ASSUME NEW c \in Calls, answer'[c] = "FAILED" PROVE refund'[key'[c]]
    BY DEF FailureIsWhole
  <2>1. key'[c] = key[c]
    BY DEF EndsMove
  <2>2. CASE answer'[c] = answer[c]
    <3>1. key[c] \in Bills /\ refund[key[c]]
      BY <2>2 DEF IInv, FailureIsWhole, OwnerShape
    <3>2. QED BY <2>1, <3>1
  <2>3. CASE answer'[c] # answer[c]
    BY <2>1, <2>3 DEF EndsMove
  <2>4. QED BY <2>2, <2>3
<1>12. RowsAgree'
  <2>1. ASSUME NEW x \in Bills \ {b}
        PROVE  /\ bill'[x] = None <=> txn'[x] = None
               /\ bill'[x] = "FAILED" => refund'[x]
               /\ txn'[x] = "FAILED" => refund'[x] /\ bill'[x] = "FAILED"
               /\ refund'[x] => txn'[x] \in {"FAILED", "COMPLETED"}
    BY DEF IInv, RowsAgree
  <2>2. QED BY <2>1 DEF RowsAgree
<1>13. QED BY <1>5, <1>7, <1>8, <1>9, <1>10, <1>11, <1>12 DEF IInv

LEMMA SettleKeeps ==
  ASSUME IInv, TypeOK', NEW d \in Deliveries, SettleBill(d) \/ CrashHandler(d)
  PROVE  IInv'
<1> USE CallsAreNotDeliveries DEF Actors, rows, railVars
<1>1. TypeOK /\ pc[d] # "idle" /\ HandlerEnds(d)
  BY DEF IInv, SettleBill, CrashHandler
<1>2. /\ key[d] \in Bills /\ txn[key[d]] # None /\ bill[key[d]] # None
      /\ pc[d] \in {"settle", "refund", "unissued", "heal"}
  BY <1>1 DEF IInv, HandlerShape, RowsAgree
<1>3. EndsMove(d)
  BY <1>1, EndsMoved
<1>4. UNCHANGED <<wallet, submits, refund, ref, answer>>
  BY DEF SettleBill, CrashHandler, HandlerEnds
<1>5. wallet' >= wallet
  BY <1>1, <1>4 DEF TypeOK
<1>6. CASE UNCHANGED <<bill, txn>>
  BY <1>2, <1>3, <1>4, <1>5, <1>6, EndKeeps DEF IInv, RowsAgree
<1>7. CASE /\ bill' = [bill EXCEPT ![key[d]] = "COMPLETED"]
           /\ txn' = [txn EXCEPT ![key[d]] = "COMPLETED"]
  BY <1>1, <1>2, <1>3, <1>4, <1>5, <1>7, EndKeeps DEF TypeOK
<1>8. QED BY <1>6, <1>7 DEF SettleBill, CrashHandler

LEMMA RefundKeeps ==
  ASSUME IInv, TypeOK', NEW a \in Actors, RefundStep(a)
  PROVE  IInv'
<1> USE CallsAreNotDeliveries DEF Actors, rows, railVars
<1> DEFINE b == key[a]
<1>1. TypeOK /\ pc[a] \in {"refund", "unissued", "heal"}
  BY DEF IInv, RefundStep, LookUpRefund, HeldFailed, HealBill, CommitRefund, NewRefund, FailDebit, DuplicateRefund, NewRefund
<1>2. /\ b \in Bills /\ txn[b] # None /\ bill[b] # None
      /\ pc[a] = "heal" => refund[b]
      /\ snap[a] = "FAILED" => refund[b]
  BY <1>1 DEF IInv, HandlerShape, OwnerShape, Owner, RowsAgree
<1>3. wallet \in Int /\ Cost[b] \in Nat \ {0}
  BY <1>1, <1>2, CostIsPositive DEF TypeOK
<1>4. CASE LookUpRefund(a) /\ snap[a] = "FAILED"
  <2>1. EndsMove(a) /\ UNCHANGED <<wallet, rows, submits>> /\ refund[b]
    BY <1>1, <1>2, <1>4, EndsMoved DEF LookUpRefund, HeldFailed
  <2>2. wallet' >= wallet
    BY <1>3, <2>1
  <2>3. QED BY <1>1, <1>2, <2>1, <2>2, EndKeeps DEF IInv, RowsAgree
<1>5. CASE LookUpRefund(a) /\ snap[a] # "FAILED"
  <2>1. /\ pc[a] = "refund"
        /\ pc' = [pc EXCEPT ![a] = IF refund[b] THEN "heal" ELSE "unissued"]
        /\ UNCHANGED <<wallet, rows, submits, key, snap, answer>>
    BY <1>5 DEF LookUpRefund, HeldFailed, GoTo
  <2>2. a \in Calls => ~ refund[b]
    BY <2>1 DEF IInv, OwnerShape, Owner
  <2>3. HandlerShape'
    BY <1>1, <2>1 DEF IInv, HandlerShape, TypeOK
  <2>4. LockShape'
    BY <1>1, <2>1 DEF IInv, LockShape, TypeOK
  <2>5. OwnerShape'
    <3>1. \A c \in Calls : Owner(c)' <=> Owner(c)
      BY <1>1, <2>1 DEF Owner, TypeOK
    <3>2. \A c \in Calls : /\ pc'[c] = pc[c] \/ (c = a /\ pc'[c] = "unissued")
      BY <1>1, <2>1, <2>2 DEF TypeOK
    <3>3. \A c \in Calls : c = a => pc[c] = "refund"
      BY <2>1
    <3>4. QED BY <2>1, <3>1, <3>2, <3>3 DEF IInv, OwnerShape
  <2>6. NeverOverdrawn' /\ SubmittedOnceFunded' /\ FailureIsWhole' /\ RowsAgree'
    BY <2>1 DEF IInv, NeverOverdrawn, SubmittedOnceFunded, FailureIsWhole, RowsAgree
  <2>7. QED BY <2>3, <2>4, <2>5, <2>6 DEF IInv
<1>6. CASE HealBill(a)
  <2>1. EndsMove(a) /\ UNCHANGED <<wallet, txn, refund, submits>> /\ refund[b]
        /\ bill' = [bill EXCEPT ![b] = "FAILED"]
        /\ ref' = [ref EXCEPT ![b] = @ \/ knowsRef[a]]
    BY <1>1, <1>2, <1>6, EndsMoved DEF HealBill, FailBill
  <2>2. wallet' >= wallet
    BY <1>3, <2>1
  <2>3. /\ \A x \in Bills \ {b} : bill'[x] = bill[x] /\ ref'[x] = ref[x]
        /\ bill'[b] = "FAILED" /\ (ref[b] => ref'[b])
    BY <1>1, <1>2, <2>1 DEF TypeOK
  <2>4. txn[b] \in {"FAILED", "COMPLETED"}
    BY <1>2, <2>1 DEF IInv, RowsAgree
  <2>5. QED BY <1>1, <1>2, <2>1, <2>2, <2>3, <2>4, EndKeeps
<1>7. CASE CommitRefund(a)
  <2>1. /\ EndsMove(a) /\ UNCHANGED submits
        /\ bill' = [bill EXCEPT ![b] = "FAILED"]
        /\ ref' = [ref EXCEPT ![b] = @ \/ knowsRef[a]]
        /\ txn' = [txn EXCEPT ![b] = "FAILED"]
        /\ refund' = [refund EXCEPT ![b] = TRUE]
        /\ wallet' = wallet + Cost[b]
    BY <1>1, <1>7, EndsMoved DEF CommitRefund, NewRefund, FailDebit, FailBill
  <2>2. wallet' >= wallet
    BY <1>3, <2>1
  <2>3. /\ \A x \in Bills \ {b} : /\ bill'[x] = bill[x] /\ ref'[x] = ref[x]
                                  /\ txn'[x] = txn[x] /\ refund'[x] = refund[x]
        /\ bill'[b] = "FAILED" /\ txn'[b] = "FAILED" /\ refund'[b] = TRUE
        /\ ref[b] => ref'[b]
    BY <1>1, <1>2, <2>1 DEF TypeOK
  <2>4. QED BY <1>1, <1>2, <2>1, <2>2, <2>3, EndKeeps
<1>8. CASE DuplicateRefund(a)
  <2>1. EndsMove(a) /\ UNCHANGED <<wallet, rows, submits>> /\ refund[b]
    BY <1>1, <1>8, EndsMoved DEF DuplicateRefund, NewRefund
  <2>2. wallet' >= wallet
    BY <1>3, <2>1
  <2>3. QED BY <1>1, <1>2, <2>1, <2>2, EndKeeps DEF IInv, RowsAgree
<1>9. QED BY <1>4, <1>5, <1>6, <1>7, <1>8 DEF RefundStep

LEMMA NextIInv == IInv /\ [Next]_vars => IInv'
<1> SUFFICES ASSUME IInv, [Next]_vars PROVE IInv'
  OBVIOUS
<1>1. TypeOK'
  BY NextTyped
<1>2. CASE UNCHANGED vars
  BY <1>1, <1>2
  DEF vars, rows, railVars, actorVars, IInv, HandlerShape, LockShape, OwnerShape, Owner,
      NeverOverdrawn, SubmittedOnceFunded, FailureIsWhole, RowsAgree
<1>3. CASE Next
  BY <1>1, <1>3, CallKeeps, DebitKeeps, SubmitKeeps, StoreKeeps, RailKeeps,
     DeliverKeeps, SettleKeeps, RefundKeeps
  DEF Next, CallStep
<1>4. QED BY <1>2, <1>3

(* The inductive invariant, for any number of calls and webhooks at once.  *)
THEOREM Inductive == Spec => []IInv
BY InitIInv, NextIInv, PTL DEF Spec

(* Every reachable state is well typed.                                    *)
THEOREM TypeCorrect == Spec => []TypeOK
<1>1. IInv => TypeOK
  BY DEF IInv
<1>2. QED BY <1>1, Inductive, PTL

(* Bills never overdraw the wallet, ...                                    *)
THEOREM Solvent == Spec => []NeverOverdrawn
<1>1. IInv => NeverOverdrawn
  BY DEF IInv
<1>2. QED BY <1>1, Inductive, PTL

(* ... each is submitted to the rail once at most and only when debited,   *)
THEOREM OneSubmission == Spec => []SubmittedOnceFunded
<1>1. IInv => SubmittedOnceFunded
  BY DEF IInv
<1>2. QED BY <1>1, Inductive, PTL

(* ... nobody is told of a failure before the refund is made, ...          *)
THEOREM FailuresRefunded == Spec => []FailureIsWhole
<1>1. IInv => FailureIsWhole
  BY DEF IInv
<1>2. QED BY <1>1, Inductive, PTL

(* ... and the rows of a bill agree at every commit.                       *)
THEOREM RowsConsistent == Spec => []RowsAgree
<1>1. IInv => RowsAgree
  BY DEF IInv
<1>2. QED BY <1>1, Inductive, PTL

-----------------------------------------------------------------------------
(* The payment of bills implements BillEscrow.                             *)

LEMMA CommitTakes ==
  ASSUME IInv, NEW c \in Calls, CommitDebit(c)
  PROVE  Escrow!Take(key[c])
<1>1. /\ TypeOK /\ key[c] \in Bills /\ txn[key[c]] = None /\ ~ refund[key[c]]
      /\ wallet >= Cost[key[c]]
  BY DEF CommitDebit, IInv, OwnerShape, LockShape, RowsAgree
<1>2. /\ txn' = [txn EXCEPT ![key[c]] = "PENDING"]
      /\ refund' = refund
      /\ wallet' = wallet - Cost[key[c]]
  BY DEF CommitDebit
<1>3. Held[key[c]] = "none"
  BY <1>1 DEF Held
<1>4. Held' = [Held EXCEPT ![key[c]] = "taken"]
  BY <1>1, <1>2 DEF Held, TypeOK
<1>5. QED BY <1>1, <1>2, <1>3, <1>4 DEF Escrow!Take

LEMMA CommitReturns ==
  ASSUME IInv, NEW a \in Actors, CommitRefund(a)
  PROVE  Escrow!Return(key[a]) /\ key[a] \in Bills
<1>1. TypeOK /\ key[a] \in Bills /\ txn[key[a]] # None /\ ~ refund[key[a]]
  BY DEF CommitRefund, NewRefund, FailDebit, IInv, OwnerShape, HandlerShape, Owner, Actors
<1>2. /\ txn' = [txn EXCEPT ![key[a]] = "FAILED"]
      /\ refund' = [refund EXCEPT ![key[a]] = TRUE]
      /\ wallet' = wallet + Cost[key[a]]
  BY DEF CommitRefund, NewRefund, FailDebit
<1>3. Held[key[a]] = "taken"
  BY <1>1 DEF Held
<1>4. Held' = [Held EXCEPT ![key[a]] = "returned"]
  BY <1>1, <1>2 DEF Held, TypeOK
<1>5. QED BY <1>1, <1>2, <1>3, <1>4 DEF Escrow!Return

(* A settlement changes the status of a debit, not that there is one.      *)
LEMMA SettleStutters ==
  ASSUME IInv, NEW d \in Deliveries, SettleBill(d)
  PROVE  UNCHANGED Escrow!vars
<1>1. TypeOK /\ key[d] \in Bills /\ txn[key[d]] # None
  BY DEF SettleBill, IInv, HandlerShape
<1>2. \A b \in Bills : txn'[b] = None <=> txn[b] = None
  BY <1>1 DEF SettleBill, TypeOK
<1>3. UNCHANGED <<wallet, refund>>
  BY DEF SettleBill
<1>4. Held' = Held
  BY <1>2, <1>3 DEF Held
<1>5. QED BY <1>3, <1>4 DEF Escrow!vars

LEMMA NextEscrow == IInv /\ [Next]_vars => [Escrow!Next]_(Escrow!vars)
<1> SUFFICES ASSUME IInv, [Next]_vars PROVE [Escrow!Next]_(Escrow!vars)
  OBVIOUS
<1> USE DEF Escrow!Next
<1>1. CASE UNCHANGED <<wallet, txn, refund>>
  BY <1>1 DEF Escrow!vars, Held
<1>2. ASSUME NEW c \in Calls, CommitDebit(c) PROVE Escrow!Next
  <2>1. key[c] \in Bills
    BY <1>2 DEF CommitDebit, IInv, OwnerShape
  <2>2. QED BY <1>2, <2>1, CommitTakes
<1>3. ASSUME NEW a \in Actors, CommitRefund(a) PROVE Escrow!Next
  BY <1>3, CommitReturns
<1>4. ASSUME NEW d \in Deliveries, SettleBill(d) PROVE UNCHANGED Escrow!vars
  BY <1>4, SettleStutters
<1>5. QED
  BY <1>1, <1>2, <1>3, <1>4
  DEF Next, CallStep, RefundStep, PayBill, Preflight, AcquireWalletLock, CheckBalance,
      DuplicateKey, Submit, StoreReference, CrashCall, Decide, DropUnknown, Found, Deliver, Found,
      CrashHandler, LookUpRefund, HeldFailed, HealBill, DuplicateRefund, NewRefund, rows, vars

(* Per key, one debit that the balance covered and at most one refund of   *)
(* it, over every replay, crash, duplicate and stale webhook.              *)
THEOREM Refinement == Spec => KeepsEscrow
<1>1. Init => Escrow!Init
  BY DEF Init, Escrow!Init, Held
<1>2. QED BY <1>1, NextEscrow, Inductive, PTL DEF Spec, KeepsEscrow, Escrow!Spec

-----------------------------------------------------------------------------
(* One webhook of a bill at a time would be enough to keep a refunded bill *)
(* from being COMPLETED: the row a handler holds is then the row there is. *)

Fresh ==
  /\ \A b \in Bills : refund[b] => bill[b] = "FAILED"
  /\ \A d \in Deliveries : pc[d] # "idle" => snap[d] = bill[key[d]]

LEMMA NextFresh ==
  IInv /\ Fresh /\ SerialHandlers /\ SerialHandlers' /\ [Next]_vars => Fresh'
<1> SUFFICES ASSUME IInv, Fresh, SerialHandlers, SerialHandlers', [Next]_vars
             PROVE  Fresh'
  OBVIOUS
<1> USE CallsAreNotDeliveries
<1> USE DEF Actors, rows, railVars, actorVars
<1>0. /\ TypeOK
      /\ \A d \in Deliveries : pc[d] # "idle" => key[d] \in Bills /\ ref[key[d]]
      /\ \A c \in Calls : Owner(c) => key[c] \in Bills /\ ~ ref[key[c]] /\ ~ refund[key[c]]
  BY DEF IInv, HandlerShape, OwnerShape, Owner
<1>1. CASE UNCHANGED vars
  BY <1>1 DEF vars, Fresh
<1>2. ASSUME NEW c \in Calls,
             \A a \in Actors \ {c} : pc'[a] = pc[a],
             UNCHANGED <<bill, refund>>,
             \A d \in Deliveries : key'[d] = key[d] /\ snap'[d] = snap[d]
      PROVE  Fresh'
  BY <1>2 DEF Fresh
<1>3. ASSUME NEW c \in Calls, CommitDebit(c) PROVE Fresh'
  <2>1. key[c] \in Bills /\ txn[key[c]] = None /\ bill[key[c]] = None
    BY <1>3 DEF CommitDebit, IInv, OwnerShape, RowsAgree
  <2>2. \A d \in Deliveries : pc[d] # "idle" => key[d] # key[c]
    BY <2>1 DEF IInv, HandlerShape
  <2>3. QED BY <1>0, <1>3, <2>1, <2>2 DEF CommitDebit, Fresh, GoTo, TypeOK
<1>4. ASSUME NEW c \in Calls, StoreReference(c) PROVE Fresh'
  <2>1. Owner(c)
    BY <1>4 DEF StoreReference, Owner
  <2>2. \A d \in Deliveries : pc[d] # "idle" => key[d] # key[c]
    BY <1>0, <2>1
  <2>3. \A b \in Bills : b # key[c] => bill'[b] = bill[b]
    BY <1>0, <1>4 DEF StoreReference, TypeOK
  <2>4. \A d \in Deliveries : pc'[d] = pc[d] /\ key'[d] = key[d] /\ snap'[d] = snap[d]
    BY <1>0, <1>4 DEF StoreReference, Returns, GoTo, TypeOK
  <2>5. refund' = refund /\ ~ refund[key[c]]
    BY <1>0, <1>4, <2>1 DEF StoreReference
  <2>6. QED BY <1>0, <2>2, <2>3, <2>4, <2>5 DEF Fresh
<1>5. ASSUME NEW b \in Bills, NEW v \in Verdicts, Decide(b, v) \/ DropUnknown(b, v)
      PROVE  Fresh'
  BY <1>5 DEF Decide, DropUnknown, Found, Fresh
<1>6. ASSUME NEW d \in Deliveries, NEW b \in Bills, NEW v \in Verdicts, Deliver(d, b, v)
      PROVE  Fresh'
  BY <1>0, <1>6 DEF Deliver, Found, GoTo, Fresh, TypeOK
<1>7. ASSUME NEW d \in Deliveries, SettleBill(d) \/ CrashHandler(d) PROVE Fresh'
  <2>1. EndsMove(d)
    BY <1>0, <1>7, EndsMoved DEF SettleBill, CrashHandler
  <2>2. pc[d] # "idle" /\ refund' = refund
    BY <1>7 DEF SettleBill, CrashHandler
  <2>3. \A b \in Bills : bill'[b] = bill[b]
                        \/ (b = key[d] /\ snap[d] = "PENDING" /\ bill'[b] = "COMPLETED")
    BY <1>0, <1>7 DEF SettleBill, CrashHandler, TypeOK
  <2>4. snap[d] = "PENDING" => bill[key[d]] = "PENDING"
    BY <2>2 DEF Fresh
  <2>5. \A e \in Deliveries : pc'[e] # "idle" =>
          pc[e] # "idle" /\ key'[e] = key[e] /\ snap'[e] = snap[e] /\ key[e] # key[d]
    BY <1>0, <2>1, <2>2 DEF EndsMove, SerialHandlers, TypeOK
  <2>6. QED BY <1>0, <2>2, <2>3, <2>4, <2>5 DEF Fresh
<1>8. ASSUME NEW a \in Actors, LookUpRefund(a), snap[a] # "FAILED" PROVE Fresh'
  <2>1. UNCHANGED <<bill, refund, key, snap>>
    BY <1>8 DEF LookUpRefund, HeldFailed
  <2>2. \A d \in Deliveries : pc'[d] # "idle" => pc[d] # "idle"
    BY <1>0, <1>8 DEF LookUpRefund, HeldFailed, GoTo, TypeOK
  <2>3. QED BY <2>1, <2>2 DEF Fresh
<1>9. ASSUME NEW a \in Actors, EndsMove(a), key[a] \in Bills, pc[a] # "idle",
             a \in Calls => Owner(a),
             \/ UNCHANGED <<bill, refund>>
             \/ /\ bill' = [bill EXCEPT ![key[a]] = "FAILED"]
                /\ \/ refund' = refund
                   \/ refund' = [refund EXCEPT ![key[a]] = TRUE]
      PROVE  Fresh'
  <2>1. \A b \in Bills : refund'[b] => bill'[b] = "FAILED"
    BY <1>0, <1>9 DEF Fresh, TypeOK
  <2>2. \A b \in Bills \ {key[a]} : bill'[b] = bill[b]
    BY <1>0, <1>9 DEF TypeOK
  <2>3. \A d \in Deliveries : pc'[d] # "idle" =>
          pc[d] # "idle" /\ key'[d] = key[d] /\ snap'[d] = snap[d]
    BY <1>0, <1>9 DEF EndsMove, TypeOK
  <2>4. \A d \in Deliveries : pc'[d] # "idle" => key[d] # key[a]
    <3>1. CASE a \in Calls
      BY <1>0, <1>9, <2>3, <3>1
    <3>2. CASE a \in Deliveries
      BY <1>0, <1>9, <2>3, <3>2 DEF EndsMove, SerialHandlers, TypeOK
    <3>3. QED BY <3>1, <3>2
  <2>5. QED BY <1>0, <2>1, <2>2, <2>3, <2>4 DEF Fresh
<1>10. ASSUME NEW a \in Actors, RefundStep(a) PROVE Fresh'
  <2>1. /\ key[a] \in Bills /\ pc[a] # "idle"
        /\ a \in Calls => Owner(a)
    BY <1>0, <1>10
    DEF IInv, OwnerShape, Owner, RefundStep, LookUpRefund, HeldFailed, HealBill, CommitRefund, NewRefund, FailDebit,
        DuplicateRefund, NewRefund
  <2>2. CASE LookUpRefund(a) /\ snap[a] = "FAILED"
    BY <1>0, <1>9, <2>1, <2>2, EndsMoved DEF LookUpRefund, HeldFailed
  <2>3. CASE HealBill(a)
    BY <1>0, <1>9, <2>1, <2>3, EndsMoved DEF HealBill, FailBill
  <2>4. CASE CommitRefund(a)
    BY <1>0, <1>9, <2>1, <2>4, EndsMoved DEF CommitRefund, NewRefund, FailDebit, FailBill
  <2>5. CASE DuplicateRefund(a)
    BY <1>0, <1>9, <2>1, <2>5, EndsMoved DEF DuplicateRefund, NewRefund
  <2>6. QED BY <1>8, <1>10, <2>2, <2>3, <2>4, <2>5 DEF RefundStep
<1>11. ASSUME NEW c \in Calls,
              \/ \E b \in Bills : PayBill(c, b)
              \/ Preflight(c) \/ AcquireWalletLock(c) \/ CheckBalance(c)
              \/ DuplicateKey(c) \/ Submit(c) \/ CrashCall(c)
       PROVE  Fresh'
  <2>1. /\ \A a \in Actors \ {c} : pc'[a] = pc[a]
        /\ UNCHANGED <<bill, refund>>
        /\ \A d \in Deliveries : key'[d] = key[d] /\ snap'[d] = snap[d]
    BY <1>0, <1>11
    DEF PayBill, Preflight, AcquireWalletLock, CheckBalance, DuplicateKey, Submit,
        CrashCall, Returns, Throws, GoTo, TypeOK
  <2>2. QED BY <1>2, <2>1
<1>12. CASE Next
  BY <1>12, <1>3, <1>4, <1>5, <1>6, <1>7, <1>10, <1>11 DEF Next, CallStep
<1>13. QED BY <1>1, <1>12

(* When the webhooks of a bill are handled one after the other, a refunded *)
(* bill is never COMPLETED, whatever the calls and the rail do.            *)
THEOREM SerialWebhooksSuffice ==
  Spec /\ []SerialHandlers => []RefundedIsNotCompleted
<1>1. Init => Fresh
  BY DEF Init, Fresh, Actors
<1>2. Fresh => RefundedIsNotCompleted
  BY DEF Fresh, RefundedIsNotCompleted
<1>3. QED BY <1>1, <1>2, NextFresh, Inductive, PTL DEF Spec
=============================================================================
