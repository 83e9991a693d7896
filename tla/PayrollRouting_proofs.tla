----------------------- MODULE PayrollRouting_proofs -----------------------
(***************************************************************************)
(* Proofs about PayrollRouting, for any number of workers, requests and    *)
(* settlements and any amounts.                                            *)
(***************************************************************************)
EXTENDS PayrollRouting, SettlementPolicy, SumTheorems

USE DEF None

(* What needs no assumption on how settlements overlap. *)
TInv == TypeOK /\ PointersSet

LEMMA InitTyped == Init => TInv
<1> SUFFICES ASSUME Init PROVE TInv
  OBVIOUS
<1>1. Zero \in [Workers -> Nat]
  BY DEF Zero
<1>2. TypeOK
  BY <1>1 DEF Init, TypeOK, CycleStatus, IntentStatus, AdvanceStatus, RequestPc, SettlePc
<1>3. PointersSet
  BY DEF Init, PointersSet, AtIntent
<1>4. QED BY <1>2, <1>3 DEF TInv

(* Steps outside the two transactions. *)
LEMMA EnvironmentTyped ==
  ASSUME TInv,
         \/ \E m \in SUBSET Workers, g \in [Workers -> GrossAmounts] : Ingest(m, g)
         \/ \E e \in Workers : ComplianceChange(e)
         \/ FailsafeChange
         \/ \E r \in Requests, e \in Workers, a \in Amounts : RequestAdvance(r, e, a)
         \/ FindDrift
         \/ MarkDriftFailed
  PROVE  TInv'
<1> USE GrossIsPositive, AmountsArePositive
<1> USE DEF TInv, TypeOK, PointersSet, CycleStatus, IntentStatus, AdvanceStatus,
            RequestPc, SettlePc, cycleVars, ledgerVars, riskVars, requestVars, txVars
<1>1. CASE \E m \in SUBSET Workers, g \in [Workers -> GrossAmounts] : Ingest(m, g)
  <2> PICK m \in SUBSET Workers, g \in [Workers -> GrossAmounts] : Ingest(m, g)
    BY <1>1
  <2>1. gross' \in [Workers -> Nat]
    BY DEF Ingest
  <2>2. intent' \in [Workers -> IntentStatus]
    BY DEF Ingest
  <2>3. QED BY <2>1, <2>2 DEF Ingest
<1>2. CASE \E e \in Workers : ComplianceChange(e)
  BY <1>2 DEF ComplianceChange
<1>3. CASE FailsafeChange
  BY <1>3 DEF FailsafeChange
<1>4. CASE \E r \in Requests, e \in Workers, a \in Amounts : RequestAdvance(r, e, a)
  BY <1>4 DEF RequestAdvance
<1>5. CASE FindDrift
  BY <1>5 DEF FindDrift
<1>6. CASE MarkDriftFailed
  BY <1>6 DEF MarkDriftFailed
<1>7. QED BY <1>1, <1>2, <1>3, <1>4, <1>5, <1>6

LEMMA ReserveTyped ==
  ASSUME TInv, NEW r \in Requests, ReserveStep(r) \/ AbortAdvance(r)
  PROVE  TInv'
<1> USE DEF TInv, TypeOK, PointersSet, CycleStatus, IntentStatus, AdvanceStatus,
            RequestPc, SettlePc, cycleVars, ledgerVars, riskVars, requestVars, txVars
<1>1. CASE AcquireWorkerLock(r)
  BY <1>1 DEF AcquireWorkerLock
<1>2. CASE EnforceCompliance(r)
  BY <1>2 DEF EnforceCompliance
<1>3. CASE CheckLimits(r)
  BY <1>3 DEF CheckLimits
<1>4. CASE WriteAdvance(r)
  BY <1>4 DEF WriteAdvance
<1>5. CASE CommitAdvance(r)
  <2>1. /\ reserveSum' \in [Workers -> Nat]
        /\ wallet' \in [Workers -> Nat]
    <3>1. amount[r] \in Nat
      OBVIOUS
    <3>2. \A e \in Workers : /\ reserveSum[e] + amount[r] \in Nat
                             /\ wallet[e] + amount[r] \in Nat
      BY <3>1
    <3>3. QED BY <1>5, <3>2 DEF CommitAdvance, MayCommit
  <2>2. QED BY <1>5, <2>1 DEF CommitAdvance, MayCommit
<1>6. CASE AbortAdvance(r)
  BY <1>6 DEF AbortAdvance
<1>7. QED BY <1>1, <1>2, <1>3, <1>4, <1>5, <1>6 DEF ReserveStep

(* The end of a settlement leaves its variables typed and its pointers idle. *)
LEMMA EndTyped ==
  ASSUME TInv, NEW s \in Settlers, EndSettlement(s)
  PROVE  /\ spc' \in [Settlers -> SettlePc]
         /\ todo' \in [Settlers -> SUBSET Workers]
         /\ cur' \in [Settlers -> Workers \cup {None}]
         /\ batch' \in [Settlers -> SUBSET Requests]
         /\ curAdv' \in [Settlers -> Requests \cup {None}]
         /\ wAdvance' \in [Settlers -> SUBSET Requests]
         /\ wSettle' \in [Settlers -> [Workers -> Nat]]
         /\ wPay' \in [Settlers -> [Workers -> Nat]]
         /\ wRouted' \in [Settlers -> SUBSET Workers]
         /\ PointersSet'
BY DEF TInv, TypeOK, PointersSet, SettlePc, EndSettlement, Zero, AtIntent

LEMMA SettleTyped ==
  ASSUME TInv, NEW s \in Settlers,
         StartSettlement(s) \/ SettleStep(s) \/ AbortSettlement(s)
  PROVE  TInv'
<1> USE DEF TInv, TypeOK, PointersSet, AtIntent, SettlePc,
            cycleVars, ledgerVars, riskVars, requestVars, txVars
<1>1. CASE StartSettlement(s)
  BY <1>1 DEF StartSettlement
<1>2. CASE ListIntents(s)
  BY <1>2 DEF ListIntents, PendingIntents
<1>3. CASE \E e \in Workers : ReadIntent(s, e)
  BY <1>3 DEF ReadIntent
<1>4. CASE ListAdvances(s)
  BY <1>4 DEF ListAdvances, ReservedAdvances
<1>5. CASE \E r \in Requests : CheckAdvance(s, r)
  BY <1>5 DEF CheckAdvance
<1>6. CASE SettleAdvance(s)
  BY <1>6 DEF SettleAdvance
<1>7. CASE CreditResidual(s)
  BY <1>7 DEF CreditResidual, CoversAdvances, Residual
<1>8. CASE RouteIntent(s)
  BY <1>8 DEF RouteIntent
<1>9. CASE CommitSettlement(s)
  BY <1>9, EndTyped DEF CommitSettlement, StatusAfter, WalletCredit, CycleStatus, IntentStatus, AdvanceStatus
<1>10. CASE SettlementThrows(s)
  BY <1>10, EndTyped DEF SettlementThrows
<1>11. CASE AbortSettlement(s)
  BY <1>11, EndTyped DEF AbortSettlement
<1>12. QED
  BY <1>1, <1>2, <1>3, <1>4, <1>5, <1>6, <1>7, <1>8, <1>9, <1>10, <1>11 DEF SettleStep

-----------------------------------------------------------------------------
(* Type correctness, whatever the number of settlements at once. *)

LEMMA NextTyped == TInv /\ [Next]_vars => TInv'
<1> SUFFICES ASSUME TInv, [Next]_vars PROVE TInv'
  OBVIOUS
<1>1. CASE UNCHANGED vars
  BY <1>1 DEF TInv, TypeOK, PointersSet, vars, cycleVars, ledgerVars, riskVars,
              requestVars, txVars
<1>2. CASE Next
  BY <1>2, EnvironmentTyped, ReserveTyped, SettleTyped DEF Next
<1>3. QED BY <1>1, <1>2

(* Every reachable state of the routing plane is well typed; in particular *)
(* no residual that is credited, and no balance, is ever negative.         *)
THEOREM TypeCorrect == Spec => []TypeOK
<1>1. TInv => TypeOK
  BY DEF TInv
<1>2. QED BY <1>1, InitTyped, NextTyped, PTL DEF Spec

LEMMA NextWallet ==
  TypeOK /\ WalletMatchesLedger /\ [Next]_vars => WalletMatchesLedger'
<1> SUFFICES ASSUME TypeOK, WalletMatchesLedger, [Next]_vars
             PROVE  WalletMatchesLedger'
  OBVIOUS
<1> USE DEF WalletMatchesLedger, ledgerVars
<1>1. ASSUME NEW r \in Requests, CommitAdvance(r)
      PROVE  WalletMatchesLedger'
  <2> SUFFICES ASSUME NEW e \in Workers
               PROVE  wallet'[e] = reserveSum'[e] + payrollSum'[e]
    OBVIOUS
  <2>1. /\ wallet[e] \in Nat /\ reserveSum[e] \in Nat /\ payrollSum[e] \in Nat
        /\ amount[r] \in Nat
    BY DEF TypeOK
  <2>2. CASE owner[r] = e
    BY <1>1, <2>1, <2>2 DEF CommitAdvance, MayCommit, TypeOK
  <2>3. CASE owner[r] # e
    BY <1>1, <2>1, <2>3 DEF CommitAdvance, MayCommit, TypeOK
  <2>4. QED BY <2>2, <2>3
<1>2. ASSUME NEW s \in Settlers, CommitSettlement(s)
      PROVE  WalletMatchesLedger'
  <2> SUFFICES ASSUME NEW e \in Workers
               PROVE  wallet'[e] = reserveSum'[e] + payrollSum'[e]
    OBVIOUS
  <2>1. /\ wallet[e] \in Nat /\ reserveSum[e] \in Nat /\ payrollSum[e] \in Nat
        /\ wPay[s][e] \in Nat
    BY DEF TypeOK
  <2>2. QED BY <1>2, <2>1 DEF CommitSettlement, StatusAfter, WalletCredit
<1>3. CASE UNCHANGED ledgerVars
  BY <1>3
<1>4. QED
  BY <1>1, <1>2, <1>3
  DEF Next, ReserveStep, SettleStep, Ingest, ComplianceChange, FailsafeChange,
      RequestAdvance, AcquireWorkerLock, EnforceCompliance, CheckLimits,
      WriteAdvance, AbortAdvance, StartSettlement, ListIntents, PendingIntents, ReadIntent,
      ListAdvances, ReservedAdvances, CheckAdvance, SettleAdvance, CreditResidual, CoversAdvances, RouteIntent,
      SettlementThrows, AbortSettlement, FindDrift, MarkDriftFailed, vars

(* No wallet movement without its ledger entries, even when settlements    *)
(* overlap.                                                                *)
THEOREM WalletIsBacked == Spec => []WalletMatchesLedger
<1>1. Init => WalletMatchesLedger
  BY DEF Init, WalletMatchesLedger, Zero
<1>2. QED BY <1>1, TypeCorrect, NextWallet, PTL DEF Spec

-----------------------------------------------------------------------------
(* The inductive invariant, as long as settlements do not overlap.         *)

LEMMA InitIInv == Init => IInv
<1> SUFFICES ASSUME Init PROVE IInv
  OBVIOUS
<1>1. TypeOK /\ PointersSet
  BY InitTyped DEF TInv
<1>2. CycleShape
  BY DEF Init, CycleShape, Zero
<1>3. RequestShape
  BY DEF Init, RequestShape
<1>4. ASSUME NEW s \in Settlers PROVE SettlementShape(s)
  BY DEF Init, SettlementShape, InTx, SettlePc, AtIntent, Zero
<1>5. WalletMatchesLedger /\ GrossAccounted /\ SettledExactlyOnce
  BY DEF Init, WalletMatchesLedger, GrossAccounted, SettledExactlyOnce, Zero
<1>6. QED BY <1>1, <1>2, <1>3, <1>4, <1>5 DEF IInv

(* A call of settleCycle outside its transaction has nothing in hand, and  *)
(* this stays so whatever the others do.                                   *)
LEMMA IdleShape ==
  ASSUME NEW t \in Settlers, SettlementShape(t), ~ InTx(t), TypeOK,
         spc'[t] = spc[t], todo'[t] = todo[t], batch'[t] = batch[t],
         wAdvance'[t] = wAdvance[t], wSettle'[t] = wSettle[t],
         wPay'[t] = wPay[t], wRouted'[t] = wRouted[t]
  PROVE  SettlementShape(t)'
<1>1. spc[t] = "idle"
  BY DEF InTx, TypeOK
<1>2. QED
  BY <1>1 DEF SettlementShape, InTx, AtIntent, SettlePc

LEMMA EnvironmentKeeps ==
  ASSUME IInv,
         \/ \E m \in SUBSET Workers, g \in [Workers -> GrossAmounts] : Ingest(m, g)
         \/ \E e \in Workers : ComplianceChange(e)
         \/ FailsafeChange
         \/ \E r \in Requests, e \in Workers, a \in Amounts : RequestAdvance(r, e, a)
         \/ FindDrift
         \/ MarkDriftFailed
  PROVE  IInv'
<1> USE DEF cycleVars, ledgerVars, riskVars, requestVars, txVars
<1>1. TypeOK' /\ PointersSet'
  BY EnvironmentTyped DEF IInv, TInv
<1>2. WalletMatchesLedger'
  <2>1. UNCHANGED ledgerVars
    BY DEF Ingest, ComplianceChange, FailsafeChange, RequestAdvance, FindDrift,
           MarkDriftFailed
  <2>2. QED BY <2>1 DEF IInv, WalletMatchesLedger
<1>3. CASE \E m \in SUBSET Workers, g \in [Workers -> GrossAmounts] : Ingest(m, g)
  <2> PICK m \in SUBSET Workers, g \in [Workers -> GrossAmounts] : Ingest(m, g)
    BY <1>3
  <2>1. \A e \in Workers : intent[e] = None
    BY DEF IInv, CycleShape, Ingest, TypeOK, IntentStatus
  <2>2. \A s \in Settlers : ~ InTx(s)
    BY DEF IInv, SettlementShape, Ingest
  <2>3. CycleShape'
    BY <2>1 DEF IInv, CycleShape, Ingest
  <2>4. RequestShape'
    BY DEF IInv, RequestShape, Ingest
  <2>5. \A s \in Settlers : SettlementShape(s)'
    BY <2>2, IdleShape DEF IInv, Ingest
  <2>6. GrossAccounted'
    BY <2>1 DEF IInv, GrossAccounted, Ingest
  <2>7. SettledExactlyOnce'
    BY DEF IInv, SettledExactlyOnce, Ingest
  <2>8. QED BY <1>1, <1>2, <2>3, <2>4, <2>5, <2>6, <2>7 DEF IInv
<1>4. CASE (\E e \in Workers : ComplianceChange(e)) \/ FailsafeChange
  <2>1. UNCHANGED <<cycleVars, ledgerVars, requestVars, advance, spc, txVars, drift>>
    BY <1>4 DEF ComplianceChange, FailsafeChange
  <2>2. CycleShape' /\ RequestShape' /\ GrossAccounted' /\ SettledExactlyOnce'
    BY <2>1 DEF IInv, CycleShape, RequestShape, GrossAccounted, SettledExactlyOnce
  <2>3. \A s \in Settlers : SettlementShape(s)'
    BY <2>1 DEF IInv, SettlementShape, InTx
  <2>4. QED BY <1>1, <1>2, <2>2, <2>3 DEF IInv
<1>5. CASE \E r \in Requests, e \in Workers, a \in Amounts : RequestAdvance(r, e, a)
  <2>1. CycleShape' /\ GrossAccounted' /\ SettledExactlyOnce'
    BY <1>5 DEF IInv, CycleShape, GrossAccounted, SettledExactlyOnce, RequestAdvance
  <2>2. RequestShape'
    BY <1>5 DEF IInv, RequestShape, RequestAdvance, TypeOK
  <2>3. \A s \in Settlers : SettlementShape(s)'
    BY <1>5 DEF IInv, SettlementShape, InTx, RequestAdvance
  <2>4. QED BY <1>1, <1>2, <2>1, <2>2, <2>3 DEF IInv
<1>6. CASE FindDrift
  <2>1. CycleShape'
    BY <1>6 DEF IInv, CycleShape, FindDrift
  <2>2. RequestShape' /\ GrossAccounted' /\ SettledExactlyOnce'
    BY <1>6 DEF IInv, RequestShape, GrossAccounted, SettledExactlyOnce, FindDrift
  <2>3. \A s \in Settlers : SettlementShape(s)'
    BY <1>6 DEF IInv, SettlementShape, InTx, FindDrift
  <2>4. QED BY <1>1, <1>2, <2>1, <2>2, <2>3 DEF IInv
<1>7. CASE MarkDriftFailed
  <2>1. cycle = "SETTLED"
    BY <1>7 DEF IInv, CycleShape, MarkDriftFailed
  <2>2. CycleShape'
    BY <1>7, <2>1 DEF IInv, CycleShape, MarkDriftFailed
  <2>3. RequestShape' /\ GrossAccounted' /\ SettledExactlyOnce'
    BY <1>7 DEF IInv, RequestShape, GrossAccounted, SettledExactlyOnce, MarkDriftFailed
  <2>4. \A s \in Settlers : ~ InTx(s)
    BY <2>1 DEF IInv, SettlementShape
  <2>5. \A s \in Settlers : SettlementShape(s)'
    BY <1>7, <2>4, IdleShape DEF IInv, MarkDriftFailed
  <2>6. QED BY <1>1, <1>2, <2>2, <2>3, <2>5 DEF IInv
<1>8. QED BY <1>3, <1>4, <1>5, <1>6, <1>7

(* A reservation touches no settlement; only its commit touches the ledger. *)
LEMMA ReserveKeeps ==
  ASSUME IInv, NEW r \in Requests, ReserveStep(r) \/ AbortAdvance(r)
  PROVE  IInv'
<1> USE DEF cycleVars, ledgerVars, riskVars, requestVars, txVars
<1>1. TypeOK' /\ PointersSet'
  BY ReserveTyped DEF IInv, TInv
<1>2. WalletMatchesLedger'
  <2>1. [Next]_vars
    BY DEF Next
  <2>2. QED BY <2>1, NextWallet DEF IInv
<1>3. UNCHANGED <<cycleVars, settleSum, payrollSum, settleCount, owner, amount,
                  spc, txVars, drift>>
  BY DEF ReserveStep, AcquireWorkerLock, EnforceCompliance, CheckLimits,
         WriteAdvance, CommitAdvance, MayCommit, AbortAdvance
<1>4. CycleShape' /\ GrossAccounted'
  BY <1>3 DEF IInv, CycleShape, GrossAccounted
<1>5. CASE CommitAdvance(r)
  <2>1. /\ rpc[r] = "written"
        /\ advance[r] = None
        /\ advance' = [advance EXCEPT ![r] = "RESERVED"]
        /\ rpc' = [rpc EXCEPT ![r] = "done"]
    BY <1>5 DEF CommitAdvance, MayCommit, IInv, RequestShape
  <2>2. RequestShape'
    BY <1>3, <2>1 DEF IInv, RequestShape, TypeOK
  <2>3. SettledExactlyOnce'
    BY <1>3, <2>1 DEF IInv, SettledExactlyOnce, TypeOK
  <2>4. ASSUME NEW s \in Settlers PROVE SettlementShape(s)'
    BY <1>3, <2>1 DEF IInv, SettlementShape, InTx, TypeOK
  <2>5. QED BY <1>1, <1>2, <1>4, <2>2, <2>3, <2>4 DEF IInv
<1>6. CASE ~ CommitAdvance(r)
  <2>1. UNCHANGED advance
    BY <1>6 DEF ReserveStep, AcquireWorkerLock, EnforceCompliance, CheckLimits,
                WriteAdvance, AbortAdvance
  <2>2. RequestShape'
    BY <1>3, <1>6, <2>1
    DEF IInv, RequestShape, TypeOK, ReserveStep, AcquireWorkerLock, EnforceCompliance,
        CheckLimits, WithinLimits, Accrued, WriteAdvance, AbortAdvance, LockHeld
  <2>3. SettledExactlyOnce'
    BY <1>3, <2>1 DEF IInv, SettledExactlyOnce
  <2>4. ASSUME NEW s \in Settlers PROVE SettlementShape(s)'
    BY <1>3, <2>1 DEF IInv, SettlementShape, InTx
  <2>5. QED BY <1>1, <1>2, <1>4, <2>2, <2>3, <2>4 DEF IInv
<1>7. QED BY <1>5, <1>6

(* The settlements a step of s leaves alone keep their shape: they are     *)
(* outside their transactions.                                             *)
LEMMA OthersKeep ==
  ASSUME IInv, SerialSettlement, SerialSettlement', NEW s \in Settlers,
         InTx(s) \/ InTx(s)',
         \A t \in Settlers \ {s} :
           /\ spc'[t] = spc[t] /\ todo'[t] = todo[t] /\ batch'[t] = batch[t]
           /\ wAdvance'[t] = wAdvance[t] /\ wSettle'[t] = wSettle[t]
           /\ wPay'[t] = wPay[t] /\ wRouted'[t] = wRouted[t]
  PROVE  \A t \in Settlers \ {s} : SettlementShape(t)'
<1>1. ASSUME NEW t \in Settlers \ {s} PROVE ~ InTx(t)
  BY DEF SerialSettlement, InTx
<1>2. QED BY <1>1, IdleShape DEF IInv

(* A step inside the transaction of s changes nothing but what s has in    *)
(* hand, so its shape is all there is to show.                             *)
LEMMA SettleFrame ==
  ASSUME IInv, SerialSettlement, SerialSettlement', NEW s \in Settlers,
         StartSettlement(s) \/ SettleStep(s) \/ AbortSettlement(s),
         ~ CommitSettlement(s),
         SettlementShape(s)'
  PROVE  IInv'
<1> USE DEF cycleVars, ledgerVars, riskVars, requestVars, txVars
<1>1. TypeOK' /\ PointersSet'
  BY SettleTyped DEF IInv, TInv
<1>2. UNCHANGED <<cycleVars, ledgerVars, requestVars, advance, drift>>
  BY DEF SettleStep, StartSettlement, ListIntents, PendingIntents, ReadIntent, ListAdvances, ReservedAdvances,
         CheckAdvance, SettleAdvance, CreditResidual, CoversAdvances, RouteIntent,
         SettlementThrows, AbortSettlement
<1>3. CycleShape' /\ RequestShape' /\ WalletMatchesLedger' /\ GrossAccounted'
      /\ SettledExactlyOnce'
  BY <1>2 DEF IInv, CycleShape, RequestShape, WalletMatchesLedger, GrossAccounted,
              SettledExactlyOnce
<1>4. InTx(s) \/ InTx(s)'
  BY DEF IInv, TypeOK, InTx, SettlePc, SettleStep, StartSettlement, ListIntents, PendingIntents,
         ReadIntent, ListAdvances, ReservedAdvances, CheckAdvance, SettleAdvance, CreditResidual, CoversAdvances,
         RouteIntent, SettlementThrows, AbortSettlement
<1>5. \A t \in Settlers \ {s} :
        /\ spc'[t] = spc[t] /\ todo'[t] = todo[t] /\ batch'[t] = batch[t]
        /\ wAdvance'[t] = wAdvance[t] /\ wSettle'[t] = wSettle[t]
        /\ wPay'[t] = wPay[t] /\ wRouted'[t] = wRouted[t]
  BY DEF IInv, TypeOK, SettleStep, StartSettlement, ListIntents, PendingIntents, ReadIntent,
         ListAdvances, ReservedAdvances, CheckAdvance, SettleAdvance, CreditResidual, CoversAdvances, RouteIntent,
         SettlementThrows, AbortSettlement, EndSettlement
<1>6. \A t \in Settlers : SettlementShape(t)'
  BY <1>4, <1>5, OthersKeep
<1>7. QED BY <1>1, <1>3, <1>6 DEF IInv

(* The rollback of s.                                                      *)
LEMMA EndShape ==
  ASSUME IInv, NEW s \in Settlers, EndSettlement(s)
  PROVE  SettlementShape(s)'
BY DEF IInv, TypeOK, EndSettlement, SettlementShape, InTx, AtIntent, SettlePc, Zero

LEMMA StepShape ==
  ASSUME IInv, NEW s \in Settlers,
         StartSettlement(s) \/ SettleStep(s) \/ AbortSettlement(s),
         ~ CommitSettlement(s)
  PROVE  SettlementShape(s)'
<1> USE DEF IInv, TypeOK, PointersSet, SettlementShape, InTx, AtIntent, SettlePc,
            cycleVars, ledgerVars, riskVars, requestVars, txVars
<1>1. CASE StartSettlement(s)
  BY <1>1 DEF StartSettlement
<1>2. CASE ListIntents(s)
  BY <1>2 DEF ListIntents, PendingIntents
<1>3. CASE \E e \in Workers : ReadIntent(s, e)
  <2> PICK e \in Workers : ReadIntent(s, e)
    BY <1>3
  <2>1. spc[s] = "next" /\ e \in todo[s] /\ e \notin wRouted[s]
    BY DEF ReadIntent
  <2>2. \A f \in Workers : f \notin wRouted[s] => wPay[s][f] = 0 /\ wSettle[s][f] = 0
    BY <2>1
  <2>3. QED BY <2>1, <2>2 DEF ReadIntent
<1>4. CASE ListAdvances(s)
  BY <1>4 DEF ListAdvances, ReservedAdvances
<1>5. CASE \E r \in Requests : CheckAdvance(s, r)
  BY <1>5 DEF CheckAdvance
<1>6. CASE SettleAdvance(s)
  BY <1>6 DEF SettleAdvance
<1>7. CASE CreditResidual(s)
  BY <1>7 DEF CreditResidual, CoversAdvances, Residual
<1>8. CASE RouteIntent(s)
  BY <1>8 DEF RouteIntent
<1>9. CASE SettlementThrows(s) \/ AbortSettlement(s)
  BY <1>9, EndShape DEF SettlementThrows, AbortSettlement
<1>10. QED
  BY <1>1, <1>2, <1>3, <1>4, <1>5, <1>6, <1>7, <1>8, <1>9 DEF SettleStep

LEMMA CommitKeeps ==
  ASSUME IInv, SerialSettlement, SerialSettlement', NEW s \in Settlers,
         CommitSettlement(s)
  PROVE  IInv'
<1> USE DEF cycleVars, ledgerVars, riskVars, requestVars, txVars
<1>1. TypeOK' /\ PointersSet'
  BY SettleTyped DEF IInv, TInv, SettleStep
<1>2. WalletMatchesLedger'
  <2>1. [Next]_vars
    BY DEF Next, SettleStep
  <2>2. QED BY <2>1, NextWallet DEF IInv
<1>3. /\ spc[s] = "next" /\ todo[s] = {}
      /\ cycle = "INTENTS_READY" /\ cycle' = "SETTLED"
      /\ \A e \in Workers : intent[e] = "PENDING" <=> e \in wRouted[s]
      /\ \A r \in wAdvance[s] : advance[r] = "RESERVED"
      /\ \A e \in Workers :
           IF e \in wRouted[s] THEN wPay[s][e] + wSettle[s][e] = gross[e]
                               ELSE wPay[s][e] = 0 /\ wSettle[s][e] = 0
  BY DEF CommitSettlement, StatusAfter, WalletCredit, IInv, SettlementShape, InTx, AtIntent, SettlePc
<1>4. CycleShape'
  BY <1>3 DEF CommitSettlement, StatusAfter, WalletCredit, IInv, CycleShape, TypeOK, IntentStatus
<1>5. RequestShape'
  BY <1>3 DEF CommitSettlement, StatusAfter, WalletCredit, IInv, RequestShape
<1>6. SettledExactlyOnce'
  <2> SUFFICES ASSUME NEW r \in Requests
               PROVE  settleCount'[r] = IF advance'[r] = "SETTLED" THEN 1 ELSE 0
    BY DEF SettledExactlyOnce
  <2>1. settleCount[r] = IF advance[r] = "SETTLED" THEN 1 ELSE 0
    BY DEF IInv, SettledExactlyOnce
  <2>2. QED BY <1>3, <2>1 DEF CommitSettlement, StatusAfter, WalletCredit
<1>7. GrossAccounted'
  <2> SUFFICES ASSUME NEW e \in Workers
               PROVE  settleSum'[e] + payrollSum'[e]
                        = IF intent'[e] = "ROUTED" THEN gross'[e] ELSE 0
    BY DEF GrossAccounted
  <2>1. /\ settleSum'[e] = settleSum[e] + wSettle[s][e]
        /\ payrollSum'[e] = payrollSum[e] + wPay[s][e]
        /\ gross'[e] = gross[e]
        /\ intent'[e] = IF e \in wRouted[s] THEN "ROUTED" ELSE intent[e]
    BY DEF CommitSettlement, StatusAfter, WalletCredit
  <2>2. settleSum[e] + payrollSum[e] = 0 /\ intent[e] # "ROUTED"
    BY <1>3 DEF IInv, GrossAccounted, CycleShape
  <2>3. /\ settleSum[e] \in Nat /\ payrollSum[e] \in Nat /\ gross[e] \in Nat
        /\ wSettle[s][e] \in Nat /\ wPay[s][e] \in Nat
    BY DEF IInv, TypeOK
  <2>4. QED BY <1>3, <2>1, <2>2, <2>3
<1>8. \A t \in Settlers : SettlementShape(t)'
  <2>1. InTx(s)
    BY <1>3 DEF InTx, SettlePc
  <2>2. SettlementShape(s)'
    BY EndShape DEF CommitSettlement, StatusAfter, WalletCredit
  <2>3. \A t \in Settlers \ {s} :
          /\ spc'[t] = spc[t] /\ todo'[t] = todo[t] /\ batch'[t] = batch[t]
          /\ wAdvance'[t] = wAdvance[t] /\ wSettle'[t] = wSettle[t]
          /\ wPay'[t] = wPay[t] /\ wRouted'[t] = wRouted[t]
    BY DEF CommitSettlement, StatusAfter, WalletCredit, EndSettlement, IInv, TypeOK
  <2>4. QED BY <2>1, <2>2, <2>3, OthersKeep
<1>9. QED BY <1>1, <1>2, <1>4, <1>5, <1>6, <1>7, <1>8 DEF IInv

LEMMA NextIInv ==
  IInv /\ SerialSettlement /\ SerialSettlement' /\ [Next]_vars => IInv'
<1> SUFFICES ASSUME IInv, SerialSettlement, SerialSettlement', [Next]_vars
             PROVE  IInv'
  OBVIOUS
<1>1. CASE UNCHANGED vars
  BY <1>1
  DEF IInv, TypeOK, PointersSet, CycleShape, RequestShape, SettlementShape, InTx,
      WalletMatchesLedger, GrossAccounted, SettledExactlyOnce, vars, cycleVars,
      ledgerVars, riskVars, requestVars, txVars
<1>2. ASSUME NEW s \in Settlers,
             StartSettlement(s) \/ SettleStep(s) \/ AbortSettlement(s)
      PROVE  IInv'
  BY <1>2, CommitKeeps, StepShape, SettleFrame
<1>3. CASE Next
  BY <1>2, <1>3, EnvironmentKeeps, ReserveKeeps DEF Next
<1>4. QED BY <1>1, <1>3

(* The inductive invariant holds of every behaviour in which settlements   *)
(* of the cycle take turns.                                                *)
THEOREM Inductive == Spec /\ []SerialSettlement => []IInv
BY InitIInv, NextIInv, PTL DEF Spec

(* With it, every routed intent is accounted for to the last fils, ...     *)
THEOREM GrossIsAccounted == Spec /\ []SerialSettlement => []GrossAccounted
<1>1. IInv => GrossAccounted
  BY DEF IInv
<1>2. QED BY <1>1, Inductive, PTL

(* ... no advance is recovered twice, ...                                  *)
THEOREM SettledOnce == Spec /\ []SerialSettlement => []SettledExactlyOnce
<1>1. IInv => SettledExactlyOnce
  BY DEF IInv
<1>2. QED BY <1>1, Inductive, PTL

(* ... and the cycle is settled whole or not at all.                       *)
THEOREM AllOrNothing == Spec /\ []SerialSettlement => []CycleAllOrNothing
<1>1. IInv => CycleAllOrNothing
  BY DEF IInv, CycleShape, CycleAllOrNothing
<1>2. QED BY <1>1, Inductive, PTL

-----------------------------------------------------------------------------
(* I5, the forward-only life of an advance, needs no such assumption: two  *)
(* settlements may settle an advance twice, but nobody takes it back.      *)

RowsKnown ==
  /\ \A r \in Requests : advance[r] = None <=> rpc[r] # "done"
  /\ \A s \in Settlers : \A r \in wAdvance[s] \cup batch[s] : advance[r] # None

LEMMA NextRows == TInv /\ RowsKnown /\ [Next]_vars => RowsKnown'
<1> SUFFICES ASSUME TInv, RowsKnown, [Next]_vars PROVE RowsKnown'
  OBVIOUS
<1> USE DEF TInv, TypeOK, RowsKnown, cycleVars, ledgerVars, riskVars, requestVars, txVars
<1>1. CASE UNCHANGED vars
  BY <1>1 DEF vars
<1>2. ASSUME NEW r \in Requests, ReserveStep(r) \/ AbortAdvance(r)
      PROVE  RowsKnown'
  <2>1. CASE CommitAdvance(r)
    BY <2>1 DEF CommitAdvance, MayCommit
  <2>2. CASE ~ CommitAdvance(r)
    BY <1>2, <2>2
    DEF ReserveStep, AcquireWorkerLock, EnforceCompliance, CheckLimits, WriteAdvance,
        AbortAdvance, LockHeld
  <2>3. QED BY <2>1, <2>2
<1>3. ASSUME NEW s \in Settlers, EndSettlement(s), UNCHANGED <<advance, rpc>>
      PROVE  RowsKnown'
  BY <1>3 DEF EndSettlement
<1>4. ASSUME NEW s \in Settlers,
             StartSettlement(s) \/ SettleStep(s) \/ AbortSettlement(s)
      PROVE  RowsKnown'
  <2>1. CASE CommitSettlement(s)
    <3>1. \A r \in Requests : advance'[r] = None <=> advance[r] = None
      BY <2>1 DEF CommitSettlement, StatusAfter, WalletCredit
    <3>2. QED BY <2>1, <3>1 DEF CommitSettlement, StatusAfter, WalletCredit, EndSettlement
  <2>2. CASE ListAdvances(s)
    BY <2>2 DEF ListAdvances, ReservedAdvances
  <2>3. CASE SettleAdvance(s)
    BY <2>3 DEF SettleAdvance, PointersSet
  <2>4. CASE SettlementThrows(s) \/ AbortSettlement(s)
    BY <1>3, <2>4 DEF SettlementThrows, AbortSettlement
  <2>5. CASE \/ StartSettlement(s) \/ ListIntents(s)
             \/ \E e \in Workers : ReadIntent(s, e)
             \/ \E r \in Requests : CheckAdvance(s, r)
             \/ CreditResidual(s) \/ RouteIntent(s)
    BY <2>5 DEF StartSettlement, ListIntents, PendingIntents, ReadIntent, CheckAdvance,
                CreditResidual, CoversAdvances, RouteIntent
  <2>6. QED BY <1>4, <2>1, <2>2, <2>3, <2>4, <2>5 DEF SettleStep
<1>5. CASE \/ \E m \in SUBSET Workers, g \in [Workers -> GrossAmounts] : Ingest(m, g)
           \/ \E e \in Workers : ComplianceChange(e)
           \/ FailsafeChange \/ FindDrift \/ MarkDriftFailed
  BY <1>5 DEF Ingest, ComplianceChange, FailsafeChange, FindDrift, MarkDriftFailed
<1>6. CASE \E r \in Requests, e \in Workers, a \in Amounts : RequestAdvance(r, e, a)
  BY <1>6 DEF RequestAdvance
<1>7. QED BY <1>1, <1>2, <1>4, <1>5, <1>6 DEF Next

ForwardStep ==
  /\ \A r \in Requests :
       advance'[r] # advance[r] =>
         \/ advance[r] = None /\ advance'[r] = "RESERVED"
         \/ advance[r] = "RESERVED" /\ advance'[r] = "SETTLED"
  /\ \A e \in Workers : /\ reserveSum'[e] >= reserveSum[e]
                        /\ settleSum'[e] >= settleSum[e]
                        /\ payrollSum'[e] >= payrollSum[e]

LEMMA NextForward == TInv /\ RowsKnown /\ [Next]_vars => [ForwardStep]_vars
<1> SUFFICES ASSUME TInv, RowsKnown, Next PROVE ForwardStep
  OBVIOUS
<1>1. \A e \in Workers : /\ reserveSum[e] \in Nat /\ settleSum[e] \in Nat
                         /\ payrollSum[e] \in Nat
  BY DEF TInv, TypeOK
<1>2. CASE UNCHANGED <<advance, reserveSum, settleSum, payrollSum>>
  BY <1>1, <1>2 DEF ForwardStep
<1>3. ASSUME NEW r \in Requests, CommitAdvance(r) PROVE ForwardStep
  <2>1. amount[r] \in Nat
    BY DEF TInv, TypeOK
  <2>2. \A q \in Requests : advance'[q] # advance[q] =>
          advance[q] = None /\ advance'[q] = "RESERVED"
    BY <1>3 DEF CommitAdvance, MayCommit, RowsKnown, TInv, TypeOK
  <2>3. \A e \in Workers : reserveSum'[e] >= reserveSum[e]
    BY <1>1, <1>3, <2>1 DEF CommitAdvance, MayCommit, TInv, TypeOK
  <2>4. QED BY <1>1, <1>3, <2>2, <2>3 DEF CommitAdvance, MayCommit, ForwardStep
<1>4. ASSUME NEW s \in Settlers, CommitSettlement(s) PROVE ForwardStep
  <2>1. \A q \in Requests : advance'[q] # advance[q] =>
          advance[q] = "RESERVED" /\ advance'[q] = "SETTLED"
    BY <1>4 DEF CommitSettlement, StatusAfter, WalletCredit, RowsKnown, TInv, TypeOK, AdvanceStatus
  <2>2. \A e \in Workers : wSettle[s][e] \in Nat /\ wPay[s][e] \in Nat
    BY DEF TInv, TypeOK
  <2>3. QED BY <1>1, <1>4, <2>1, <2>2 DEF CommitSettlement, StatusAfter, WalletCredit, ForwardStep
<1>5. QED
  BY <1>2, <1>3, <1>4
  DEF Next, ReserveStep, SettleStep, Ingest, ComplianceChange, FailsafeChange,
      RequestAdvance, AcquireWorkerLock, EnforceCompliance, CheckLimits,
      WriteAdvance, AbortAdvance, StartSettlement, ListIntents, PendingIntents, ReadIntent,
      ListAdvances, ReservedAdvances, CheckAdvance, SettleAdvance, CreditResidual, CoversAdvances, RouteIntent,
      SettlementThrows, AbortSettlement, FindDrift, MarkDriftFailed, ledgerVars

(* No advance goes back, none changes once SETTLED, and no ledger sum      *)
(* shrinks, whatever overlaps.                                             *)
THEOREM ForwardOnly == Spec => AdvanceForwardOnly
<1>1. Init => RowsKnown
  BY DEF Init, RowsKnown
<1>2. [ForwardStep]_vars <=>
        [/\ \A r \in Requests :
              advance'[r] # advance[r] =>
                \/ advance[r] = None /\ advance'[r] = "RESERVED"
                \/ advance[r] = "RESERVED" /\ advance'[r] = "SETTLED"
         /\ \A e \in Workers : /\ reserveSum'[e] >= reserveSum[e]
                               /\ settleSum'[e] >= settleSum[e]
                               /\ payrollSum'[e] >= payrollSum[e]]_vars
  BY DEF ForwardStep
<1>3. QED
  BY <1>1, <1>2, InitTyped, NextTyped, NextRows, NextForward, PTL
  DEF Spec, AdvanceForwardOnly

-----------------------------------------------------------------------------
(* What a settlement leaves behind, whether or not settlements overlap.    *)

BesideInv == TInv /\ RowsKnown /\ BesideShape

(* Steps that move no settlement leave what each has seen.                 *)
LEMMA SeenStays ==
  ASSUME BesideInv, UNCHANGED <<spc, txVars>>, beside \subseteq beside',
         \A r \in Requests : advance'[r] = "RESERVED" =>
           /\ owner'[r] = owner[r]
           /\ advance[r] = "RESERVED" \/ r \in beside
  PROVE  \A s \in Settlers : AdvancesSeen(s)'
BY DEF BesideInv, BesideShape, AdvancesSeen, InTx, txVars

LEMMA BesideReserve ==
  ASSUME BesideInv, NEW r \in Requests, ReserveStep(r) \/ AbortAdvance(r)
  PROVE  BesideShape'
<1> USE DEF BesideInv, TInv, TypeOK, cycleVars, ledgerVars, riskVars, txVars
<1>1. UNCHANGED <<cycle, intent, drift, owner, spc, txVars>> /\ beside \subseteq beside'
  BY DEF ReserveStep, AcquireWorkerLock, EnforceCompliance, CheckLimits, WriteAdvance,
         CommitAdvance, MayCommit, AbortAdvance
<1>0. OwnersKnown'
  BY DEF OwnersKnown, BesideShape, ReserveStep, AcquireWorkerLock, EnforceCompliance, CheckLimits,
         WriteAdvance, CommitAdvance, MayCommit, AbortAdvance, LockHeld
<1>2. ASSUME NEW q \in Requests, PastChecks(q)',
             cycle \in {"SETTLED", "FAILED"} \/ \E s \in Settlers : InTx(s)
      PROVE  q \in beside'
  <2>1. CASE PastChecks(q)
    BY <1>1, <1>2, <2>1 DEF BesideShape, CallsBeside
  <2>2. CASE ~ PastChecks(q)
    <3>1. CheckLimits(r) /\ q = r
      BY <1>2, <2>2
      DEF PastChecks, ReserveStep, AcquireWorkerLock, EnforceCompliance, CheckLimits, WriteAdvance,
          CommitAdvance, MayCommit, AbortAdvance
    <3>2. rpc'[r] = "checked"
      BY <1>2, <3>1 DEF CheckLimits, PastChecks
    <3> QED BY <1>2, <3>1, <3>2 DEF CheckLimits, Open
  <2> QED BY <2>1, <2>2
<1>3. CASE CommitAdvance(r)
  <2>1. /\ PastChecks(r) /\ advance' = [advance EXCEPT ![r] = "RESERVED"]
        /\ UNCHANGED <<owner, beside>>
    BY <1>3 DEF CommitAdvance, MayCommit, PastChecks
  <2>2. LeftOutCameBeside'
    <3> SUFFICES ASSUME NEW q \in Requests, advance'[q] = "RESERVED", intent[owner[q]] = "ROUTED"
                 PROVE  q \in beside
      BY <1>1, <2>1 DEF LeftOutCameBeside
    <3>1. CASE q = r
      <4>1. owner[r] \in Workers
        BY <2>1 DEF BesideShape, OwnersKnown, PastChecks
      <4> QED BY <2>1, <3>1, <4>1 DEF BesideShape, CallsBeside
    <3>2. CASE q # r
      BY <2>1, <3>2 DEF LeftOutCameBeside, BesideShape
    <3> QED BY <3>1, <3>2
  <2>3. \A s \in Settlers : AdvancesSeen(s)'
    <3> SUFFICES ASSUME NEW s \in Settlers PROVE AdvancesSeen(s)'
      OBVIOUS
    <3>1. CASE InTx(s)
      <4>1. r \in beside
        BY <2>1, <3>1 DEF BesideShape, CallsBeside
      <4> QED BY <1>1, <2>1, <4>1 DEF AdvancesSeen, BesideShape, InTx
    <3>2. CASE ~ InTx(s)
      <4>1. wRouted[s] = {} /\ spc[s] = "idle"
        BY <3>2 DEF AdvancesSeen, BesideShape, InTx
      <4> QED BY <1>1, <3>2, <4>1 DEF AdvancesSeen, InTx, BesideShape
    <3> QED BY <3>1, <3>2
  <2>4. CallsBeside'
    BY <1>1, <1>2 DEF CallsBeside, InTx
  <2> QED BY <1>0, <1>1, <2>2, <2>3, <2>4 DEF BesideShape
<1>4. CASE ~ CommitAdvance(r)
  <2>1. UNCHANGED advance
    BY <1>4 DEF ReserveStep, AcquireWorkerLock, EnforceCompliance, CheckLimits, WriteAdvance, AbortAdvance
  <2>2. \A s \in Settlers : AdvancesSeen(s)'
    BY <1>1, <2>1, SeenStays
  <2>3. CallsBeside'
    BY <1>1, <1>2 DEF CallsBeside, InTx
  <2>4. LeftOutCameBeside'
    BY <1>1, <2>1 DEF LeftOutCameBeside, BesideShape
  <2> QED BY <1>0, <1>1, <2>2, <2>3, <2>4 DEF BesideShape
<1> QED BY <1>3, <1>4

LEMMA BesideEnvironment ==
  ASSUME BesideInv,
         \/ \E m \in SUBSET Workers, g \in [Workers -> GrossAmounts] : Ingest(m, g)
         \/ \E e \in Workers : ComplianceChange(e)
         \/ FailsafeChange
         \/ \E r \in Requests, e \in Workers, a \in Amounts : RequestAdvance(r, e, a)
         \/ FindDrift
         \/ MarkDriftFailed
  PROVE  BesideShape'
<1> USE DEF BesideInv, TInv, TypeOK, cycleVars, ledgerVars, riskVars, requestVars, txVars
<1>1. UNCHANGED <<advance, spc, txVars, beside>>
  BY DEF Ingest, ComplianceChange, FailsafeChange, RequestAdvance, FindDrift, MarkDriftFailed
<1>2. \A r \in Requests : advance[r] # None => owner'[r] = owner[r]
  BY DEF Ingest, ComplianceChange, FailsafeChange, RequestAdvance, FindDrift, MarkDriftFailed, RowsKnown
<1>3. \A r \in Requests : PastChecks(r)' <=> PastChecks(r)
  BY DEF PastChecks, Ingest, ComplianceChange, FailsafeChange, RequestAdvance, FindDrift, MarkDriftFailed
<1>4. \A s \in Settlers : AdvancesSeen(s)'
  BY <1>1, <1>2, SeenStays
<1>5. OwnersKnown'
  <2>1. CASE \E r \in Requests, e \in Workers, a \in Amounts : RequestAdvance(r, e, a)
    BY <2>1 DEF OwnersKnown, BesideShape, RequestAdvance
  <2>2. CASE ~ \E r \in Requests, e \in Workers, a \in Amounts : RequestAdvance(r, e, a)
    <3>1. UNCHANGED <<owner, rpc>>
      BY <2>2 DEF Ingest, ComplianceChange, FailsafeChange, FindDrift, MarkDriftFailed
    <3> QED BY <3>1 DEF OwnersKnown, BesideShape
  <2> QED BY <2>1, <2>2
<1>6. \/ UNCHANGED intent /\ (cycle' \in {"SETTLED", "FAILED"} <=> cycle \in {"SETTLED", "FAILED"})
      \/ /\ cycle' = "INTENTS_READY"
         /\ \A e \in Workers : intent'[e] # "ROUTED"
         /\ cycle = None
  BY DEF Ingest, ComplianceChange, FailsafeChange, RequestAdvance, FindDrift, MarkDriftFailed, BesideShape
<1>7. drift' => cycle' = "SETTLED"
  BY DEF Ingest, ComplianceChange, FailsafeChange, RequestAdvance, FindDrift, MarkDriftFailed, BesideShape
<1>8. CallsBeside'
  BY <1>1, <1>3, <1>6 DEF CallsBeside, BesideShape, InTx
<1>9. LeftOutCameBeside'
  <2> SUFFICES ASSUME NEW r \in Requests, advance'[r] = "RESERVED", intent'[owner'[r]] = "ROUTED"
               PROVE  r \in beside
    BY <1>1 DEF LeftOutCameBeside
  <2>1. owner'[r] = owner[r] /\ advance[r] = "RESERVED" /\ owner[r] \in Workers
    BY <1>1, <1>2 DEF RowsKnown, BesideShape, OwnersKnown
  <2>2. UNCHANGED intent
    BY <1>6, <2>1
  <2> QED BY <2>1, <2>2 DEF LeftOutCameBeside, BesideShape
<1> QED BY <1>1, <1>4, <1>5, <1>6, <1>7, <1>8, <1>9 DEF BesideShape

LEMMA BesideCommit ==
  ASSUME BesideInv, NEW s \in Settlers, CommitSettlement(s)
  PROVE  BesideShape'
<1> USE DEF BesideInv, TInv, TypeOK, cycleVars, ledgerVars, riskVars, requestVars, txVars
<1>1. /\ spc[s] = "next" /\ cycle' = "SETTLED" /\ EndSettlement(s)
      /\ intent' = [e \in Workers |-> IF e \in wRouted[s] THEN "ROUTED" ELSE intent[e]]
      /\ advance' = [r \in Requests |-> IF r \in wAdvance[s] THEN "SETTLED" ELSE advance[r]]
      /\ UNCHANGED <<owner, rpc, beside, drift>>
  BY DEF CommitSettlement, StatusAfter, WalletCredit
<1>2. InTx(s)
  BY <1>1 DEF InTx, SettlePc
<1>3. \A r \in Requests : PastChecks(r)' => r \in beside
  BY <1>1, <1>2 DEF PastChecks, BesideShape, CallsBeside
<1>4. LeftOutCameBeside'
  <2> SUFFICES ASSUME NEW r \in Requests, advance'[r] = "RESERVED", intent'[owner'[r]] = "ROUTED"
               PROVE  r \in beside'
    BY DEF LeftOutCameBeside
  <2>1. r \notin wAdvance[s] /\ advance[r] = "RESERVED"
    BY <1>1
  <2>2. CASE owner[r] \in wRouted[s]
    BY <1>1, <2>1, <2>2 DEF BesideShape, AdvancesSeen
  <2>3. CASE owner[r] \notin wRouted[s]
    <3>1. owner[r] \in Workers => intent[owner[r]] = "ROUTED"
      BY <1>1, <2>3
    <3>2. owner[r] \in Workers
      BY <2>1 DEF BesideShape, OwnersKnown, RowsKnown
    <3> QED BY <1>1, <2>1, <3>1, <3>2 DEF LeftOutCameBeside, BesideShape
  <2> QED BY <2>2, <2>3
<1>5. \A t \in Settlers : AdvancesSeen(t)'
  BY <1>1 DEF BesideShape, AdvancesSeen, EndSettlement, InTx
<1>6. OwnersKnown' /\ CallsBeside'
  BY <1>1, <1>3 DEF BesideShape, OwnersKnown, CallsBeside
<1> QED BY <1>1, <1>4, <1>5, <1>6 DEF BesideShape

LEMMA BesideSettle ==
  ASSUME BesideInv, NEW s \in Settlers,
         StartSettlement(s) \/ SettleStep(s) \/ AbortSettlement(s),
         ~ CommitSettlement(s)
  PROVE  BesideShape'
<1> USE DEF BesideInv, TInv, TypeOK, cycleVars, ledgerVars, riskVars, requestVars, txVars
<1>1. UNCHANGED <<cycle, intent, drift, advance, owner, rpc>> /\ beside \subseteq beside'
  BY DEF SettleStep, StartSettlement, ListIntents, PendingIntents, ReadIntent, ListAdvances, ReservedAdvances,
         CheckAdvance, SettleAdvance, CreditResidual, CoversAdvances, RouteIntent, SettlementThrows, AbortSettlement
<1>2. ASSUME NEW r \in Requests, PastChecks(r)',
             cycle' \in {"SETTLED", "FAILED"} \/ \E t \in Settlers : InTx(t)'
      PROVE  r \in beside'
  <2>1. PastChecks(r)
    BY <1>1, <1>2 DEF PastChecks
  <2>2. CASE StartSettlement(s)
    BY <2>1, <2>2 DEF StartSettlement
  <2>3. CASE ~ StartSettlement(s)
    <3>1. \A t \in Settlers : InTx(t)' => InTx(t)
      BY <2>3 DEF InTx, SettlePc, SettleStep, ListIntents, PendingIntents, ReadIntent, ListAdvances, ReservedAdvances,
         CheckAdvance, SettleAdvance, CreditResidual, CoversAdvances, RouteIntent, SettlementThrows, AbortSettlement,
         EndSettlement
    <3> QED BY <1>1, <1>2, <2>1, <3>1 DEF BesideShape, CallsBeside
  <2> QED BY <2>2, <2>3
<1>3. LeftOutCameBeside'
  BY <1>1 DEF LeftOutCameBeside, BesideShape
<1>4. \A t \in Settlers \ {s} :
        /\ spc'[t] = spc[t] /\ cur'[t] = cur[t] /\ batch'[t] = batch[t]
        /\ wAdvance'[t] = wAdvance[t] /\ wRouted'[t] = wRouted[t]
  BY DEF SettleStep, StartSettlement, ListIntents, PendingIntents, ReadIntent,
         ListAdvances, ReservedAdvances, CheckAdvance, SettleAdvance, CreditResidual, CoversAdvances, RouteIntent,
         SettlementThrows, AbortSettlement, EndSettlement
<1>5. \A t \in Settlers \ {s} : AdvancesSeen(t)'
  BY <1>1, <1>4 DEF AdvancesSeen, BesideShape, InTx
<1>6. AdvancesSeen(s)'
  <2> USE DEF AdvancesSeen, InTx, SettlePc
  <2>0. AdvancesSeen(s)
    BY DEF BesideShape
  <2>1. CASE StartSettlement(s) \/ ListIntents(s) \/ \E e \in Workers : ReadIntent(s, e)
    BY <1>1, <2>0, <2>1 DEF StartSettlement, ListIntents, PendingIntents, ReadIntent
  <2>2. CASE ListAdvances(s)
    BY <1>1, <2>0, <2>2 DEF ListAdvances, ReservedAdvances
  <2>3. CASE \E r \in Requests : CheckAdvance(s, r)
    BY <1>1, <2>0, <2>3 DEF CheckAdvance
  <2>4. CASE SettleAdvance(s)
    BY <1>1, <2>0, <2>4 DEF SettleAdvance
  <2>5. CASE CreditResidual(s)
    BY <1>1, <2>0, <2>5 DEF CreditResidual, CoversAdvances
  <2>6. CASE RouteIntent(s)
    BY <1>1, <2>0, <2>6 DEF RouteIntent
  <2>7. CASE SettlementThrows(s) \/ AbortSettlement(s)
    BY <1>1, <2>0, <2>7 DEF SettlementThrows, AbortSettlement, EndSettlement
  <2> QED BY <2>1, <2>2, <2>3, <2>4, <2>5, <2>6, <2>7 DEF SettleStep
<1>7. OwnersKnown' /\ CallsBeside'
  BY <1>1, <1>2 DEF BesideShape, OwnersKnown, CallsBeside
<1> QED BY <1>1, <1>3, <1>5, <1>6, <1>7 DEF BesideShape

(* However many settlements overlap, and whatever is rolled back: the only *)
(* advances a settled cycle leaves RESERVED are of calls past their checks *)
(* while a settlement ran.                                                 *)
THEOREM NoneLeftOut == Spec => []LeftOutCameBeside
<1>1. Init => BesideInv
  <2> SUFFICES ASSUME Init PROVE RowsKnown /\ BesideShape
    BY InitTyped DEF BesideInv
  <2> QED BY DEF Init, RowsKnown, BesideShape, OwnersKnown, CallsBeside, AdvancesSeen, PastChecks,
                 LeftOutCameBeside, InTx
<1>2. BesideInv /\ [Next]_vars => BesideInv'
  <2> SUFFICES ASSUME BesideInv, [Next]_vars PROVE BesideInv'
    OBVIOUS
  <2>1. TInv' /\ RowsKnown'
    BY NextTyped, NextRows DEF BesideInv
  <2>2. CASE UNCHANGED vars
    <3>1. UNCHANGED <<cycle, intent, drift, advance, owner, rpc, spc, txVars, beside>>
      BY <2>2 DEF vars, cycleVars, requestVars
    <3>2. OwnersKnown' /\ CallsBeside' /\ LeftOutCameBeside'
      BY <3>1 DEF BesideInv, BesideShape, OwnersKnown, CallsBeside, PastChecks, LeftOutCameBeside, InTx
    <3>3. \A s \in Settlers : AdvancesSeen(s)'
      BY <3>1, SeenStays
    <3> QED BY <2>1, <3>1, <3>2, <3>3 DEF BesideInv, BesideShape
  <2>3. CASE Next
    <3>1. ASSUME NEW s \in Settlers, StartSettlement(s) \/ SettleStep(s) \/ AbortSettlement(s)
          PROVE  BesideShape'
      BY <3>1, BesideCommit, BesideSettle
    <3>2. ASSUME NEW r \in Requests, ReserveStep(r) \/ AbortAdvance(r)
          PROVE  BesideShape'
      BY <3>2, BesideReserve
    <3> QED BY <2>1, <2>3, <3>1, <3>2, BesideEnvironment DEF Next, BesideInv
  <2> QED BY <2>1, <2>2, <2>3 DEF BesideInv
<1>3. BesideInv => LeftOutCameBeside
  BY DEF BesideInv, BesideShape
<1> QED BY <1>1, <1>2, <1>3, PTL DEF Spec

-----------------------------------------------------------------------------
(* The routing plane implements WageRouting.                               *)

LEMMA InitPromise == Init => Promise!Init
BY DEF Init, Promise!Init, Promise!Zero, Phase, Zero

(* Ingestion opens the cycle.                                              *)
LEMMA IngestOpens ==
  ASSUME NEW m \in SUBSET Workers, NEW g \in [Workers -> GrossAmounts], Ingest(m, g)
  PROVE  Promise!Open
<1>1. gross' \in [Workers -> Nat]
  BY GrossIsPositive DEF Ingest
<1>2. Phase = "none" /\ Phase' = "open"
  BY DEF Phase, Ingest
<1>3. QED BY <1>1, <1>2 DEF Promise!Open, Ingest, ledgerVars

(* The commit of a reservation is one worker's advance, within its gross.  *)
LEMMA CommitAdvances ==
  ASSUME IInv, NEW r \in Requests, CommitAdvance(r)
  PROVE  Promise!Advance(owner[r])
<1>1. /\ owner[r] \in Workers /\ amount[r] \in 1..gross[owner[r]] /\ cycle # None
  BY AmountsArePositive DEF IInv, RequestShape, CommitAdvance, MayCommit, TypeOK
<1>2. Phase # "none" /\ Phase' = Phase
  BY <1>1 DEF Phase, CommitAdvance, MayCommit, cycleVars, IInv, TypeOK, CycleStatus
<1>3. QED BY <1>1, <1>2 DEF Promise!Advance, CommitAdvance, MayCommit, cycleVars

(* The commit of a settlement pays everyone at once.                       *)
LEMMA CommitPays ==
  ASSUME IInv, NEW s \in Settlers, CommitSettlement(s)
  PROVE  Promise!Pay
<1>1. /\ cycle = "INTENTS_READY" /\ cycle' = "SETTLED"
      /\ \A e \in Workers : intent[e] = "PENDING" <=> e \in wRouted[s]
      /\ \A e \in Workers :
           IF e \in wRouted[s] THEN wPay[s][e] + wSettle[s][e] = gross[e]
                               ELSE wPay[s][e] = 0 /\ wSettle[s][e] = 0
  BY DEF CommitSettlement, StatusAfter, WalletCredit, IInv, SettlementShape, InTx, AtIntent, SettlePc
<1>2. Phase = "open" /\ Phase' = "paid"
  BY <1>1 DEF Phase
<1>3. ASSUME NEW e \in Workers
      PROVE  /\ settleSum'[e] \in Nat
             /\ settleSum'[e] <= gross[e]
             /\ payrollSum'[e] = gross[e] - settleSum'[e]
  <2>1. settleSum[e] + payrollSum[e] = 0
    BY <1>1 DEF IInv, GrossAccounted, CycleShape
  <2>2. /\ settleSum[e] \in Nat /\ payrollSum[e] \in Nat /\ gross[e] \in Nat
        /\ wSettle[s][e] \in Nat /\ wPay[s][e] \in Nat
    BY DEF IInv, TypeOK
  <2>3. e \notin wRouted[s] => gross[e] = 0
    BY <1>1 DEF IInv, CycleShape, TypeOK, IntentStatus
  <2>4. settleSum[e] = 0 /\ payrollSum[e] = 0
    BY <2>1, <2>2
  <2>5. settleSum'[e] = settleSum[e] + wSettle[s][e]
        /\ payrollSum'[e] = payrollSum[e] + wPay[s][e]
    BY DEF CommitSettlement, StatusAfter, WalletCredit
  <2>6. settleSum'[e] = wSettle[s][e] /\ payrollSum'[e] = wPay[s][e]
    BY <2>2, <2>4, <2>5
  <2>7. wPay[s][e] + wSettle[s][e] = gross[e]
    BY <1>1, <2>3
  <2>8. wPay[s][e] = gross[e] - wSettle[s][e] /\ wSettle[s][e] <= gross[e]
    BY <2>2, <2>7
  <2>9. QED BY <2>2, <2>6, <2>8
<1>4. /\ settleSum' \in [Workers -> Nat]
      /\ payrollSum' = [e \in Workers |-> gross[e] - settleSum'[e]]
  BY <1>3 DEF CommitSettlement, StatusAfter, WalletCredit
<1>5. UNCHANGED <<gross, reserveSum>>
  BY DEF CommitSettlement, StatusAfter, WalletCredit
<1>6. QED BY <1>2, <1>3, <1>4, <1>5 DEF Promise!Pay

(* Every other step is invisible to the promise.                           *)
LEMMA OthersStutter ==
  ASSUME UNCHANGED <<cycleVars, reserveSum, settleSum, payrollSum>>
  PROVE  UNCHANGED Promise!vars
BY DEF cycleVars, Promise!vars, Phase

LEMMA NextPromise == IInv /\ [Next]_vars => [Promise!Next]_(Promise!vars)
<1> SUFFICES ASSUME IInv, [Next]_vars PROVE [Promise!Next]_(Promise!vars)
  OBVIOUS
<1> USE DEF Promise!Next
<1>1. CASE UNCHANGED <<cycleVars, reserveSum, settleSum, payrollSum>>
  BY <1>1, OthersStutter
<1>2. CASE \E m \in SUBSET Workers, g \in [Workers -> GrossAmounts] : Ingest(m, g)
  BY <1>2, IngestOpens
<1>3. ASSUME NEW r \in Requests, CommitAdvance(r) PROVE Promise!Next
  <2>1. owner[r] \in Workers
    BY <1>3 DEF IInv, RequestShape, CommitAdvance, MayCommit
  <2>2. QED BY <1>3, <2>1, CommitAdvances
<1>4. ASSUME NEW s \in Settlers, CommitSettlement(s) PROVE Promise!Next
  BY <1>4, CommitPays
<1>5. CASE MarkDriftFailed
  <2>1. Phase = "paid" /\ Phase' = "frozen"
    BY <1>5 DEF IInv, CycleShape, MarkDriftFailed, Phase
  <2>2. QED BY <1>5, <2>1 DEF MarkDriftFailed, Promise!Freeze, ledgerVars
<1>6. QED
  BY <1>1, <1>2, <1>3, <1>4, <1>5
  DEF Next, ReserveStep, SettleStep, ComplianceChange, FailsafeChange,
      RequestAdvance, AcquireWorkerLock, EnforceCompliance, CheckLimits,
      WriteAdvance, AbortAdvance, StartSettlement, ListIntents, PendingIntents, ReadIntent,
      ListAdvances, ReservedAdvances, CheckAdvance, SettleAdvance, CreditResidual, CoversAdvances, RouteIntent,
      SettlementThrows, AbortSettlement, FindDrift, ledgerVars, cycleVars, vars

(* Settlement, statement by statement and interleaved with reservations,   *)
(* is one indivisible payday, as long as settlements take turns.           *)
THEOREM Refinement == Spec /\ []SerialSettlement => KeepsPromise
BY InitPromise, NextPromise, Inductive, PTL DEF Spec, KeepsPromise, Promise!Spec

-----------------------------------------------------------------------------
(***************************************************************************)
(* The ledger's sums are sums of advances: what a worker was given is the  *)
(* amounts of its committed advances, what was recovered those of the      *)
(* SETTLED ones.                                                           *)
(***************************************************************************)

Drawn(e) == {r \in Requests : owner[r] = e /\ rpc[r] = "done"}
Recovered(e) == {r \in Requests : owner[r] = e /\ advance[r] = "SETTLED"}
InHand(s, e) == {r \in wAdvance[s] : owner[r] = e}

(* The advances a settlement lists are the ones of the worker it is at and *)
(* not yet settled; those it has settled are of workers it has been at.    *)
HandShape(s) ==
  /\ batch[s] # {} => spc[s] \in {"advances", "settling"}
  /\ \A r \in batch[s] : owner[r] = cur[s] /\ r \notin wAdvance[s]
  /\ \A r \in wAdvance[s] :
       \/ owner[r] \in wRouted[s]
       \/ spc[s] \in {"advances", "settling", "credited"} /\ owner[r] = cur[s]

BookInv ==
  /\ \A s \in Settlers : HandShape(s)
  /\ \A e \in Workers : /\ reserveSum[e] = SumOver(amount, Drawn(e))
                        /\ settleSum[e] = SumOver(amount, Recovered(e))
  /\ \A s \in Settlers, e \in Workers : wSettle[s][e] = SumOver(amount, InHand(s, e))

LEMMA HandStep ==
  ASSUME IInv, NEW s \in Settlers, \A t \in Settlers : HandShape(t),
         StartSettlement(s) \/ SettleStep(s) \/ AbortSettlement(s)
  PROVE  \A t \in Settlers : HandShape(t)'
<1> USE DEF HandShape, txVars, requestVars
<1>1. TypeOK /\ PointersSet /\ SettlementShape(s)
  BY DEF IInv
<1>2. CASE StartSettlement(s) \/ ListIntents(s) \/ (\E e \in Workers : ReadIntent(s, e))
  BY <1>1, <1>2 DEF StartSettlement, ListIntents, PendingIntents, ReadIntent, TypeOK
<1>3. CASE ListAdvances(s)
  <2>1. cur[s] \in todo[s] /\ cur[s] \notin wRouted[s] /\ spc[s] = "read"
    BY <1>1, <1>3 DEF ListAdvances, ReservedAdvances, PointersSet, AtIntent, SettlementShape
  <2>2. \A r \in wAdvance[s] : owner[r] \in wRouted[s]
    BY <2>1
  <2>3. QED BY <1>1, <1>3, <2>1, <2>2 DEF ListAdvances, ReservedAdvances, TypeOK
<1>4. CASE \E r \in Requests : CheckAdvance(s, r)
  BY <1>1, <1>4 DEF CheckAdvance, TypeOK
<1>5. CASE SettleAdvance(s)
  <2>1. curAdv[s] \in batch[s]
    BY <1>1, <1>5 DEF SettleAdvance, PointersSet
  <2>2. QED BY <1>1, <1>5, <2>1 DEF SettleAdvance, TypeOK
<1>6. CASE CreditResidual(s)
  BY <1>1, <1>6 DEF CreditResidual, CoversAdvances, Residual, TypeOK
<1>7. CASE RouteIntent(s)
  <2>1. spc[s] = "credited" /\ batch[s] = {}
    BY <1>7 DEF RouteIntent
  <2>2. QED BY <1>1, <1>7, <2>1 DEF RouteIntent, TypeOK
<1>8. CASE CommitSettlement(s) \/ SettlementThrows(s) \/ AbortSettlement(s)
  <2>1. EndSettlement(s) /\ UNCHANGED owner
    BY <1>8 DEF CommitSettlement, StatusAfter, WalletCredit, SettlementThrows, AbortSettlement
  <2>2. batch'[s] = {} /\ wAdvance'[s] = {}
    BY <1>1, <2>1 DEF EndSettlement, TypeOK
  <2>3. \A t \in Settlers \ {s} : /\ spc'[t] = spc[t] /\ batch'[t] = batch[t] /\ wAdvance'[t] = wAdvance[t]
                                  /\ wRouted'[t] = wRouted[t] /\ cur'[t] = cur[t]
    BY <1>1, <2>1 DEF EndSettlement, TypeOK
  <2>4. QED BY <2>1, <2>2, <2>3
<1>9. QED BY <1>2, <1>3, <1>4, <1>5, <1>6, <1>7, <1>8 DEF SettleStep

(* A request's own step leaves every hand as it is. *)
LEMMA HandStays ==
  ASSUME IInv, \A t \in Settlers : HandShape(t), UNCHANGED <<spc, txVars>>,
         \A r \in Requests : advance[r] = "RESERVED" => owner'[r] = owner[r]
  PROVE  /\ \A t \in Settlers : HandShape(t)'
         /\ \A s \in Settlers, e \in Workers : InHand(s, e)' = InHand(s, e)
<1>1. \A s \in Settlers : \A r \in wAdvance[s] \cup batch[s] : advance[r] = "RESERVED" /\ r \in Requests
  BY DEF IInv, SettlementShape, TypeOK
<1>2. QED BY <1>1 DEF HandShape, InHand, txVars

(* Neither the books nor what they are the sums of. *)
LEMMA SameBooks ==
  ASSUME IInv, BookInv, \A t \in Settlers : HandShape(t)',
         UNCHANGED <<reserveSum, settleSum, wSettle>>,
         \A r \in Requests : advance[r] # None => amount'[r] = amount[r],
         \A e \in Workers : Drawn(e)' = Drawn(e) /\ Recovered(e)' = Recovered(e),
         \A s \in Settlers, e \in Workers : InHand(s, e)' = InHand(s, e)
  PROVE  BookInv'
<1>1. PICK v, w : v = amount /\ w = amount'
  OBVIOUS
<1>2. ASSUME NEW e \in Workers
      PROVE  /\ SumOver(w, Drawn(e)) = SumOver(v, Drawn(e))
             /\ SumOver(w, Recovered(e)) = SumOver(v, Recovered(e))
  <2>1. \A r \in Drawn(e) : w[r] = v[r]
    BY <1>1 DEF Drawn, IInv, RequestShape
  <2>2. \A r \in Recovered(e) : w[r] = v[r]
    BY <1>1 DEF Recovered
  <2>3. QED BY <2>1, <2>2, SumOverSame
<1>3. ASSUME NEW s \in Settlers, NEW e \in Workers
      PROVE  SumOver(w, InHand(s, e)) = SumOver(v, InHand(s, e))
  <2>1. \A r \in wAdvance[s] : r \in Requests /\ advance[r] = "RESERVED"
    BY DEF IInv, SettlementShape, TypeOK
  <2>2. \A r \in InHand(s, e) : w[r] = v[r]
    BY <1>1, <2>1 DEF InHand
  <2>3. QED BY <2>2, SumOverSame
<1>4. ASSUME NEW e \in Workers
      PROVE  /\ reserveSum'[e] = SumOver(amount', Drawn(e)')
             /\ settleSum'[e] = SumOver(amount', Recovered(e)')
  BY <1>1, <1>2 DEF BookInv
<1>5. ASSUME NEW s \in Settlers, NEW e \in Workers
      PROVE  wSettle'[s][e] = SumOver(amount', InHand(s, e)')
  BY <1>1, <1>3 DEF BookInv
<1>6. QED BY <1>4, <1>5 DEF BookInv

LEMMA CommitBooks ==
  ASSUME IsFiniteSet(Requests), IInv, BookInv, NEW r \in Requests, CommitAdvance(r)
  PROVE  BookInv'
<1>1. /\ rpc[r] = "written" /\ rpc' = [rpc EXCEPT ![r] = "done"]
      /\ advance' = [advance EXCEPT ![r] = "RESERVED"]
      /\ reserveSum' = [reserveSum EXCEPT ![owner[r]] = @ + amount[r]]
      /\ UNCHANGED <<settleSum, owner, amount, spc, txVars>>
  BY DEF CommitAdvance, MayCommit
<1>2. advance[r] = None /\ owner[r] \in Workers /\ amount \in [Requests -> Nat]
  BY <1>1 DEF IInv, RequestShape, TypeOK
<1>3. /\ \A t \in Settlers : HandShape(t)'
      /\ \A s \in Settlers, e \in Workers : InHand(s, e)' = InHand(s, e)
  BY <1>1, HandStays DEF BookInv
<1>4. ASSUME NEW e \in Workers PROVE Recovered(e)' = Recovered(e)
  BY <1>1, <1>2 DEF Recovered, IInv, TypeOK
<1>5. ASSUME NEW e \in Workers, e # owner[r] PROVE Drawn(e)' = Drawn(e)
  BY <1>1, <1>5 DEF Drawn, IInv, TypeOK
<1>6. PICK T : T = Drawn(owner[r])
  OBVIOUS
<1>7. T \in SUBSET Requests /\ r \notin T /\ Drawn(owner[r])' = T \cup {r}
  BY <1>1, <1>6 DEF Drawn, IInv, TypeOK
<1>8. SumOver(amount, T \cup {r}) = SumOver(amount, T) + amount[r]
  <2>1. PICK v : v = amount
    OBVIOUS
  <2>2. v \in [Requests -> Int]
    BY <1>2, <2>1
  <2>3. SumOver(v, T \cup {r}) = SumOver(v, T) + v[r]
    BY <1>7, <2>2, SumOverAdds
  <2>4. QED BY <2>1, <2>3
<1>9. ASSUME NEW e \in Workers PROVE reserveSum'[e] = SumOver(amount', Drawn(e)')
  <2>1. CASE e = owner[r]
    BY <1>1, <1>2, <1>6, <1>7, <1>8, <2>1 DEF BookInv, IInv, TypeOK
  <2>2. CASE e # owner[r]
    BY <1>1, <1>2, <1>5, <2>2 DEF BookInv, IInv, TypeOK
  <2>3. QED BY <2>1, <2>2
<1>10. QED BY <1>1, <1>3, <1>4, <1>9 DEF BookInv, txVars

LEMMA SettleBooks ==
  ASSUME IsFiniteSet(Requests), IInv, BookInv, \A t \in Settlers : HandShape(t)',
         NEW s \in Settlers, SettleAdvance(s)
  PROVE  BookInv'
<1> DEFINE r == curAdv[s]
<1>1. /\ wAdvance' = [wAdvance EXCEPT ![s] = @ \cup {r}]
      /\ wSettle' = [wSettle EXCEPT ![s][cur[s]] = @ + amount[r]]
      /\ UNCHANGED <<reserveSum, settleSum, owner, amount, rpc, advance>>
  BY DEF SettleAdvance, ledgerVars, requestVars
<1>2. /\ r \in batch[s] /\ r \in Requests /\ owner[r] = cur[s] /\ r \notin wAdvance[s] /\ cur[s] \in Workers
      /\ amount \in [Requests -> Nat]
  BY DEF SettleAdvance, IInv, PointersSet, AtIntent, BookInv, HandShape, TypeOK
<1> HIDE DEF r
<1>3. ASSUME NEW t \in Settlers, NEW e \in Workers, t # s \/ e # cur[s]
      PROVE  wSettle'[t][e] = wSettle[t][e] /\ InHand(t, e)' = InHand(t, e)
  BY <1>1, <1>2, <1>3 DEF InHand, IInv, TypeOK
<1>4. PICK T : T = InHand(s, cur[s])
  OBVIOUS
<1>5. T \in SUBSET Requests /\ r \notin T /\ InHand(s, cur[s])' = T \cup {r}
  <2>1. \A f \in Workers : {q \in wAdvance'[s] : owner[q] = f} = {q \in wAdvance[s] \cup {r} : owner[q] = f}
    BY <1>1 DEF IInv, TypeOK
  <2>2. cur' = cur
    BY DEF SettleAdvance
  <2>3. QED BY <1>1, <1>2, <1>4, <2>1, <2>2 DEF InHand, IInv, TypeOK
<1>6. SumOver(amount, T \cup {r}) = SumOver(amount, T) + amount[r]
  <2>1. PICK v : v = amount
    OBVIOUS
  <2>2. v \in [Requests -> Int]
    BY <1>2, <2>1
  <2>3. SumOver(v, T \cup {r}) = SumOver(v, T) + v[r]
    BY <1>2, <1>5, <2>2, SumOverAdds
  <2>4. QED BY <2>1, <2>3
<1>7. wSettle'[s][cur[s]] = wSettle[s][cur[s]] + amount[r]
  BY <1>1, <1>2 DEF IInv, TypeOK
<1>8. \A t \in Settlers, e \in Workers : wSettle'[t][e] = SumOver(amount', InHand(t, e)')
  <2> SUFFICES ASSUME NEW t \in Settlers, NEW e \in Workers
               PROVE  wSettle'[t][e] = SumOver(amount', InHand(t, e)')
    OBVIOUS
  <2>1. wSettle[t][e] = SumOver(amount, InHand(t, e))
    BY DEF BookInv
  <2>2. CASE t # s \/ e # cur[s]
    BY <1>1, <1>3, <2>1, <2>2
  <2>3. CASE t = s /\ e = cur[s]
    <3>1. InHand(t, e)' = T \cup {r}
      BY <1>1, <1>5, <2>3 DEF InHand, SettleAdvance
    <3>2. QED BY <1>1, <1>4, <1>6, <1>7, <2>1, <2>3, <3>1
  <2>4. QED BY <2>2, <2>3
<1>9. \A e \in Workers : Drawn(e)' = Drawn(e) /\ Recovered(e)' = Recovered(e)
  BY <1>1 DEF Drawn, Recovered
<1>10. QED BY <1>1, <1>8, <1>9 DEF BookInv

(* A settlement that ends has nothing in hand. *)
LEMMA EndBooks ==
  ASSUME IsFiniteSet(Requests), TypeOK, NEW s \in Settlers, EndSettlement(s), UNCHANGED <<owner, amount>>,
         \A t \in Settlers, e \in Workers : wSettle[t][e] = SumOver(amount, InHand(t, e))
  PROVE  \A t \in Settlers, e \in Workers : wSettle'[t][e] = SumOver(amount', InHand(t, e)')
<1> SUFFICES ASSUME NEW t \in Settlers, NEW e \in Workers
             PROVE  wSettle'[t][e] = SumOver(amount', InHand(t, e)')
  OBVIOUS
<1>1. CASE t = s
  <2>1. wSettle'[t][e] = 0 /\ InHand(t, e)' = {}
    BY <1>1 DEF EndSettlement, TypeOK, Zero, InHand
  <2>2. QED BY <2>1, SumOverNone
<1>2. CASE t # s
  <2>1. wSettle'[t][e] = wSettle[t][e] /\ InHand(t, e)' = InHand(t, e)
    BY <1>2 DEF EndSettlement, TypeOK, InHand
  <2>2. QED BY <2>1
<1>3. QED BY <1>1, <1>2

LEMMA PaydayBooks ==
  ASSUME IsFiniteSet(Requests), IInv, BookInv, \A t \in Settlers : HandShape(t)',
         NEW s \in Settlers, CommitSettlement(s)
  PROVE  BookInv'
<1>1. /\ advance' = [r \in Requests |-> IF r \in wAdvance[s] THEN "SETTLED" ELSE advance[r]]
      /\ settleSum' = [e \in Workers |-> settleSum[e] + wSettle[s][e]]
      /\ EndSettlement(s) /\ UNCHANGED <<reserveSum, owner, amount, rpc>>
  BY DEF CommitSettlement, StatusAfter, requestVars
<1>2. TypeOK /\ wAdvance[s] \in SUBSET Requests /\ \A r \in wAdvance[s] : advance[r] = "RESERVED"
  BY DEF IInv, SettlementShape, TypeOK
<1>3. \A t \in Settlers, e \in Workers : wSettle'[t][e] = SumOver(amount', InHand(t, e)')
  BY <1>1, <1>2, EndBooks DEF BookInv
<1>4. ASSUME NEW e \in Workers PROVE settleSum'[e] = SumOver(amount', Recovered(e)')
  <2>1. PICK T, U, v : T = Recovered(e) /\ U = InHand(s, e) /\ v = amount
    OBVIOUS
  <2>2. T \in SUBSET Requests /\ U \in SUBSET Requests /\ v \in [Requests -> Int]
    BY <1>2, <2>1 DEF Recovered, InHand, TypeOK
  <2>3. Apart(T, U)
    BY <1>2, <2>1 DEF Recovered, InHand, Apart
  <2>4. SumOver(v, T \cup U) = SumOver(v, T) + SumOver(v, U)
    BY <2>2, <2>3, SumOverUnion
  <2>5. Recovered(e)' = T \cup U
    BY <1>1, <1>2, <2>1 DEF Recovered, InHand
  <2>6. settleSum[e] = SumOver(v, T) /\ wSettle[s][e] = SumOver(v, U)
    BY <2>1 DEF BookInv
  <2>7. QED BY <1>1, <2>1, <2>4, <2>5, <2>6
<1>5. \A e \in Workers : Drawn(e)' = Drawn(e)
  BY <1>1 DEF Drawn
<1>6. \A e \in Workers : reserveSum'[e] = SumOver(amount', Drawn(e)')
  BY <1>1, <1>5 DEF BookInv
<1>7. QED BY <1>3, <1>4, <1>6 DEF BookInv

LEMMA NextBooks ==
  ASSUME IsFiniteSet(Requests), IInv, BookInv, [Next]_vars
  PROVE  BookInv'
<1> USE DEF cycleVars, ledgerVars, requestVars, txVars
<1>1. ASSUME NEW r \in Requests, ReserveStep(r) \/ AbortAdvance(r), ~CommitAdvance(r)
      PROVE  BookInv'
  <2>1. /\ UNCHANGED <<reserveSum, settleSum, wSettle, owner, amount, advance, spc, txVars>>
        /\ rpc[r] # "done" /\ \E at \in RequestPc \ {"done"} : rpc' = [rpc EXCEPT ![r] = at]
    BY <1>1 DEF ReserveStep, AcquireWorkerLock, EnforceCompliance, CheckLimits, WriteAdvance, AbortAdvance,
                LockHeld, RequestPc
  <2>2. \A e \in Workers : Drawn(e)' = Drawn(e) /\ Recovered(e)' = Recovered(e)
    BY <2>1 DEF Drawn, Recovered, IInv, TypeOK
  <2>3. (\A t \in Settlers : HandShape(t)') /\ \A s \in Settlers, e \in Workers : InHand(s, e)' = InHand(s, e)
    BY <2>1, HandStays DEF BookInv
  <2>4. QED BY <2>1, <2>2, <2>3, SameBooks
<1>2. ASSUME NEW r \in Requests, NEW e \in Workers, NEW a \in Amounts, RequestAdvance(r, e, a)
      PROVE  BookInv'
  <2>1. /\ rpc[r] = "idle" /\ owner' = [owner EXCEPT ![r] = e] /\ amount' = [amount EXCEPT ![r] = a]
        /\ rpc' = [rpc EXCEPT ![r] = "waiting"]
        /\ UNCHANGED <<reserveSum, settleSum, wSettle, advance, spc, txVars>>
    BY <1>2 DEF RequestAdvance
  <2>2. advance[r] = None
    BY <2>1 DEF IInv, RequestShape
  <2>3. \A f \in Workers : Drawn(f)' = Drawn(f) /\ Recovered(f)' = Recovered(f)
    BY <2>1, <2>2 DEF Drawn, Recovered, IInv, TypeOK
  <2>4. \A q \in Requests : advance[q] # None => owner'[q] = owner[q] /\ amount'[q] = amount[q]
    BY <2>1, <2>2 DEF IInv, TypeOK
  <2>5. (\A t \in Settlers : HandShape(t)') /\ \A s \in Settlers, f \in Workers : InHand(s, f)' = InHand(s, f)
    BY <2>1, <2>4, HandStays DEF BookInv
  <2>6. QED BY <2>1, <2>3, <2>4, <2>5, SameBooks
<1>3. ASSUME NEW s \in Settlers, StartSettlement(s) \/ SettleStep(s) \/ AbortSettlement(s)
      PROVE  BookInv'
  <2>1. \A t \in Settlers : HandShape(t)'
    BY <1>3, HandStep DEF BookInv
  <2>2. CASE SettlementThrows(s) \/ AbortSettlement(s)
    <3>1. EndSettlement(s) /\ UNCHANGED <<reserveSum, settleSum, owner, amount, rpc, advance>>
      BY <2>2 DEF SettlementThrows, AbortSettlement
    <3>2. \A t \in Settlers, e \in Workers : wSettle'[t][e] = SumOver(amount', InHand(t, e)')
      BY <3>1, EndBooks DEF IInv, BookInv
    <3>3. QED BY <2>1, <3>1, <3>2 DEF BookInv, Drawn, Recovered
  <2>3. CASE ~(SettlementThrows(s) \/ AbortSettlement(s) \/ SettleAdvance(s) \/ CommitSettlement(s))
    <3>1. UNCHANGED <<reserveSum, settleSum, wSettle, wAdvance, owner, amount, rpc, advance>>
      BY <1>3, <2>3 DEF StartSettlement, SettleStep, ListIntents, PendingIntents, ReadIntent, ListAdvances,
                        ReservedAdvances, CheckAdvance, CreditResidual, CoversAdvances, Residual, RouteIntent
    <3>2. /\ \A e \in Workers : Drawn(e)' = Drawn(e) /\ Recovered(e)' = Recovered(e)
          /\ \A t \in Settlers, e \in Workers : InHand(t, e)' = InHand(t, e)
      BY <3>1 DEF Drawn, Recovered, InHand
    <3>3. QED BY <2>1, <3>1, <3>2, SameBooks
  <2>4. QED BY <2>1, <2>2, <2>3, SettleBooks, PaydayBooks
<1>4. CASE \/ \E m \in SUBSET Workers, g \in [Workers -> GrossAmounts] : Ingest(m, g)
           \/ \E e \in Workers : ComplianceChange(e)
           \/ FailsafeChange \/ FindDrift \/ MarkDriftFailed \/ UNCHANGED vars
  <2>1. UNCHANGED <<reserveSum, settleSum, wSettle, owner, amount, rpc, advance, spc, txVars>>
    BY <1>4 DEF Ingest, ComplianceChange, FailsafeChange, FindDrift, MarkDriftFailed, vars
  <2>2. \A e \in Workers : Drawn(e)' = Drawn(e) /\ Recovered(e)' = Recovered(e)
    BY <2>1 DEF Drawn, Recovered
  <2>3. (\A t \in Settlers : HandShape(t)') /\ \A s \in Settlers, e \in Workers : InHand(s, e)' = InHand(s, e)
    BY <2>1, HandStays DEF BookInv
  <2>4. QED BY <2>1, <2>2, <2>3, SameBooks
<1>5. QED BY <1>1, <1>2, <1>3, <1>4, CommitBooks DEF Next

LEMMA InitBooks == Init => BookInv
<1> SUFFICES ASSUME Init PROVE BookInv
  OBVIOUS
<1>1. \A e \in Workers, s \in Settlers : /\ Drawn(e) = {} /\ Recovered(e) = {} /\ InHand(s, e) = {}
                                         /\ wSettle[s][e] = 0
  BY DEF Init, Drawn, Recovered, InHand, Zero
<1>2. \A e \in Workers : Drawn(e) = {} /\ Recovered(e) = {} /\ reserveSum[e] = 0 /\ settleSum[e] = 0
  BY DEF Init, Drawn, Recovered, Zero
<1>3. \A s \in Settlers : HandShape(s)
  BY DEF Init, HandShape
<1>4. QED BY <1>1, <1>2, <1>3, SumOverNone DEF BookInv

(* As long as settlements take turns, no worker is ever charged more than  *)
(* it was given, however many advances it took and whichever of them a     *)
(* settlement saw.                                                         *)
THEOREM RecoveredWasDrawn ==
  ASSUME IsFiniteSet(Requests) PROVE Spec /\ []SerialSettlement => []RecoveredWasAdvanced
<1>1. IInv /\ BookInv /\ [Next]_vars => BookInv'
  BY NextBooks
<1>2. IInv /\ BookInv => RecoveredWasAdvanced
  <2> SUFFICES ASSUME IInv, BookInv, NEW e \in Workers PROVE settleSum[e] <= reserveSum[e]
    BY DEF RecoveredWasAdvanced
  <2>1. PICK T, U, v : T = Drawn(e) /\ U = Recovered(e) /\ v = amount
    OBVIOUS
  <2>2. T \in SUBSET Requests /\ U \in SUBSET T /\ v \in [Requests -> Nat]
    BY <2>1 DEF Drawn, Recovered, IInv, TypeOK, RequestShape
  <2>3. SumOver(v, U) <= SumOver(v, T)
    BY <2>2, SumOverGrows
  <2>4. QED BY <2>1, <2>3 DEF BookInv
<1>3. QED BY <1>1, <1>2, InitBooks, Inductive, PTL DEF Spec

-----------------------------------------------------------------------------
(***************************************************************************)
(* What apportionSettlement promises, for any wage and any debt.           *)
(***************************************************************************)

(* Nothing is recovered that is not owed, nor more than the cap. *)
LEMMA RecoverableBounds ==
  ASSUME NEW wage \in Nat, NEW owed \in Nat
  PROVE  /\ Recoverable(wage, owed) \in Nat
         /\ Recoverable(wage, owed) <= 10 * owed
         /\ Recoverable(wage, owed) <= 7 * wage
  BY DEF Recoverable, Capped, Lesser, NotNegative, NetFloor

LEMMA Rounding ==
  ASSUME NEW x \in Nat, NEW r \in Round2(x)
  PROVE  r \in Nat /\ 10 * r <= x + 5 /\ x <= 10 * r + 5
  BY DEF Round2

(* A worker keeps the floor, or the whole wage when the wage is smaller,   *)
(* and never less than three tenths of it: rounding takes at most half a   *)
(* fil of that.                                                            *)
THEOREM WorkerIsProtected ==
  ASSUME NEW wage \in Nat, NEW owed \in Nat, NEW a \in Apportionments(wage, owed)
  PROVE  /\ a.net >= Lesser(wage, NetFloor)
         /\ 10 * a.net >= 3 * wage - 5
  <1> DEFINE x == Recoverable(wage, owed)
  <1>1. x \in Nat /\ x <= 7 * wage /\ a.net \in Round2(10 * wage - x)
    BY RecoverableBounds DEF Apportionments
  <1>2. 10 * wage - x >= 10 * Lesser(wage, NetFloor)
    BY DEF Recoverable, Capped, Lesser, NotNegative, NetFloor
  <1> HIDE DEF x
  <1>3. 10 * wage - x \in Nat
    BY <1>1
  <1>4. Lesser(wage, NetFloor) \in Nat
    BY DEF Lesser, NetFloor
  <1> QED BY <1>1, <1>2, <1>3, <1>4 DEF Round2

(* No more is recovered than is owed or, but for the rounding, than seven  *)
(* tenths of the wage; and what is recovered and what remains owed add up  *)
(* to the debt, what is recovered and what is paid out to the wage, within *)
(* the one fil that rounding both halves may add or take.                  *)
THEOREM NothingIsLost ==
  ASSUME NEW wage \in Nat, NEW owed \in Nat, NEW a \in Apportionments(wage, owed)
  PROVE  /\ a.recover <= owed
         /\ 10 * a.recover <= 7 * wage + 5
         /\ a.recover + a.remaining - owed \in {-1, 0, 1}
         /\ a.recover + a.net - wage \in {-1, 0, 1}
  <1> DEFINE x == Recoverable(wage, owed)
  <1>1. x \in Nat /\ x <= 10 * owed /\ x <= 7 * wage
    BY RecoverableBounds
  <1>2. /\ a.recover \in Round2(x) /\ a.net \in Round2(10 * wage - x)
        /\ a.remaining \in Round2(NotNegative(10 * owed - x))
    BY DEF Apportionments
  <1> HIDE DEF x
  <1>3. NotNegative(10 * owed - x) = 10 * owed - x
    BY <1>1 DEF NotNegative
  <1>4. 10 * wage - x \in Nat /\ 10 * owed - x \in Nat
    BY <1>1
  <1>5. a.recover \in Nat /\ 10 * a.recover <= x + 5 /\ x <= 10 * a.recover + 5
    BY <1>1, <1>2, Rounding
  <1>6. a.net \in Nat /\ 10 * a.net <= 10 * wage - x + 5 /\ 10 * wage - x <= 10 * a.net + 5
    BY <1>2, <1>4, Rounding
  <1>7. a.remaining \in Nat /\ 10 * a.remaining <= 10 * owed - x + 5 /\ 10 * owed - x <= 10 * a.remaining + 5
    BY <1>2, <1>3, <1>4, Rounding
  <1> QED BY <1>1, <1>5, <1>6, <1>7

(* A higher wage never means that less of the same debt is recovered, and  *)
(* a higher debt never that less of the same wage is.                      *)
THEOREM RecoveryIsMonotone ==
  ASSUME NEW wage \in Nat, NEW owed \in Nat, NEW more \in Nat
  PROVE  /\ Recoverable(wage, owed) <= Recoverable(wage + more, owed)
         /\ Recoverable(wage, owed) <= Recoverable(wage, owed + more)
  BY DEF Recoverable, Capped, Lesser, NotNegative, NetFloor
=============================================================================
