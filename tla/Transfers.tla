----------------------------- MODULE Transfers -----------------------------
(***************************************************************************)
(* Transfers between employees (wallet.service.ts) and the referral reward *)
(* a transfer may earn its recipient (referrals.service.ts).               *)
(***************************************************************************)
EXTENDS EmployeeWallet

CONSTANTS
  Payments,   \* the transfers asked for: [from, to, amount, key], NoKey when there is none
  Fee,        \* P2P_TRANSFER_FEE
  Luxury,     \* employees on the LUXURY plan
  Active,     \* employees whose status is ACTIVE
  Referrer,   \* who referred whom: a function on the referred employees
  Threshold,  \* FIRST_DEPOSIT_THRESHOLD
  Reward      \* Referral.rewardAmount

ASSUME PaymentsAreWhole ==
  /\ Fee \in Nat
  /\ \A p \in Payments : p.amount \in Nat /\ {p.from, p.to} \subseteq Employees
ASSUME ReferralsAreOfOthers ==
  Reward \in Nat /\ \A e \in DOMAIN Referrer : e \in Employees /\ Referrer[e] \in Employees \ {e}

VARIABLE rewarded  \* Referral.rewardGiven of each referred employee

InitTransfers == rewarded = [e \in DOMAIN Referrer |-> FALSE]

FeeOf(e) == IF e \in Luxury THEN 0 ELSE Fee

(***************************************************************************)
(* WalletService.transfer                                                  *)
(***************************************************************************)
Transfer(p) ==
  /\ Arrives([op |-> "transfer", at |-> IF p.key = NoKey THEN "checks" ELSE "replay check",
              from |-> p.from, to |-> p.to, amount |-> p.amount, key |-> p.key])
  /\ UNCHANGED <<walletVars, rewarded>>

(* A key that has a row is answered from that row, whoever wrote it. *)
CheckReplay(n) ==
  /\ Is(n, "transfer", "replay check")
  /\ GoesTo(n, IF KeyTaken(request[n].key) THEN "done" ELSE "checks")
  /\ UNCHANGED <<walletVars, rewarded>>

(* Mutant: the fee is left out of the check. *)
CoversAmount(balance, amount, fee) == balance >= amount
Covers(balance, amount, fee) == balance >= amount + fee

(* Inside the transaction, before its first write: both employees are read. *)
CheckTransfer(n) ==
  LET r == request[n] IN
  /\ Is(n, "transfer", "checks")
  /\ GoesTo(n, IF /\ {r.from, r.to} \subseteq Active
                  /\ r.from # r.to
                  /\ Covers(wallet[r.from], r.amount, FeeOf(r.from))
                 THEN "writes" ELSE "refused")
  /\ UNCHANGED <<walletVars, rewarded>>

(* The reward is launched inside the callback and not awaited. *)
AfterTransfer(r) == IF r.amount >= Threshold THEN "reward" ELSE "done"

(* Mutant: the unique index on the key is missing. *)
AnyKey(k) == TRUE
KeyFree(k) == ~KeyTaken(k)

CommitTransfer(n) ==
  LET r == request[n]
      total == r.amount + FeeOf(r.from) IN
  /\ Is(n, "transfer", "writes")
  /\ KeyFree(r.key)
  /\ Posts([wallet EXCEPT ![r.from] = @ - total, ![r.to] = @ + r.amount],
           ledger \cup {Row(n, r.from, "TRANSFER", -total, r.key, NoKey, ""),
                        Row(n, r.to, "RECEIVE", r.amount, NoKey, NoKey, "")})
  /\ GoesTo(n, AfterTransfer(r))
  /\ UNCHANGED rewarded

(* Another transfer has written the key since: the insert fails before the *)
(* reward is launched, and everything is rolled back.                      *)
TransferConflicts(n) ==
  /\ Is(n, "transfer", "writes")
  /\ ~KeyFree(request[n].key)
  /\ Refused(n)
  /\ UNCHANGED rewarded

(* The rows are written and the reward is launched, then the commit fails. *)
TransferIsLost(n) ==
  /\ Is(n, "transfer", "writes")
  /\ KeyFree(request[n].key)
  /\ GoesTo(n, AfterTransfer(request[n]))
  /\ UNCHANGED <<walletVars, rewarded>>

(***************************************************************************)
(* referralsService.maybeReward(recipient, amount)                         *)
(***************************************************************************)

(* Mutant: the rewardGiven flag is not looked at. *)
IsReferred(e) == e \in DOMAIN Referrer
RewardDue(e) == e \in DOMAIN Referrer /\ ~rewarded[e]

FindReferral(n) ==
  /\ Is(n, "transfer", "reward")
  /\ GoesTo(n, IF RewardDue(request[n].to) THEN "pays reward" ELSE "done")
  /\ UNCHANGED <<walletVars, rewarded>>

(* Mutant: the referrer's row is forgotten. *)
RefereeOnly(referrer, referee) == {referee}
RewardedSides(referrer, referee) == {referrer, referee}

(* Both sides are paid; the flag is set here, not tested. *)
PayReward(n) ==
  LET referee == request[n].to
      referrer == Referrer[referee] IN
  /\ Is(n, "transfer", "pays reward")
  /\ Posts([wallet EXCEPT ![referrer] = @ + Reward, ![referee] = @ + Reward],
           ledger \cup {Row(n, e, "REFERRAL_REWARD", Reward, NoKey, <<"referral", referee>>, "") :
                          e \in RewardedSides(referrer, referee)})
  /\ rewarded' = [rewarded EXCEPT ![referee] = TRUE]
  /\ GoesTo(n, "done")

TransferSteps(n) ==
  \/ CheckReplay(n)
  \/ CheckTransfer(n)
  \/ CommitTransfer(n)
  \/ TransferConflicts(n)
  \/ FindReferral(n)
  \/ PayReward(n)

TransferArrives == \E p \in Payments : Transfer(p)
============================================================================
