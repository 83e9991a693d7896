----------------------------- MODULE Authorize -----------------------------
(***************************************************************************)
(* The synchronous authorization webhook (nymcard-authorize.webhook.ts)    *)
(* with its fraud score (fraud-scorer.service.ts) for the holder's card.   *)
(* The pipeline races a deadline, and the authorization is counted in      *)
(* Redis after it has been answered, by a call that nobody awaits.         *)
(*                                                                         *)
(* What the balance check finds (a balance cached in the last 30 seconds,  *)
(* the employee's row, or an error) only decides whether a request that    *)
(* passed the score is declined after all: it is a choice here, and so the *)
(* cache it warms is left out.  A pipeline that the deadline has overtaken *)
(* has no other effect, and is left out too.                               *)
(***************************************************************************)
EXTENDS Cards

CONSTANTS
  Attempts,      \* what NymCard asks about: [amount, risky, country, device]
  DeclineAbove,  \* FRAUD_DECLINE_THRESHOLD, in hundredths
  Spike, Burst,  \* authorizations a minute that raise the risk, and raise it most
  SpendSpike,    \* the same for the amount
  LargeTicket,   \* a single amount that raises the risk
  BareTicket     \* the same without a device fingerprint

ASSUME ScoresAreWhole ==
  /\ {DeclineAbove, Spike, Burst, SpendSpike, LargeTicket, BareTicket} \subseteq Nat
  /\ \A a \in Attempts : a.amount \in Nat

VARIABLES
  velocity,      \* Redis card_velocity:<card>: count and amount
  window,        \* history: what has been answered since the key expired
  approvals      \* history: what was approved, and the window when it was scored

authorizeVars == <<velocity, window, approvals>>

NoVelocity == [count |-> 0, amount |-> 0]
Plus(seen, a) == [count |-> seen.count + 1, amount |-> seen.amount + a.amount]

InitAuthorize ==
  /\ velocity = NoVelocity
  /\ window = NoVelocity
  /\ approvals = {}

Authorization(a) ==
  /\ Arrives([op |-> "authorize", at |-> "reads velocity", asks |-> a, seen |-> NoVelocity])
  /\ UNCHANGED <<walletVars, authorizeVars>>

(***************************************************************************)
(* HeuristicFraudScorer.score, in hundredths.                              *)
(***************************************************************************)
Adds(condition, points) == IF condition THEN points ELSE 0

Risk(a, seen) ==
  Min({100,
       Adds(a.risky, 35) + Adds(a.country = "sanctioned", 50)
       + Adds(seen.count >= Burst, 60) + Adds(seen.count \in Spike..(Burst - 1), 20)
       + Adds(seen.amount + a.amount > SpendSpike, 25)
       + Adds(a.country # "home", 15)
       + Adds(a.amount > LargeTicket, 15)
       + Adds(~a.device /\ a.amount > BareTicket, 10)})

(***************************************************************************)
(* handleAuthorize, decide and runPipeline                                 *)
(***************************************************************************)
(* Mutant: an authorization that is declined is not counted. *)
CountsApprovals(verdict) == IF verdict = "APPROVE" THEN "reads count" ELSE "done"
AfterAnswer(verdict) == "reads count"

Answers(n, verdict) ==
  LET r == request[n] IN
  /\ window' = Plus(window, r.asks)
  /\ approvals' = IF verdict = "APPROVE" THEN approvals \cup {[asks |-> r.asks, earlier |-> r.seen]}
                  ELSE approvals
  /\ GoesTo(n, AfterAnswer(verdict))
  /\ UNCHANGED <<walletVars, velocity>>

(* A risk too high is answered at once; of the others "seen" remembers     *)
(* what had been answered when they were scored.                           *)
Scores(n, found) ==
  IF Risk(request[n].asks, found) > DeclineAbove
    THEN Answers(n, "DECLINE")
    ELSE /\ Becomes(n, [request[n] EXCEPT !.at = "checks balance", !.seen = window])
         /\ UNCHANGED <<walletVars, authorizeVars>>

ReadVelocity(n) ==
  /\ Is(n, "authorize", "reads velocity")
  /\ Scores(n, velocity)

CheckBalance(n) ==
  /\ Is(n, "authorize", "checks balance")
  /\ \E verdict \in {"APPROVE", "DECLINE"} : Answers(n, verdict)

(* The deadline passes. *)
TimesOut(n) ==
  /\ Is(n, "authorize", "reads velocity") \/ Is(n, "authorize", "checks balance")
  /\ Answers(n, "DECLINE")

(***************************************************************************)
(* recordVelocity                                                          *)
(***************************************************************************)
CountsOn(n, found) ==
  /\ Becomes(n, [request[n] EXCEPT !.at = "writes count", !.seen = found])
  /\ UNCHANGED <<walletVars, authorizeVars>>

ReadCount(n) ==
  /\ Is(n, "authorize", "reads count")
  /\ CountsOn(n, velocity)

WriteCount(n) ==
  /\ Is(n, "authorize", "writes count")
  /\ velocity' = Plus(request[n].seen, request[n].asks)
  /\ GoesTo(n, "done")
  /\ UNCHANGED <<walletVars, window, approvals>>

(* An error of Redis: readVelocity takes it for an empty window.  (A count *)
(* that cannot be written is only logged: as if the request had died.)     *)
RedisFails(n) ==
  \/ Is(n, "authorize", "reads velocity") /\ Scores(n, NoVelocity)
  \/ Is(n, "authorize", "reads count") /\ CountsOn(n, NoVelocity)

(* The key lives 60 seconds; every write of the count starts them anew. *)
VelocityExpires ==
  /\ velocity # NoVelocity
  /\ velocity' = NoVelocity
  /\ window' = NoVelocity
  /\ UNCHANGED <<sharedVars, approvals>>

AuthorizeSteps(n) ==
  \/ ReadVelocity(n)
  \/ CheckBalance(n)
  \/ TimesOut(n)
  \/ ReadCount(n)
  \/ WriteCount(n)
============================================================================
