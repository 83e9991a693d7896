-------------------------- MODULE CohortFailsafe --------------------------
(***************************************************************************)
(* The circuit breaker of one cohort, a company: canary sweeps trip it     *)
(* (metrics.service.ts compile and runCanarySweep, cohort-failsafe         *)
(* .service.ts), two people clear it.  Both read the flag first and write  *)
(* it, with a row of AuditLog, in a transaction that does not read again.  *)
(***************************************************************************)
EXTENDS Handlers, Sequences

CONSTANTS
  Canaries,   \* the sweeps that may run at once, the cron's and one more server's
  Approvers   \* the ids a clear may be asked with

VARIABLES
  breach,     \* the cohort's default ratio is at 1.5% or above
  failsafe,   \* Company: ewaFailsafeActive, and whether a reason is set
  trail,      \* the cohort's rows of AuditLog
  sweep       \* what each sweep does, and how long the trail was when it read the flag

cohortVars == <<breach, failsafe, trail, sweep>>

NoSweep == [at |-> "idle", saw |-> 0]

InitCohortFailsafe ==
  /\ breach = FALSE
  /\ failsafe = [active |-> FALSE, reason |-> FALSE]
  /\ trail = <<>>
  /\ sweep = [c \in Canaries |-> NoSweep]

(* What a transaction writes.  "behind" is history: how many rows have     *)
(* been written since the flag was read.                                   *)
Writes(action, saw, by) ==
  /\ failsafe' = [active |-> action = "TRIPPED", reason |-> action = "TRIPPED"]
  /\ trail' = Append(trail, [action |-> action, behind |-> Len(trail) - saw, by |-> by])

RatioMoves ==
  /\ breach' = ~breach
  /\ UNCHANGED <<handlerVars, failsafe, trail, sweep>>

(***************************************************************************)
(* A sweep: compile, then tripCohortFailsafe.                              *)
(***************************************************************************)
SweepTo(c, at, saw) == sweep' = [sweep EXCEPT ![c] = [at |-> at, saw |-> saw]]

SweepCompiles(c) ==
  /\ sweep[c].at = "idle"
  /\ breach
  /\ SweepTo(c, "reads flag", 0)
  /\ UNCHANGED <<handlerVars, breach, failsafe, trail>>

(* Mutant: a reason is taken for the flag. *)
ReasonIsSet == failsafe.reason
FlagIsSet == failsafe.active

SweepReads(c) ==
  /\ sweep[c].at = "reads flag"
  /\ SweepTo(c, IF FlagIsSet THEN "refreshes" ELSE "trips", Len(trail))
  /\ UNCHANGED <<handlerVars, breach, failsafe, trail>>

(* Already active: the ratio and the reason are written, nothing is logged. *)
Refreshes(c) ==
  /\ sweep[c].at = "refreshes"
  /\ failsafe' = [failsafe EXCEPT !.reason = TRUE]
  /\ SweepTo(c, "idle", 0)
  /\ UNCHANGED <<handlerVars, breach, trail>>

Trips(c) ==
  /\ sweep[c].at = "trips"
  /\ Writes("TRIPPED", sweep[c].saw, {})
  /\ SweepTo(c, "idle", 0)
  /\ UNCHANGED <<handlerVars, breach>>

SweepSteps(c) == SweepCompiles(c) \/ SweepReads(c) \/ Refreshes(c) \/ Trips(c)

(* An error is logged and swallowed; the next sweep tries again. *)
SweepFails(c) ==
  /\ sweep[c] # NoSweep
  /\ sweep' = [sweep EXCEPT ![c] = NoSweep]
  /\ UNCHANGED <<handlerVars, breach, failsafe, trail>>

(***************************************************************************)
(* clearCohortFailsafe, the two-person rule                                *)
(***************************************************************************)
Clear(a, b) ==
  /\ Arrives([op |-> "clear", at |-> "checks approvers", by |-> {a, b}])
  /\ UNCHANGED cohortVars

CheckApprovers(n) ==
  /\ Is(n, "clear", "checks approvers")
  /\ IF \E a, b \in request[n].by : a # b
       THEN GoesTo(n, "reads flag")
       ELSE GoesTo(n, "refused")
  /\ UNCHANGED cohortVars

(* Mutant: a clear is written whatever the flag says. *)
AlwaysClears == TRUE
StillTripped == failsafe.active

ReadFlag(n) ==
  /\ Is(n, "clear", "reads flag")
  /\ IF StillTripped
       THEN Becomes(n, [op |-> "clear", at |-> "clears", by |-> request[n].by, saw |-> Len(trail)])
       ELSE GoesTo(n, "done")
  /\ UNCHANGED cohortVars

WriteClear(n) ==
  /\ Is(n, "clear", "clears")
  /\ Writes("CLEARED", request[n].saw, request[n].by)
  /\ GoesTo(n, "done")
  /\ UNCHANGED <<breach, sweep>>

ClearSteps(n) == CheckApprovers(n) \/ ReadFlag(n) \/ WriteClear(n)
============================================================================
