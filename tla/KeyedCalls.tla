----------------------------- MODULE KeyedCalls -----------------------------
(***************************************************************************)
(* Calls with an Idempotency-Key: the middleware that answers a key it has *)
(* an answer for (idempotency.ts), which app.ts puts before everything the *)
(* routes do, authentication and the step-up code included; and the        *)
(* phone's interceptors, which make a refused call once more, under the    *)
(* same key, with a fresh token or a code (mobileGateway.client.ts).       *)
(*                                                                         *)
(* What a handler does is the other modules'; here it runs or fails.  An   *)
(* answer is kept for a day, longer than a behaviour is.                   *)
(***************************************************************************)
EXTENDS EmployeeWallet

CONSTANTS
  Keys,     \* the values of the header, each sent to one route
  Guarded,  \* those sent to a route that asks for a step-up code
  MaxKeyed  \* bound: the calls with a key, each resent at most twice

VARIABLES
  kept,     \* Redis idem:<path>:<key>, the answer's status
  onTheWay, \* the stores of answers that nobody awaits
  ran,      \* history: the calls whose handler has run
  unheard   \* history: calls answered with the refusal they had been mended for

Statuses == {"401", "403", "error", "done"}

keyedVars == <<kept, onTheWay, ran, unheard>>

InitKeyed ==
  /\ kept = [k \in Keys |-> "none"]
  /\ onTheWay = {}
  /\ ran = {}
  /\ unheard = {}

(* The token is good or has expired. *)
KeyedCall(key, good) ==
  /\ \A later \in Requests : later >= MaxKeyed => request[later] = NotYet
  /\ Arrives([op |-> "keyed", at |-> "looks up", key |-> key, good |-> good,
              refreshed |-> FALSE, stepped |-> FALSE, alone |-> FALSE])
  /\ UNCHANGED <<walletVars, keyedVars>>

KeyedTo(n, at) == GoesTo(n, at) /\ UNCHANGED <<walletVars, keyedVars>>

(***************************************************************************)
(* The phone: a 401 is mended once by a refresh, a 403 once by a code, and *)
(* the call is made again as it was.                                       *)
(***************************************************************************)
Resends(n, r) == Becomes(n, [r EXCEPT !.at = "looks up", !.alone = FALSE])

Hears(n, status) ==
  LET r == request[n] IN
  \/ status = "401" /\ ~r.refreshed /\ Resends(n, [r EXCEPT !.refreshed = TRUE, !.good = TRUE])
  \/ status = "403" /\ ~r.stepped /\ Resends(n, [r EXCEPT !.stepped = TRUE])
  \/ GoesTo(n, IF status = "done" THEN "done" ELSE "refused")

(***************************************************************************)
(* idempotency(req, res, next)                                             *)
(***************************************************************************)

(* The call has been given what an answer of this status asks for. *)
Mended(r, status) == (status = "401" /\ r.refreshed) \/ (status = "403" /\ r.stepped)

LookUpKey(n) ==
  LET r == request[n] IN
  /\ Is(n, "keyed", "looks up")
  /\ kept[r.key] = "none"
  /\ Becomes(n, [r EXCEPT !.at = "authenticates", !.alone = ~\E w \in onTheWay : w.key = r.key])
  /\ UNCHANGED <<walletVars, keyedVars>>

Replay(n) ==
  LET found == kept[request[n].key] IN
  /\ Is(n, "keyed", "looks up")
  /\ found # "none"
  /\ Hears(n, found)
  /\ unheard' = IF Mended(request[n], found) THEN unheard \cup {n} ELSE unheard
  /\ UNCHANGED <<walletVars, kept, onTheWay, ran>>

(* Redis cannot be read: the call goes on. *)
KeyIsNotRead(n) ==
  /\ Is(n, "keyed", "looks up")
  /\ KeyedTo(n, "authenticates")

(* Whatever the answer is, res.json stores it. *)
Stores(n, status) ==
  /\ onTheWay' = onTheWay \cup {[key |-> request[n].key, by |-> n, status |-> status]}
  /\ UNCHANGED <<walletVars, kept, unheard>>

StoreAnswer(w) ==
  /\ w \in onTheWay
  /\ onTheWay' = onTheWay \ {w}
  /\ kept' = [kept EXCEPT ![w.key] = w.status]
  /\ UNCHANGED <<sharedVars, ran, unheard>>

AnswerIsNotStored ==
  /\ \E w \in onTheWay : onTheWay' = onTheWay \ {w}
  /\ UNCHANGED <<sharedVars, kept, ran, unheard>>

(***************************************************************************)
(* authenticate, requireStepUpOtp and the handler                          *)
(***************************************************************************)
Refuses(n, status) == Hears(n, status) /\ Stores(n, status) /\ UNCHANGED ran

Authenticate(n) ==
  LET r == request[n] IN
  /\ Is(n, "keyed", "authenticates")
  /\ IF r.good THEN KeyedTo(n, IF r.key \in Guarded THEN "checks code" ELSE "runs")
               ELSE Refuses(n, "401")

(* A code that was entered may be wrong or too late. *)
CheckStepCode(n) ==
  /\ Is(n, "keyed", "checks code")
  /\ Refuses(n, "403") \/ (request[n].stepped /\ KeyedTo(n, "runs"))

(* The handler has done its work and is about to answer. *)
Run(n) ==
  /\ Is(n, "keyed", "runs")
  /\ ran' = ran \cup {[key |-> request[n].key, by |-> n, alone |-> request[n].alone]}
  /\ GoesTo(n, "has run")
  /\ UNCHANGED <<walletVars, kept, onTheWay, unheard>>

RunFails(n) ==
  /\ Is(n, "keyed", "runs")
  /\ Refuses(n, "error")

AnswerRun(n) ==
  /\ Is(n, "keyed", "has run")
  /\ Hears(n, "done") /\ Stores(n, "done") /\ UNCHANGED ran

KeyedSteps(n) ==
  \/ LookUpKey(n) \/ Replay(n) \/ Authenticate(n) \/ CheckStepCode(n)
  \/ Run(n) \/ RunFails(n) \/ AnswerRun(n)

KeyedArrives == \E key \in Keys, good \in BOOLEAN : KeyedCall(key, good)
=============================================================================
