--------------------------- MODULE MobileSession ---------------------------
(***************************************************************************)
(* The mobile application's session: the keychain's three items, which are *)
(* written and cleared one by one and in any order, the person on screen,  *)
(* and the calls whose interceptors refresh an access token and ask for a  *)
(* step-up code (tokenManager.ts, client.ts, mobileGateway.client.ts,      *)
(* useAuth.tsx, useStepUpStore.ts).  A token is known by its person.       *)
(*                                                                         *)
(* The server is external: it may find any access token expired, and a     *)
(* refresh token it once gave stays good, also after a sign-out.           *)
(***************************************************************************)
EXTENDS EmployeeWallet

CONSTANT SignedIn  \* the person signed in at first

VARIABLES
  keychain,   \* whose access token, refresh token and profile are stored
  shown,      \* useUserStore.user
  challenge,  \* the call whose step-up code the modal asks for, or 0
  acted       \* history: for whom a call was made, and as whom it was executed

phoneVars == <<keychain, shown, challenge, acted>>

Nobody == "nobody"
ASSUME SomebodyOrNobody == SignedIn \in Employees \cup {Nobody}

Items == {"access", "refresh", "user"}
PhoneOps == {"call", "sign in", "sign out"}

InitPhone ==
  /\ shown = SignedIn
  /\ keychain = [item \in Items |-> shown]
  /\ challenge = 0
  /\ acted = {}

Phone(op, at, person) ==
  [op |-> op, at |-> at, for |-> person, token |-> Nobody, todo |-> {},
   retried |-> FALSE, stepped |-> FALSE]

Starts(op, at, person) == Arrives(Phone(op, at, person)) /\ UNCHANGED <<walletVars, phoneVars>>

Call == shown # Nobody /\ Starts("call", "attaches", shown)

(* Neither the code nor the sign-out (any answer will do) needs a token. *)
SignOut == shown # Nobody /\ Starts("sign out", "sent", shown)
SignIn(person) == shown = Nobody /\ Starts("sign in", "sent", person)

OnPhone(n, at) == request[n].at = at /\ request[n].op \in PhoneOps

(* The request interceptor, on a retry too. *)
Attach(n) ==
  /\ OnPhone(n, "attaches")
  /\ Becomes(n, [request[n] EXCEPT !.at = "sent", !.token = keychain["access"]])
  /\ UNCHANGED <<walletVars, phoneVars>>

Clears(n, at) == Becomes(n, [request[n] EXCEPT !.at = at, !.todo = Items])

Answered(n) ==
  LET r == request[n] IN
  /\ OnPhone(n, "sent")
  /\ \/ /\ r.op = "call" /\ r.token # Nobody
        /\ acted' = acted \cup {[for |-> r.for, as |-> r.token]}
        /\ GoesTo(n, "done")
     \/ /\ r.op = "sign out"
        /\ Clears(n, "clears")
        /\ UNCHANGED acted
     \/ /\ r.op = "sign in"
        /\ Becomes(n, [r EXCEPT !.at = "stores", !.token = r.for, !.todo = Items])
        /\ UNCHANGED acted
  /\ UNCHANGED <<walletVars, keychain, shown, challenge>>

(* No answer, or an error that is not handled. *)
IsRejected(n) ==
  /\ OnPhone(n, "sent") /\ request[n].op # "sign out"
  /\ GoesTo(n, "refused")
  /\ UNCHANGED <<walletVars, phoneVars>>

(***************************************************************************)
(* 401: refresh, and try once more                                         *)
(***************************************************************************)
Unauthorized(n) ==
  /\ OnPhone(n, "sent") /\ request[n].op # "sign out"
  /\ ~request[n].retried
  /\ Becomes(n, [request[n] EXCEPT !.at = "reads refresh", !.retried = TRUE])
  /\ UNCHANGED <<walletVars, phoneVars>>

ReadRefresh(n) ==
  /\ OnPhone(n, "reads refresh")
  /\ IF keychain["refresh"] = Nobody THEN Clears(n, "forces out")
     ELSE Becomes(n, [request[n] EXCEPT !.at = "refreshes", !.token = keychain["refresh"]])
  /\ UNCHANGED <<walletVars, phoneVars>>

Refresh(n) ==
  /\ OnPhone(n, "refreshes")
  /\ \/ Becomes(n, [request[n] EXCEPT !.at = "keeps", !.todo = {"access", "refresh"}])
     \/ Clears(n, "forces out")
  /\ UNCHANGED <<walletVars, phoneVars>>

(***************************************************************************)
(* The keychain, item by item                                              *)
(***************************************************************************)
Puts(item, person) == keychain' = [keychain EXCEPT ![item] = person]
Left(n, item) == request[n].todo \ {item}
GoesOn(n, item) == Becomes(n, [request[n] EXCEPT !.todo = Left(n, item)])

Keep(n) ==
  /\ OnPhone(n, "keeps")
  /\ \E item \in request[n].todo :
       /\ Puts(item, request[n].token)
       /\ IF Left(n, item) # {} THEN GoesOn(n, item)
          ELSE Becomes(n, [request[n] EXCEPT !.todo = {},
                             !.at = IF request[n].op = "sign in" THEN "sent" ELSE "attaches"])
  /\ UNCHANGED <<walletVars, shown, challenge, acted>>

Store(n) ==
  /\ OnPhone(n, "stores")
  /\ \E item \in request[n].todo :
       /\ Puts(item, request[n].token)
       /\ IF Left(n, item) # {} THEN GoesOn(n, item) /\ UNCHANGED shown
          ELSE shown' = request[n].for /\ GoesTo(n, "done")
  /\ UNCHANGED <<walletVars, challenge, acted>>

(* Mutant: the refresh token is left where it is. *)
ClearsSome(item, person) == IF item = "refresh" THEN person ELSE Nobody
Cleared(item, person) == Nobody

Clear(n) ==
  /\ OnPhone(n, "clears") \/ OnPhone(n, "forces out")
  /\ \E item \in request[n].todo :
       /\ Puts(item, Cleared(item, keychain[item]))
       /\ IF Left(n, item) # {} THEN GoesOn(n, item) /\ UNCHANGED shown
          ELSE /\ shown' = Nobody
               /\ GoesTo(n, IF request[n].at = "clears" THEN "done" ELSE "refused")
  /\ UNCHANGED <<walletVars, challenge, acted>>

(***************************************************************************)
(* 403: ask for a code, and try once more.  There is one modal.            *)
(***************************************************************************)
NeedsCode(n) ==
  /\ OnPhone(n, "sent") /\ request[n].op = "call" /\ request[n].token # Nobody
  /\ ~request[n].stepped
  /\ challenge' = n
  /\ request' = [m \in Requests |->
       IF m = n THEN [request[n] EXCEPT !.at = "awaits code", !.stepped = TRUE]
       ELSE IF m = challenge THEN [op |-> "call", at |-> "refused"]
       ELSE request[m]]
  /\ UNCHANGED <<walletVars, keychain, shown, acted, met>>

EnterCode(n) ==
  /\ OnPhone(n, "awaits code") /\ challenge = n
  /\ challenge' = 0
  /\ GoesTo(n, "attaches")
  /\ UNCHANGED <<walletVars, keychain, shown, acted>>

(* cancel, or the watchdog *)
CancelCode(n) ==
  /\ OnPhone(n, "awaits code") /\ challenge = n
  /\ challenge' = 0
  /\ GoesTo(n, "refused")
  /\ UNCHANGED <<walletVars, keychain, shown, acted>>

(* The application is killed, and launched again. *)
AppIsKilled ==
  /\ \E n \in Busy : request[n].op \in PhoneOps
  /\ request' = [n \in Requests |->
       IF n \in Busy /\ request[n].op \in PhoneOps
         THEN [op |-> request[n].op, at |-> "died"] ELSE request[n]]
  /\ shown' = keychain["user"]
  /\ challenge' = 0
  /\ UNCHANGED <<walletVars, met, keychain, acted>>

PhoneStarts == Call \/ SignOut \/ \E person \in Employees : SignIn(person)

PhoneSteps(n) ==
  \/ Attach(n)
  \/ Answered(n)
  \/ IsRejected(n)
  \/ Unauthorized(n)
  \/ ReadRefresh(n)
  \/ Refresh(n)
  \/ Keep(n)
  \/ Store(n)
  \/ Clear(n)
  \/ NeedsCode(n)
  \/ EnterCode(n)
  \/ CancelCode(n)
============================================================================
