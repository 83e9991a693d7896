---------------------------- MODULE DeskSessions ----------------------------
(***************************************************************************)
(* Sign-in to the dashboard for one phone number (dashboard/src/app/api/   *)
(* auth): codes, registration of a person or of a company, and refresh     *)
(* tokens.  Codes, tokens and the rate limit are maps in the memory of the *)
(* process (dashboard/src/lib/auth.ts): what a route does between two      *)
(* awaits is one step, and a restart loses them.                           *)
(*                                                                         *)
(* Codes are numbered as they are sent; 0 is no code, and a wrong guess.   *)
(* A token is named by the request that signed in and the request that     *)
(* issued it.  Nothing in the dashboard deletes or deactivates a user.     *)
(***************************************************************************)
EXTENDS Handlers

VARIABLES
  person,   \* User.role of the phone's user, "none" before there is one
  purse,    \* the user has a wallet
  otps,     \* otpStore: the code of each purpose and how often it was entered
  sent,     \* how many codes have been sent
  asked,    \* rateLimitStore: codes asked for in this hour
  live,     \* refreshStore
  given,    \* history: the refresh tokens that were answered with
  spent,    \* history: the tokens a refresh or a logout has removed
  ended,    \* history: the logouts, by login and request; whether the token was live
  entered   \* history: which request was let through by which code

userVars == <<person, purse>>
otpVars == <<otps, sent, asked, entered>>
tokenVars == <<live, given, spent, ended>>
sessionVars == <<userVars, otpVars, tokenVars>>

Purposes == {"LOGIN", "REGISTER", "RESET"}
NoOtp == [code |-> 0, tries |-> 0]
OtpAttempts == 3   \* OTP_MAX_ATTEMPTS
AskedPerHour == 3  \* RATE_LIMIT_MAX

Token(login, by) == [login |-> login, by |-> by]

(* The phone may have a user, signed in by an earlier request, and a code  *)
(* that was entered wrong before; it has asked for all codes of this hour. *)
InitSessions ==
  /\ person \in {"none", "EMPLOYEE"}
  /\ purse = (person # "none")
  /\ otps \in [Purposes -> {NoOtp, [code |-> 1, tries |-> 2]}]
  /\ \A p, q \in Purposes : otps[p] # NoOtp /\ otps[q] # NoOtp => p = q
  /\ otps[IF person = "none" THEN "LOGIN" ELSE "REGISTER"] = NoOtp
  /\ sent = 1
  /\ asked = AskedPerHour
  /\ live = IF person = "none" THEN {} ELSE {Token(0, 0)}
  /\ given = live
  /\ spent = {}
  /\ ended = {}
  /\ entered = {}

SessionStep(n, op, at) == request[n].at = at /\ request[n].op = op
SessionArrives(r) == Arrives(r) /\ UNCHANGED sessionVars

(***************************************************************************)
(* POST /api/auth/request-otp                                              *)
(***************************************************************************)
Ask(purpose) == SessionArrives([op |-> "ask", at |-> "is counted", purpose |-> purpose])

StoresOtp(purpose) ==
  /\ sent' = sent + 1
  /\ otps' = [otps EXCEPT ![purpose] = [code |-> sent + 1, tries |-> 0]]

(* checkRateLimit; a code for a reset is stored without a lookup.          *)
CountAsk(n) ==
  LET purpose == request[n].purpose IN
  /\ SessionStep(n, "ask", "is counted")
  /\ IF asked >= AskedPerHour
       THEN GoesTo(n, "refused") /\ UNCHANGED <<asked, otps, sent>>
       ELSE /\ asked' = asked + 1
            /\ IF purpose = "RESET"
                 THEN GoesTo(n, "done") /\ StoresOtp(purpose)
                 ELSE GoesTo(n, "looks up phone") /\ UNCHANGED <<otps, sent>>
  /\ UNCHANGED <<userVars, tokenVars, entered>>

LookUpPhone(n) ==
  LET purpose == request[n].purpose IN
  /\ SessionStep(n, "ask", "looks up phone")
  /\ IF (purpose = "LOGIN") = (person # "none")
       THEN GoesTo(n, "done") /\ StoresOtp(purpose)
       ELSE GoesTo(n, "refused") /\ UNCHANGED <<otps, sent>>
  /\ UNCHANGED <<userVars, tokenVars, asked, entered>>

HourPasses ==
  /\ asked > 0
  /\ asked' = 0
  /\ UNCHANGED <<handlerVars, userVars, tokenVars, otps, sent, entered>>

OtpExpires ==
  /\ \E p \in Purposes : otps[p] # NoOtp /\ otps' = [otps EXCEPT ![p] = NoOtp]
  /\ UNCHANGED <<handlerVars, userVars, tokenVars, sent, asked, entered>>

(***************************************************************************)
(* POST /api/auth/verify-otp, and POST /api/auth/register-company ("firm") *)
(***************************************************************************)
Enter(purpose, code, firm) ==
  SessionArrives([op |-> "enter", at |-> "checks code", purpose |-> purpose, code |-> code, firm |-> firm])

NextOf(r) ==
  CASE r.firm -> "looks up company"
    [] r.purpose = "REGISTER" /\ ~r.firm -> "creates user"
    [] OTHER -> "finds user"

(* verifyOTP *)
CheckOtp(n) ==
  LET r == request[n]
      otp == otps[r.purpose]
      tries == otp.tries + 1 IN
  /\ SessionStep(n, "enter", "checks code")
  /\ CASE otp = NoOtp ->
            GoesTo(n, "refused") /\ UNCHANGED <<otps, entered>>
       [] otp # NoOtp /\ tries > OtpAttempts ->
            GoesTo(n, "refused") /\ otps' = [otps EXCEPT ![r.purpose] = NoOtp] /\ UNCHANGED entered
       [] otp # NoOtp /\ tries <= OtpAttempts /\ otp.code # r.code ->
            GoesTo(n, "refused") /\ otps' = [otps EXCEPT ![r.purpose].tries = tries] /\ UNCHANGED entered
       [] OTHER ->
            /\ GoesTo(n, NextOf(r))
            /\ otps' = [otps EXCEPT ![r.purpose] = NoOtp]
            /\ entered' = entered \cup {[by |-> n, code |-> r.code]}
  /\ UNCHANGED <<userVars, tokenVars, sent, asked>>

FindUser(n) ==
  /\ SessionStep(n, "enter", "finds user")
  /\ GoesTo(n, IF person = "none" THEN "refused" ELSE "issues token")
  /\ UNCHANGED sessionVars

(* The user is created first and the wallet after, not in a transaction.   *)
CreateUser(n) ==
  /\ SessionStep(n, "enter", "creates user")
  /\ IF person = "none"
       THEN person' = "EMPLOYEE" /\ GoesTo(n, "creates wallet")
       ELSE UNCHANGED person /\ GoesTo(n, "refused")
  /\ UNCHANGED <<purse, otpVars, tokenVars>>

CreateWallet(n) ==
  /\ SessionStep(n, "enter", "creates wallet")
  /\ purse' = TRUE
  /\ GoesTo(n, "issues token")
  /\ UNCHANGED <<person, otpVars, tokenVars>>

(* The fields are checked after the code has been spent; the email or the  *)
(* licence may be taken.                                                   *)
LookUpCompany(n) ==
  /\ SessionStep(n, "enter", "looks up company")
  /\ \/ GoesTo(n, "refused")
     \/ person = "none" /\ GoesTo(n, "creates company")
  /\ UNCHANGED sessionVars

CreateCompany(n) ==
  /\ SessionStep(n, "enter", "creates company")
  /\ IF person = "none"
       THEN person' = "COMPANY" /\ purse' = TRUE /\ GoesTo(n, "issues token")
       ELSE UNCHANGED userVars /\ GoesTo(n, "refused")
  /\ UNCHANGED <<otpVars, tokenVars>>

IssueToken(n) ==
  /\ SessionStep(n, "enter", "issues token")
  /\ live' = live \cup {Token(n, n)}
  /\ given' = given \cup {Token(n, n)}
  /\ GoesTo(n, "done")
  /\ UNCHANGED <<userVars, otpVars, spent, ended>>

(***************************************************************************)
(* POST /api/auth/refresh and POST /api/auth/logout                        *)
(***************************************************************************)
Refresh(token) == SessionArrives([op |-> "refresh", at |-> "checks token", token |-> token])

CheckToken(n) ==
  /\ SessionStep(n, "refresh", "checks token")
  /\ GoesTo(n, IF request[n].token \in live THEN "rotates" ELSE "refused")
  /\ UNCHANGED sessionVars

(* Mutant: the old token stays valid. *)
RotatedKeepingOld(old, new) == live \cup (IF old \in live THEN {new} ELSE {})
(* rotateRefreshToken: the new token is stored only where the old one was. *)
Rotated(old, new) == IF old \in live THEN (live \ {old}) \cup {new} ELSE live

(* The user has been read and both tokens made since the check; the answer *)
(* carries the new token in any case.                                      *)
Rotate(n) ==
  LET old == request[n].token
      new == Token(old.login, n) IN
  /\ SessionStep(n, "refresh", "rotates")
  /\ live' = Rotated(old, new)
  /\ given' = given \cup {new}
  /\ spent' = spent \cup ({old} \cap live)
  /\ GoesTo(n, "done")
  /\ UNCHANGED <<userVars, otpVars, ended>>

Logout(token) ==
  SessionArrives([op |-> "logout", at |-> "is audited", token |-> token, fresh |-> token \in live])

(* The audit row is written, and then the token removed. *)
RemoveToken(n) ==
  LET r == request[n] IN
  /\ SessionStep(n, "logout", "is audited")
  /\ live' = live \ {r.token}
  /\ spent' = spent \cup ({r.token} \cap live)
  /\ ended' = ended \cup {[login |-> r.token.login, by |-> n, fresh |-> r.fresh]}
  /\ GoesTo(n, "done")
  /\ UNCHANGED <<userVars, otpVars, given>>

SessionSteps(n) ==
  \/ CountAsk(n) \/ LookUpPhone(n) \/ CheckOtp(n) \/ FindUser(n) \/ CreateUser(n) \/ CreateWallet(n)
  \/ LookUpCompany(n) \/ CreateCompany(n) \/ IssueToken(n)
  \/ CheckToken(n) \/ Rotate(n) \/ RemoveToken(n)

(* The database refuses the wallet, or the request dies before it. *)
WalletIsNotCreated(n) ==
  /\ SessionStep(n, "enter", "creates wallet")
  /\ GoesTo(n, "died")
  /\ UNCHANGED sessionVars

(* The process restarts. *)
Restart ==
  /\ request' = [n \in Requests |->
       IF n \in Busy THEN [op |-> request[n].op, at |-> "died"] ELSE request[n]]
  /\ otps' = [p \in Purposes |-> NoOtp]
  /\ live' = {}
  /\ asked' = 0
  /\ UNCHANGED <<met, userVars, sent, entered, given, spent, ended>>
============================================================================
