----------------------------- MODULE Identity -----------------------------
(***************************************************************************)
(* One person: the account behind a phone number, from the login code to   *)
(* the salary advance.  Registration and login (auth.service.ts), identity *)
(* documents (kyc.service.ts), the nightly rescreening (sanctions.service  *)
(* .ts) and the chain in front of an advance (device-binding.ts,           *)
(* step-up-otp.ts, compliance.guard.ts) all read and write the same row.   *)
(*                                                                         *)
(* Codes are numbered as they are sent; 0 is no code.  Amounts, scoring    *)
(* and the writes of reserveAdvance are PayrollRouting's.                  *)
(***************************************************************************)
EXTENDS Handlers

CONSTANTS
  MaxCodes,   \* bound: codes sent
  MaxLists,   \* bound: sanctions snapshots ingested
  Snapshots   \* bound: which names of the person may be on the lists together

(* The name typed in at registration, and the document's. *)
Names == {"given", "passport"}

ASSUME CodesAreNatural == MaxCodes \in Nat /\ MaxLists \in Nat
ASSUME SnapshotsAreNames == Snapshots \subseteq SUBSET Names

VARIABLES
  status,     \* Employee.status; "none" when the phone has no account
  fullName,   \* Employee.fullName
  listed,     \* the names that are on the latest sanctions snapshots
  ingested,   \* how many snapshots have come
  incidents,  \* the requests that have opened a SANCTIONS_HIT incident
  loginCode,  \* Redis otp:<phone>
  stepCode,   \* Redis step-up:<employee>:ADVANCE
  codes,      \* how many codes have been sent
  device,     \* the row of the phone's device fingerprint
  uses,       \* history: which request was let through by which code
  advances    \* history: the advances granted

accountVars == <<status, fullName>>
screenVars == <<listed, ingested, incidents>>
codeVars == <<loginCode, stepCode, codes, uses>>
personVars == <<accountVars, screenVars, codeVars, device, advances>>

InitIdentity ==
  /\ status \in {"none", "PENDING_KYC", "ACTIVE"}
  /\ fullName = "given"
  /\ listed = {}
  /\ ingested = 0
  /\ incidents = {}
  /\ loginCode = 0
  /\ stepCode = 0
  /\ codes = 0
  /\ device = "unknown"
  /\ uses = {}
  /\ advances = {}

PersonArrives(r) == Arrives(r) /\ UNCHANGED personVars

(* The request goes on, or ends, and writes nothing. *)
Moves(n, at) == GoesTo(n, at) /\ UNCHANGED personVars

(***************************************************************************)
(* Codes: requestEmployeeOTP and stepUpOtpService.request overwrite the    *)
(* code before; a code expires after five minutes.                         *)
(***************************************************************************)
SendLoginCode ==
  /\ codes < MaxCodes
  /\ codes' = codes + 1
  /\ loginCode' = codes + 1
  /\ UNCHANGED <<handlerVars, accountVars, screenVars, stepCode, device, uses, advances>>

SendStepCode ==
  /\ codes < MaxCodes
  /\ status = "ACTIVE"
  /\ codes' = codes + 1
  /\ stepCode' = codes + 1
  /\ UNCHANGED <<handlerVars, accountVars, screenVars, loginCode, device, uses, advances>>

CodeExpires ==
  /\ \/ loginCode # 0 /\ loginCode' = 0 /\ UNCHANGED stepCode
     \/ stepCode # 0 /\ stepCode' = 0 /\ UNCHANGED loginCode
  /\ UNCHANGED <<handlerVars, accountVars, screenVars, codes, device, uses, advances>>

(***************************************************************************)
(* verifyEmployeeOTP.  verifyOTP reads the code, compares, then deletes    *)
(* whatever code is there by then.                                         *)
(***************************************************************************)
Login(code, named) == PersonArrives([op |-> "login", at |-> "reads code", code |-> code, named |-> named])

ReadLoginCode(n) ==
  /\ Is(n, "login", "reads code")
  /\ Moves(n, IF loginCode = request[n].code THEN "drops code" ELSE "refused")

(* Mutant: the code stays until it expires. *)
Kept(code) == code
Dropped(code) == 0

DropLoginCode(n) ==
  /\ Is(n, "login", "drops code")
  /\ loginCode' = Dropped(loginCode)
  /\ GoesTo(n, "finds account")
  /\ UNCHANGED <<accountVars, screenVars, stepCode, codes, device, uses, advances>>

FindAccount(n) ==
  /\ Is(n, "login", "finds account")
  /\ Moves(n, CASE status = "BLOCKED" -> "refused"
                [] status = "none" /\ request[n].named -> "registers"
                [] status = "none" /\ ~request[n].named -> "stores code again"
                [] OTHER -> "signs in")

(* FULL_NAME_REQUIRED: the code is put back for the call that has the name. *)
StoreCodeAgain(n) ==
  /\ Is(n, "login", "stores code again")
  /\ loginCode' = request[n].code
  /\ GoesTo(n, "refused")
  /\ UNCHANGED <<accountVars, screenVars, stepCode, codes, device, uses, advances>>

SignIn(n) ==
  /\ Is(n, "login", "signs in")
  /\ uses' = uses \cup {[op |-> "login", code |-> request[n].code, by |-> n]}
  /\ GoesTo(n, "done")
  /\ UNCHANGED <<accountVars, screenVars, loginCode, stepCode, codes, device, advances>>

(* createEmployee: Employee.phone is unique. *)
Register(n) ==
  /\ Is(n, "login", "registers")
  /\ IF status = "none"
       THEN /\ status' = "PENDING_KYC"
            /\ GoesTo(n, "issues card")
       ELSE /\ GoesTo(n, "refused")
            /\ UNCHANGED status
  /\ UNCHANGED <<fullName, screenVars, codeVars, device, advances>>

(* The card's rows make the account ACTIVE, whatever it is by then; when   *)
(* NymCard fails the account stays as it is.                               *)
CardActivates(n) ==
  /\ Is(n, "login", "issues card")
  /\ status' = "ACTIVE"
  /\ GoesTo(n, "signs in")
  /\ UNCHANGED <<fullName, screenVars, codeVars, device, advances>>

CardFails(n) ==
  /\ Is(n, "login", "issues card")
  /\ Moves(n, "signs in")

LoginSteps(n) ==
  \/ ReadLoginCode(n) \/ DropLoginCode(n) \/ FindAccount(n) \/ StoreCodeAgain(n)
  \/ Register(n) \/ CardActivates(n) \/ CardFails(n) \/ SignIn(n)

(***************************************************************************)
(* submitKycDocument.  "verified" is a front side that passes extraction   *)
(* and validation; other documents are screened and stored all the same.   *)
(***************************************************************************)
SubmitDocument(verified) ==
  /\ status # "none"
  /\ PersonArrives([op |-> "kyc", at |-> "reads account", verified |-> verified])

ReadAccount(n) ==
  /\ Is(n, "kyc", "reads account")
  /\ Becomes(n, [op |-> "kyc", at |-> "screens", verified |-> request[n].verified, saw |-> status])
  /\ UNCHANGED personVars

(* The extractor throws: the document is REJECTED, nothing else changes. *)
ExtractorFails(n) ==
  /\ Is(n, "kyc", "screens")
  /\ Moves(n, "refused")

(* Mutant: any verified document promotes. *)
PromotesAnyone(verified, saw) == verified
Promotes(verified, saw) == verified /\ saw = "PENDING_KYC"

ScreenDocument(n) ==
  /\ Is(n, "kyc", "screens")
  /\ Becomes(n, [op |-> "kyc", at |-> "commits", hit |-> "passport" \in listed,
                 promotes |-> Promotes(request[n].verified, request[n].saw)])
  /\ UNCHANGED personVars

CommitDocument(n) ==
  LET r == request[n] IN
  /\ Is(n, "kyc", "commits")
  /\ \/ /\ r.hit
        /\ incidents' = incidents \cup {n}
        /\ status' = "BLOCKED"
        /\ UNCHANGED fullName
     \/ /\ ~r.hit /\ r.promotes
        /\ status' = "ACTIVE"
        /\ fullName' = "passport"
        /\ UNCHANGED incidents
     \/ /\ ~r.hit /\ ~r.promotes
        /\ UNCHANGED <<accountVars, incidents>>
  /\ GoesTo(n, "done")
  /\ UNCHANGED <<listed, ingested, codeVars, device, advances>>

KycSteps(n) == ReadAccount(n) \/ ExtractorFails(n) \/ ScreenDocument(n) \/ CommitDocument(n)

(***************************************************************************)
(* ingestSanctionsList and rescreenActiveEmployees                         *)
(***************************************************************************)
IngestList ==
  /\ ingested < MaxLists
  /\ ingested' = ingested + 1
  /\ \E names \in Snapshots : names # listed /\ listed' = names
  /\ UNCHANGED <<handlerVars, accountVars, incidents, codeVars, device, advances>>

Rescreen == PersonArrives([op |-> "rescreen", at |-> "lists accounts"])

ListAccounts(n) ==
  /\ Is(n, "rescreen", "lists accounts")
  /\ IF status = "ACTIVE"
       THEN Becomes(n, [op |-> "rescreen", at |-> "screens", name |-> fullName])
       ELSE GoesTo(n, "done")
  /\ UNCHANGED personVars

ScreenAccount(n) ==
  /\ Is(n, "rescreen", "screens")
  /\ Moves(n, IF request[n].name \in listed THEN "looks for incident" ELSE "done")

LookForIncident(n) ==
  /\ Is(n, "rescreen", "looks for incident")
  /\ Moves(n, IF incidents = {} THEN "opens incident" ELSE "done")

(* A hit is surfaced, the account is left as it is. *)
OpenIncident(n) ==
  /\ Is(n, "rescreen", "opens incident")
  /\ incidents' = incidents \cup {n}
  /\ GoesTo(n, "done")
  /\ UNCHANGED <<accountVars, listed, ingested, codeVars, device, advances>>

RescreenSteps(n) == ListAccounts(n) \/ ScreenAccount(n) \/ LookForIncident(n) \/ OpenIncident(n)

(***************************************************************************)
(* POST /mobile/wallet/advance/request: deviceBinding, requireStepUpOtp    *)
(* and, inside reserveAdvance's transaction, enforceComplianceForAdvance.  *)
(* "known" remembers whether an incident was known when the call came.     *)
(***************************************************************************)
Advance(code) ==
  /\ status # "none"
  /\ PersonArrives([op |-> "advance", at |-> "finds device", code |-> code, known |-> incidents # {}])

FindDevice(n) ==
  /\ Is(n, "advance", "finds device")
  /\ Moves(n, CASE device = "revoked" -> "refused"
                [] device = "unknown" -> "binds device"
                [] OTHER -> "reads code")

(* One row for an employee and a fingerprint. *)
BindDevice(n) ==
  /\ Is(n, "advance", "binds device")
  /\ IF device = "unknown"
       THEN device' = "bound" /\ GoesTo(n, "reads code")
       ELSE GoesTo(n, "refused") /\ UNCHANGED device
  /\ UNCHANGED <<accountVars, screenVars, codeVars, advances>>

RevokeDevice ==
  /\ device = "bound"
  /\ device' = "revoked"
  /\ UNCHANGED <<handlerVars, accountVars, screenVars, codeVars, advances>>

ReadStepCode(n) ==
  /\ Is(n, "advance", "reads code")
  /\ Moves(n, IF stepCode = request[n].code THEN "drops code" ELSE "refused")

DropStepCode(n) ==
  /\ Is(n, "advance", "drops code")
  /\ stepCode' = 0
  /\ uses' = uses \cup {[op |-> "advance", code |-> request[n].code, by |-> n]}
  /\ GoesTo(n, "reads status")
  /\ UNCHANGED <<accountVars, screenVars, loginCode, codes, device, advances>>

ReadStatus(n) ==
  /\ Is(n, "advance", "reads status")
  /\ Moves(n, IF status = "ACTIVE" THEN "reads incidents" ELSE "refused")

(* Mutant: the status alone decides. *)
AccountIsBlocked == status = "BLOCKED"
HasIncident == incidents # {}

ReadIncidents(n) ==
  /\ Is(n, "advance", "reads incidents")
  /\ Moves(n, IF HasIncident THEN "refused" ELSE "reserves")

Reserve(n) ==
  /\ Is(n, "advance", "reserves")
  /\ advances' = advances \cup {[by |-> n, known |-> request[n].known]}
  /\ GoesTo(n, "done")
  /\ UNCHANGED <<accountVars, screenVars, codeVars, device>>

AdvanceSteps(n) ==
  \/ FindDevice(n) \/ BindDevice(n) \/ ReadStepCode(n) \/ DropStepCode(n)
  \/ ReadStatus(n) \/ ReadIncidents(n) \/ Reserve(n)
============================================================================
