----------------------------- MODULE SifUpload -----------------------------
(***************************************************************************)
(* The upload of a company's salary file (payroll-ingestion): the file is  *)
(* parsed (wps-parser.service.ts), screened against the cycles on record   *)
(* (sif-anomaly.service.ts) and written as a payroll cycle with an intent  *)
(* for every worker who can be paid (payroll-ingestion.service.ts).        *)
(*                                                                         *)
(* A file is the sequence of its records.  A record with a malformed field *)
(* is of type "malformed".  Amounts are in fils.                           *)
(***************************************************************************)
EXTENDS Handlers, FiniteSetsExt, Sequences

CONSTANTS
  Files,      \* the files that may be uploaded
  HolderOf,   \* the employee whose identity document bears a national id
  Payable,    \* the employees with a wage vehicle and a licensed entity
  Inactive,   \* the national ids whose labour card MOHRE says is not active
  KnownFirst, \* bound: the sets of national ids that may be on file at first
  Earlier     \* bound: the files that may have been ingested before, in order

ASSUME HolderOfIsFunction == HolderOf = [id \in DOMAIN HolderOf |-> HolderOf[id]]

VARIABLES
  cycles,     \* the rows of PayrollCycle with their intents, as committed
  identified  \* the national ids on VERIFIED documents

sifVars == <<cycles, identified>>

(***************************************************************************)
(* parseSif                                                                *)
(***************************************************************************)
Fil == 1  \* TRAILER_TOLERANCE_AED and SRR_INTERNAL_TOLERANCE_AED

Distance(a, b) == IF a > b THEN a - b ELSE b - a

Places(file, type) == {i \in DOMAIN file : file[i].type = type}
SalaryRows(file) == {file[i] : i \in Places(file, "SRR")}

Pay(row) == row.total
TotalPay(rows) == SumFunction([row \in rows |-> Pay(row)])

(* Mutant: the trailer's total is not compared. *)
CountHolds(rows, trailer) == trailer.count = Cardinality(rows)
TrailerHolds(rows, trailer) ==
  /\ trailer.count = Cardinality(rows)
  /\ Distance(TotalPay(rows), trailer.total) <= Fil

(* One EDR, the rows after it, one TRR after the rows, which counts and    *)
(* adds them up; and no national id twice.                                 *)
Accepts(file) ==
  \E e, t \in DOMAIN file :
    LET rows == Places(file, "SRR") IN
    /\ Places(file, "EDR") = {e} /\ Places(file, "TRR") = {t} /\ Places(file, "malformed") = {}
    /\ \A i \in rows : e < i /\ i < t
    /\ \A i \in rows : Distance(file[i].fixed + file[i].variable, file[i].total) <= Fil
    /\ \A i, j \in rows : file[i].id = file[j].id => i = j
    /\ TrailerHolds(SalaryRows(file), file[t])

MonthOf(file) == (CHOOSE row \in {file[i] : i \in Places(file, "EDR")} : TRUE).month
TrailerOf(file) == CHOOSE row \in {file[i] : i \in Places(file, "TRR")} : TRUE

(***************************************************************************)
(* runSifAnomalyPipeline                                                   *)
(***************************************************************************)

(* The value at place k, from 0, of a row's values in ascending order. *)
AtPlace(value, k) ==
  CHOOSE v \in {value[row] : row \in DOMAIN value} :
    /\ Cardinality({row \in DOMAIN value : value[row] < v}) <= k
    /\ k < Cardinality({row \in DOMAIN value : value[row] <= v})

Median(value) == AtPlace(value, Cardinality(DOMAIN value) \div 2)

(* Rows with 0.1 - 0.0857 * (0.6745 * deviation / mad) < -0.2, where a     *)
(* median deviation of nothing counts as one dirham.                       *)
Outliers(rows) ==
  LET pay == [row \in rows |-> Pay(row)]
      deviation == [row \in rows |-> Distance(pay[row], Median(pay))]
      mad == IF Median(deviation) = 0 THEN 100 ELSE Median(deviation) IN
  IF Cardinality(rows) < 3 THEN {}
  ELSE {row \in rows : 1156093 * deviation[row] > 6000000 * mad}

(* No caller passes the IBANs that are known: none is. *)
Ghosts(rows) ==
  LET top == AtPlace([row \in rows |-> Pay(row)], (95 * Cardinality(rows)) \div 100) IN
  {row \in rows : row.id \in Inactive /\ Pay(row) >= top}

Newer(cycle, other) == MonthOf(cycle.file) > MonthOf(other.file)
(* loadEmployerPayrollHistory: the twelve newest periods. *)
History(on) == {c \in on : Cardinality({d \in on : Newer(d, c)}) < 12}
LastOf(history) == CHOOSE c \in history : \A d \in history : ~Newer(d, c)

CycleTotal(c) == SumFunction([intent \in c.intents |-> intent.gross])

(* |total - mean| > mean + 2.5 sigma (n * sigma = the root of spread), or  *)
(* a headcount more than 40 % off that of the last cycle's intents.        *)
Anomalous(rows, history) ==
  LET n == Cardinality(history)
      sum == MapThenSumSet(CycleTotal, history)
      spread == n * MapThenSumSet(LAMBDA c : CycleTotal(c) * CycleTotal(c), history) - sum * sum
      excess == Distance(n * TotalPay(rows), sum) - sum
      heads == Cardinality(LastOf(history).intents) IN
  /\ n >= 2
  /\ \/ spread > 0 /\ excess > 0 /\ 4 * excess * excess > 25 * spread
     \/ heads > 0 /\ 5 * Distance(Cardinality(rows), heads) > 2 * heads

Blocked(rows, history) ==
  Ghosts(rows) # {} \/ (Anomalous(rows, history) /\ Outliers(rows) # {})

(***************************************************************************)
(* ingestSifFile, from await to await                                      *)
(***************************************************************************)
SifStep(n, at) == request[n].at = at /\ request[n].op = "upload"
OnRecord == {cycles[i] : i \in DOMAIN cycles}

Upload(file) ==
  /\ Arrives([op |-> "upload", at |-> "parses", file |-> file, known |-> identified])
  /\ UNCHANGED sifVars

(* The fingerprint is that of the whole file. *)
LookUpFile(n) ==
  LET r == request[n] IN
  /\ SifStep(n, "parses")
  /\ GoesTo(n, IF Accepts(r.file) /\ r.file \notin {c.file : c \in OnRecord}
               THEN "reads history" ELSE "refused")
  /\ UNCHANGED sifVars

ReadHistory(n) ==
  LET r == request[n] IN
  /\ SifStep(n, "reads history")
  /\ Becomes(n, [op |-> "upload", at |-> "screens", file |-> r.file, known |-> r.known,
                 history |-> History(OnRecord)])
  /\ UNCHANGED sifVars

(* MOHRE may not answer in time, which fails the upload.  What passes the  *)
(* screen, with a month that is one, has its period looked up.             *)
Screen(n) ==
  LET r == request[n]
      month == MonthOf(r.file) IN
  /\ SifStep(n, "screens")
  /\ \/ GoesTo(n, "refused")
     \/ /\ ~Blocked(SalaryRows(r.file), r.history)
        /\ month \in 1..12 /\ month \notin {MonthOf(c.file) : c \in OnRecord}
        /\ GoesTo(n, "matches")
  /\ UNCHANGED sifVars

Matched(file, ids) == {row \in SalaryRows(file) : row.id \in ids /\ HolderOf[row.id] \in Payable}
SharesHolder(rows) == \E a, b \in rows : a # b /\ HolderOf[a.id] = HolderOf[b.id]

CycleOf(n, file, known, matched) ==
  [by |-> n, file |-> file, known |-> known,
   intents |-> {[employee |-> HolderOf[row.id], gross |-> Pay(row)] : row \in matched}]

MatchWorkers(n) ==
  LET r == request[n] IN
  /\ SifStep(n, "matches")
  /\ Becomes(n, [op |-> "upload", at |-> "writes", file |-> r.file, known |-> r.known,
                 matched |-> Matched(r.file, identified)])
  /\ UNCHANGED sifVars

(* One transaction.  Fingerprint, period and, in a cycle, employee are     *)
(* unique: what is on record already, or an employee with two national ids *)
(* in the file, undoes it.                                                 *)
WriteCycle(n) ==
  LET r == request[n]
      clash == \/ \E c \in OnRecord : c.file = r.file \/ MonthOf(c.file) = MonthOf(r.file)
               \/ SharesHolder(r.matched) IN
  /\ SifStep(n, "writes")
  /\ IF clash
       THEN GoesTo(n, "refused") /\ UNCHANGED cycles
       ELSE /\ GoesTo(n, "done")
            /\ cycles' = Append(cycles, CycleOf(n, r.file, r.known, r.matched))
  /\ UNCHANGED identified

(* kyc.service.ts verifies a document meanwhile; nothing takes that back. *)
VerifyWorker ==
  /\ \E id \in DOMAIN HolderOf \ identified : identified' = identified \cup {id}
  /\ UNCHANGED <<handlerVars, cycles>>

(* The cycles the files became, with an intent for whoever could be paid.  *)
Ingested(files, ids) ==
  [i \in DOMAIN files |-> CycleOf(0, files[i], ids, Matched(files[i], ids))]

(* The schema of a row refuses a negative amount. *)
ASSUME FilesAreFinite ==
  \A file \in Files :
    /\ IsFiniteSet(DOMAIN file)
    /\ \A i \in Places(file, "SRR") \cup Places(file, "TRR") : file[i].total \in Nat

(* What is on record was accepted and screened, one file after the other.  *)
ASSUME EarlierWereIngested ==
  \A files \in Earlier, ids \in KnownFirst :
    LET on == Ingested(files, ids) IN
    /\ files \in Seq(Files)
    /\ \A i \in DOMAIN files :
         /\ Accepts(files[i]) /\ ~SharesHolder(Matched(files[i], ids))
         /\ ~Blocked(SalaryRows(files[i]), History({on[j] : j \in 1..(i - 1)}))

InitSifUpload ==
  /\ identified \in KnownFirst
  /\ \E files \in Earlier : cycles = Ingested(files, identified)

UploadSteps(n) ==
  \/ LookUpFile(n) \/ ReadHistory(n) \/ Screen(n) \/ MatchWorkers(n) \/ WriteCycle(n)
============================================================================
