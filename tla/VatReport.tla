------------------------------ MODULE VatReport ------------------------------
(***************************************************************************)
(* The VAT reports of one country: internal/service/vat_reports.go with    *)
(* the annual turnovers of turnovers.go they are decided by, their         *)
(* repositories and the sums of the order view they are made of.           *)
(*                                                                         *)
(* A day is a number, a month has DaysInMonth days and the first day of    *)
(* the year is 1. Every payment has a gross amount of 2 and a tax of 1, in *)
(* the local currency of the country. The task runs as the README asks,    *)
(* every day, and any step of it may fail and end it. Payments are closed  *)
(* and paid back while it runs and after it, until midnight; that it ends  *)
(* within its day is the one thing assumed.                                *)
(***************************************************************************)
EXTENDS Integers, FiniteSets, FiniteSetsExt

CONSTANTS
    Companies,     \* operating companies
    Payments,      \* ids of orders
    VatReports,    \* ids of reports
    NoRecord,        \* no document
    Countries,     \* how the country may be configured
    DaysInMonth,
    PastDays,      \* how many days ago a run may be asked for
    Overlap,       \* whether a status may be changed while the task updates statuses
    MaxDay,        \* bound on the days
    MaxVatFailures \* bound on failed calls

CountryConfigs ==
    [period : 1 .. 3, policy : {"on-day", "last-day", "avg-month"}, deadline : Nat,
     yearThreshold : Nat, worldThreshold : Nat]

ASSUME VatAssumption ==
    /\ Countries \subseteq CountryConfigs
    /\ IsFiniteSet(Payments)
    /\ DaysInMonth \in Nat \ {0} /\ PastDays \subseteq Nat /\ Overlap \in BOOLEAN
    /\ MaxDay \in Nat \ {0} /\ MaxVatFailures \in Nat

VARIABLES
    country,        \* the country's configuration
    day,            \* today
    payments,       \* payment id -> the day it was closed and its company, or NoRecord
    paybacks,       \* payment id -> the day it was paid back and IsVatDeduction, or NoRecord;
                    \* `late` is a history: that day's task had summed the company by then
    bankFees,       \* payment id -> LocalAmount of its central_bank_tax_fee entry
    turnovers,      \* company -> annual turnover in MongoDB, or NoRecord
    turnoverCache,  \* company -> annual turnover in Redis, or NoRecord
    vatReports,     \* report id -> document or NoRecord
    task,           \* the vat_reports task
    reported,       \* history: the day the task last ran through
    vatFailures

vatVars == <<country, day, payments, paybacks, bankFees, turnovers, turnoverCache,
             vatReports, task, reported, vatFailures>>

VatStatuses == {"threshold", "need_to_pay", "paid", "overdue", "expired", "canceled"}

VatReportDoc ==
    [company : Companies, from : Int, to : Int, status : VatStatuses, vat : Int,
     deduction : Int, turnover : Int, count : Nat]

VatTypeOK ==
    /\ country \in Countries
    /\ day \in 1 .. MaxDay
    /\ payments \in
            [Payments -> [day : Nat, company : Companies, late : BOOLEAN] \cup {NoRecord}]
    /\ paybacks \in
            [Payments -> [day : Nat, deduction : BOOLEAN, late : BOOLEAN] \cup {NoRecord}]
    /\ bankFees \in [Payments -> Int]
    /\ turnovers \in [Companies -> Nat \cup {NoRecord}]
    /\ turnoverCache \in [Companies -> Nat \cup {NoRecord}]
    /\ vatReports \in [VatReports -> VatReportDoc \cup {NoRecord}]
    /\ task \in [pc : {"idle", "turnover", "report", "status", "change"}, date : Int,
                 todo : SUBSET Companies, list : SUBSET (VatReports \X VatReportDoc)]
    /\ reported \in 0 .. MaxDay
    /\ vatFailures \in 0 .. MaxVatFailures

NoTask == [pc |-> "idle", date |-> 0, todo |-> {}, list |-> {}]

-----------------------------------------------------------------------------
(* Periods.                                                                *)

Month(d) == ((d - 1) \div DaysInMonth) + 1
FirstDay(m) == (m - 1) * DaysInMonth + 1
LastDay(m) == m * DaysInMonth

\* getVatReportTime: the period of months the day is in.
GetVatReportTime(months, d) ==
    LET m == Month(d)
        q == (m - 1) \div 3
    IN  CASE months = 1 -> [from |-> FirstDay(m), to |-> LastDay(m)]
          [] months = 2 -> IF m % 2 = 0 THEN [from |-> FirstDay(m - 1), to |-> LastDay(m)]
                                        ELSE [from |-> FirstDay(m), to |-> LastDay(m + 1)]
          [] months = 3 -> [from |-> FirstDay(3 * q + 1), to |-> LastDay(3 * q + 3)]

\* getLastVatReportTime: the period of today.
GetLastVatReportTime == GetVatReportTime(country.period, day)

-----------------------------------------------------------------------------
(* The order view.                                                         *)

ClosedIn(c, from, to) ==
    {x \in Payments : /\ payments[x] # NoRecord /\ payments[x].company = c
                      /\ payments[x].day \in from .. to}

\* The orders made for refunds keep the day the payment was closed
\* (createOrderByRefund), so they are found by it.
PaidBackIn(c, from, to, deduction) ==
    {x \in ClosedIn(c, from, to) : /\ paybacks[x] # NoRecord
                                   /\ paybacks[x].deduction = deduction}

\* orderViewRepository.GetVatSummary: payments are never deductions.
GetVatSummary(c, from, to, deduction) ==
    LET pays == IF deduction THEN {} ELSE ClosedIn(c, from, to)
        back == PaidBackIn(c, from, to, deduction)
    IN  [count |-> Cardinality(pays) + Cardinality(back), tax |-> Cardinality(pays),
         refundTax |-> Cardinality(back)]

\* orderViewRepository.GetTurnoverSummary: payments that were not paid back.
GetTurnoverSummary(c, from, to) ==
    2 * Cardinality({x \in ClosedIn(c, from, to) : paybacks[x] = NoRecord})

\* calcAnnualTurnover for the country: day by day, or by the periods of this year up to
\* today, or not at all.
CalcAnnualTurnover(c) ==
    LET starts == {t \in 1 .. day : GetVatReportTime(country.period, t).from = t}
        upTo(t) == Min({GetVatReportTime(country.period, t).to, day})
    IN  CASE country.policy = "on-day" -> GetTurnoverSummary(c, 1, day)
          [] country.policy = "last-day" ->
                 MapThenSumSet(LAMBDA t : GetTurnoverSummary(c, t, upTo(t)), starts)
          [] OTHER -> NoRecord

\* turnoverRepository.Get: the copy in Redis first.
GetTurnover(c) == IF turnoverCache[c] # NoRecord THEN turnoverCache[c] ELSE turnovers[c]

VatInit ==
    /\ country \in Countries
    /\ day = 1
    /\ payments = [x \in Payments |-> NoRecord]
    /\ paybacks = [x \in Payments |-> NoRecord]
    /\ bankFees = [x \in Payments |-> 0]
    /\ turnovers = [c \in Companies |-> NoRecord]
    /\ turnoverCache = [c \in Companies |-> NoRecord]
    /\ vatReports = [v \in VatReports |-> NoRecord]
    /\ task = NoTask
    /\ reported = 0
    /\ vatFailures = 0

-----------------------------------------------------------------------------
(* Payments and refunds, and the days they happen on.                      *)

\* Today's task has summed the period for the company: its next sum is tomorrow's.
Summed(c) ==
    \/ reported = day \/ task.pc \in {"status", "change"}
    \/ task.pc = "report" /\ c \notin task.todo

ClosePayment(x, c) ==
    /\ payments[x] = NoRecord
    /\ payments' = [payments EXCEPT ![x] = [day |-> day, company |-> c, late |-> Summed(c)]]
    /\ UNCHANGED <<country, day, paybacks, bankFees, turnovers, turnoverCache, vatReports,
                   task, reported, vatFailures>>

\* createOrderByRefund: a refund of an earlier period is a deduction.
PayBack(x) ==
    /\ payments[x] # NoRecord /\ paybacks[x] = NoRecord
    /\ paybacks' = [paybacks EXCEPT ![x] =
                      [day |-> day, deduction |-> payments[x].day < GetLastVatReportTime.from,
                       late |-> Summed(payments[x].company)]]
    /\ UNCHANGED <<country, day, payments, bankFees, turnovers, turnoverCache, vatReports,
                   task, reported, vatFailures>>

\* Midnight: the task has run through, or failed.
NextDay ==
    /\ day < MaxDay /\ task.pc = "idle"
    /\ reported = day \/ vatFailures > 0
    /\ day' = day + 1
    /\ UNCHANGED <<country, payments, paybacks, bankFees, turnovers, turnoverCache,
                   vatReports, task, reported, vatFailures>>

-----------------------------------------------------------------------------
(* The task, ProcessVatReports.                                            *)

\* processAccountingEntriesForPeriod: with the policy of the last day the entries of the
\* period are gone through again. Of what is computed for them only the local amount of
\* the central bank's fee is stored.
ProcessAccountingEntries(date) ==
    LET p == GetVatReportTime(country.period, date)
    IN  bankFees' = [x \in Payments |->
                       IF /\ country.policy = "last-day" /\ payments[x] # NoRecord
                          /\ payments[x].day \in p.from .. p.to
                       THEN bankFees[x] - 1 ELSE bankFees[x]]

\* The task begins, for today or for a day in the past it is given.
StartTask(past) ==
    /\ task.pc = "idle" /\ day > past
    /\ past = 0 => reported < day \* once a day, and again if it failed
    /\ ProcessAccountingEntries(day - past)
    /\ task' = [NoTask EXCEPT !.pc = "turnover", !.date = day - past, !.todo = Companies]
    /\ UNCHANGED <<country, day, payments, paybacks, turnovers, turnoverCache, vatReports,
                   reported, vatFailures>>

AfterCompany(c, pc) ==
    IF task.todo = {c} THEN [task EXCEPT !.pc = pc, !.todo = Companies]
    ELSE [task EXCEPT !.todo = @ \ {c}]

\* turnoverRepository.Upsert: an error of the cache is only logged.
StoreTurnover(c, amount) ==
    /\ turnovers' = [turnovers EXCEPT ![c] = amount]
    /\ \/ /\ turnoverCache' = [turnoverCache EXCEPT ![c] = amount]
          /\ UNCHANGED vatFailures
       \/ /\ vatFailures < MaxVatFailures /\ vatFailures' = vatFailures + 1
          /\ UNCHANGED turnoverCache

\* CalcAnnualTurnovers for one company, as of today.
CalcAnnualTurnovers(c) ==
    LET amount == CalcAnnualTurnover(c)
    IN  /\ task.pc = "turnover" /\ c \in task.todo
        /\ task' = AfterCompany(c, "report")
        /\ IF amount = NoRecord
           THEN UNCHANGED <<turnovers, turnoverCache, vatFailures>>
           ELSE StoreTurnover(c, amount)
        /\ UNCHANGED <<country, day, payments, paybacks, bankFees, vatReports, reported>>

\* vatReportRepository.GetByCountryPeriod: whose report it is is not asked for.
GetByCountryPeriod(p) ==
    {v \in VatReports : /\ vatReports[v] # NoRecord
                        /\ vatReports[v].from = p.from /\ vatReports[v].to = p.to
                        /\ vatReports[v].status = "threshold"}

\* processVatReportForPeriod: the report the company has in the period of date.
NewVatReport(c, p) ==
    LET s == GetVatSummary(c, p.from, p.to, FALSE)
        d == GetVatSummary(c, p.from, p.to, TRUE)
    IN  [company |-> c, from |-> p.from, to |-> p.to, status |-> "threshold",
         vat |-> s.tax - s.refundTax, deduction |-> d.refundTax,
         turnover |-> GetTurnover(c), count |-> s.count + d.count]

\* vatReportRepository.Insert and Update: the whole report.
StoreReport(v, report) == vatReports' = [vatReports EXCEPT ![v] = report]

ProcessVatReportForPeriod(c) ==
    LET p == GetVatReportTime(country.period, task.date)
        found == GetByCountryPeriod(p)
    IN  /\ task.pc = "report" /\ c \in task.todo
        /\ IF GetTurnover(c) = NoRecord
           THEN UNCHANGED vatReports
           ELSE \E v \in VatReports :
                   /\ v \in found \/ (found = {} /\ vatReports[v] = NoRecord)
                   /\ StoreReport(v, NewVatReport(c, p))
        /\ task' = AfterCompany(c, "status")
        /\ UNCHANGED <<country, day, payments, paybacks, bankFees, turnovers, turnoverCache,
                       reported, vatFailures>>

\* vatReportRepository.GetByStatus.
GetByStatus(statuses) ==
    {v \in VatReports : vatReports[v] # NoRecord /\ vatReports[v].status \in statuses}

\* ProcessVatReportsStatus reads the reports that may change ...
ReadVatReports ==
    /\ task.pc = "status"
    /\ task' = [task EXCEPT !.pc = "change",
                            !.list = {<<v, vatReports[v]>> :
                                        v \in GetByStatus({"threshold", "need_to_pay"})}]
    /\ UNCHANGED <<country, day, payments, paybacks, bankFees, turnovers, turnoverCache,
                   vatReports, reported, vatFailures>>

\* Mistake: the report of a period that has not ended is decided.
StatusOfReportEarly(r) ==
    CASE r.status = "need_to_pay" -> r.status
      [] OTHER -> IF r.vat > 0 \/ r.deduction > 0 THEN "need_to_pay" ELSE "expired"

\* Mistake: a report below the threshold waits for ever.
StatusOfReportAbove(r) ==
    LET exceeded == \/ country.yearThreshold > 0 /\ r.turnover >= country.yearThreshold
                    \/ country.worldThreshold > 0 /\ r.turnover >= country.worldThreshold
    IN  CASE r.from >= GetLastVatReportTime.from -> r.status
          [] r.from < GetLastVatReportTime.from /\ r.status = "need_to_pay" ->
                 IF day >= r.to + country.deadline THEN "overdue" ELSE r.status
          [] OTHER -> IF exceeded THEN "need_to_pay" ELSE r.status

\* ... and what it makes of one of them: those of today's period wait, the others are
\* decided and, once decided, may become overdue.
StatusOfReport(r) ==
    LET noThreshold == country.yearThreshold = 0 /\ country.worldThreshold = 0
        exceeded == \/ country.yearThreshold > 0 /\ r.turnover >= country.yearThreshold
                    \/ country.worldThreshold > 0 /\ r.turnover >= country.worldThreshold
    IN  CASE r.from >= GetLastVatReportTime.from -> r.status
          [] r.from < GetLastVatReportTime.from /\ r.status = "need_to_pay" ->
                 IF day >= r.to + country.deadline THEN "overdue" ELSE r.status
          [] OTHER -> IF (noThreshold \/ exceeded) /\ (r.vat > 0 \/ r.deduction > 0)
                      THEN "need_to_pay" ELSE "expired"

ChangeVatReport(v, r) ==
    /\ task.pc = "change" /\ <<v, r>> \in task.list
    /\ IF StatusOfReport(r) = r.status THEN UNCHANGED vatReports
       ELSE StoreReport(v, [r EXCEPT !.status = StatusOfReport(r)])
    /\ task' = [task EXCEPT !.list = @ \ {<<v, r>>}]
    /\ UNCHANGED <<country, day, payments, paybacks, bankFees, turnovers, turnoverCache,
                   reported, vatFailures>>

EndTask ==
    /\ task.pc = "change" /\ task.list = {}
    /\ task' = NoTask
    /\ reported' = IF task.date = day THEN day ELSE reported
    /\ UNCHANGED <<country, day, payments, paybacks, bankFees, turnovers, turnoverCache,
                   vatReports, vatFailures>>

\* A call fails and ends the task.
FailTask ==
    /\ task.pc # "idle"
    /\ vatFailures < MaxVatFailures /\ vatFailures' = vatFailures + 1
    /\ task' = NoTask
    /\ UNCHANGED <<country, day, payments, paybacks, bankFees, turnovers, turnoverCache,
                   vatReports, reported>>

\* UpdateVatReportStatus, by the financier.
UpdateVatReportStatus(v, status) ==
    /\ Overlap \/ task.pc = "idle"
    /\ vatReports[v] # NoRecord /\ vatReports[v].status \in {"need_to_pay", "overdue"}
    /\ status \in {"paid", "canceled"}
    /\ StoreReport(v, [vatReports[v] EXCEPT !.status = status])
    /\ UNCHANGED <<country, day, payments, paybacks, bankFees, turnovers, turnoverCache,
                   task, reported, vatFailures>>

VatNext ==
    \/ \E x \in Payments, c \in Companies : ClosePayment(x, c)
    \/ \E x \in Payments : PayBack(x)
    \/ NextDay
    \/ \E past \in PastDays : StartTask(past)
    \/ \E c \in Companies : CalcAnnualTurnovers(c) \/ ProcessVatReportForPeriod(c)
    \/ ReadVatReports
    \/ \E e \in task.list : ChangeVatReport(e[1], e[2])
    \/ EndTask
    \/ FailTask
    \/ \E v \in VatReports, status \in VatStatuses : UpdateVatReportStatus(v, status)

VatSpec == VatInit /\ [][VatNext]_vatVars

-----------------------------------------------------------------------------
(* Properties.                                                             *)

\* A report that has been decided, with a task that ran every day, holds the tax of every
\* payment of its period that was closed before the task summed the period for the last
\* time and was not paid back by then: nothing of the earlier days is lost or counted
\* twice, although a report is summed anew every day. What happens on the last day after
\* that sum enters no report.
DecidedReportIsComplete ==
    vatFailures = 0 =>
        \A v \in VatReports :
            LET r == vatReports[v]
                kept == {x \in ClosedIn(r.company, r.from, r.to) :
                            /\ payments[x].day < r.to \/ ~payments[x].late
                            /\ \/ paybacks[x] = NoRecord \/ paybacks[x].day > r.to
                               \/ paybacks[x].day = r.to /\ paybacks[x].late}
            IN  (r # NoRecord /\ r.status # "threshold") => r.vat = Cardinality(kept)

\* When a task has run through, every period before today's is decided
\* (ProcessVatReportsStatus).
PastPeriodsAreDecided ==
    (reported = day /\ task.pc = "idle") =>
        \A v \in VatReports :
            vatReports[v] # NoRecord /\ vatReports[v].from < GetLastVatReportTime.from
                => vatReports[v].status # "threshold"
=============================================================================
