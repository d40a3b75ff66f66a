----------------------------- MODULE Settlement -----------------------------
(***************************************************************************)
(* How a merchant is paid: the royalty reports of its periods              *)
(* (internal/service/royalty_report.go), the payouts made of accepted      *)
(* reports (payouts.go) and the merchant balance (merchant_balance.go),    *)
(* for one merchant and its payout currency.                               *)
(*                                                                         *)
(* Reports and payouts live in MongoDB and, read-through and without       *)
(* expiry, in Redis. GetById answers from Redis if it can, queries by      *)
(* other fields always come from MongoDB, and Update replaces the document *)
(* in MongoDB, inserts a record of the change and then sets the copy in    *)
(* Redis. Each of these calls is a step of the handler that makes it.      *)
(***************************************************************************)
EXTENDS Integers, FiniteSets, FiniteSetsExt

CONSTANTS
    Workers,          \* request handlers and tasks running at the same time
    Reports, Payouts, \* document ids
    Periods,          \* periods royalty is reported for
    PeriodOf,         \* [Reports -> Periods]
    Royalty,          \* Totals.PayoutAmount of every report
    B2BVatAmount,     \* Totals.B2BVatAmount of every report
    MinimalPayout,    \* the least payout of the merchant's tariff
    MinPayoutAmounts, \* values the merchant gives MinPayoutAmount
    NoDoc, NoPayout,  \* no document; payout_document_id = ""
    NoBalance,        \* no balance has been stored yet
    Failures,         \* whether a call may fail and end its handler
    CorrectionAmounts,\* amounts by which an administrator corrects a report
    MaxCorrections,   \* bound on what the corrections of a period add up to
    ReserveAmounts,   \* amounts of rolling reserve entries, of either type
    MaxReserve,       \* bound on what the reserve entries of a period add up to
    MaxRequests       \* bound on the requests and task runs

ASSUME SettlementAssumption ==
    /\ IsFiniteSet(Reports)
    /\ PeriodOf \in [Reports -> Periods]
    /\ Royalty \in Nat \ {0}
    /\ B2BVatAmount \in Nat
    /\ MinimalPayout \in Nat
    /\ MinPayoutAmounts \subseteq Nat
    /\ NoPayout \notin Payouts
    /\ Failures \in BOOLEAN
    /\ CorrectionAmounts \subseteq Int \ {0}
    /\ MaxCorrections \in Nat
    /\ ReserveAmounts \subseteq Int \ {0}
    /\ MaxReserve \in Nat
    /\ MaxRequests \in Nat

VARIABLES
    reports,      \* MongoDB: report id -> document or NoDoc
    reportCache,  \* Redis: report id -> document or NoDoc
    payouts,      \* MongoDB: payout id -> document or NoDoc
    payoutCache,  \* Redis: payout id -> document or NoDoc
    corrections,  \* period -> sum of its correction entries in the ledger
    reserves,     \* period -> sum of its rolling reserve entries in the ledger
    balance,      \* the balance stored last
    w,            \* worker -> the state of the handler it runs
    requests,     \* number of requests and task runs so far
    accepted,     \* history: reports that were stored as accepted
    settled,      \* history: payouts that were stored as paid
    blind         \* history: periods whose look for a report failed

vars == <<reports, reportCache, payouts, payoutCache, corrections, reserves, balance,
          w, requests, accepted, settled, blind>>

ReportStatuses == {"pending", "accepted", "dispute", "waiting", "paid"}

PayoutStatuses == {"pending", "paid", "failed", "canceled", "skip"}

ReportDoc == [id : Reports, status : ReportStatuses,
              payout : Payouts \cup {NoPayout}, correction : Int, reserve : Int]

PayoutDoc == [id : Payouts, status : PayoutStatuses, sources : SUBSET Reports,
              fees : Int]

ASSUME NoDocIsNoDocument == NoDoc \notin ReportDoc \cup PayoutDoc

PCs == {"idle", "fill", "build", "accept", "review", "change", "correct", "recount",
        "write", "cache", "funds", "fillPayout", "decide", "writePayout",
        "cachePayout", "source", "mark", "debit", "credit", "store"}

Worker == [pc : PCs, next : PCs, last : PCs,
           status : ReportStatuses \cup PayoutStatuses \cup {"none"},
           correct : BOOLEAN, doc : ReportDoc \cup {NoDoc},
           payout : PayoutDoc \cup {NoDoc}, amount : Int,
           batch : SUBSET ReportDoc, sources : SUBSET Reports,
           debit : Int, credit : Int]

Idle == [pc |-> "idle", next |-> "idle", last |-> "idle", status |-> "none",
         correct |-> FALSE, doc |-> NoDoc, payout |-> NoDoc, amount |-> 0,
         batch |-> {}, sources |-> {}, debit |-> 0, credit |-> 0]

TypeOK ==
    /\ reports \in [Reports -> ReportDoc \cup {NoDoc}]
    /\ reportCache \in [Reports -> ReportDoc \cup {NoDoc}]
    /\ payouts \in [Payouts -> PayoutDoc \cup {NoDoc}]
    /\ payoutCache \in [Payouts -> PayoutDoc \cup {NoDoc}]
    /\ corrections \in [Periods -> -MaxCorrections .. MaxCorrections]
    /\ reserves \in [Periods -> -MaxReserve .. MaxReserve]
    /\ balance \in [debit : Int, credit : Int] \cup {NoBalance}
    /\ w \in [Workers -> Worker]
    /\ requests \in 0 .. MaxRequests
    /\ accepted \subseteq Reports
    /\ settled \subseteq Payouts
    /\ blind \subseteq Periods

Init ==
    /\ reports = [r \in Reports |-> NoDoc]
    /\ reportCache = [r \in Reports |-> NoDoc]
    /\ payouts = [x \in Payouts |-> NoDoc]
    /\ payoutCache = [x \in Payouts |-> NoDoc]
    /\ corrections = [t \in Periods |-> 0]
    /\ reserves = [t \in Periods |-> 0]
    /\ balance = NoBalance
    /\ w = [p \in Workers |-> Idle]
    /\ requests = 0
    /\ accepted = {}
    /\ settled = {}
    /\ blind = {}

-----------------------------------------------------------------------------
(* Helpers.                                                                *)

Set(p, s) == w' = [w EXCEPT ![p] = s]

\* The handler goes on at pc. With updateMerchantBalance ("debit") it is done with
\* its documents, and it returns to AutoAcceptRoyaltyReports' batch or for good.
Goto(s, pc) ==
    CASE pc = "idle" -> Idle
      [] pc = "debit" -> [Idle EXCEPT !.pc = pc, !.batch = s.batch]
      [] OTHER -> [s EXCEPT !.pc = pc]

\* royaltyReportRepository.GetById: the copy in Redis, or else the document,
\* which the next step copies to Redis.
GetReport(s, r, next) ==
    IF reportCache[r] # NoDoc
    THEN [s EXCEPT !.doc = reportCache[r], !.pc = next]
    ELSE [s EXCEPT !.doc = reports[r], !.pc = "fill", !.next = next]

\* payoutRepository.GetById.
GetPayout(s, x, next) ==
    IF payoutCache[x] # NoDoc
    THEN [s EXCEPT !.payout = payoutCache[x], !.pc = next]
    ELSE [s EXCEPT !.payout = payouts[x], !.pc = "fillPayout", !.next = next]

\* The handler calls royaltyReportRepository.Update with doc.
UpdateReport(s, doc, next) == [s EXCEPT !.doc = doc, !.pc = "write", !.next = next]

StoredReports == {reports[r] : r \in Reports} \ {NoDoc}
StoredPayouts == {payouts[x] : x \in Payouts} \ {NoDoc}

\* Ids nobody uses yet (primitive.NewObjectID).
FreshReports ==
    {r \in Reports : reports[r] = NoDoc} \ {d.id : d \in {w[q].doc : q \in Workers} \ {NoDoc}}

FreshPayouts ==
    {x \in Payouts : payouts[x] = NoDoc}
        \ {d.id : d \in {w[q].payout : q \in Workers} \ {NoDoc}}

\* External: billingpb.RoyaltyReport.ChangesAvailable, as the tests use it.
ChangesAvailable(from, to) ==
    \/ from = "pending" /\ to \in {"accepted", "dispute"}
    \/ from = "dispute" /\ to \in {"pending", "accepted"}

-----------------------------------------------------------------------------
(* The repositories' own steps.                                            *)

\* The copy of a report in Redis is set after it was read or written; an error of
\* Redis is logged and the handler goes on.
SetReportCache(d) ==
    \/ reportCache' = [reportCache EXCEPT ![d.id] = d]
    \/ Failures /\ UNCHANGED reportCache

FillReport(p) ==
    /\ w[p].pc = "fill"
    /\ SetReportCache(w[p].doc)
    /\ Set(p, [w[p] EXCEPT !.pc = w[p].next])
    /\ UNCHANGED <<reports, payouts, payoutCache, corrections, reserves, balance,
                   accepted, settled, blind>>

\* Insert and Update of a report: the document first ...
WriteReport(p) ==
    LET d == w[p].doc IN
    /\ w[p].pc = "write"
    /\ reports' = [reports EXCEPT ![d.id] = d]
    /\ accepted' = IF d.status = "accepted" THEN accepted \cup {d.id} ELSE accepted
    /\ Set(p, [w[p] EXCEPT !.pc = "cache"])
    /\ UNCHANGED <<reportCache, payouts, payoutCache, corrections, reserves,
                   balance, settled, blind>>

\* ... and, once onRoyaltyReportChange has stored the change, the copy in Redis.
CacheReport(p) ==
    /\ w[p].pc = "cache"
    /\ SetReportCache(w[p].doc)
    /\ Set(p, Goto(w[p], w[p].next))
    /\ UNCHANGED <<reports, payouts, payoutCache, corrections, reserves, balance,
                   accepted, settled, blind>>

FillPayout(p) ==
    /\ w[p].pc = "fillPayout"
    /\ payoutCache' = [payoutCache EXCEPT ![w[p].payout.id] = w[p].payout]
    /\ Set(p, [w[p] EXCEPT !.pc = w[p].next])
    /\ UNCHANGED <<reports, reportCache, payouts, corrections, reserves, balance,
                   accepted, settled, blind>>

\* Insert and Update of a payout.
WritePayout(p) ==
    LET d == w[p].payout IN
    /\ w[p].pc = "writePayout"
    /\ payouts' = [payouts EXCEPT ![d.id] = d]
    /\ settled' = IF d.status = "paid" THEN settled \cup {d.id} ELSE settled
    /\ Set(p, [w[p] EXCEPT !.pc = "cachePayout"])
    /\ UNCHANGED <<reports, reportCache, payoutCache, corrections, reserves,
                   balance, accepted, blind>>

CachePayout(p) ==
    /\ w[p].pc = "cachePayout"
    /\ payoutCache' = [payoutCache EXCEPT ![w[p].payout.id] = w[p].payout]
    /\ Set(p, [w[p] EXCEPT !.pc = "source"])
    /\ UNCHANGED <<reports, reportCache, payouts, corrections, reserves, balance,
                   accepted, settled, blind>>

-----------------------------------------------------------------------------
(* updateMerchantBalance: two queries and an insert. What a report keeps   *)
(* back as rolling reserve counts in both sums; the balance's own field    *)
(* RollingReserve, and the Total it enters, are only shown.                *)

\* What a report adds to the balance.
Worth(d) == Royalty + d.correction - d.reserve

\* Mistake: a report that waits for its payout is not counted.
DebitAmountForgetsWaiting ==
    MapThenSumSet(Worth, {d \in StoredReports : d.status \in {"accepted", "paid"}})

\* GetBalanceAmount of the reports.
DebitAmount ==
    MapThenSumSet(Worth, {d \in StoredReports : d.status \in {"accepted", "waiting", "paid"}})

\* GetBalanceAmount of the payouts.
CreditAmount ==
    MapThenSumSet(LAMBDA d : d.fees, {d \in StoredPayouts : d.status \in {"pending", "paid"}})

DebitQuery(p) ==
    /\ w[p].pc = "debit"
    /\ Set(p, [w[p] EXCEPT !.pc = "credit", !.debit = DebitAmount])
    /\ UNCHANGED <<reports, reportCache, payouts, payoutCache, corrections,
                   reserves, balance, accepted, settled, blind>>

CreditQuery(p) ==
    /\ w[p].pc = "credit"
    /\ Set(p, [w[p] EXCEPT !.pc = "store", !.credit = CreditAmount])
    /\ UNCHANGED <<reports, reportCache, payouts, payoutCache, corrections,
                   reserves, balance, accepted, settled, blind>>

\* AutoAcceptRoyaltyReports goes on with its next report, other handlers return.
StoreBalance(p) ==
    /\ w[p].pc = "store"
    /\ balance' = [debit |-> w[p].debit, credit |-> w[p].credit]
    /\ Set(p, IF w[p].batch = {} THEN Idle ELSE [w[p] EXCEPT !.pc = "accept"])
    /\ UNCHANGED <<reports, reportCache, payouts, payoutCache, corrections,
                   reserves, accepted, settled, blind>>

\* GetMerchantBalance: the first call for a merchant computes the balance.
GetMerchantBalance(p) ==
    /\ w[p].pc = "idle"
    /\ balance = NoBalance
    /\ Set(p, [Idle EXCEPT !.pc = "debit"])
    /\ UNCHANGED <<reports, reportCache, payouts, payoutCache, corrections,
                   reserves, balance, accepted, settled, blind>>

-----------------------------------------------------------------------------
(* Royalty reports.                                                        *)

\* A report that nothing has been counted for yet.
NewReport(r) == [id |-> r, status |-> "pending", payout |-> NoPayout,
                 correction |-> 0, reserve |-> 0]

\* Mistake: no look for an existing report.
CreateRoyaltyReportAnyway(p, t) ==
    /\ w[p].pc = "idle"
    /\ \E r \in FreshReports :
          PeriodOf[r] = t /\ Set(p, [Idle EXCEPT !.pc = "build", !.doc = NewReport(r)])
    /\ UNCHANGED <<reports, reportCache, payouts, payoutCache, corrections,
                   reserves, balance, accepted, settled, blind>>

\* The reports GetReportExists may find.
GetReportExists(t) == {d \in StoredReports : PeriodOf[d.id] = t}

\* CreateRoyaltyReport for one period: a report that is no longer pending ends the
\* handler. A look for one that fails, in the query or over the document, is answered
\* like one that finds nothing.
CreateRoyaltyReport(p, t) ==
    LET existing == GetReportExists(t)
        fresh == \E r \in FreshReports :
                    /\ PeriodOf[r] = t
                    /\ Set(p, [Idle EXCEPT !.pc = "build", !.doc = NewReport(r)])
    IN
    /\ w[p].pc = "idle"
    /\ \/ existing = {} /\ fresh /\ UNCHANGED blind
       \/ existing # {} /\ fresh /\ blind' = blind \cup {t}
       \/ /\ \E d \in existing :
                d.status = "pending" /\ Set(p, [Idle EXCEPT !.pc = "build", !.doc = d])
          /\ UNCHANGED blind
    /\ UNCHANGED <<reports, reportCache, payouts, payoutCache, corrections,
                   reserves, balance, accepted, settled>>

\* buildMerchantRoyaltyReportRoundedAmounts sums the corrections and the rolling
\* reserve again; every other field is that of the report found before. A report
\* that has not changed is not written.
BuildReport(p) ==
    LET t == PeriodOf[w[p].doc.id]
        d == [w[p].doc EXCEPT !.correction = corrections[t], !.reserve = reserves[t]]
    IN
    /\ w[p].pc = "build"
    /\ \/ Set(p, UpdateReport(w[p], d, "idle"))
       \/ d = w[p].doc /\ reports[d.id] # NoDoc /\ Set(p, Idle)
    /\ UNCHANGED <<reports, reportCache, payouts, payoutCache, corrections,
                   reserves, balance, accepted, settled, blind>>

\* AutoAcceptRoyaltyReports finds the pending reports whose time has run out ...
AutoAcceptRoyaltyReports(p) ==
    /\ w[p].pc = "idle"
    /\ \E expired \in SUBSET {d \in StoredReports : d.status = "pending"} \ {{}} :
          Set(p, [Idle EXCEPT !.pc = "accept", !.batch = expired])
    /\ UNCHANGED <<reports, reportCache, payouts, payoutCache, corrections,
                   reserves, balance, accepted, settled, blind>>

\* ... and writes each of them, as found, with status accepted.
AutoAccept(p, d) ==
    /\ w[p].pc = "accept"
    /\ d \in w[p].batch
    /\ Set(p, UpdateReport([w[p] EXCEPT !.batch = @ \ {d}],
                           [d EXCEPT !.status = "accepted"], "debit"))
    /\ UNCHANGED <<reports, reportCache, payouts, payoutCache, corrections,
                   reserves, balance, accepted, settled, blind>>

\* MerchantReviewRoyaltyReport: load the report ...
MerchantReviewRoyaltyReport(p, r, verdict) ==
    /\ w[p].pc = "idle"
    /\ reports[r] # NoDoc
    /\ Set(p, GetReport([Idle EXCEPT !.status = verdict], r, "review"))
    /\ UNCHANGED <<reports, reportCache, payouts, payoutCache, corrections,
                   reserves, balance, accepted, settled, blind>>

\* ... and accept or dispute it if it is pending.
Review(p) ==
    /\ w[p].pc = "review"
    /\ Set(p, IF w[p].doc.status # "pending" THEN Idle
              ELSE UpdateReport(w[p], [w[p].doc EXCEPT !.status = w[p].status],
                                IF w[p].status = "accepted" THEN "debit" ELSE "idle"))
    /\ UNCHANGED <<reports, reportCache, payouts, payoutCache, corrections,
                   reserves, balance, accepted, settled, blind>>

\* ChangeRoyaltyReport (an administrator): a new status, a correction, or both.
ChangeRoyaltyReport(p, r, status, correct) ==
    /\ w[p].pc = "idle"
    /\ reports[r] # NoDoc
    /\ Set(p, GetReport([Idle EXCEPT !.status = status, !.correct = correct], r, "change"))
    /\ UNCHANGED <<reports, reportCache, payouts, payoutCache, corrections,
                   reserves, balance, accepted, settled, blind>>

\* The report with the requested status, if one was requested.
NewStatus(s) ==
    IF s.status = "none" THEN s.doc ELSE [s.doc EXCEPT !.status = s.status]

\* Checks of ChangeRoyaltyReport; a correction is taken only in a dispute.
Change(p) ==
    LET s == w[p]
        denied == s.status # "none" /\ ~ChangesAvailable(s.doc.status, s.status)
        corrects == s.doc.status = "dispute" /\ s.correct
    IN
    /\ s.pc = "change"
    /\ Set(p, CASE denied -> Idle
                [] ~denied /\ corrects -> [s EXCEPT !.pc = "correct"]
                [] ~denied /\ ~corrects /\ s.status # "none" ->
                       UpdateReport(s, NewStatus(s), "debit")
                [] OTHER -> Idle)
    /\ UNCHANGED <<reports, reportCache, payouts, payoutCache, corrections,
                   reserves, balance, accepted, settled, blind>>

\* The accounting entry of the correction is inserted before the report changes.
Correct(p) ==
    LET t == PeriodOf[w[p].doc.id] IN
    /\ w[p].pc = "correct"
    /\ \E n \in CorrectionAmounts :
          /\ corrections[t] + n \in -MaxCorrections .. MaxCorrections
          /\ corrections' = [corrections EXCEPT ![t] = @ + n]
    /\ Set(p, [w[p] EXCEPT !.pc = "recount"])
    /\ UNCHANGED <<reports, reportCache, payouts, payoutCache, reserves, balance,
                   accepted, settled, blind>>

\* getRoyaltyReportCorrections sums the entries again, then the report is written.
Recount(p) ==
    LET s == [w[p] EXCEPT !.doc.correction = corrections[PeriodOf[w[p].doc.id]]] IN
    /\ w[p].pc = "recount"
    /\ Set(p, UpdateReport(s, NewStatus(s), "debit"))
    /\ UNCHANGED <<reports, reportCache, payouts, payoutCache, corrections,
                   reserves, balance, accepted, settled, blind>>

\* CreateAccountingEntry of a rolling reserve (an administrator). The amounts of
\* both types are added up; the reports count the entry when they are built.
CreateAccountingEntry(p, t) ==
    /\ w[p].pc = "idle"
    /\ \E n \in ReserveAmounts :
          /\ reserves[t] + n \in -MaxReserve .. MaxReserve
          /\ reserves' = [reserves EXCEPT ![t] = @ + n]
    /\ Set(p, [Idle EXCEPT !.pc = "debit"])
    /\ UNCHANGED <<reports, reportCache, payouts, payoutCache, corrections, balance,
                   accepted, settled, blind>>

-----------------------------------------------------------------------------
(* Payouts.                                                                *)

\* GetNonPayoutReports.
NonPayoutReports ==
    {d \in StoredReports : /\ d.status \in {"pending", "accepted", "dispute"}
                           /\ d.payout = NoPayout}

\* getPayoutDocumentSources: all of them, if none is pending or in dispute.
PayoutSources ==
    IF \E d \in NonPayoutReports : d.status \in {"pending", "dispute"}
    THEN {} ELSE NonPayoutReports

\* What is to be paid for a report, and for the sources: the VAT is taken off.
Payable(d) == Worth(d) - B2BVatAmount

PayoutAmount == MapThenSumSet(Payable, PayoutSources)

\* createPayoutDocument up to the amount of the payout, which must be positive and
\* no less than the tariff's minimum. The fees are the royalties alone.
CreatePayoutDocument(p) ==
    /\ w[p].pc = "idle"
    /\ PayoutSources # {}
    /\ PayoutAmount >= MinimalPayout
    /\ PayoutAmount > 0
    /\ \E x \in FreshPayouts :
          Set(p, [Idle EXCEPT
                !.pc = "funds",
                !.amount = PayoutAmount,
                !.payout = [id |-> x, status |-> "pending",
                            sources |-> {d.id : d \in PayoutSources},
                            fees |-> Royalty * Cardinality(PayoutSources)]])
    /\ UNCHANGED <<reports, reportCache, payouts, payoutCache, corrections,
                   reserves, balance, accepted, settled, blind>>

\* Mistake: the reports are bound before the payout is inserted.
CheckFundsBindFirst(p) ==
    LET s == w[p] IN
    /\ s.pc = "funds"
    /\ balance # NoBalance
    /\ s.amount <= balance.debit - balance.credit
    /\ Set(p, [s EXCEPT !.pc = "source", !.last = "debit", !.status = "waiting",
                        !.sources = s.payout.sources])
    /\ UNCHANGED <<reports, reportCache, payouts, payoutCache, corrections,
                   reserves, balance, accepted, settled, blind>>

\* The stored balance has to cover the payout; a payout below MinPayoutAmount is
\* stored as skipped. Its reports will wait for it in both cases.
CheckFunds(p) ==
    LET s == w[p] IN
    /\ s.pc = "funds"
    /\ IF balance = NoBalance \/ s.amount > balance.debit - balance.credit
       THEN Set(p, Idle)
       ELSE \E min \in MinPayoutAmounts :
               Set(p, [s EXCEPT
                   !.pc = "writePayout", !.last = "debit", !.status = "waiting",
                   !.sources = s.payout.sources,
                   !.payout.status = IF s.amount < min THEN "skip" ELSE "pending"])
    /\ UNCHANGED <<reports, reportCache, payouts, payoutCache, corrections,
                   reserves, balance, accepted, settled, blind>>

\* UpdatePayoutDocument (an administrator): load the payout ...
UpdatePayoutDocument(p, x, status) ==
    /\ w[p].pc = "idle"
    /\ payouts[x] # NoDoc
    /\ Set(p, GetPayout([Idle EXCEPT !.status = status], x, "decide"))
    /\ UNCHANGED <<reports, reportCache, payouts, payoutCache, corrections,
                   reserves, balance, accepted, settled, blind>>

\* Mistake: every change of a payout marks its reports as paid.
ReportStatusAlwaysPaid(x) == "paid"

\* The status of a report whose payout gets status x (royaltyReportSetPaid,
\* royaltyReportUnsetPaid); no report changes with other payouts.
ReportStatusFor(x) == IF x = "paid" THEN "paid" ELSE "accepted"

\* Mistake: the status of a payout that is no longer pending may change.
DecideAnyStatus(p) ==
    LET s == w[p] IN
    /\ s.pc = "decide"
    /\ Set(p, IF s.status = "none" THEN Idle
              ELSE [s EXCEPT !.pc = "writePayout", !.payout.status = s.status,
                             !.sources = s.payout.sources,
                             !.status = ReportStatusFor(s.status)])
    /\ UNCHANGED <<reports, reportCache, payouts, payoutCache, corrections,
                   reserves, balance, accepted, settled, blind>>

\* ... and change its status, allowed only for a pending one, or ("none") another
\* field of it. A request that changes nothing, or fails a payout without giving
\* the reason, ends here. The balance follows a payout that is paid or skipped.
Decide(p) ==
    LET s == w[p] IN
    /\ s.pc = "decide"
    /\ \/ s.status \in {"none", "failed", s.payout.status} /\ Set(p, Idle)
       \/ Set(p, CASE s.status \in {"none", s.payout.status} ->
                          [s EXCEPT !.pc = "writePayout", !.last = "idle"]
                   [] s.status \notin {"none", s.payout.status} /\ s.payout.status = "pending" ->
                          [s EXCEPT !.pc = "writePayout", !.payout.status = s.status,
                                    !.sources = s.payout.sources,
                                    !.status = ReportStatusFor(s.status),
                                    !.last = IF s.status \in {"paid", "skip"} THEN "debit"
                                             ELSE "idle"]
                   [] OTHER -> Idle)
    /\ UNCHANGED <<reports, reportCache, payouts, payoutCache, corrections,
                   reserves, balance, accepted, settled, blind>>

\* Mistake: the loop over the sources ends one early.
NextSourceSkipsLast(p) ==
    LET s == w[p] IN
    /\ s.pc = "source"
    /\ \/ Cardinality(s.sources) <= 1 /\ Set(p, Goto(s, s.last))
       \/ /\ Cardinality(s.sources) > 1
          /\ \E r \in s.sources :
                Set(p, GetReport([s EXCEPT !.sources = @ \ {r}], r, "mark"))
    /\ UNCHANGED <<reports, reportCache, payouts, payoutCache, corrections,
                   reserves, balance, accepted, settled, blind>>

\* royaltyReportSetPayoutDocumentId, -SetPaid and -UnsetPaid: load each source ...
NextSource(p) ==
    LET s == w[p] IN
    /\ s.pc = "source"
    /\ \/ s.sources = {} /\ Set(p, Goto(s, s.last))
       \/ \E r \in s.sources :
             Set(p, GetReport([s EXCEPT !.sources = @ \ {r}], r, "mark"))
    /\ UNCHANGED <<reports, reportCache, payouts, payoutCache, corrections,
                   reserves, balance, accepted, settled, blind>>

\* ... and write it with the new status, bound to the payout or free again.
MarkSource(p) ==
    LET s == w[p] IN
    /\ s.pc = "mark"
    /\ Set(p, UpdateReport(s, [s.doc EXCEPT
                  !.status = s.status,
                  !.payout = IF s.status = "accepted" THEN NoPayout ELSE s.payout.id],
              "source"))
    /\ UNCHANGED <<reports, reportCache, payouts, payoutCache, corrections,
                   reserves, balance, accepted, settled, blind>>

\* A call fails or the process dies: the handler ends where it is.
Fail(p) ==
    /\ Failures
    /\ w[p].pc # "idle"
    /\ Set(p, Idle)
    /\ UNCHANGED <<reports, reportCache, payouts, payoutCache, corrections,
                   reserves, balance, accepted, settled, blind>>

-----------------------------------------------------------------------------

\* A request arrives or a task starts.
Request(p) ==
    /\ requests < MaxRequests
    /\ requests' = requests + 1
    /\ \/ \E t \in Periods : CreateRoyaltyReport(p, t)
       \/ AutoAcceptRoyaltyReports(p)
       \/ \E r \in Reports, verdict \in {"accepted", "dispute"} :
             MerchantReviewRoyaltyReport(p, r, verdict)
       \/ \E r \in Reports, status \in {"none", "pending", "accepted", "dispute"},
             correct \in BOOLEAN : ChangeRoyaltyReport(p, r, status, correct)
       \/ \E t \in Periods : CreateAccountingEntry(p, t)
       \/ CreatePayoutDocument(p)
       \/ \E x \in Payouts, status \in PayoutStatuses \cup {"none"} :
             UpdatePayoutDocument(p, x, status)
       \/ GetMerchantBalance(p)

\* A handler makes its next call.
Step(p) ==
    /\ UNCHANGED requests
    /\ \/ FillReport(p) \/ WriteReport(p) \/ CacheReport(p)
       \/ FillPayout(p) \/ WritePayout(p) \/ CachePayout(p)
       \/ DebitQuery(p) \/ CreditQuery(p) \/ StoreBalance(p)
       \/ BuildReport(p)
       \/ \E d \in w[p].batch : AutoAccept(p, d)
       \/ Review(p) \/ Change(p) \/ Correct(p) \/ Recount(p)
       \/ CheckFunds(p) \/ Decide(p) \/ NextSource(p) \/ MarkSource(p)
       \/ Fail(p)

Next == \E p \in Workers : Request(p) \/ Step(p)

Spec == Init /\ [][Next]_vars

-----------------------------------------------------------------------------
(* Properties.                                                             *)

\* A report that waits for a payout or is paid names a payout that is stored and
\* lists it, whatever copies handlers and Redis hold (createPayoutDocument stores
\* the payout first, royaltyReportSetPayoutDocumentId and -SetPaid follow).
BoundToItsPayout ==
    \A d \in StoredReports : d.status \in {"waiting", "paid"} =>
        \E x \in StoredPayouts : x.id = d.payout /\ d.id \in x.sources

\* A report shows as paid only after a payout that lists it was stored as paid,
\* even if the documents were overwritten since (UpdatePayoutDocument).
PaidAfterItsPayout ==
    \A d \in StoredReports : d.status = "paid" => d.payout \in settled

\* Nothing is paid out that nobody accepted: a report listed by a payout was
\* accepted by the merchant, an administrator or the deadline (PayoutSources,
\* AutoAcceptRoyaltyReports, MerchantReviewRoyaltyReport).
PaidOutOnlyIfAccepted == \A x \in StoredPayouts : x.sources \subseteq accepted

Active(x) == x.status \in {"pending", "paid"}

\* A royalty is paid out once: no report is listed by two payouts that are open
\* or paid (createPayoutDocument).
PaidOutOnce ==
    \A x, y \in StoredPayouts :
        x.id # y.id /\ Active(x) /\ Active(y) => x.sources \cap y.sources = {}

\* One period is reported once, unless the look for its report failed: two reports
\* would pay the same sales twice (createMerchantRoyaltyReport, "report for this
\* merchant and period already exists").
OneReportPerPeriod ==
    \A d, e \in StoredReports :
        d.id # e.id /\ PeriodOf[d.id] = PeriodOf[e.id] => PeriodOf[d.id] \in blind

\* The merchant is owed for the report, or was paid.
Owed(d) == d.status \in {"accepted", "waiting", "paid"}

\* No report the merchant is owed for is worth less than its royalty: what was kept
\* of it as rolling reserve, or taken off by a correction, was given back.
Uncut == \A d \in StoredReports : Owed(d) => d.correction >= d.reserve

\* The stored balance never shows more paid out than owed, nor do the documents it
\* is computed from, unless a report was cut: a payout is booked with the royalties,
\* before corrections and reserve (GetBalanceAmount of reports and payouts,
\* updateMerchantBalance).
BalanceIsCovered ==
    Uncut => /\ CreditAmount <= DebitAmount
             /\ balance # NoBalance => balance.credit <= balance.debit

\* The account of the merchant that the documents amount to. A paid payout stays
\* paid ("status change is forbidden"), a royalty is promised once and a report
\* that was accepted is never reopened (CreatePayoutDocument,
\* UpdatePayoutDocument, ChangeRoyaltyReport).
Due == {r \in Reports : reports[r] # NoDoc /\ Owed(reports[r])}

PayoutState(d) ==
    CASE d.status = "pending" -> "open"
      [] d.status = "paid" -> "paid"
      [] d.status \notin {"pending", "paid"} -> "void"

Account ==
    INSTANCE RoyaltyAccount WITH
        due   <- Due,
        state <- [x \in Payouts |->
                    IF payouts[x] = NoDoc THEN "none" ELSE PayoutState(payouts[x])],
        lists <- [x \in Payouts |->
                    IF payouts[x] = NoDoc THEN {} ELSE payouts[x].sources]

\* Settlement implements RoyaltyAccount.
ImplementsAccount == Account!Spec

\* "status change is forbidden": a paid payout stays paid.
PaidPayoutIsFinal ==
    [][\A x \in Payouts : payouts[x] # NoDoc /\ payouts[x].status = "paid"
                             => payouts'[x].status = "paid"]_vars

=============================================================================
