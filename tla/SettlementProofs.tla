--------------------------- MODULE SettlementProofs ---------------------------
(***************************************************************************)
(* What holds of settlement for any number of handlers, reports and        *)
(* payouts, whatever calls fail and however stale the copies are.          *)
(*                                                                         *)
(* The invariant follows the copies. Documents are read into handlers,     *)
(* changed, written back and copied to Redis, so what is claimed of the    *)
(* stored documents has to hold of every copy: a copy may be old, but it   *)
(* was true of some payout that is stored still. Amounts take no part in   *)
(* it. AmountsInv types them, from what SumProofs says of finite sums, and *)
(* with one handler and no failing call OwedInv and CoverInv say what the  *)
(* balance covers and that the documents implement RoyaltyAccount.         *)
(***************************************************************************)
EXTENDS Settlement, SumProofs

\* The shape of a handler, whatever amounts it has.
IsWorker(s) ==
    s \in [pc : PCs, next : PCs, last : PCs,
           status : ReportStatuses \cup PayoutStatuses \cup {"none"},
           correct : BOOLEAN, doc : ReportDoc \cup {NoDoc},
           payout : {s.payout}, amount : {s.amount},
           batch : SUBSET ReportDoc, sources : SUBSET Reports,
           debit : {s.debit}, credit : {s.credit}]

\* The handler has stored its payout and is marking the reports.
Marking(s) ==
    \/ s.pc \in {"cachePayout", "source", "mark"}
    \/ s.pc = "fill" /\ s.next = "mark"
    \/ s.pc \in {"write", "cache"} /\ s.next = "source"

\* The handler holds a report of its payout.
HoldsSource(s) == s.pc = "mark" \/ (s.pc = "fill" /\ s.next = "mark")

ShapeInv ==
    /\ reports \in [Reports -> ReportDoc \cup {NoDoc}]
    /\ reportCache \in [Reports -> ReportDoc \cup {NoDoc}]
    /\ payouts = [x \in Payouts |-> payouts[x]]
    /\ payoutCache = [x \in Payouts |-> payoutCache[x]]
    /\ corrections \in [Periods -> Int]
    /\ reserves \in [Periods -> Int]
    /\ w = [p \in Workers |-> w[p]]
    /\ \A x \in Payouts : payouts[x] # NoDoc => payouts[x] \in PayoutDoc /\ payouts[x].id = x
    /\ \A x \in Payouts : payoutCache[x] # NoDoc =>
                              payoutCache[x] \in PayoutDoc /\ payoutCache[x].id = x
    /\ \A r \in Reports : reports[r] # NoDoc => reports[r].id = r
    /\ \A r \in Reports : reportCache[r] # NoDoc => reportCache[r].id = r
    /\ accepted \subseteq Reports

\* Which fields a handler relies on at which step.
WorkerInv(s) ==
    /\ IsWorker(s)
    /\ s.payout # NoDoc => s.payout \in PayoutDoc
    /\ s.pc \in {"fill", "build", "review", "change", "correct", "recount", "write",
                 "cache", "mark"} => s.doc # NoDoc
    /\ s.pc \in {"funds", "fillPayout", "decide", "writePayout"} \/ Marking(s)
          => s.payout # NoDoc
    /\ s.pc = "fill" => s.next \in {"review", "change", "mark"}
    /\ s.pc = "fillPayout" => s.next = "decide"
    /\ s.pc \in {"fillPayout", "decide"} =>
          s.sources = {} /\ s.status \in PayoutStatuses \cup {"none"}
    /\ s.pc \in {"write", "cache"} => s.next \in {"idle", "debit", "source"}
    /\ s.pc = "writePayout" \/ Marking(s) => /\ s.last \in {"idle", "debit"}
                                             /\ s.sources \subseteq s.payout.sources
    /\ (s.pc = "writePayout" \/ Marking(s)) /\ (s.sources # {} \/ HoldsSource(s))
          => s.status \in {"waiting", "paid", "accepted"}
    /\ s.pc = "review" \/ (s.pc = "fill" /\ s.next = "review")
          => s.status \in {"accepted", "dispute"}
    /\ s.pc \in {"change", "correct", "recount"} \/ (s.pc = "fill" /\ s.next = "change")
          => s.status \in {"none", "pending", "accepted", "dispute"}
    /\ HoldsSource(s) => s.doc.id \in s.payout.sources
    /\ s.pc = "writePayout" /\ s.status = "paid" => s.payout.status = "paid"
    /\ \A d \in s.batch : d.status = "pending"

\* A payout that is not stored yet is known to one handler only.
FreshInv ==
    /\ \A x \in Payouts : payouts[x] = NoDoc => payoutCache[x] = NoDoc
    /\ \A p, q \in Workers :
          /\ w[p].payout # NoDoc
          /\ w[q].payout # NoDoc
          /\ w[p].payout.id = w[q].payout.id
          /\ payouts[w[p].payout.id] = NoDoc
          => p = q

\* A copy of a payout lists the reports the stored one lists, all once accepted.
PayoutCopy(d) ==
    /\ payouts[d.id] # NoDoc => payouts[d.id].sources = d.sources
    /\ d.sources \subseteq accepted

\* A copy of a report that waits or is paid names a stored payout that lists it,
\* and one that is paid names a payout that was paid.
ReportCopy(d) ==
    /\ d.status \in {"waiting", "paid"} =>
          /\ d.payout \in Payouts
          /\ payouts[d.payout] # NoDoc
          /\ d.id \in payouts[d.payout].sources
    /\ d.status = "paid" => d.payout \in settled

CopyInv ==
    /\ \A r \in Reports : reports[r] # NoDoc => ReportCopy(reports[r])
    /\ \A r \in Reports : reportCache[r] # NoDoc => ReportCopy(reportCache[r])
    /\ \A x \in Payouts : payouts[x] # NoDoc => PayoutCopy(payouts[x])
    /\ \A x \in Payouts : payoutCache[x] # NoDoc => PayoutCopy(payoutCache[x])
    /\ \A p \in Workers : /\ w[p].doc # NoDoc => ReportCopy(w[p].doc)
                          /\ w[p].payout # NoDoc => PayoutCopy(w[p].payout)

\* What a handler that marks reports has done before.
MarkInv ==
    \A p \in Workers :
        /\ Marking(w[p]) \/ w[p].pc \in {"fillPayout", "decide"}
              => payouts[w[p].payout.id] # NoDoc
        /\ Marking(w[p]) /\ w[p].status = "paid" => w[p].payout.id \in settled

AcceptedInv ==
    \A r \in Reports : /\ reports[r] # NoDoc /\ reports[r].status = "accepted" => r \in accepted
                       /\ r \in accepted => reports[r] # NoDoc

SettlementInv ==
    /\ ShapeInv
    /\ \A p \in Workers : WorkerInv(w[p])
    /\ FreshInv
    /\ CopyInv
    /\ MarkInv
    /\ AcceptedInv

-----------------------------------------------------------------------------
(* A step of one handler. Most of them change nothing but the handler and  *)
(* the copies in Redis.                                                    *)

\* s is a state in which the handler of p can be after a step that leaves the
\* stored documents alone.
GoodNext(p, s) ==
    /\ WorkerInv(s)
    /\ s.doc # NoDoc => ReportCopy(s.doc)
    /\ s.payout # NoDoc => PayoutCopy(s.payout)
    /\ Marking(s) \/ s.pc \in {"fillPayout", "decide"} => payouts[s.payout.id] # NoDoc
    /\ Marking(s) /\ s.status = "paid" => s.payout.id \in settled
    /\ \/ s.payout = NoDoc
       \/ payouts[s.payout.id] # NoDoc
       \/ s.payout.id \in FreshPayouts
       \/ w[p].payout # NoDoc /\ w[p].payout.id = s.payout.id

\* Redis holds what it held, or got the copy the handler has.
ReportCopied(p) ==
    \/ reportCache' = reportCache
    \/ /\ w[p].doc # NoDoc
       /\ reportCache' = [reportCache EXCEPT ![w[p].doc.id] = w[p].doc]

PayoutCopied(p) ==
    \/ payoutCache' = payoutCache
    \/ /\ w[p].payout # NoDoc
       /\ payouts[w[p].payout.id] # NoDoc
       /\ payoutCache' = [payoutCache EXCEPT ![w[p].payout.id] = w[p].payout]

\* A handler that goes to a good state keeps the invariant.
LEMMA HandlerStep ==
    ASSUME SettlementInv, NEW p \in Workers, NEW s, Set(p, s), GoodNext(p, s),
           UNCHANGED <<reports, payouts, accepted, settled>>,
           ReportCopied(p), PayoutCopied(p), corrections' \in [Periods -> Int],
           reserves' \in [Periods -> Int]
    PROVE  SettlementInv'
<1> USE DEF SettlementInv
<1>w. /\ w' = [q \in Workers |-> w'[q]]
      /\ w'[p] = s
      /\ \A q \in Workers : q # p => w'[q] = w[q]
  BY DEF Set, ShapeInv
<1>1. ShapeInv'
  <2>1. /\ reportCache' \in [Reports -> ReportDoc \cup {NoDoc}]
        /\ \A r \in Reports : reportCache'[r] # NoDoc => reportCache'[r].id = r
    BY DEF ReportCopied, ShapeInv, WorkerInv, IsWorker, ReportDoc
  <2>2. /\ payoutCache' = [x \in Payouts |-> payoutCache'[x]]
        /\ \A x \in Payouts : payoutCache'[x] # NoDoc =>
                                  payoutCache'[x] \in PayoutDoc /\ payoutCache'[x].id = x
    <3>1. CASE payoutCache' = payoutCache
      BY <3>1 DEF ShapeInv
    <3>2. CASE payoutCache' # payoutCache
      <4>1. /\ w[p].payout # NoDoc
            /\ payoutCache' = [payoutCache EXCEPT ![w[p].payout.id] = w[p].payout]
        BY <3>2 DEF PayoutCopied
      <4>2. w[p].payout \in PayoutDoc
        BY <4>1 DEF WorkerInv
      <4>3. w[p].payout.id \in Payouts
        BY <4>2 DEF PayoutDoc
      <4> QED BY <4>1, <4>2, <4>3 DEF ShapeInv
    <3> QED BY <3>1, <3>2
  <2> QED BY <1>w, <2>1, <2>2 DEF ShapeInv
<1>2. \A q \in Workers : WorkerInv(w[q])'
  BY <1>w DEF GoodNext, WorkerInv, IsWorker, PayoutDoc, Marking, HoldsSource
<1>3. FreshInv'
  <2>1. \A x \in Payouts : payouts[x] = NoDoc => payoutCache'[x] = NoDoc
    BY DEF PayoutCopied, FreshInv, ShapeInv, WorkerInv, PayoutDoc
  <2>2. ASSUME NEW q \in Workers, q # p, s.payout # NoDoc, w[q].payout # NoDoc,
               s.payout.id = w[q].payout.id, payouts[s.payout.id] = NoDoc
        PROVE  FALSE
    BY <2>2 DEF FreshInv, GoodNext, FreshPayouts
  <2> QED BY <1>w, <2>1, <2>2 DEF FreshInv
<1>4. CopyInv'
  <2>1. \A d : ReportCopy(d) = ReportCopy(d)'
    BY DEF ReportCopy
  <2>2. \A d : PayoutCopy(d) = PayoutCopy(d)'
    BY DEF PayoutCopy
  <2>3. \A r \in Reports : reportCache'[r] # NoDoc => ReportCopy(reportCache'[r])
    BY DEF ReportCopied, CopyInv, ShapeInv
  <2>4. \A x \in Payouts : payoutCache'[x] # NoDoc => PayoutCopy(payoutCache'[x])
    BY DEF PayoutCopied, CopyInv, ShapeInv
  <2>5. \A q \in Workers : /\ w'[q].doc # NoDoc => ReportCopy(w'[q].doc)
                           /\ w'[q].payout # NoDoc => PayoutCopy(w'[q].payout)
    BY <1>w DEF CopyInv, GoodNext
  <2> QED BY <2>1, <2>2, <2>3, <2>4, <2>5 DEF CopyInv, ReportCopy, PayoutCopy
<1>5. MarkInv'
  BY <1>w DEF MarkInv, GoodNext, Marking
<1>6. AcceptedInv'
  BY DEF AcceptedInv
<1> QED BY <1>1, <1>2, <1>3, <1>4, <1>5, <1>6

\* Writing a report: every copy was true of a stored payout, so the document is.
LEMMA WriteReportKeeps ==
    ASSUME SettlementInv, NEW p \in Workers, WriteReport(p)
    PROVE  SettlementInv'
<1> USE DEF SettlementInv
<1> DEFINE d == w[p].doc
           s == [w[p] EXCEPT !.pc = "cache"]
<1>1. /\ w[p].pc = "write"
      /\ reports' = [reports EXCEPT ![d.id] = d]
      /\ accepted' = IF d.status = "accepted" THEN accepted \cup {d.id} ELSE accepted
      /\ w' = [w EXCEPT ![p] = s]
      /\ UNCHANGED <<reportCache, payouts, payoutCache, corrections, reserves,
                     settled>>
  BY DEF WriteReport, Set
<1>2. /\ d # NoDoc
      /\ d \in ReportDoc
      /\ d.id \in Reports
      /\ ReportCopy(d)
  BY <1>1 DEF WorkerInv, IsWorker, CopyInv, ReportDoc
<1>3. /\ IsWorker(w[p])
      /\ IsWorker(s)
      /\ s.pc = "cache" /\ s.next = w[p].next /\ s.last = w[p].last
      /\ s.status = w[p].status /\ s.doc = w[p].doc /\ s.payout = w[p].payout
      /\ s.batch = w[p].batch /\ s.sources = w[p].sources
  BY DEF WorkerInv, IsWorker, PCs
<1>4. WorkerInv(s)
  BY <1>1, <1>3 DEF WorkerInv, Marking, HoldsSource
<1>w. /\ w' = [q \in Workers |-> w'[q]]
      /\ w'[p] = s
      /\ \A q \in Workers : q # p => w'[q] = w[q]
  BY <1>1 DEF ShapeInv
<1> HIDE DEF s
<1>5. ShapeInv'
  BY <1>1, <1>2, <1>w DEF ShapeInv, PayoutDoc
<1>6. \A q \in Workers : WorkerInv(w[q])'
  BY <1>4, <1>w DEF WorkerInv, IsWorker, PayoutDoc, Marking, HoldsSource
<1>7. FreshInv'
  BY <1>1, <1>3, <1>w DEF FreshInv
<1>8. CopyInv'
  <2>1. \A e : ReportCopy(e) = ReportCopy(e)'
    BY <1>1 DEF ReportCopy
  <2>2. \A e : PayoutCopy(e) => PayoutCopy(e)'
    BY <1>1 DEF PayoutCopy
  <2>3. \A r \in Reports : reports'[r] # NoDoc => ReportCopy(reports'[r])
    BY <1>1, <1>2 DEF CopyInv, ShapeInv
  <2>4. \A q \in Workers : /\ w'[q].doc # NoDoc => ReportCopy(w'[q].doc)
                           /\ w'[q].payout # NoDoc => PayoutCopy(w'[q].payout)
    BY <1>3, <1>w DEF CopyInv
  <2> QED BY <1>1, <2>1, <2>2, <2>3, <2>4 DEF CopyInv, ReportCopy, PayoutCopy
<1>9. MarkInv'
  BY <1>1, <1>3, <1>w DEF MarkInv, Marking
<1>10. AcceptedInv'
  BY <1>1, <1>2 DEF AcceptedInv, ShapeInv
<1> QED BY <1>5, <1>6, <1>7, <1>8, <1>9, <1>10

\* Writing a payout: a stored one keeps its reports, a new one is known to this
\* handler only.
LEMMA WritePayoutKeeps ==
    ASSUME SettlementInv, NEW p \in Workers, WritePayout(p)
    PROVE  SettlementInv'
<1> USE DEF SettlementInv
<1> DEFINE d == w[p].payout
           s == [w[p] EXCEPT !.pc = "cachePayout"]
<1>1. /\ w[p].pc = "writePayout"
      /\ payouts' = [payouts EXCEPT ![d.id] = d]
      /\ settled' = IF d.status = "paid" THEN settled \cup {d.id} ELSE settled
      /\ w' = [w EXCEPT ![p] = s]
      /\ UNCHANGED <<reports, reportCache, payoutCache, corrections, reserves,
                     accepted>>
  BY DEF WritePayout, Set
<1>2. /\ d # NoDoc
      /\ d \in PayoutDoc
      /\ d.id \in Payouts
      /\ PayoutCopy(d)
  BY <1>1 DEF WorkerInv, PayoutDoc, CopyInv
<1>3. /\ IsWorker(w[p])
      /\ IsWorker(s)
      /\ s.pc = "cachePayout" /\ s.next = w[p].next /\ s.last = w[p].last
      /\ s.status = w[p].status /\ s.doc = w[p].doc /\ s.payout = w[p].payout
      /\ s.batch = w[p].batch /\ s.sources = w[p].sources
  BY DEF WorkerInv, IsWorker, PCs
<1>4. WorkerInv(s)
  BY <1>1, <1>3 DEF WorkerInv, Marking, HoldsSource
<1>w. /\ w' = [q \in Workers |-> w'[q]]
      /\ w'[p] = s
      /\ \A q \in Workers : q # p => w'[q] = w[q]
  BY <1>1 DEF ShapeInv
<1>p. /\ payouts' = [x \in Payouts |-> payouts'[x]]
      /\ payouts'[d.id] = d
      /\ \A x \in Payouts : x # d.id => payouts'[x] = payouts[x]
  BY <1>1, <1>2 DEF ShapeInv
<1>st. w[p].status = "paid" => d.id \in settled'
  BY <1>1 DEF WorkerInv
<1> HIDE DEF s, d
<1>5. ShapeInv'
  <2>1. \A x \in Payouts : payouts'[x] # NoDoc => payouts'[x] \in PayoutDoc /\ payouts'[x].id = x
    BY <1>2, <1>p DEF ShapeInv
  <2> QED BY <1>1, <1>w, <1>p, <2>1 DEF ShapeInv, PayoutDoc
<1>6. \A q \in Workers : WorkerInv(w[q])'
  BY <1>4, <1>w DEF WorkerInv, IsWorker, PayoutDoc, Marking, HoldsSource
<1>7. FreshInv'
  BY <1>1, <1>2, <1>3, <1>w, <1>p DEF FreshInv, WorkerInv, PayoutDoc
<1>8. CopyInv'
  <2> DEFINE RNew(e) ==
                /\ e.status \in {"waiting", "paid"} =>
                      /\ e.payout \in Payouts
                      /\ payouts'[e.payout] # NoDoc
                      /\ e.id \in payouts'[e.payout].sources
                /\ e.status = "paid" => e.payout \in settled'
             PNew(e) ==
                /\ payouts'[e.id] # NoDoc => payouts'[e.id].sources = e.sources
                /\ e.sources \subseteq accepted
  <2>1. \A e : ReportCopy(e) => RNew(e)
    BY <1>1, <1>2, <1>p DEF ReportCopy, PayoutCopy
  <2>2. ASSUME NEW e, PayoutCopy(e), e.id # d.id \/ payouts[d.id] # NoDoc \/ e = d,
               e.id \in Payouts
        PROVE  PNew(e)
    BY <1>1, <1>2, <1>p, <2>2 DEF PayoutCopy
  <2> HIDE DEF RNew, PNew
  <2>3. \A x \in Payouts : payouts'[x] # NoDoc => PNew(payouts'[x])
    <3> TAKE x \in Payouts
    <3>1. CASE x = d.id
      BY <3>1, <1>2, <1>p, <2>2
    <3>2. CASE x # d.id
      BY <3>2, <1>2, <1>p, <2>2 DEF CopyInv, ShapeInv, PayoutDoc
    <3> QED BY <3>1, <3>2
  <2>4. \A x \in Payouts : payoutCache[x] # NoDoc => PNew(payoutCache[x])
    BY <2>2 DEF CopyInv, ShapeInv, FreshInv, PayoutDoc
  <2>5. \A q \in Workers : w'[q].payout # NoDoc => PNew(w'[q].payout)
    <3> SUFFICES ASSUME NEW q \in Workers, w'[q].payout # NoDoc
                 PROVE  PNew(w'[q].payout)
      OBVIOUS
    <3>1. w'[q].payout = w[q].payout
      BY <1>3, <1>w
    <3>2. /\ w[q].payout \in PayoutDoc
          /\ PayoutCopy(w[q].payout)
      BY <3>1 DEF WorkerInv, CopyInv
    <3>3. w[q].payout.id # d.id \/ payouts[d.id] # NoDoc \/ w[q].payout = d
      BY <1>2, <3>1 DEF FreshInv, d
    <3>4. w[q].payout.id \in Payouts
      BY <3>2 DEF PayoutDoc
    <3> QED BY <2>2, <3>1, <3>2, <3>3, <3>4
  <2>6. \A q \in Workers : w'[q].doc # NoDoc => RNew(w'[q].doc)
    BY <1>3, <1>w, <2>1 DEF CopyInv
  <2> QED BY <1>1, <2>1, <2>3, <2>4, <2>5, <2>6 DEF CopyInv, ReportCopy, PayoutCopy, RNew, PNew
<1>9. MarkInv'
  <2> SUFFICES ASSUME NEW q \in Workers
               PROVE  /\ Marking(w'[q]) \/ w'[q].pc \in {"fillPayout", "decide"}
                            => payouts'[w'[q].payout.id] # NoDoc
                      /\ Marking(w'[q]) /\ w'[q].status = "paid"
                            => w'[q].payout.id \in settled'
    BY DEF MarkInv, Marking
  <2>1. CASE q = p
    BY <2>1, <1>2, <1>3, <1>w, <1>p, <1>st DEF d
  <2>2. CASE q # p
    <3>1. w'[q] = w[q]
      BY <2>2, <1>w
    <3>2. Marking(w[q]) \/ w[q].pc \in {"fillPayout", "decide"}
             => /\ payouts[w[q].payout.id] # NoDoc
                /\ w[q].payout.id \in Payouts
      BY DEF MarkInv, WorkerInv, PayoutDoc
    <3>3. Marking(w[q]) /\ w[q].status = "paid" => w[q].payout.id \in settled
      BY DEF MarkInv
    <3> QED BY <1>1, <1>2, <1>p, <3>1, <3>2, <3>3
  <2> QED BY <2>1, <2>2
<1>10. AcceptedInv'
  BY <1>1 DEF AcceptedInv
<1> QED BY <1>5, <1>6, <1>7, <1>8, <1>9, <1>10

-----------------------------------------------------------------------------
(* Requests.                                                               *)

\* A handler that has returned is in a good state.
LEMMA IdleIsGood ==
    ASSUME NEW p \in Workers
    PROVE  GoodNext(p, Idle)
BY DEF GoodNext, WorkerInv, IsWorker, Idle, PCs, Marking, HoldsSource

\* A handler that has only a report: what remains to show for a good state.
LEMMA ReportHandlerIsGood ==
    ASSUME NEW p \in Workers, NEW s, IsWorker(s), s.payout = NoDoc,
           s.doc # NoDoc => ReportCopy(s.doc),
           s.pc \in {"fill", "build", "review", "change", "correct", "recount", "write"}
              => s.doc # NoDoc,
           \/ s.pc \in {"build", "review", "change", "correct", "recount", "accept", "debit"}
           \/ s.pc = "fill" /\ s.next \in {"review", "change"}
           \/ s.pc = "write" /\ s.next \in {"idle", "debit"},
           s.pc = "review" \/ (s.pc = "fill" /\ s.next = "review")
              => s.status \in {"accepted", "dispute"},
           s.pc \in {"change", "correct", "recount"} \/ (s.pc = "fill" /\ s.next = "change")
              => s.status \in {"none", "pending", "accepted", "dispute"},
           \A d \in s.batch : d.status = "pending"
    PROVE  GoodNext(p, s)
BY DEF GoodNext, WorkerInv, Marking, HoldsSource

\* What a handler has after royaltyReportRepository.GetById.
LEMMA GetReportFinds ==
    ASSUME SettlementInv, NEW s, NEW r \in Reports, reports[r] # NoDoc,
           NEW next, IsWorker(s), next \in PCs
    PROVE  /\ IsWorker(GetReport(s, r, next))
           /\ GetReport(s, r, next).doc # NoDoc
           /\ GetReport(s, r, next).doc.id = r
           /\ ReportCopy(GetReport(s, r, next).doc)
           /\ \/ GetReport(s, r, next).pc = next
              \/ /\ GetReport(s, r, next).pc = "fill"
                 /\ GetReport(s, r, next).next = next
           /\ GetReport(s, r, next).status = s.status
           /\ GetReport(s, r, next).payout = s.payout
           /\ GetReport(s, r, next).batch = s.batch
           /\ GetReport(s, r, next).sources = s.sources
           /\ GetReport(s, r, next).last = s.last
<1>1. CASE reportCache[r] # NoDoc
  <2>1. /\ reportCache[r] \in ReportDoc
        /\ reportCache[r].id = r
        /\ ReportCopy(reportCache[r])
    BY <1>1 DEF SettlementInv, ShapeInv, CopyInv
  <2> QED BY <1>1, <2>1 DEF GetReport, IsWorker
<1>2. CASE reportCache[r] = NoDoc
  <2>1. /\ reports[r] \in ReportDoc
        /\ reports[r].id = r
        /\ ReportCopy(reports[r])
    BY DEF SettlementInv, ShapeInv, CopyInv
  <2> DEFINE t == [s EXCEPT !.doc = reports[r], !.pc = "fill", !.next = next]
  <2>2. GetReport(s, r, next) = t
    BY <1>2 DEF GetReport
  <2>3. IsWorker(t)
    BY <2>1 DEF IsWorker, PCs
  <2>4. /\ t.doc = reports[r] /\ t.pc = "fill" /\ t.next = next /\ t.status = s.status
        /\ t.payout = s.payout /\ t.batch = s.batch /\ t.sources = s.sources
        /\ t.last = s.last
    BY DEF IsWorker
  <2> HIDE DEF t
  <2> QED BY <2>1, <2>2, <2>3, <2>4
<1> QED BY <1>1, <1>2

\* The documents of a request that changes nothing but its handler.
LEMMA OnlyHandler ==
    ASSUME SettlementInv, NEW p \in Workers, NEW s, Set(p, s), GoodNext(p, s),
           UNCHANGED <<reports, reportCache, payouts, payoutCache, corrections,
                       reserves, accepted, settled>>
    PROVE  SettlementInv'
BY HandlerStep DEF ReportCopied, PayoutCopied, SettlementInv, ShapeInv

\* The fees of a payout are a number: a payout has a finite number of sources.
LEMMA FeesTyped ==
    ASSUME SettlementInv
    PROVE  Royalty * Cardinality(PayoutSources) \in Int
<1>1. IsFiniteSet(StoredReports)
  <2>1. reports \in Surjection(Reports, {reports[r] : r \in Reports})
    BY DEF Surjection, SettlementInv, ShapeInv
  <2>2. IsFiniteSet({reports[r] : r \in Reports})
    BY <2>1, FS_Surjection, SettlementAssumption
  <2> QED BY <2>2, FS_Subset DEF StoredReports
<1>2. Cardinality(PayoutSources) \in Nat
  BY <1>1, FS_Subset, FS_CardinalityType DEF PayoutSources, NonPayoutReports
<1> QED BY <1>2, SettlementAssumption

LEMMA RequestKeeps ==
    ASSUME SettlementInv, NEW p \in Workers, Request(p)
    PROVE  SettlementInv'
<1>1. ASSUME NEW t \in Periods, CreateRoyaltyReport(p, t)
      PROVE  SettlementInv'
  <2>1. PICK d \in ReportDoc : /\ Set(p, [Idle EXCEPT !.pc = "build", !.doc = d])
                               /\ ReportCopy(d)
    <3>1. \A r \in Reports : NewReport(r) \in ReportDoc /\ ReportCopy(NewReport(r))
      BY DEF NewReport, ReportDoc, ReportStatuses, ReportCopy
    <3>2. \A d \in StoredReports : d \in ReportDoc /\ ReportCopy(d)
      BY DEF StoredReports, SettlementInv, ShapeInv, CopyInv
    <3>3. CASE \E r \in FreshReports :
                  Set(p, [Idle EXCEPT !.pc = "build", !.doc = NewReport(r)])
      BY <3>1, <3>3 DEF FreshReports
    <3>4. CASE \E d \in StoredReports : Set(p, [Idle EXCEPT !.pc = "build", !.doc = d])
      BY <3>2, <3>4
    <3> QED BY <1>1, <3>3, <3>4 DEF CreateRoyaltyReport, GetReportExists
  <2> DEFINE s == [Idle EXCEPT !.pc = "build", !.doc = d]
  <2>2. d # NoDoc
    BY NoDocIsNoDocument
  <2>3. /\ IsWorker(s) /\ s.payout = NoDoc /\ s.doc = d /\ s.pc = "build" /\ s.batch = {}
    BY DEF Idle, IsWorker, PCs
  <2>4. GoodNext(p, s)
    <3> HIDE DEF s
    <3> QED BY <2>1, <2>2, <2>3, ReportHandlerIsGood
  <2> QED BY <1>1, <2>1, <2>4, OnlyHandler DEF CreateRoyaltyReport, GetReportExists
<1>2. ASSUME AutoAcceptRoyaltyReports(p)
      PROVE  SettlementInv'
  <2>1. PICK expired \in SUBSET {d \in StoredReports : d.status = "pending"} :
           Set(p, [Idle EXCEPT !.pc = "accept", !.batch = expired])
    BY <1>2 DEF AutoAcceptRoyaltyReports
  <2> DEFINE s == [Idle EXCEPT !.pc = "accept", !.batch = expired]
  <2>2. /\ expired \subseteq ReportDoc
        /\ \A d \in expired : d.status = "pending"
    BY DEF StoredReports, SettlementInv, ShapeInv
  <2>3. /\ IsWorker(s) /\ s.payout = NoDoc /\ s.doc = NoDoc /\ s.pc = "accept"
        /\ s.batch = expired
    BY <2>2 DEF Idle, IsWorker, PCs
  <2>4. GoodNext(p, s)
    <3> HIDE DEF s
    <3> QED BY <2>2, <2>3, ReportHandlerIsGood
  <2> QED BY <1>2, <2>1, <2>4, OnlyHandler DEF AutoAcceptRoyaltyReports
<1>3. ASSUME NEW r \in Reports, NEW verdict \in {"accepted", "dispute"},
             MerchantReviewRoyaltyReport(p, r, verdict)
      PROVE  SettlementInv'
  <2> DEFINE t == [Idle EXCEPT !.status = verdict]
             s == GetReport(t, r, "review")
  <2>1. /\ IsWorker(t) /\ t.payout = NoDoc /\ t.status = verdict /\ t.batch = {}
    BY DEF Idle, IsWorker, PCs, ReportStatuses
  <2>2. reports[r] # NoDoc /\ "review" \in PCs
    BY <1>3 DEF MerchantReviewRoyaltyReport, PCs
  <2> HIDE DEF t
  <2>3. GoodNext(p, s)
    <3>1. /\ IsWorker(s) /\ s.doc # NoDoc /\ ReportCopy(s.doc)
          /\ s.pc = "review" \/ (s.pc = "fill" /\ s.next = "review")
          /\ s.status = verdict /\ s.payout = NoDoc /\ s.batch = {}
      BY <2>1, <2>2, GetReportFinds
    <3> HIDE DEF s
    <3> QED BY <3>1, ReportHandlerIsGood
  <2> QED BY <1>3, <2>3, OnlyHandler DEF MerchantReviewRoyaltyReport, t
<1>4. ASSUME NEW r \in Reports, NEW status \in {"none", "pending", "accepted", "dispute"},
             NEW correct \in BOOLEAN, ChangeRoyaltyReport(p, r, status, correct)
      PROVE  SettlementInv'
  <2> DEFINE t == [Idle EXCEPT !.status = status, !.correct = correct]
             s == GetReport(t, r, "change")
  <2>1. /\ IsWorker(t) /\ t.payout = NoDoc /\ t.status = status /\ t.batch = {}
    BY DEF Idle, IsWorker, PCs, ReportStatuses
  <2>2. reports[r] # NoDoc /\ "change" \in PCs
    BY <1>4 DEF ChangeRoyaltyReport, PCs
  <2> HIDE DEF t
  <2>3. GoodNext(p, s)
    <3>1. /\ IsWorker(s) /\ s.doc # NoDoc /\ ReportCopy(s.doc)
          /\ s.pc = "change" \/ (s.pc = "fill" /\ s.next = "change")
          /\ s.status = status /\ s.payout = NoDoc /\ s.batch = {}
      BY <2>1, <2>2, GetReportFinds
    <3> HIDE DEF s
    <3> QED BY <3>1, ReportHandlerIsGood
  <2> QED BY <1>4, <2>3, OnlyHandler DEF ChangeRoyaltyReport, t
<1>5. ASSUME CreatePayoutDocument(p)
      PROVE  SettlementInv'
  <2> DEFINE payout(x) == [id |-> x, status |-> "pending",
                           sources |-> {d.id : d \in PayoutSources},
                           fees |-> Royalty * Cardinality(PayoutSources)]
             s(x) == [Idle EXCEPT !.pc = "funds", !.amount = PayoutAmount,
                                  !.payout = payout(x)]
  <2>1. PICK x \in FreshPayouts : Set(p, s(x))
    BY <1>5 DEF CreatePayoutDocument
  <2>2. x \in Payouts /\ payouts[x] = NoDoc
    BY DEF FreshPayouts
  <2>3. {d.id : d \in PayoutSources} \subseteq accepted \cap Reports
    BY DEF PayoutSources, NonPayoutReports, StoredReports, SettlementInv, AcceptedInv, ShapeInv
  <2>n. Royalty * Cardinality(PayoutSources) \in Int
    BY FeesTyped
  <2>4. payout(x) \in PayoutDoc /\ payout(x).id = x /\ PayoutCopy(payout(x))
    BY <2>2, <2>3, <2>n DEF PayoutDoc, PayoutCopy, PayoutStatuses
  <2> HIDE DEF payout
  <2>5. /\ IsWorker(s(x)) /\ s(x).payout = payout(x) /\ s(x).doc = NoDoc
        /\ s(x).pc = "funds" /\ s(x).batch = {}
    BY DEF Idle, IsWorker, PCs
  <2>6. GoodNext(p, s(x))
    <3> HIDE DEF s
    <3>1. /\ s(x).payout # NoDoc => s(x).payout \in PayoutDoc
          /\ s(x).payout # NoDoc => PayoutCopy(s(x).payout)
          /\ s(x).payout.id \in FreshPayouts
      BY <2>4, <2>5
    <3>2. s(x).payout # NoDoc
      BY <2>4, <2>5, NoDocIsNoDocument
    <3> QED BY <2>5, <3>1, <3>2 DEF GoodNext, WorkerInv, Marking, HoldsSource
  <2> QED BY <1>5, <2>1, <2>6, OnlyHandler DEF CreatePayoutDocument
<1>6. ASSUME NEW x \in Payouts, NEW status \in PayoutStatuses \cup {"none"},
             UpdatePayoutDocument(p, x, status)
      PROVE  SettlementInv'
  <2> DEFINE t == [Idle EXCEPT !.status = status]
             s == GetPayout(t, x, "decide")
  <2>1. /\ IsWorker(t) /\ t.doc = NoDoc /\ t.batch = {} /\ t.sources = {} /\ t.status = status
    BY DEF Idle, IsWorker, PCs
  <2>2. /\ payouts[x] # NoDoc
        /\ payouts[x] \in PayoutDoc /\ payouts[x].id = x /\ PayoutCopy(payouts[x])
        /\ payoutCache[x] # NoDoc => /\ payoutCache[x] \in PayoutDoc /\ payoutCache[x].id = x
                                     /\ PayoutCopy(payoutCache[x])
    BY <1>6 DEF UpdatePayoutDocument, SettlementInv, ShapeInv, CopyInv
  <2> HIDE DEF t
  <2>3. /\ IsWorker(s) /\ s.doc = NoDoc /\ s.batch = {} /\ s.sources = {} /\ s.status = status
        /\ s.pc = "decide" \/ (s.pc = "fillPayout" /\ s.next = "decide")
        /\ s.payout # NoDoc /\ s.payout \in PayoutDoc /\ s.payout.id = x /\ PayoutCopy(s.payout)
    <3>1. CASE payoutCache[x] # NoDoc
      <4>1. s = [t EXCEPT !.payout = payoutCache[x], !.pc = "decide"]
        BY <3>1 DEF GetPayout
      <4>2. IsWorker(s)
        BY <2>1, <4>1 DEF IsWorker, PCs
      <4>3. /\ s.doc = t.doc /\ s.batch = t.batch /\ s.pc = "decide"
            /\ s.sources = t.sources /\ s.status = t.status
            /\ s.payout = payoutCache[x]
        BY <2>1, <4>1 DEF IsWorker
      <4> HIDE DEF s
      <4> QED BY <2>1, <2>2, <3>1, <4>2, <4>3
    <3>2. CASE payoutCache[x] = NoDoc
      <4>1. s = [t EXCEPT !.payout = payouts[x], !.pc = "fillPayout", !.next = "decide"]
        BY <3>2 DEF GetPayout
      <4>2. IsWorker(s)
        BY <2>1, <4>1 DEF IsWorker, PCs
      <4>3. /\ s.doc = t.doc /\ s.batch = t.batch /\ s.pc = "fillPayout"
            /\ s.sources = t.sources /\ s.status = t.status
            /\ s.next = "decide" /\ s.payout = payouts[x]
        BY <2>1, <4>1 DEF IsWorker
      <4> HIDE DEF s
      <4> QED BY <2>1, <2>2, <3>2, <4>2, <4>3
    <3> QED BY <3>1, <3>2
  <2>4. GoodNext(p, s)
    <3> HIDE DEF s
    <3> QED BY <2>2, <2>3 DEF GoodNext, WorkerInv, Marking, HoldsSource
  <2> QED BY <1>6, <2>4, OnlyHandler DEF UpdatePayoutDocument, t
<1>7. ASSUME GetMerchantBalance(p)
      PROVE  SettlementInv'
  <2> DEFINE s == [Idle EXCEPT !.pc = "debit"]
  <2>1. /\ IsWorker(s) /\ s.payout = NoDoc /\ s.doc = NoDoc /\ s.pc = "debit" /\ s.batch = {}
    BY DEF Idle, IsWorker, PCs
  <2>2. GoodNext(p, s)
    <3> HIDE DEF s
    <3> QED BY <2>1, ReportHandlerIsGood
  <2> QED BY <1>7, <2>2, OnlyHandler DEF GetMerchantBalance
<1>8. ASSUME NEW t \in Periods, CreateAccountingEntry(p, t)
      PROVE  SettlementInv'
  <2> DEFINE s == [Idle EXCEPT !.pc = "debit"]
  <2>1. /\ IsWorker(s) /\ s.payout = NoDoc /\ s.doc = NoDoc /\ s.pc = "debit" /\ s.batch = {}
    BY DEF Idle, IsWorker, PCs
  <2>2. GoodNext(p, s)
    <3> HIDE DEF s
    <3> QED BY <2>1, ReportHandlerIsGood
  <2>3. PICK n \in ReserveAmounts : reserves' = [reserves EXCEPT ![t] = @ + n]
    BY <1>8 DEF CreateAccountingEntry
  <2>4. /\ corrections \in [Periods -> Int]
        /\ reserves \in [Periods -> Int]
    BY DEF SettlementInv, ShapeInv
  <2>5. reserves' \in [Periods -> Int]
    BY <2>3, <2>4, SettlementAssumption
  <2>6. /\ Set(p, s)
        /\ UNCHANGED <<reports, reportCache, payouts, payoutCache, corrections,
                       accepted, settled>>
    BY <1>8 DEF CreateAccountingEntry
  <2> HIDE DEF s
  <2>7. ReportCopied(p) /\ PayoutCopied(p)
    BY <2>6 DEF ReportCopied, PayoutCopied
  <2> QED BY <2>2, <2>4, <2>5, <2>6, <2>7, HandlerStep
<1> QED BY <1>1, <1>2, <1>3, <1>4, <1>5, <1>6, <1>7, <1>8 DEF Request

-----------------------------------------------------------------------------
(* Steps of a handler.                                                     *)

\* A handler that keeps its payout and has a true copy of a report.
LEMMA PayoutKept ==
    ASSUME SettlementInv, NEW p \in Workers, NEW s, WorkerInv(s),
           s.doc # NoDoc => ReportCopy(s.doc), s.payout = w[p].payout,
           Marking(s) \/ s.pc \in {"fillPayout", "decide"} => payouts[s.payout.id] # NoDoc,
           Marking(s) /\ s.status = "paid" => s.payout.id \in settled
    PROVE  GoodNext(p, s)
BY DEF GoodNext, SettlementInv, CopyInv

\* A handler that calls royaltyReportRepository.Update with a true copy.
LEMMA UpdateIsGood ==
    ASSUME SettlementInv, NEW p \in Workers, NEW t, IsWorker(t), t.payout = w[p].payout,
           NEW d \in ReportDoc, ReportCopy(d), NEW next \in {"idle", "debit", "source"},
           \A e \in t.batch : e.status = "pending",
           next = "source" =>
              /\ t.payout # NoDoc
              /\ t.last \in {"idle", "debit"}
              /\ t.sources \subseteq t.payout.sources
              /\ t.sources # {} => t.status \in {"waiting", "paid", "accepted"}
              /\ payouts[t.payout.id] # NoDoc
              /\ t.status = "paid" => t.payout.id \in settled
    PROVE  GoodNext(p, UpdateReport(t, d, next))
<1> DEFINE s == UpdateReport(t, d, next)
<1>1. IsWorker(s)
  BY DEF UpdateReport, IsWorker, PCs
<1>2. /\ s.pc = "write" /\ s.next = next /\ s.doc = d /\ s.payout = t.payout
      /\ s.last = t.last /\ s.status = t.status /\ s.batch = t.batch /\ s.sources = t.sources
  BY DEF UpdateReport, IsWorker
<1>3. d # NoDoc
  BY NoDocIsNoDocument
<1>4. t.payout # NoDoc => t.payout \in PayoutDoc
  BY DEF SettlementInv, WorkerInv
<1> HIDE DEF s
<1>5. WorkerInv(s)
  BY <1>1, <1>2, <1>3, <1>4 DEF WorkerInv, Marking, HoldsSource
<1>6. GoodNext(p, s)
  BY <1>2, <1>5, PayoutKept DEF Marking
<1> QED BY <1>6 DEF s

\* A handler that returns, or goes on to updateMerchantBalance.
LEMMA GotoIsGood ==
    ASSUME SettlementInv, NEW p \in Workers, NEW pc \in {"idle", "debit"}
    PROVE  GoodNext(p, Goto(w[p], pc))
<1>1. CASE pc = "idle"
  BY <1>1, IdleIsGood DEF Goto
<1>2. CASE pc = "debit"
  <2> DEFINE s == [Idle EXCEPT !.pc = pc, !.batch = w[p].batch]
  <2>1. Goto(w[p], pc) = s
    BY <1>2 DEF Goto
  <2>2. /\ w[p].batch \subseteq ReportDoc
        /\ \A d \in w[p].batch : d.status = "pending"
    BY DEF SettlementInv, WorkerInv, IsWorker
  <2>3. /\ IsWorker(s) /\ s.payout = NoDoc /\ s.doc = NoDoc /\ s.pc = "debit"
        /\ s.batch = w[p].batch
    BY <1>2, <2>2 DEF Idle, IsWorker, PCs
  <2> HIDE DEF s
  <2> QED BY <2>1, <2>2, <2>3, ReportHandlerIsGood
<1> QED BY <1>1, <1>2

\* The steps of the repositories and of updateMerchantBalance.
LEMMA RepositoryStepKeeps ==
    ASSUME SettlementInv, NEW p \in Workers,
           \/ FillReport(p) \/ CacheReport(p) \/ FillPayout(p) \/ CachePayout(p)
           \/ DebitQuery(p) \/ CreditQuery(p) \/ StoreBalance(p) \/ Fail(p)
    PROVE  SettlementInv'
<1>0. /\ WorkerInv(w[p]) /\ IsWorker(w[p])
      /\ w[p].doc # NoDoc => ReportCopy(w[p].doc)
      /\ Marking(w[p]) \/ w[p].pc \in {"fillPayout", "decide"}
            => payouts[w[p].payout.id] # NoDoc
      /\ Marking(w[p]) /\ w[p].status = "paid" => w[p].payout.id \in settled
      /\ corrections \in [Periods -> Int]
      /\ reserves \in [Periods -> Int]
  BY DEF SettlementInv, WorkerInv, CopyInv, MarkInv, ShapeInv
<1> DEFINE At(pc) == [w[p] EXCEPT !.pc = pc]
<1>a. \A pc \in PCs :
         /\ IsWorker(At(pc)) /\ At(pc).pc = pc /\ At(pc).doc = w[p].doc
         /\ At(pc).payout = w[p].payout /\ At(pc).next = w[p].next
         /\ At(pc).last = w[p].last /\ At(pc).status = w[p].status
         /\ At(pc).batch = w[p].batch /\ At(pc).sources = w[p].sources
  BY <1>0 DEF IsWorker
<1>1. CASE FillReport(p)
  <2>1. /\ w[p].pc = "fill" /\ Set(p, At(w[p].next)) /\ SetReportCache(w[p].doc)
        /\ UNCHANGED <<reports, payouts, payoutCache, corrections, reserves, accepted,
                       settled>>
    BY <1>1 DEF FillReport
  <2>2. w[p].next \in {"review", "change", "mark"} /\ w[p].next \in PCs
    BY <2>1, <1>0 DEF WorkerInv, IsWorker
  <2> HIDE DEF At
  <2>3. WorkerInv(At(w[p].next))
    BY <2>1, <2>2, <1>0, <1>a DEF WorkerInv, Marking, HoldsSource
  <2>4. GoodNext(p, At(w[p].next))
    BY <2>1, <2>2, <2>3, <1>0, <1>a, PayoutKept DEF Marking
  <2>5. ReportCopied(p) /\ PayoutCopied(p)
    BY <2>1, <1>0 DEF ReportCopied, PayoutCopied, SetReportCache, WorkerInv
  <2> QED BY <2>1, <2>4, <2>5, <1>0, HandlerStep
<1>2. CASE CacheReport(p)
  <2>1. /\ w[p].pc = "cache" /\ Set(p, Goto(w[p], w[p].next)) /\ SetReportCache(w[p].doc)
        /\ UNCHANGED <<reports, payouts, payoutCache, corrections, reserves, accepted,
                       settled>>
    BY <1>2 DEF CacheReport
  <2>2. ReportCopied(p) /\ PayoutCopied(p)
    BY <2>1, <1>0 DEF ReportCopied, PayoutCopied, SetReportCache, WorkerInv
  <2>3. GoodNext(p, Goto(w[p], w[p].next))
    <3>1. CASE w[p].next \in {"idle", "debit"}
      BY <3>1, GotoIsGood
    <3>2. CASE w[p].next = "source"
      <4>1. Goto(w[p], w[p].next) = At("source") /\ "source" \in PCs
        BY <3>2 DEF Goto, PCs
      <4> HIDE DEF At
      <4>2. WorkerInv(At("source"))
        BY <2>1, <3>2, <4>1, <1>0, <1>a DEF WorkerInv, Marking, HoldsSource
      <4> QED BY <2>1, <3>2, <4>1, <4>2, <1>0, <1>a, PayoutKept DEF Marking
    <3> QED BY <2>1, <3>1, <3>2, <1>0 DEF WorkerInv
  <2> QED BY <2>1, <2>2, <2>3, <1>0, HandlerStep
<1>3. CASE FillPayout(p)
  <2>1. /\ w[p].pc = "fillPayout" /\ Set(p, At(w[p].next)) /\ w[p].next = "decide"
        /\ payoutCache' = [payoutCache EXCEPT ![w[p].payout.id] = w[p].payout]
        /\ UNCHANGED <<reports, reportCache, payouts, corrections, reserves, accepted,
                       settled>>
    BY <1>3, <1>0 DEF FillPayout, WorkerInv
  <2>2. "decide" \in PCs
    BY DEF PCs
  <2> HIDE DEF At
  <2>3. WorkerInv(At("decide"))
    BY <2>1, <2>2, <1>0, <1>a DEF WorkerInv, Marking, HoldsSource
  <2>4. GoodNext(p, At("decide"))
    BY <2>1, <2>2, <2>3, <1>0, <1>a, PayoutKept DEF Marking
  <2>5. ReportCopied(p) /\ PayoutCopied(p)
    BY <2>1, <1>0 DEF ReportCopied, PayoutCopied, WorkerInv
  <2> QED BY <2>1, <2>4, <2>5, <1>0, HandlerStep
<1>4. CASE CachePayout(p)
  <2>1. /\ w[p].pc = "cachePayout" /\ Set(p, At("source"))
        /\ payoutCache' = [payoutCache EXCEPT ![w[p].payout.id] = w[p].payout]
        /\ UNCHANGED <<reports, reportCache, payouts, corrections, reserves, accepted,
                       settled>>
    BY <1>4 DEF CachePayout
  <2>2. "source" \in PCs /\ Marking(w[p]) /\ w[p].payout # NoDoc
    BY <2>1, <1>0 DEF PCs, Marking, WorkerInv
  <2> HIDE DEF At
  <2>3. WorkerInv(At("source"))
    BY <2>1, <2>2, <1>0, <1>a DEF WorkerInv, Marking, HoldsSource
  <2>4. GoodNext(p, At("source"))
    BY <2>1, <2>2, <2>3, <1>0, <1>a, PayoutKept DEF Marking
  <2>5. ReportCopied(p) /\ PayoutCopied(p)
    BY <2>1, <2>2, <1>0 DEF ReportCopied, PayoutCopied
  <2> QED BY <2>1, <2>4, <2>5, <1>0, HandlerStep
<1>5. CASE DebitQuery(p) \/ CreditQuery(p)
  <2>1. PICK s : /\ Set(p, s)
                 /\ \/ s = [w[p] EXCEPT !.pc = "credit", !.debit = DebitAmount]
                    \/ s = [w[p] EXCEPT !.pc = "store", !.credit = CreditAmount]
    BY <1>5 DEF DebitQuery, CreditQuery
  <2>2. /\ IsWorker(s) /\ s.pc \in {"credit", "store"} /\ s.doc = w[p].doc
        /\ s.payout = w[p].payout /\ s.batch = w[p].batch
    BY <2>1, <1>0 DEF IsWorker, PCs
  <2>3. WorkerInv(s)
    BY <2>2, <1>0 DEF WorkerInv, Marking, HoldsSource
  <2>4. GoodNext(p, s)
    BY <2>2, <2>3, <1>0, PayoutKept DEF Marking
  <2> QED BY <1>5, <2>1, <2>4, OnlyHandler DEF DebitQuery, CreditQuery
<1>6. CASE StoreBalance(p)
  <2>1. /\ Set(p, IF w[p].batch = {} THEN Idle ELSE At("accept"))
        /\ UNCHANGED <<reports, reportCache, payouts, payoutCache, corrections,
                       reserves, accepted, settled>>
    BY <1>6 DEF StoreBalance
  <2>2. "accept" \in PCs
    BY DEF PCs
  <2> HIDE DEF At
  <2>3. WorkerInv(At("accept"))
    BY <2>2, <1>0, <1>a DEF WorkerInv, Marking, HoldsSource
  <2>4. GoodNext(p, At("accept"))
    BY <2>2, <2>3, <1>0, <1>a, PayoutKept DEF Marking
  <2> QED BY <2>1, <2>4, IdleIsGood, OnlyHandler
<1>7. CASE Fail(p)
  BY <1>7, IdleIsGood, OnlyHandler DEF Fail
<1> QED BY <1>1, <1>2, <1>3, <1>4, <1>5, <1>6, <1>7

\* The steps of the handlers of royalty reports.
LEMMA ReportStepKeeps ==
    ASSUME SettlementInv, NEW p \in Workers,
           \/ BuildReport(p) \/ Review(p) \/ Change(p) \/ Correct(p) \/ Recount(p)
           \/ \E d \in w[p].batch : AutoAccept(p, d)
    PROVE  SettlementInv'
<1>0. /\ WorkerInv(w[p]) /\ IsWorker(w[p])
      /\ w[p].doc # NoDoc => ReportCopy(w[p].doc) /\ w[p].doc \in ReportDoc
      /\ \A e \in w[p].batch : e.status = "pending"
      /\ corrections \in [Periods -> Int]
      /\ reserves \in [Periods -> Int]
      /\ PeriodOf \in [Reports -> Periods]
  BY SettlementAssumption DEF SettlementInv, WorkerInv, IsWorker, CopyInv, ShapeInv
<1>1. CASE BuildReport(p)
  <2> DEFINE t == PeriodOf[w[p].doc.id]
             d == [w[p].doc EXCEPT !.correction = corrections[t], !.reserve = reserves[t]]
  <2>1. w[p].doc \in ReportDoc /\ ReportCopy(w[p].doc)
    BY <1>0, <1>1 DEF BuildReport, WorkerInv
  <2>2. d \in ReportDoc
    BY <2>1, <1>0 DEF ReportDoc
  <2>3. ReportCopy(d)
    BY <2>1 DEF ReportCopy, ReportDoc
  <2>4. GoodNext(p, UpdateReport(w[p], d, "idle"))
    <3> HIDE DEF d
    <3> QED BY <2>2, <2>3, <1>0, UpdateIsGood
  <2>5. Set(p, UpdateReport(w[p], d, "idle")) \/ Set(p, Idle)
    BY <1>1 DEF BuildReport
  <2> HIDE DEF d
  <2> QED BY <1>1, <2>4, <2>5, IdleIsGood, OnlyHandler DEF BuildReport
<1>2. CASE Review(p)
  <2> DEFINE d == [w[p].doc EXCEPT !.status = w[p].status]
             next == IF w[p].status = "accepted" THEN "debit" ELSE "idle"
  <2>1. /\ w[p].doc \in ReportDoc
        /\ w[p].status \in {"accepted", "dispute"}
    BY <1>0, <1>2 DEF Review, WorkerInv
  <2>2. d \in ReportDoc /\ ReportCopy(d)
    BY <2>1 DEF ReportDoc, ReportStatuses, ReportCopy
  <2>3. next \in {"idle", "debit"}
    OBVIOUS
  <2>4. Set(p, UpdateReport(w[p], d, next)) \/ Set(p, Idle)
    BY <1>2 DEF Review
  <2> HIDE DEF d, next
  <2>5. GoodNext(p, UpdateReport(w[p], d, next))
    BY <2>2, <2>3, <1>0, UpdateIsGood
  <2> QED BY <1>2, <2>4, <2>5, IdleIsGood, OnlyHandler DEF Review
<1>3. CASE Change(p)
  <2>1. /\ w[p].pc = "change"
        /\ w[p].doc # NoDoc /\ w[p].doc \in ReportDoc
        /\ w[p].status \in {"none", "pending", "accepted", "dispute"}
    BY <1>0, <1>3 DEF Change, WorkerInv
  <2> DEFINE d == NewStatus(w[p])
             c == [w[p] EXCEPT !.pc = "correct"]
  <2>2. \/ Set(p, Idle)
        \/ Set(p, c)
        \/ w[p].status # "none" /\ Set(p, UpdateReport(w[p], d, "debit"))
    BY <1>3 DEF Change
  <2>3. w[p].status # "none" => d \in ReportDoc /\ ReportCopy(d)
    BY <2>1 DEF NewStatus, ReportDoc, ReportStatuses, ReportCopy
  <2>4. /\ IsWorker(c) /\ c.pc = "correct" /\ c.doc = w[p].doc /\ c.payout = w[p].payout
        /\ c.status = w[p].status /\ c.batch = w[p].batch
    BY <1>0 DEF IsWorker, PCs
  <2> HIDE DEF d, c
  <2>5. WorkerInv(c)
    BY <2>1, <2>4, <1>0 DEF WorkerInv, Marking, HoldsSource
  <2>6. GoodNext(p, c)
    BY <2>4, <2>5, <1>0, PayoutKept DEF Marking
  <2>7. w[p].status # "none" => GoodNext(p, UpdateReport(w[p], d, "debit"))
    BY <2>3, <1>0, UpdateIsGood
  <2> QED BY <1>3, <2>2, <2>6, <2>7, IdleIsGood, OnlyHandler DEF Change
<1>4. CASE Correct(p)
  <2> DEFINE c == [w[p] EXCEPT !.pc = "recount"]
  <2>1. PICK n \in CorrectionAmounts :
          /\ w[p].pc = "correct" /\ Set(p, c)
          /\ corrections' = [corrections EXCEPT ![PeriodOf[w[p].doc.id]] = @ + n]
          /\ UNCHANGED <<reports, reportCache, payouts, payoutCache, reserves, accepted,
                         settled>>
    BY <1>4 DEF Correct
  <2>2. w[p].doc # NoDoc /\ w[p].doc.id \in Reports
    BY <2>1, <1>0 DEF WorkerInv, ReportDoc
  <2>3. corrections' \in [Periods -> Int]
    BY <2>1, <2>2, <1>0, SettlementAssumption
  <2>4. /\ IsWorker(c) /\ c.pc = "recount" /\ c.doc = w[p].doc /\ c.payout = w[p].payout
        /\ c.status = w[p].status /\ c.batch = w[p].batch
    BY <1>0 DEF IsWorker, PCs
  <2> HIDE DEF c
  <2>5. WorkerInv(c)
    BY <2>1, <2>2, <2>4, <1>0 DEF WorkerInv, Marking, HoldsSource
  <2>6. GoodNext(p, c)
    BY <2>4, <2>5, <1>0, PayoutKept DEF Marking
  <2> QED BY <2>1, <2>3, <2>6, <1>0, HandlerStep DEF ReportCopied, PayoutCopied
<1>5. CASE Recount(p)
  <2> DEFINE t == [w[p] EXCEPT !.doc.correction = corrections[PeriodOf[w[p].doc.id]]]
             d == NewStatus(t)
  <2>1. /\ w[p].pc = "recount" /\ Set(p, UpdateReport(t, d, "debit"))
        /\ w[p].doc \in ReportDoc /\ ReportCopy(w[p].doc)
        /\ w[p].status \in {"none", "pending", "accepted", "dispute"}
    BY <1>0, <1>5 DEF Recount, WorkerInv
  <2>2. t.doc = [w[p].doc EXCEPT !.correction = corrections[PeriodOf[w[p].doc.id]]]
    BY <1>0 DEF IsWorker
  <2>3. t.doc \in ReportDoc
    BY <2>1, <2>2, <1>0 DEF ReportDoc
  <2>4. ReportCopy(t.doc)
    BY <2>1, <2>2 DEF ReportDoc, ReportCopy
  <2>5. IsWorker(t)
    <3>1. t = [w[p] EXCEPT !.doc = t.doc]
      BY <2>2, <1>0 DEF IsWorker
    <3> HIDE DEF t
    <3> QED BY <2>3, <3>1, <1>0 DEF IsWorker
  <2>6. t.payout = w[p].payout /\ t.status = w[p].status /\ t.batch = w[p].batch
    BY <1>0 DEF IsWorker
  <2> HIDE DEF t
  <2>7. d \in ReportDoc /\ ReportCopy(d)
    <3>1. CASE t.status = "none"
      BY <3>1, <2>3, <2>4 DEF NewStatus
    <3>2. CASE t.status # "none"
      BY <3>2, <2>1, <2>3, <2>6 DEF NewStatus, ReportDoc, ReportStatuses, ReportCopy
    <3> QED BY <3>1, <3>2
  <2> HIDE DEF d
  <2>8. GoodNext(p, UpdateReport(t, d, "debit"))
    BY <2>5, <2>6, <2>7, <1>0, UpdateIsGood
  <2> QED BY <1>5, <2>1, <2>8, OnlyHandler DEF Recount
<1>6. ASSUME NEW d \in w[p].batch, AutoAccept(p, d)
      PROVE  SettlementInv'
  <2> DEFINE t == [w[p] EXCEPT !.batch = @ \ {d}]
             e == [d EXCEPT !.status = "accepted"]
  <2>1. Set(p, UpdateReport(t, e, "debit"))
    BY <1>6 DEF AutoAccept
  <2>2. IsWorker(t) /\ t.payout = w[p].payout /\ t.batch \subseteq w[p].batch
    BY <1>0 DEF IsWorker
  <2>3. e \in ReportDoc /\ ReportCopy(e)
    BY <1>0 DEF IsWorker, ReportDoc, ReportStatuses, ReportCopy
  <2> HIDE DEF t, e
  <2>4. GoodNext(p, UpdateReport(t, e, "debit"))
    BY <2>2, <2>3, <1>0, UpdateIsGood
  <2> QED BY <1>6, <2>1, <2>4, OnlyHandler DEF AutoAccept
<1> QED BY <1>1, <1>2, <1>3, <1>4, <1>5, <1>6

\* The steps of the handlers of payouts.
LEMMA PayoutStepKeeps ==
    ASSUME SettlementInv, NEW p \in Workers,
           CheckFunds(p) \/ Decide(p) \/ NextSource(p) \/ MarkSource(p)
    PROVE  SettlementInv'
<1> DEFINE s == w[p]
<1>0. /\ WorkerInv(s) /\ IsWorker(s)
      /\ s.doc # NoDoc => ReportCopy(s.doc) /\ s.doc \in ReportDoc
      /\ s.payout # NoDoc => s.payout \in PayoutDoc /\ PayoutCopy(s.payout)
      /\ \A e \in s.batch : e.status = "pending"
      /\ Marking(s) \/ s.pc \in {"fillPayout", "decide"} => payouts[s.payout.id] # NoDoc
      /\ Marking(s) /\ s.status = "paid" => s.payout.id \in settled
  BY DEF SettlementInv, WorkerInv, IsWorker, CopyInv, MarkInv
<1> HIDE DEF s
\* The payout with another status, about to be written.
<1>p. ASSUME NEW t, IsWorker(t), t.pc = "writePayout", t.doc = s.doc, t.batch = s.batch,
             NEW status \in PayoutStatuses, s.payout # NoDoc,
             t.payout = [s.payout EXCEPT !.status = status],
             t.last \in {"idle", "debit"}, t.sources \subseteq s.payout.sources,
             t.sources # {} => t.status \in {"waiting", "paid", "accepted"},
             t.status = "paid" => status = "paid"
      PROVE  GoodNext(p, t)
  <2>1. /\ t.payout \in PayoutDoc /\ t.payout.id = s.payout.id /\ t.payout.status = status
        /\ t.payout.sources = s.payout.sources
    BY <1>p, <1>0 DEF PayoutDoc
  <2>2. PayoutCopy(t.payout)
    BY <2>1, <1>0, <1>p DEF PayoutCopy
  <2>3. t.payout # NoDoc
    BY <2>1, NoDocIsNoDocument
  <2>4. WorkerInv(t)
    BY <2>1, <2>3, <1>0, <1>p DEF WorkerInv, Marking, HoldsSource
  <2> QED BY <2>1, <2>2, <2>4, <1>0, <1>p DEF GoodNext, Marking, s
<1>1. CASE CheckFunds(p)
  <2> DEFINE t(st) == [s EXCEPT !.pc = "writePayout", !.last = "debit", !.status = "waiting",
                                !.sources = s.payout.sources, !.payout.status = st]
  <2>1. /\ s.pc = "funds"
        /\ \/ Set(p, Idle)
           \/ \E st \in {"skip", "pending"} : Set(p, t(st))
        /\ UNCHANGED <<reports, reportCache, payouts, payoutCache, corrections,
                       reserves, balance, accepted, settled>>
    BY <1>1 DEF CheckFunds, s
  <2>2. s.payout # NoDoc /\ s.payout \in PayoutDoc
    BY <2>1, <1>0 DEF WorkerInv
  <2>3. ASSUME NEW st \in {"skip", "pending"}
        PROVE  GoodNext(p, t(st))
    <3>1. /\ IsWorker(t(st)) /\ t(st).pc = "writePayout" /\ t(st).doc = s.doc
          /\ t(st).batch = s.batch /\ t(st).payout = [s.payout EXCEPT !.status = st]
          /\ t(st).last = "debit" /\ t(st).sources = s.payout.sources
          /\ t(st).status = "waiting"
      BY <2>2, <1>0 DEF IsWorker, PayoutDoc, PCs, ReportStatuses
    <3>2. st \in PayoutStatuses
      BY DEF PayoutStatuses
    <3> HIDE DEF t
    <3> QED BY <2>2, <3>1, <3>2, <1>p
  <2> QED BY <2>1, <2>3, IdleIsGood, OnlyHandler
<1>2. CASE Decide(p)
  <2> DEFINE t == [s EXCEPT !.pc = "writePayout", !.last = "idle"]
             u == [s EXCEPT !.pc = "writePayout", !.payout.status = s.status,
                            !.sources = s.payout.sources,
                            !.status = ReportStatusFor(s.status),
                            !.last = IF s.status \in {"paid", "skip"} THEN "debit" ELSE "idle"]
  <2>1. /\ s.pc = "decide"
        /\ \/ Set(p, Idle)
           \/ s.status \in {"none", s.payout.status} /\ Set(p, t)
           \/ s.status \notin {"none", s.payout.status} /\ Set(p, u)
        /\ UNCHANGED <<reports, reportCache, payouts, payoutCache, corrections,
                       reserves, balance, accepted, settled>>
    BY <1>2 DEF Decide, s
  <2>2. /\ s.payout # NoDoc /\ s.payout \in PayoutDoc /\ s.sources = {}
        /\ s.status \in PayoutStatuses \cup {"none"}
        /\ s.payout.status \in PayoutStatuses
    BY <2>1, <1>0 DEF WorkerInv, PayoutDoc
  <2>3. ASSUME s.status \in {"none", s.payout.status}
        PROVE  GoodNext(p, t)
    <3>1. /\ IsWorker(t) /\ t.pc = "writePayout" /\ t.doc = s.doc
          /\ t.batch = s.batch /\ t.payout = s.payout
          /\ t.last = "idle" /\ t.sources = {} /\ t.status = s.status
      BY <2>2, <1>0 DEF IsWorker, PCs
    <3>2. t.payout = [s.payout EXCEPT !.status = s.payout.status]
      BY <2>2, <3>1 DEF PayoutDoc
    <3> HIDE DEF t
    <3> QED BY <2>2, <2>3, <3>1, <3>2, <1>p
  <2>4. ASSUME s.status \notin {"none", s.payout.status}
        PROVE  GoodNext(p, u)
    <3>1. /\ IsWorker(u) /\ u.pc = "writePayout" /\ u.doc = s.doc
          /\ u.batch = s.batch /\ u.payout = [s.payout EXCEPT !.status = s.status]
          /\ u.last \in {"idle", "debit"} /\ u.sources = s.payout.sources
          /\ u.status = ReportStatusFor(s.status)
      BY <2>2, <2>4, <1>0 DEF IsWorker, PayoutDoc, PCs, ReportStatuses, ReportStatusFor
    <3>2. s.status \in PayoutStatuses
      BY <2>2, <2>4
    <3> HIDE DEF u
    <3> QED BY <2>2, <3>1, <3>2, <1>p DEF ReportStatusFor
  <2> QED BY <2>1, <2>3, <2>4, IdleIsGood, OnlyHandler
<1>3. CASE NextSource(p)
  <2>1. /\ s.pc = "source"
        /\ \/ Set(p, Goto(s, s.last))
           \/ \E r \in s.sources :
                 Set(p, GetReport([s EXCEPT !.sources = @ \ {r}], r, "mark"))
        /\ UNCHANGED <<reports, reportCache, payouts, payoutCache, corrections,
                       reserves, balance, accepted, settled>>
    BY <1>3 DEF NextSource, s
  <2>2. /\ s.last \in {"idle", "debit"} /\ s.payout # NoDoc
        /\ s.sources \subseteq s.payout.sources /\ Marking(s) /\ s.sources \subseteq Reports
    BY <2>1, <1>0 DEF WorkerInv, Marking, IsWorker
  <2>3. GoodNext(p, Goto(s, s.last))
    BY <2>2, GotoIsGood DEF s
  <2>4. ASSUME NEW r \in s.sources
        PROVE  GoodNext(p, GetReport([s EXCEPT !.sources = @ \ {r}], r, "mark"))
    <3> DEFINE t == [s EXCEPT !.sources = @ \ {r}]
               u == GetReport(t, r, "mark")
    <3>1. /\ IsWorker(t) /\ t.sources = s.sources \ {r} /\ t.status = s.status
          /\ t.payout = s.payout /\ t.batch = s.batch /\ t.last = s.last
      BY <1>0 DEF IsWorker
    <3>2. r \in Reports /\ reports[r] # NoDoc
      BY <2>2, <1>0 DEF PayoutCopy, SettlementInv, AcceptedInv
    <3>3. "mark" \in PCs
      BY DEF PCs
    <3> HIDE DEF t
    <3>4. /\ IsWorker(u) /\ u.doc # NoDoc /\ u.doc.id = r /\ ReportCopy(u.doc)
          /\ u.pc = "mark" \/ (u.pc = "fill" /\ u.next = "mark")
          /\ u.status = t.status /\ u.payout = t.payout /\ u.batch = t.batch
          /\ u.sources = t.sources /\ u.last = t.last
      BY <3>1, <3>2, <3>3, GetReportFinds
    <3> HIDE DEF u
    <3>5. s.status \in {"waiting", "paid", "accepted"}
      BY <2>2, <1>0 DEF WorkerInv
    <3>6. WorkerInv(u)
      BY <2>2, <3>1, <3>4, <3>5, <1>0 DEF WorkerInv, Marking, HoldsSource
    <3>7. GoodNext(p, u)
      BY <2>2, <3>1, <3>4, <3>6, <1>0, PayoutKept DEF s
    <3> QED BY <3>7 DEF u, t
  <2> QED BY <2>1, <2>3, <2>4, OnlyHandler
<1>4. CASE MarkSource(p)
  <2> DEFINE d == [s.doc EXCEPT
                     !.status = s.status,
                     !.payout = IF s.status = "accepted" THEN NoPayout ELSE s.payout.id]
  <2>1. /\ s.pc = "mark" /\ Set(p, UpdateReport(s, d, "source"))
        /\ UNCHANGED <<reports, reportCache, payouts, payoutCache, corrections,
                       reserves, balance, accepted, settled>>
    BY <1>4 DEF MarkSource, s
  <2>2. /\ Marking(s) /\ HoldsSource(s) /\ s.payout # NoDoc /\ s.payout \in PayoutDoc
        /\ s.doc # NoDoc /\ s.doc \in ReportDoc /\ s.doc.id \in s.payout.sources
        /\ s.status \in {"waiting", "paid", "accepted"} /\ s.payout.id \in Payouts
        /\ payouts[s.payout.id] # NoDoc /\ PayoutCopy(s.payout)
        /\ s.last \in {"idle", "debit"} /\ s.sources \subseteq s.payout.sources
    BY <2>1, <1>0 DEF WorkerInv, Marking, HoldsSource, PayoutDoc
  <2>3. /\ d \in ReportDoc /\ d.id = s.doc.id /\ d.status = s.status
        /\ s.status # "accepted" => d.payout = s.payout.id
    BY <2>2 DEF ReportDoc, ReportStatuses
  <2> HIDE DEF d
  <2>4. ReportCopy(d)
    BY <2>2, <2>3, <1>0 DEF ReportCopy, PayoutCopy
  <2>5. GoodNext(p, UpdateReport(s, d, "source"))
    BY <2>2, <2>3, <2>4, <1>0, UpdateIsGood DEF s
  <2> QED BY <2>1, <2>5, OnlyHandler
<1> QED BY <1>1, <1>2, <1>3, <1>4

-----------------------------------------------------------------------------
(* The theorems.                                                           *)

LEMMA InitHolds == Init => SettlementInv
<1> SUFFICES ASSUME Init
             PROVE  SettlementInv
  OBVIOUS
<1>1. \A p \in Workers : w[p] = Idle
  BY DEF Init
<1>2. Idle.doc = NoDoc /\ Idle.payout = NoDoc /\ Idle.pc = "idle"
  BY DEF Idle
<1>3. ShapeInv
  BY DEF Init, ShapeInv
<1>4. \A p \in Workers : WorkerInv(w[p])
  BY <1>1, IdleIsGood DEF GoodNext
<1>5. FreshInv /\ CopyInv /\ AcceptedInv
  BY <1>1, <1>2 DEF Init, FreshInv, CopyInv, AcceptedInv
<1>6. MarkInv
  BY <1>1, <1>2 DEF MarkInv, Marking
<1> QED BY <1>3, <1>4, <1>5, <1>6 DEF SettlementInv

LEMMA NextKeeps == SettlementInv /\ [Next]_vars => SettlementInv'
<1> SUFFICES ASSUME SettlementInv, [Next]_vars
             PROVE  SettlementInv'
  OBVIOUS
<1>1. CASE UNCHANGED vars
  <2> USE <1>1 DEF vars, SettlementInv
  <2>1. ShapeInv' /\ FreshInv' /\ AcceptedInv'
    BY DEF ShapeInv, FreshInv, AcceptedInv
  <2>2. \A p \in Workers : WorkerInv(w[p])'
    BY DEF WorkerInv, IsWorker, Marking, HoldsSource
  <2>3. CopyInv'
    BY DEF CopyInv, ReportCopy, PayoutCopy
  <2>4. MarkInv'
    BY DEF MarkInv, Marking
  <2> QED BY <2>1, <2>2, <2>3, <2>4
<1>2. ASSUME NEW p \in Workers, Request(p)
      PROVE  SettlementInv'
  BY <1>2, RequestKeeps
<1>3. ASSUME NEW p \in Workers, Step(p)
      PROVE  SettlementInv'
  BY <1>3, WriteReportKeeps, WritePayoutKeeps, RepositoryStepKeeps, ReportStepKeeps,
       PayoutStepKeeps DEF Step
<1> QED BY <1>1, <1>2, <1>3 DEF Next

\* Every reachable state satisfies the invariant.
THEOREM InvariantHolds == Spec => []SettlementInv
BY InitHolds, NextKeeps, PTL DEF Spec

\* A report that waits for a payout or is paid names a stored payout that lists
\* it (royaltyReportSetPayoutDocumentId, royaltyReportSetPaid), with any number of
\* handlers, stale copies in Redis and failing calls.
THEOREM ReportsAreBound == Spec => []BoundToItsPayout
<1>1. SettlementInv => BoundToItsPayout
  BY DEF SettlementInv, ShapeInv, CopyInv, ReportCopy, BoundToItsPayout, StoredReports,
       StoredPayouts
<1> QED BY <1>1, InvariantHolds, PTL

\* A report shows as paid only after a payout that lists it was stored as paid
\* (UpdatePayoutDocument writes the payout before the reports).
THEOREM ReportsPaidAfterPayout == Spec => []PaidAfterItsPayout
<1>1. SettlementInv => PaidAfterItsPayout
  BY DEF SettlementInv, CopyInv, ReportCopy, PaidAfterItsPayout, StoredReports
<1> QED BY <1>1, InvariantHolds, PTL

\* No payout lists a report that was never accepted (getPayoutDocumentSources).
THEOREM PayoutsOfAcceptedReports == Spec => []PaidOutOnlyIfAccepted
<1>1. SettlementInv => PaidOutOnlyIfAccepted
  BY DEF SettlementInv, CopyInv, PayoutCopy, PaidOutOnlyIfAccepted, StoredPayouts
<1> QED BY <1>1, InvariantHolds, PTL

-----------------------------------------------------------------------------
(* One handler at a time. Then two reports are of one period only if the   *)
(* look for the first of them failed, whatever other calls fail; if none   *)
(* ends its handler, the copies agree with what is stored, a report names  *)
(* the payout that is open for it, and a paid payout is left alone.        *)

OneHandler == \E p : Workers = {p}

\* The report a handler holds is the only one of its period, if the looks for it worked.
OnlyOfPeriod(s) ==
    /\ s.doc # NoDoc =>
         \/ PeriodOf[s.doc.id] \in blind
         \/ \A r \in Reports : reports[r] # NoDoc /\ PeriodOf[r] = PeriodOf[s.doc.id]
                                  => r = s.doc.id
    /\ \A d \in s.batch : reports[d.id] # NoDoc

PeriodInv == OneReportPerPeriod /\ \A p \in Workers : OnlyOfPeriod(w[p])

\* The handler has nothing to do with a payout.
ReportPCs == {"build", "review", "change", "correct", "recount", "accept"}
BalancePCs == {"idle", "debit", "credit", "store", "accept"}

\* The report is not accepted yet.
Undecided(d) == d.status \in {"pending", "dispute"}

\* d is undecided only if the report the handler holds is, and is that report.
StillUndecided(s, d) ==
    (s.pc = "recount" => Undecided(s.doc)) /\ Undecided(d) =>
        s.doc # NoDoc /\ Undecided(s.doc) /\ d.id = s.doc.id

\* d is the handler's own report, which is not accepted yet, or one of its batch as it was
\* found.
FromUndecided(s, d) ==
    \/ /\ s.pc # "accept" /\ s.doc # NoDoc /\ d.id = s.doc.id
       /\ Undecided(s.doc) \/ s.pc \in {"build", "correct", "recount"}
    \/ /\ s.pc = "accept" /\ ~Undecided(d)
       /\ \E e \in s.batch : d.id = e.id /\ d.correction = e.correction /\ d.reserve = e.reserve

\* A step of the handler of a report: it goes on with its report, with one of its batch, or
\* returns.
ReportStep(s, t) ==
    \/ t = Idle
    \/ /\ t.pc \in {"correct", "recount"} \/ (t.pc = "write" /\ t.next \in {"idle", "debit"})
       /\ t.payout = s.payout /\ t.batch \subseteq s.batch
       /\ t.doc \in ReportDoc
       /\ \E d \in s.batch \cup {s.doc} :
             d \in ReportDoc /\ t.doc.id = d.id /\ t.doc.payout = d.payout
       /\ StillUndecided(s, t.doc) /\ FromUndecided(s, t.doc)
       /\ t.pc \in {"correct", "recount"} => t.doc = s.doc
       /\ t.pc = "correct" => Undecided(s.doc)
       /\ t.pc = "recount" => s.pc = "correct"

\* A handler has called royaltyReportRepository.Update.
LEMMA UpdateIs ==
    ASSUME NEW s, IsWorker(s), NEW d \in ReportDoc, NEW next \in PCs
    PROVE  \E t : /\ t = UpdateReport(s, d, next)
                  /\ t.pc = "write" /\ t.next = next /\ t.doc = d
                  /\ t.payout = s.payout /\ t.status = s.status /\ t.batch = s.batch
                  /\ t.sources = s.sources /\ t.last = s.last
<1>1. PICK t : t = UpdateReport(s, d, next)
  OBVIOUS
<1>2. /\ t.pc = "write" /\ t.next = next /\ t.doc = d
      /\ t.payout = s.payout /\ t.status = s.status /\ t.batch = s.batch
      /\ t.sources = s.sources /\ t.last = s.last
  BY <1>1 DEF UpdateReport, IsWorker
<1> QED BY <1>1, <1>2

LEMMA IdleIs ==
    /\ Idle.pc = "idle" /\ Idle.doc = NoDoc /\ Idle.payout = NoDoc /\ Idle.batch = {}
    /\ Idle.sources = {} /\ IsWorker(Idle)
BY DEF Idle, IsWorker, PCs

LEMMA ReportHandlerIs ==
    ASSUME SettlementInv, NEW p \in Workers,
           \/ BuildReport(p) \/ Review(p) \/ Change(p) \/ Correct(p) \/ Recount(p)
           \/ \E d \in w[p].batch : AutoAccept(p, d)
    PROVE  /\ \E t : Set(p, t) /\ ReportStep(w[p], t)
           /\ w[p].pc \in ReportPCs
           /\ UNCHANGED <<reports, reportCache, payouts, payoutCache>>
<1>1. PICK s : s = w[p]
  OBVIOUS
<1>2. /\ WorkerInv(s) /\ IsWorker(s) /\ s.batch \subseteq ReportDoc
      /\ s.doc # NoDoc => s.doc \in ReportDoc
  BY <1>1 DEF SettlementInv, WorkerInv, IsWorker
<1>3. s.pc \in {"build", "review", "change", "correct", "recount"} => s.doc \in ReportDoc
  BY <1>2 DEF WorkerInv
<1>4. s.pc \in ReportPCs /\ UNCHANGED <<reports, reportCache, payouts, payoutCache>>
  BY <1>1 DEF BuildReport, Review, Change, Correct, Recount, AutoAccept, ReportPCs
<1> SUFFICES \E t : Set(p, t) /\ ReportStep(s, t)
  BY <1>1, <1>4
\* Update is called with a document that differs only in its status and amounts.
<1>u. ASSUME NEW z, IsWorker(z), z.payout = s.payout, z.batch \subseteq s.batch,
             NEW d \in ReportDoc, NEW next \in {"idle", "debit"},
             Set(p, UpdateReport(z, d, next)),
             NEW e \in s.batch \cup {s.doc}, e \in ReportDoc,
             d.id = e.id, d.payout = e.payout, StillUndecided(s, d), FromUndecided(s, d)
      PROVE  \E t : Set(p, t) /\ ReportStep(s, t)
  <2>1. next \in PCs
    BY DEF PCs
  <2>2. PICK t : /\ t = UpdateReport(z, d, next)
                 /\ t.pc = "write" /\ t.next = next /\ t.doc = d
                 /\ t.payout = z.payout /\ t.batch = z.batch
    BY <1>u, <2>1, UpdateIs
  <2> QED BY <1>u, <2>2 DEF ReportStep
<1>d. s.doc \in s.batch \cup {s.doc} /\ s.batch \subseteq s.batch
  OBVIOUS
<1>n. s.doc \in ReportDoc => s.doc # NoDoc
  BY NoDocIsNoDocument
<1>i. ASSUME Set(p, Idle) PROVE \E t : Set(p, t) /\ ReportStep(s, t)
  BY <1>i DEF ReportStep
<1>5. CASE BuildReport(p)
  <2> DEFINE t == PeriodOf[s.doc.id]
  <2>1. PICK d : d = [s.doc EXCEPT !.correction = corrections[t], !.reserve = reserves[t]]
    OBVIOUS
  <2>2. s.doc \in ReportDoc /\ (Set(p, Idle) \/ Set(p, UpdateReport(s, d, "idle")))
    BY <1>1, <1>3, <1>5, <2>1 DEF BuildReport
  <2>3. corrections[t] \in Int /\ reserves[t] \in Int
    BY <2>2, SettlementAssumption DEF SettlementInv, ShapeInv, ReportDoc
  <2>4. d \in ReportDoc /\ d.id = s.doc.id /\ d.payout = s.doc.payout
    BY <2>1, <2>2, <2>3 DEF ReportDoc
  <2>5. StillUndecided(s, d) /\ FromUndecided(s, d)
    <3>1. s.pc = "build"
      BY <1>1, <1>5 DEF BuildReport
    <3> QED BY <1>n, <2>1, <2>2, <2>4, <3>1
            DEF StillUndecided, FromUndecided, Undecided, ReportDoc
  <2> QED BY <1>2, <1>d, <1>u, <1>i, <2>2, <2>4, <2>5
<1>6. CASE Review(p)
  <2>1. PICK d : d = [s.doc EXCEPT !.status = s.status]
    OBVIOUS
  <2>2. s.pc = "review" /\ s.doc \in ReportDoc /\ s.status \in ReportStatuses
    BY <1>1, <1>2, <1>3, <1>6 DEF Review, WorkerInv, ReportStatuses
  <2>3. \/ Set(p, Idle)
        \/ /\ s.doc.status = "pending"
           /\ \E next \in {"idle", "debit"} : Set(p, UpdateReport(s, d, next))
    BY <1>1, <1>6, <2>1 DEF Review
  <2>4. d \in ReportDoc /\ d.id = s.doc.id /\ d.payout = s.doc.payout
    BY <2>1, <2>2 DEF ReportDoc
  <2>5. s.doc.status = "pending" => StillUndecided(s, d) /\ FromUndecided(s, d)
    BY <1>n, <2>2, <2>4 DEF StillUndecided, FromUndecided, Undecided
  <2> QED BY <1>2, <1>d, <1>u, <1>i, <2>2, <2>3, <2>4, <2>5
<1>7. CASE Change(p)
  <2>1. PICK d : d = NewStatus(s)
    OBVIOUS
  <2>2. PICK c : c = [s EXCEPT !.pc = "correct"]
    OBVIOUS
  <2>3. s.pc = "change" /\ s.doc \in ReportDoc /\ s.status \in ReportStatuses \cup {"none"}
    BY <1>1, <1>2, <1>3, <1>7 DEF Change, WorkerInv, ReportStatuses
  <2>4. \/ Set(p, Idle)
        \/ Set(p, c) /\ s.doc.status = "dispute"
        \/ /\ Set(p, UpdateReport(s, d, "debit"))
           /\ s.status # "none" /\ ChangesAvailable(s.doc.status, s.status)
    BY <1>1, <1>7, <2>1, <2>2 DEF Change
  <2>5. d \in ReportDoc /\ d.id = s.doc.id /\ d.payout = s.doc.payout
    BY <2>1, <2>3 DEF ReportDoc, NewStatus
  <2>6. c.pc = "correct" /\ c.payout = s.payout /\ c.batch = s.batch /\ c.doc = s.doc
    BY <1>2, <2>2 DEF IsWorker
  <2>7. s.doc.status = "dispute" => ReportStep(s, c)
    BY <1>n, <2>3, <2>6 DEF ReportStep, StillUndecided, FromUndecided, Undecided
  <2>8. ChangesAvailable(s.doc.status, s.status) => StillUndecided(s, d) /\ FromUndecided(s, d)
    BY <1>n, <2>3, <2>5 DEF ChangesAvailable, StillUndecided, FromUndecided, Undecided
  <2> QED BY <1>2, <1>d, <1>u, <1>i, <2>3, <2>4, <2>5, <2>7, <2>8
<1>8. CASE Correct(p)
  <2>1. PICK c : c = [s EXCEPT !.pc = "recount"]
    OBVIOUS
  <2>2. Set(p, c) /\ s.doc \in ReportDoc
    BY <1>1, <1>3, <1>8, <2>1 DEF Correct
  <2>3. c.pc = "recount" /\ c.payout = s.payout /\ c.batch = s.batch /\ c.doc = s.doc
    BY <1>2, <2>1 DEF IsWorker
  <2> QED BY <1>1, <1>8, <1>d, <1>n, <2>2, <2>3 
         DEF Correct, ReportStep, StillUndecided, FromUndecided
<1>9. CASE Recount(p)
  <2>1. PICK e : e = [s.doc EXCEPT !.correction = corrections[PeriodOf[s.doc.id]]]
    OBVIOUS
  <2>2. s.doc \in ReportDoc /\ s.status \in ReportStatuses \cup {"none"}
    BY <1>1, <1>2, <1>3, <1>9 DEF Recount, WorkerInv, ReportStatuses
  <2>3. corrections[PeriodOf[s.doc.id]] \in Int
    BY <2>2, SettlementAssumption DEF SettlementInv, ShapeInv, ReportDoc
  <2>4. e \in ReportDoc /\ e.id = s.doc.id /\ e.payout = s.doc.payout
    BY <2>1, <2>2, <2>3 DEF ReportDoc
  <2>5. PICK z : z = [s EXCEPT !.doc = e]
    OBVIOUS
  <2>6. /\ IsWorker(z) /\ z.doc = e /\ z.status = s.status /\ z.payout = s.payout
        /\ z.batch = s.batch
    BY <1>2, <2>4, <2>5 DEF IsWorker
  <2>7. PICK d : d = NewStatus(z)
    OBVIOUS
  <2>8. d \in ReportDoc /\ d.id = s.doc.id /\ d.payout = s.doc.payout
    BY <2>2, <2>4, <2>6, <2>7 DEF ReportDoc, NewStatus
  <2>9. [s EXCEPT !.doc.correction = corrections[PeriodOf[s.doc.id]]] = z
    BY <1>2, <2>1, <2>5 DEF IsWorker
  <2>10. Set(p, UpdateReport(z, d, "debit"))
    BY <1>1, <1>9, <2>7, <2>9 DEF Recount
  <2>11. StillUndecided(s, d) /\ FromUndecided(s, d)
    <3>1. s.pc = "recount"
      BY <1>1, <1>9 DEF Recount
    <3> QED BY <1>n, <2>2, <2>8, <3>1 DEF StillUndecided, FromUndecided
  <2> QED BY <1>d, <1>u, <2>2, <2>6, <2>8, <2>10, <2>11
<1>10. ASSUME NEW d \in s.batch, AutoAccept(p, d)
       PROVE  \E t : Set(p, t) /\ ReportStep(s, t)
  <2>1. PICK z : z = [s EXCEPT !.batch = @ \ {d}]
    OBVIOUS
  <2>2. PICK e : e = [d EXCEPT !.status = "accepted"]
    OBVIOUS
  <2>3. Set(p, UpdateReport(z, e, "debit"))
    BY <1>1, <1>10, <2>1, <2>2 DEF AutoAccept
  <2>4. IsWorker(z) /\ z.payout = s.payout /\ z.batch \subseteq s.batch
    BY <1>2, <2>1 DEF IsWorker
  <2>5. /\ d \in ReportDoc /\ e \in ReportDoc /\ e.id = d.id /\ e.payout = d.payout
        /\ s.pc = "accept"
    BY <1>1, <1>2, <1>10, <2>2 DEF AutoAccept, ReportDoc, ReportStatuses
  <2>6. StillUndecided(s, e) /\ FromUndecided(s, e)
    BY <2>2, <2>5 DEF StillUndecided, FromUndecided, Undecided, ReportDoc
  <2> QED BY <1>u, <2>3, <2>4, <2>5, <2>6
<1> QED BY <1>1, <1>5, <1>6, <1>7, <1>8, <1>9, <1>10

\* A request that loads a report: the handler gets a copy of it and nothing else.
LEMMA OpenReportIs ==
    ASSUME SettlementInv, NEW p \in Workers, NEW r \in Reports,
           \/ \E verdict \in {"accepted", "dispute"} : MerchantReviewRoyaltyReport(p, r, verdict)
           \/ \E status \in {"none", "pending", "accepted", "dispute"}, correct \in BOOLEAN :
                 ChangeRoyaltyReport(p, r, status, correct)
    PROVE  /\ \E t : /\ Set(p, t) /\ t.doc # NoDoc /\ t.doc.id = r /\ t.payout = NoDoc
                     /\ t.batch = {} /\ t.doc \in {reports[r], reportCache[r]}
                     /\ \/ t.pc \in {"review", "change"}
                        \/ t.pc = "fill" /\ t.next \in {"review", "change"}
           /\ reports[r] # NoDoc /\ w[p].pc = "idle"
           /\ UNCHANGED <<reports, reportCache, payouts, payoutCache>>
<1>1. PICK z, next :
        /\ IsWorker(z) /\ z.payout = NoDoc /\ z.batch = {} /\ next \in {"review", "change"}
        /\ Set(p, GetReport(z, r, next))
  <2>1. ASSUME NEW verdict \in {"accepted", "dispute"}, MerchantReviewRoyaltyReport(p, r, verdict)
        PROVE  \E z, next :
                 /\ IsWorker(z) /\ z.payout = NoDoc /\ z.batch = {}
                 /\ next \in {"review", "change"} /\ Set(p, GetReport(z, r, next))
    <3>1. PICK z : z = [Idle EXCEPT !.status = verdict]
      OBVIOUS
    <3>2. IsWorker(z) /\ z.payout = NoDoc /\ z.batch = {}
      BY <3>1, IdleIs DEF IsWorker, ReportStatuses
    <3>3. Set(p, GetReport(z, r, "review"))
      BY <2>1, <3>1 DEF MerchantReviewRoyaltyReport
    <3> QED BY <3>2, <3>3
  <2>2. ASSUME NEW status \in {"none", "pending", "accepted", "dispute"}, NEW correct \in BOOLEAN,
               ChangeRoyaltyReport(p, r, status, correct)
        PROVE  \E z, next :
                 /\ IsWorker(z) /\ z.payout = NoDoc /\ z.batch = {}
                 /\ next \in {"review", "change"} /\ Set(p, GetReport(z, r, next))
    <3>1. PICK z : z = [Idle EXCEPT !.status = status, !.correct = correct]
      OBVIOUS
    <3>2. IsWorker(z) /\ z.payout = NoDoc /\ z.batch = {}
      BY <3>1, IdleIs DEF IsWorker, ReportStatuses
    <3>3. Set(p, GetReport(z, r, "change"))
      BY <2>2, <3>1 DEF ChangeRoyaltyReport
    <3> QED BY <3>2, <3>3
  <2> QED BY <2>1, <2>2
<1>2. /\ reports[r] # NoDoc /\ w[p].pc = "idle" /\ next \in PCs
      /\ UNCHANGED <<reports, reportCache, payouts, payoutCache>>
  BY <1>1 DEF MerchantReviewRoyaltyReport, ChangeRoyaltyReport, PCs
<1>3. PICK t : t = GetReport(z, r, next)
  OBVIOUS
<1>4. /\ t.doc # NoDoc /\ t.doc.id = r /\ t.payout = NoDoc /\ t.batch = {}
      /\ t.pc = next \/ (t.pc = "fill" /\ t.next = next)
  BY <1>1, <1>2, <1>3, GetReportFinds
<1>5. t.doc \in {reports[r], reportCache[r]}
  BY <1>1, <1>3 DEF GetReport, IsWorker
<1> QED BY <1>1, <1>2, <1>3, <1>4, <1>5

\* A request that goes on with updateMerchantBalance at once.
AsksBalance(p) == GetMerchantBalance(p) \/ \E t \in Periods : CreateAccountingEntry(p, t)

\* The calls of updateMerchantBalance: the handler keeps the rest of its batch.
LEMMA BalanceIs ==
    ASSUME SettlementInv, NEW p \in Workers,
           DebitQuery(p) \/ CreditQuery(p) \/ StoreBalance(p) \/ AsksBalance(p)
    PROVE  /\ \E t : /\ Set(p, t) /\ t.pc \in BalancePCs /\ t.batch \subseteq w[p].batch
                     /\ t.doc \in {NoDoc, w[p].doc} /\ t.payout \in {NoDoc, w[p].payout}
           /\ w[p].pc \in BalancePCs
           /\ UNCHANGED <<reports, reportCache, payouts, payoutCache>>
<1>1. PICK s : s = w[p]
  OBVIOUS
<1>2. IsWorker(s)
  BY <1>1 DEF SettlementInv, WorkerInv
<1>3. PICK t : /\ Set(p, t)
               /\ \/ t = [s EXCEPT !.pc = "credit", !.debit = DebitAmount]
                  \/ t = [s EXCEPT !.pc = "store", !.credit = CreditAmount]
                  \/ t = Idle \/ t = [s EXCEPT !.pc = "accept"]
                  \/ t = [Idle EXCEPT !.pc = "debit"]
  BY <1>1 DEF DebitQuery, CreditQuery, StoreBalance, AsksBalance, GetMerchantBalance,
              CreateAccountingEntry
<1>4. /\ t.pc \in BalancePCs /\ t.batch \subseteq s.batch
      /\ t.doc \in {NoDoc, s.doc} /\ t.payout \in {NoDoc, s.payout}
  BY <1>2, <1>3, IdleIs DEF IsWorker, BalancePCs
<1> QED BY <1>1, <1>3, <1>4
        DEF DebitQuery, CreditQuery, StoreBalance, AsksBalance, GetMerchantBalance,
            CreateAccountingEntry, BalancePCs

\* The handler has done its call and goes on at pc.
LEMMA AtIs ==
    ASSUME SettlementInv, NEW p \in Workers, NEW pc \in PCs
    PROVE  \E t : /\ t = [w[p] EXCEPT !.pc = pc] /\ t.pc = pc /\ t.next = w[p].next
                  /\ t.doc = w[p].doc /\ t.payout = w[p].payout /\ t.status = w[p].status
                  /\ t.batch = w[p].batch /\ t.sources = w[p].sources /\ t.last = w[p].last
<1>1. PICK t : t = [w[p] EXCEPT !.pc = pc]
  OBVIOUS
<1>2. IsWorker(w[p])
  BY DEF SettlementInv, WorkerInv
<1>3. /\ t.pc = pc /\ t.next = w[p].next
      /\ t.doc = w[p].doc /\ t.payout = w[p].payout /\ t.status = w[p].status
      /\ t.batch = w[p].batch /\ t.sources = w[p].sources /\ t.last = w[p].last
  BY <1>1, <1>2 DEF IsWorker
<1> QED BY <1>1, <1>3

\* The one handler has moved to t.
LEMMA MovedTo ==
    ASSUME SettlementInv, NEW p \in Workers, NEW t, Set(p, t)
    PROVE  w'[p] = t
BY DEF Set, SettlementInv, ShapeInv

\* The handlers of payouts.
LEMMA CreatePayoutIs ==
    ASSUME SettlementInv, NEW p \in Workers, CreatePayoutDocument(p)
    PROVE  /\ \E t : /\ Set(p, t) /\ t.pc = "funds" /\ t.doc = NoDoc /\ t.batch = {}
                     /\ t.payout # NoDoc /\ payouts[t.payout.id] = NoDoc
                     /\ \A r \in t.payout.sources :
                           r \in Reports /\ reports[r] # NoDoc /\ reports[r].payout = NoPayout
           /\ w[p].pc = "idle"
           /\ UNCHANGED <<reports, reportCache, payouts, payoutCache>>
<1>1. PICK x, d :
        /\ x \in FreshPayouts
        /\ d = [id |-> x, status |-> "pending", sources |-> {e.id : e \in PayoutSources},
                fees |-> Royalty * Cardinality(PayoutSources)]
        /\ Set(p, [Idle EXCEPT !.pc = "funds", !.amount = PayoutAmount, !.payout = d])
  BY DEF CreatePayoutDocument
<1>2. x \in Payouts /\ payouts[x] = NoDoc
  BY <1>1 DEF FreshPayouts
<1>3. d.id = x /\ d.sources = {e.id : e \in PayoutSources}
  BY <1>1
<1>4. \A r \in d.sources : r \in Reports /\ reports[r] # NoDoc /\ reports[r].payout = NoPayout
  BY <1>3 DEF PayoutSources, NonPayoutReports, StoredReports, SettlementInv, ShapeInv
<1>5. PICK amount : amount = PayoutAmount
  OBVIOUS
<1>6. PICK t : t = [Idle EXCEPT !.pc = "funds", !.amount = amount, !.payout = d]
  OBVIOUS
<1>7. t.pc = "funds" /\ t.doc = NoDoc /\ t.batch = {} /\ t.payout = d
  BY <1>6, IdleIs DEF IsWorker
<1>8. d # NoDoc
  <2>1. PICK S, n : S = {e.id : e \in PayoutSources} /\ n = Royalty * Cardinality(PayoutSources)
    OBVIOUS
  <2>2. S \subseteq Reports /\ n \in Int
    BY <1>3, <1>4, <2>1, FeesTyped
  <2>3. d \in PayoutDoc
    BY <1>1, <1>2, <2>1, <2>2 DEF PayoutDoc, PayoutStatuses
  <2> QED BY <2>3, NoDocIsNoDocument
<1>9. Set(p, t)
  BY <1>1, <1>5, <1>6
<1>10. w[p].pc = "idle" /\ UNCHANGED <<reports, reportCache, payouts, payoutCache>>
  BY DEF CreatePayoutDocument
<1> QED BY <1>2, <1>3, <1>4, <1>7, <1>8, <1>9, <1>10

LEMMA CheckFundsIs ==
    ASSUME SettlementInv, NEW p \in Workers, CheckFunds(p)
    PROVE  /\ \E t : /\ Set(p, t)
                     /\ \/ t = Idle
                        \/ /\ t.pc = "writePayout" /\ t.status = "waiting"
                           /\ t.sources = w[p].payout.sources
                           /\ t.payout \in PayoutDoc /\ t.payout.id = w[p].payout.id
                           /\ t.payout.sources = w[p].payout.sources
                           /\ t.payout.status \in {"pending", "skip"}
                           /\ t.doc = w[p].doc /\ t.batch = w[p].batch
           /\ w[p].pc = "funds"
           /\ UNCHANGED <<reports, reportCache, payouts, payoutCache>>
<1>1. PICK s : s = w[p]
  OBVIOUS
<1>2. s.pc = "funds" /\ UNCHANGED <<reports, reportCache, payouts, payoutCache>>
  BY <1>1 DEF CheckFunds
<1>3. IsWorker(s) /\ s.payout \in PayoutDoc
  BY <1>1, <1>2 DEF SettlementInv, WorkerInv
<1>4. ASSUME NEW st \in {"skip", "pending"},
             Set(p, [s EXCEPT !.pc = "writePayout", !.last = "debit", !.status = "waiting",
                              !.sources = s.payout.sources, !.payout.status = st])
      PROVE  \E t : /\ Set(p, t)
                    /\ t.pc = "writePayout" /\ t.status = "waiting"
                    /\ t.sources = s.payout.sources
                    /\ t.payout \in PayoutDoc /\ t.payout.id = s.payout.id
                    /\ t.payout.sources = s.payout.sources
                    /\ t.payout.status \in {"pending", "skip"}
                    /\ t.doc = s.doc /\ t.batch = s.batch
  <2>1. PICK d : d = [s.payout EXCEPT !.status = st]
    OBVIOUS
  <2>2. /\ d \in PayoutDoc /\ d.id = s.payout.id /\ d.sources = s.payout.sources
        /\ d.status \in {"pending", "skip"}
    BY <1>3, <2>1 DEF PayoutDoc, PayoutStatuses
  <2>3. PICK t : t = [s EXCEPT !.pc = "writePayout", !.last = "debit", !.status = "waiting",
                               !.sources = s.payout.sources, !.payout = d]
    OBVIOUS
  <2>4. /\ t.pc = "writePayout" /\ t.status = "waiting" /\ t.sources = s.payout.sources
        /\ t.payout = d /\ t.doc = s.doc /\ t.batch = s.batch
    BY <1>3, <2>3 DEF IsWorker
  <2>5. t = [s EXCEPT !.pc = "writePayout", !.last = "debit", !.status = "waiting",
                      !.sources = s.payout.sources, !.payout.status = st]
    BY <1>3, <2>1, <2>3 DEF IsWorker
  <2> QED BY <1>4, <2>2, <2>4, <2>5
<1>5. \/ Set(p, Idle)
      \/ \E st \in {"skip", "pending"} :
            Set(p, [s EXCEPT !.pc = "writePayout", !.last = "debit", !.status = "waiting",
                             !.sources = s.payout.sources, !.payout.status = st])
  BY <1>1 DEF CheckFunds
<1> QED BY <1>1, <1>2, <1>4, <1>5

LEMMA UpdatePayoutIs ==
    ASSUME SettlementInv, NEW p \in Workers, NEW x \in Payouts,
           NEW status \in PayoutStatuses \cup {"none"}, UpdatePayoutDocument(p, x, status)
    PROVE  /\ \E t : /\ Set(p, t) /\ t.pc \in {"fillPayout", "decide"}
                     /\ t.payout # NoDoc /\ t.payout.id = x
                     /\ t.payout \in {payouts[x], payoutCache[x]}
                     /\ t.doc = NoDoc /\ t.batch = {}
           /\ payouts[x] # NoDoc /\ w[p].pc = "idle"
           /\ UNCHANGED <<reports, reportCache, payouts, payoutCache>>
<1>1. PICK z : z = [Idle EXCEPT !.status = status]
  OBVIOUS
<1>2. IsWorker(z) /\ z.doc = NoDoc /\ z.batch = {}
  BY <1>1, IdleIs DEF IsWorker
<1>3. PICK t : t = GetPayout(z, x, "decide")
  OBVIOUS
<1>4. /\ Set(p, t) /\ payouts[x] # NoDoc /\ w[p].pc = "idle"
      /\ UNCHANGED <<reports, reportCache, payouts, payoutCache>>
  BY <1>1, <1>3 DEF UpdatePayoutDocument
<1>5. /\ payouts[x].id = x
      /\ payoutCache[x] # NoDoc => payoutCache[x].id = x
  BY <1>4 DEF SettlementInv, ShapeInv
<1>6. /\ t.pc \in {"fillPayout", "decide"} /\ t.doc = NoDoc /\ t.batch = {}
      /\ t.payout = IF payoutCache[x] # NoDoc THEN payoutCache[x] ELSE payouts[x]
  <2>1. CASE payoutCache[x] # NoDoc
    <3>1. t = [z EXCEPT !.payout = payoutCache[x], !.pc = "decide"]
      BY <1>3, <2>1 DEF GetPayout
    <3> QED BY <1>2, <2>1, <3>1 DEF IsWorker
  <2>2. CASE payoutCache[x] = NoDoc
    <3>1. t = [z EXCEPT !.payout = payouts[x], !.pc = "fillPayout", !.next = "decide"]
      BY <1>3, <2>2 DEF GetPayout
    <3> QED BY <1>2, <2>2, <3>1 DEF IsWorker
  <2> QED BY <2>1, <2>2
<1> QED BY <1>4, <1>5, <1>6

\* What Decide writes: the payout as it is, or a pending one with its new status.
LEMMA DecideIs ==
    ASSUME SettlementInv, NEW p \in Workers, Decide(p)
    PROVE  /\ \E t : /\ Set(p, t)
                     /\ \/ t = Idle
                        \/ /\ t.pc = "writePayout" /\ t.sources = {} /\ t.payout = w[p].payout
                           /\ t.doc = w[p].doc /\ t.batch = w[p].batch
                        \/ /\ t.pc = "writePayout" /\ t.sources = w[p].payout.sources
                           /\ w[p].payout.status = "pending"
                           /\ \/ t.payout.status = "paid" /\ t.status = "paid"
                              \/ ~Active(t.payout) /\ t.status = "accepted"
                           /\ t.payout \in PayoutDoc /\ t.payout.id = w[p].payout.id
                           /\ t.payout.sources = w[p].payout.sources
                           /\ t.doc = w[p].doc /\ t.batch = w[p].batch
           /\ w[p].pc = "decide"
           /\ UNCHANGED <<reports, reportCache, payouts, payoutCache>>
<1>1. PICK s : s = w[p]
  OBVIOUS
<1>2. s.pc = "decide" /\ UNCHANGED <<reports, reportCache, payouts, payoutCache>>
  BY <1>1 DEF Decide
<1>3. /\ IsWorker(s) /\ s.payout \in PayoutDoc /\ s.sources = {}
      /\ s.status \in PayoutStatuses \cup {"none"}
  BY <1>1, <1>2 DEF SettlementInv, WorkerInv
<1>4. PICK t : t = [s EXCEPT !.pc = "writePayout", !.last = "idle"]
  OBVIOUS
<1>5. /\ t.pc = "writePayout" /\ t.sources = {} /\ t.payout = s.payout
      /\ t.doc = s.doc /\ t.batch = s.batch
  BY <1>3, <1>4 DEF IsWorker
<1>6. PICK d : d = [s.payout EXCEPT !.status = s.status]
  OBVIOUS
<1>7. PICK u : u = [s EXCEPT !.pc = "writePayout", !.payout = d,
                             !.sources = s.payout.sources,
                             !.status = ReportStatusFor(s.status),
                             !.last = IF s.status \in {"paid", "skip"} THEN "debit" ELSE "idle"]
  OBVIOUS
<1>8. u = [s EXCEPT !.pc = "writePayout", !.payout.status = s.status,
                    !.sources = s.payout.sources,
                    !.status = ReportStatusFor(s.status),
                    !.last = IF s.status \in {"paid", "skip"} THEN "debit" ELSE "idle"]
  BY <1>3, <1>6, <1>7 DEF IsWorker
<1>9. /\ u.pc = "writePayout" /\ u.sources = s.payout.sources /\ u.payout = d
      /\ u.status = ReportStatusFor(s.status) /\ u.doc = s.doc /\ u.batch = s.batch
  BY <1>3, <1>7 DEF IsWorker
<1>10. \/ Set(p, Idle) \/ Set(p, t)
       \/ /\ s.status \notin {"none", s.payout.status} /\ s.payout.status = "pending"
          /\ Set(p, u)
  BY <1>1, <1>4, <1>8 DEF Decide
<1>11. ASSUME s.status \notin {"none", s.payout.status}, s.payout.status = "pending"
       PROVE  /\ d \in PayoutDoc /\ d.id = s.payout.id /\ d.sources = s.payout.sources
              /\ d.status = s.status /\ s.status \in {"paid", "failed", "canceled", "skip"}
  BY <1>3, <1>6, <1>11 DEF PayoutDoc, PayoutStatuses
<1>12. ASSUME s.status \notin {"none", s.payout.status}, s.payout.status = "pending"
       PROVE  /\ u.payout \in PayoutDoc /\ u.payout.id = s.payout.id
              /\ u.payout.sources = s.payout.sources
              /\ \/ u.payout.status = "paid" /\ u.status = "paid"
                 \/ ~Active(u.payout) /\ u.status = "accepted"
  BY <1>9, <1>11, <1>12 DEF Active, ReportStatusFor
<1> QED BY <1>1, <1>2, <1>5, <1>9, <1>10, <1>12

\* The next report of a payout is loaded, or there is none left.
LEMMA NextSourceIs ==
    ASSUME SettlementInv, NEW p \in Workers, NextSource(p)
    PROVE  /\ \E t : /\ Set(p, t)
                     /\ \/ /\ w[p].sources = {} /\ t.pc \in {"idle", "debit"}
                           /\ t.doc = NoDoc /\ t.payout = NoDoc /\ t.batch \subseteq w[p].batch
                        \/ \E r \in w[p].sources :
                              /\ HoldsSource(t) /\ Marking(t) /\ t.sources = w[p].sources \ {r}
                              /\ t.doc # NoDoc /\ t.doc.id = r /\ reports[r] # NoDoc
                              /\ t.doc \in {reports[r], reportCache[r]} /\ r \in Reports
                              /\ t.payout = w[p].payout /\ t.status = w[p].status
                              /\ t.batch = w[p].batch /\ t.pc \in {"mark", "fill"}
           /\ w[p].pc = "source"
           /\ UNCHANGED <<reports, reportCache, payouts, payoutCache>>
<1>1. PICK s : s = w[p]
  OBVIOUS
<1>2. s.pc = "source" /\ UNCHANGED <<reports, reportCache, payouts, payoutCache>>
  BY <1>1 DEF NextSource
<1>3. /\ IsWorker(s) /\ s.payout \in PayoutDoc /\ s.sources \subseteq s.payout.sources
      /\ s.payout # NoDoc /\ s.last \in {"idle", "debit"}
  BY <1>1, <1>2 DEF SettlementInv, WorkerInv, Marking
<1>4. \A r \in s.sources : r \in Reports /\ reports[r] # NoDoc
  BY <1>1, <1>3 DEF SettlementInv, CopyInv, PayoutCopy, AcceptedInv, PayoutDoc
<1>5. CASE s.sources = {} /\ Set(p, Goto(s, s.last))
  <2>1. PICK t : t = Goto(s, s.last)
    OBVIOUS
  <2>2. t = Idle \/ t = [Idle EXCEPT !.pc = "debit", !.batch = s.batch]
    BY <1>3, <2>1 DEF Goto
  <2>3. /\ t.pc \in {"idle", "debit"} /\ t.doc = NoDoc /\ t.payout = NoDoc
        /\ t.batch \subseteq s.batch
    BY <2>2, IdleIs DEF IsWorker
  <2> QED BY <1>1, <1>2, <1>5, <2>1, <2>3
<1>6. ASSUME NEW r \in s.sources, Set(p, GetReport([s EXCEPT !.sources = @ \ {r}], r, "mark"))
      PROVE  \E t : /\ Set(p, t)
                    /\ HoldsSource(t) /\ Marking(t) /\ t.sources = s.sources \ {r}
                    /\ t.doc # NoDoc /\ t.doc.id = r /\ reports[r] # NoDoc
                    /\ t.doc \in {reports[r], reportCache[r]} /\ r \in Reports
                    /\ t.payout = s.payout /\ t.status = s.status
                    /\ t.batch = s.batch /\ t.pc \in {"mark", "fill"}
  <2>1. PICK z : z = [s EXCEPT !.sources = @ \ {r}]
    OBVIOUS
  <2>2. /\ IsWorker(z) /\ z.sources = s.sources \ {r} /\ z.payout = s.payout
        /\ z.status = s.status /\ z.batch = s.batch
    BY <1>3, <2>1 DEF IsWorker
  <2>3. PICK t : t = GetReport(z, r, "mark")
    OBVIOUS
  <2>4. "mark" \in PCs /\ r \in Reports /\ reports[r] # NoDoc
    BY <1>4 DEF PCs
  <2>5. /\ t.doc # NoDoc /\ t.doc.id = r /\ t.payout = z.payout /\ t.status = z.status
        /\ t.batch = z.batch /\ t.sources = z.sources
        /\ t.pc = "mark" \/ (t.pc = "fill" /\ t.next = "mark")
    BY <2>2, <2>3, <2>4, GetReportFinds
  <2>6. t.doc \in {reports[r], reportCache[r]}
    BY <2>2, <2>3 DEF GetReport, IsWorker
  <2>7. HoldsSource(t) /\ Marking(t)
    BY <2>5 DEF HoldsSource, Marking
  <2>8. Set(p, t)
    BY <1>6, <2>1, <2>3
  <2> QED BY <2>2, <2>4, <2>5, <2>6, <2>7, <2>8
<1>7. \/ s.sources = {} /\ Set(p, Goto(s, s.last))
      \/ \E r \in s.sources : Set(p, GetReport([s EXCEPT !.sources = @ \ {r}], r, "mark"))
  BY <1>1 DEF NextSource
<1>8. CASE \E r \in s.sources : Set(p, GetReport([s EXCEPT !.sources = @ \ {r}], r, "mark"))
  <2>1. PICK r \in s.sources : Set(p, GetReport([s EXCEPT !.sources = @ \ {r}], r, "mark"))
    BY <1>8
  <2>2. PICK t : /\ Set(p, t)
                 /\ HoldsSource(t) /\ Marking(t) /\ t.sources = s.sources \ {r}
                 /\ t.doc # NoDoc /\ t.doc.id = r /\ reports[r] # NoDoc
                 /\ t.doc \in {reports[r], reportCache[r]} /\ r \in Reports
                 /\ t.payout = s.payout /\ t.status = s.status
                 /\ t.batch = s.batch /\ t.pc \in {"mark", "fill"}
    BY <1>6, <2>1
  <2> QED BY <1>1, <1>2, <2>2
<1> QED BY <1>5, <1>7, <1>8

LEMMA MarkSourceIs ==
    ASSUME SettlementInv, NEW p \in Workers, MarkSource(p)
    PROVE  /\ \E t : /\ Set(p, t) /\ t.pc = "write" /\ t.next = "source"
                     /\ t.doc # NoDoc /\ t.doc.id = w[p].doc.id
                     /\ t.doc.status = w[p].status
                     /\ t.doc.correction = w[p].doc.correction
                     /\ t.doc.reserve = w[p].doc.reserve
                     /\ t.doc.payout = IF w[p].status = "accepted" THEN NoPayout
                                       ELSE w[p].payout.id
                     /\ t.payout = w[p].payout /\ t.status = w[p].status
                     /\ t.batch = w[p].batch /\ t.sources = w[p].sources
           /\ w[p].pc = "mark" /\ w[p].doc # NoDoc
           /\ UNCHANGED <<reports, reportCache, payouts, payoutCache>>
<1>1. PICK s : s = w[p]
  OBVIOUS
<1>2. s.pc = "mark" /\ UNCHANGED <<reports, reportCache, payouts, payoutCache>>
  BY <1>1 DEF MarkSource
<1>3. /\ IsWorker(s) /\ s.payout \in PayoutDoc /\ s.doc \in ReportDoc /\ s.doc # NoDoc
      /\ s.status \in {"waiting", "paid", "accepted"}
  BY <1>1, <1>2 DEF SettlementInv, WorkerInv, IsWorker, Marking, HoldsSource
<1>4. PICK d : d = [s.doc EXCEPT
                      !.status = s.status,
                      !.payout = IF s.status = "accepted" THEN NoPayout ELSE s.payout.id]
  OBVIOUS
<1>5. /\ d \in ReportDoc /\ d.id = s.doc.id /\ d.status = s.status
      /\ d.correction = s.doc.correction /\ d.reserve = s.doc.reserve
      /\ d.payout = IF s.status = "accepted" THEN NoPayout ELSE s.payout.id
  BY <1>3, <1>4 DEF ReportDoc, ReportStatuses, PayoutDoc
<1>6. "source" \in PCs
  BY DEF PCs
<1>7. PICK t : /\ t = UpdateReport(s, d, "source")
               /\ t.pc = "write" /\ t.next = "source" /\ t.doc = d
               /\ t.payout = s.payout /\ t.status = s.status /\ t.batch = s.batch
               /\ t.sources = s.sources /\ t.last = s.last
  BY <1>3, <1>5, <1>6, UpdateIs
<1>8. Set(p, t) /\ d # NoDoc
  BY <1>1, <1>4, <1>5, <1>7, NoDocIsNoDocument DEF MarkSource
<1> QED BY <1>1, <1>2, <1>3, <1>5, <1>7, <1>8

\* A report that is built: one that is stored, or a new one, the first of its period
\* unless the look for it failed.
LEMMA CreateReportIs ==
    ASSUME SettlementInv, NEW p \in Workers, NEW per \in Periods, CreateRoyaltyReport(p, per)
    PROVE  /\ \E t : /\ Set(p, t) /\ t.pc = "build" /\ t.payout = NoDoc /\ t.batch = {}
                     /\ t.doc \in ReportDoc /\ Undecided(t.doc)
                     /\ \/ reports[t.doc.id] = t.doc
                        \/ /\ reports[t.doc.id] = NoDoc
                           /\ \/ PeriodOf[t.doc.id] \in blind'
                              \/ \A r \in Reports : reports[r] # NoDoc =>
                                    PeriodOf[r] # PeriodOf[t.doc.id]
           /\ w[p].pc = "idle"
           /\ UNCHANGED <<reports, reportCache, payouts, payoutCache>>
<1>1. w[p].pc = "idle" /\ UNCHANGED <<reports, reportCache, payouts, payoutCache>>
  BY DEF CreateRoyaltyReport, GetReportExists
<1>2. \A d \in StoredReports : d \in ReportDoc /\ d.id \in Reports /\ reports[d.id] = d
  BY DEF StoredReports, SettlementInv, ShapeInv
<1>3. \A r \in Reports : reports[r] # NoDoc => reports[r] \in StoredReports /\ reports[r].id = r
  BY DEF StoredReports, SettlementInv, ShapeInv
<1>4. PICK d \in ReportDoc :
        /\ Set(p, [Idle EXCEPT !.pc = "build", !.doc = d])
        /\ d.status = "pending"
        /\ \/ reports[d.id] = d
           \/ /\ reports[d.id] = NoDoc
              /\ \/ PeriodOf[d.id] \in blind'
                 \/ \A r \in Reports : reports[r] # NoDoc => PeriodOf[r] # PeriodOf[d.id]
  <2>1. CASE \E d \in StoredReports : /\ d.status = "pending"
                                       /\ Set(p, [Idle EXCEPT !.pc = "build", !.doc = d])
    BY <1>2, <2>1
  <2>2. ASSUME \/ {d \in StoredReports : PeriodOf[d.id] = per} = {}
               \/ blind' = blind \cup {per},
               NEW r \in FreshReports, PeriodOf[r] = per,
               NEW d, d = NewReport(r),
               Set(p, [Idle EXCEPT !.pc = "build", !.doc = d])
        PROVE  /\ d \in ReportDoc /\ d.status = "pending" /\ reports[d.id] = NoDoc
               /\ \/ PeriodOf[d.id] \in blind'
                  \/ \A x \in Reports : reports[x] # NoDoc => PeriodOf[x] # PeriodOf[d.id]
    <3>1. r \in Reports /\ reports[r] = NoDoc /\ d.id = r /\ d.status = "pending"
      BY <2>2 DEF FreshReports, NewReport
    <3>2. d \in ReportDoc
      BY <2>2, <3>1 DEF NewReport, ReportDoc, ReportStatuses
    <3> QED BY <1>3, <2>2, <3>1, <3>2
  <2> QED BY <2>1, <2>2 DEF CreateRoyaltyReport, GetReportExists
<1>5. PICK t : t = [Idle EXCEPT !.pc = "build", !.doc = d]
  OBVIOUS
<1>6. t.pc = "build" /\ t.payout = NoDoc /\ t.batch = {} /\ t.doc = d
  BY <1>5, IdleIs DEF IsWorker
<1> QED BY <1>1, <1>4, <1>5, <1>6 DEF Undecided

LEMMA AutoAcceptIs ==
    ASSUME SettlementInv, NEW p \in Workers, AutoAcceptRoyaltyReports(p)
    PROVE  /\ \E t : /\ Set(p, t) /\ t.pc = "accept" /\ t.payout = NoDoc /\ t.doc = NoDoc
                     /\ \A d \in t.batch : d.id \in Reports /\ reports[d.id] = d /\ d # NoDoc
           /\ w[p].pc = "idle"
           /\ UNCHANGED <<reports, reportCache, payouts, payoutCache>>
<1>1. w[p].pc = "idle" /\ UNCHANGED <<reports, reportCache, payouts, payoutCache>>
  BY DEF AutoAcceptRoyaltyReports
<1>2. PICK expired \in SUBSET {d \in StoredReports : d.status = "pending"} :
         Set(p, [Idle EXCEPT !.pc = "accept", !.batch = expired])
  BY DEF AutoAcceptRoyaltyReports
<1>3. PICK t : t = [Idle EXCEPT !.pc = "accept", !.batch = expired]
  OBVIOUS
<1>4. t.pc = "accept" /\ t.payout = NoDoc /\ t.doc = NoDoc /\ t.batch = expired
  BY <1>3, IdleIs DEF IsWorker
<1>5. \A d \in expired : d.id \in Reports /\ reports[d.id] = d /\ d # NoDoc
  BY <1>2 DEF StoredReports, SettlementInv, ShapeInv
<1> QED BY <1>1, <1>2, <1>3, <1>4, <1>5

-----------------------------------------------------------------------------
(* One report for a period.                                                *)

\* A step that stores no report keeps the invariant if the report the handler holds then is
\* stored or the one it held.
LEMMA PeriodStep ==
    ASSUME SettlementInv, PeriodInv, NEW p \in Workers, Workers = {p}, NEW t, Set(p, t),
           reports' = reports, blind \subseteq blind',
           t.doc # NoDoc =>
              \/ PeriodOf[t.doc.id] \in blind'
              \/ t.doc.id \in Reports /\ reports[t.doc.id] # NoDoc
              \/ w[p].doc # NoDoc /\ t.doc.id = w[p].doc.id
              \/ \A r \in Reports : reports[r] # NoDoc => PeriodOf[r] # PeriodOf[t.doc.id],
           \A d \in t.batch : d \in w[p].batch \/ reports[d.id] # NoDoc
    PROVE  PeriodInv'
<1>1. PICK s : s = w[p]
  OBVIOUS
<1>2. OnlyOfPeriod(s)
  BY <1>1 DEF PeriodInv
<1>3. \A r, x \in Reports : reports[r] # NoDoc /\ reports[x] # NoDoc /\ PeriodOf[r] = PeriodOf[x]
        => r = x \/ PeriodOf[r] \in blind
  BY DEF PeriodInv, OneReportPerPeriod, StoredReports, SettlementInv, ShapeInv
<1>5. OnlyOfPeriod(t)'
  BY <1>1, <1>2, <1>3 DEF OnlyOfPeriod
<1>6. OneReportPerPeriod'
  BY DEF PeriodInv, OneReportPerPeriod, StoredReports
<1> QED BY <1>5, <1>6, MovedTo DEF PeriodInv

LEMMA WriteKeepsPeriod ==
    ASSUME SettlementInv, PeriodInv, NEW p \in Workers, Workers = {p}, WriteReport(p)
    PROVE  PeriodInv'
<1>1. PICK s : s = w[p]
  OBVIOUS
<1>2. s.pc = "write" /\ s.doc # NoDoc /\ s.doc \in ReportDoc /\ s.batch \subseteq ReportDoc
  BY <1>1 DEF WriteReport, SettlementInv, WorkerInv, IsWorker
<1>3. s.doc.id \in Reports /\ reports' = [reports EXCEPT ![s.doc.id] = s.doc]
  BY <1>1, <1>2 DEF WriteReport, ReportDoc
<1>4. /\ reports'[s.doc.id] = s.doc
      /\ \A r \in Reports : r # s.doc.id => reports'[r] = reports[r]
      /\ \A r \in Reports : reports'[r] # NoDoc => reports'[r].id = r
  BY <1>3 DEF SettlementInv, ShapeInv
<1>5. OnlyOfPeriod(s)
  BY <1>1 DEF PeriodInv
<1>6. \A r, x \in Reports : reports[r] # NoDoc /\ reports[x] # NoDoc /\ PeriodOf[r] = PeriodOf[x]
        => r = x \/ PeriodOf[r] \in blind
  BY DEF PeriodInv, OneReportPerPeriod, StoredReports, SettlementInv, ShapeInv
<1>b. blind' = blind
  BY DEF WriteReport
<1>7. \A r, x \in Reports : reports'[r] # NoDoc /\ reports'[x] # NoDoc /\ PeriodOf[r] = PeriodOf[x]
        => r = x \/ PeriodOf[r] \in blind'
  BY <1>2, <1>4, <1>5, <1>6, <1>b DEF OnlyOfPeriod
<1>8. OneReportPerPeriod'
  BY <1>4, <1>7 DEF OneReportPerPeriod, StoredReports
<1>9. "cache" \in PCs
  BY DEF PCs
<1>10. PICK t : t = [w[p] EXCEPT !.pc = "cache"] /\ t.doc = s.doc /\ t.batch = s.batch
  BY <1>1, <1>9, AtIs
<1>11. Set(p, t)
  BY <1>10 DEF WriteReport
<1>12. OnlyOfPeriod(t)'
  BY <1>2, <1>4, <1>5, <1>7, <1>10, <1>b DEF OnlyOfPeriod, ReportDoc
<1> QED BY <1>8, <1>11, <1>12, MovedTo DEF PeriodInv

\* The handler has set the copy of its report in Redis.
LEMMA CacheReportIs ==
    ASSUME SettlementInv, NEW p \in Workers, CacheReport(p)
    PROVE  \E t : /\ Set(p, t)
                  /\ \/ /\ w[p].next \in {"idle", "debit"} /\ t.pc \in {"idle", "debit"}
                        /\ t.doc = NoDoc /\ t.payout = NoDoc /\ t.batch \subseteq w[p].batch
                     \/ /\ w[p].next = "source" /\ t.pc = "source"
                        /\ t.doc = w[p].doc /\ t.payout = w[p].payout /\ t.status = w[p].status
                        /\ t.batch = w[p].batch /\ t.sources = w[p].sources
<1>1. PICK s : s = w[p]
  OBVIOUS
<1>2. s.pc = "cache" /\ Set(p, Goto(s, s.next))
  BY <1>1 DEF CacheReport
<1>3. IsWorker(s) /\ s.next \in {"idle", "debit", "source"}
  BY <1>1, <1>2 DEF SettlementInv, WorkerInv
<1>4. CASE s.next = "source"
  <2>1. "source" \in PCs
    BY DEF PCs
  <2>2. PICK t : /\ t = [w[p] EXCEPT !.pc = "source"] /\ t.pc = "source"
                 /\ t.doc = s.doc /\ t.payout = s.payout /\ t.status = s.status
                 /\ t.batch = s.batch /\ t.sources = s.sources
    BY <1>1, <2>1, AtIs
  <2>3. Goto(s, s.next) = t
    BY <1>1, <1>4, <2>2 DEF Goto
  <2> QED BY <1>1, <1>2, <1>4, <2>2, <2>3
<1>5. CASE s.next \in {"idle", "debit"}
  <2>1. PICK t : t = Goto(s, s.next)
    OBVIOUS
  <2>2. t = Idle \/ t = [Idle EXCEPT !.pc = "debit", !.batch = s.batch]
    BY <1>5, <2>1 DEF Goto
  <2>3. /\ t.pc \in {"idle", "debit"} /\ t.doc = NoDoc /\ t.payout = NoDoc
        /\ t.batch \subseteq s.batch
    BY <2>2, IdleIs DEF IsWorker
  <2> QED BY <1>1, <1>2, <1>5, <2>1, <2>3
<1> QED BY <1>3, <1>4, <1>5

\* The other calls of the repositories leave the handler what it has.
LEMMA RepositoryIs ==
    ASSUME SettlementInv, NEW p \in Workers,
           FillReport(p) \/ FillPayout(p) \/ WritePayout(p) \/ CachePayout(p)
    PROVE  /\ reports' = reports
           /\ \E t : /\ Set(p, t)
                     /\ w[p].pc \in {"fill", "fillPayout"} => t.pc = w[p].next
                     /\ w[p].pc = "writePayout" => t.pc = "cachePayout"
                     /\ w[p].pc = "cachePayout" => t.pc = "source"
                     /\ t.doc = w[p].doc /\ t.payout = w[p].payout /\ t.status = w[p].status
                     /\ t.batch = w[p].batch /\ t.sources = w[p].sources
<1>1. w[p].next \in PCs /\ "cachePayout" \in PCs /\ "source" \in PCs
  BY DEF SettlementInv, WorkerInv, IsWorker, PCs
<1>2. PICK pc \in PCs : /\ Set(p, [w[p] EXCEPT !.pc = pc])
                        /\ w[p].pc \in {"fill", "fillPayout"} => pc = w[p].next
                        /\ w[p].pc = "writePayout" => pc = "cachePayout"
                        /\ w[p].pc = "cachePayout" => pc = "source"
  <2>1. CASE FillReport(p)
    BY <1>1, <2>1 DEF FillReport
  <2>2. CASE FillPayout(p)
    BY <1>1, <2>2 DEF FillPayout
  <2>3. CASE WritePayout(p)
    BY <1>1, <2>3 DEF WritePayout
  <2>4. CASE CachePayout(p)
    BY <1>1, <2>4 DEF CachePayout
  <2> QED BY <2>1, <2>2, <2>3, <2>4
<1>3. PICK t : /\ t = [w[p] EXCEPT !.pc = pc] /\ t.pc = pc
               /\ t.doc = w[p].doc /\ t.payout = w[p].payout /\ t.status = w[p].status
               /\ t.batch = w[p].batch /\ t.sources = w[p].sources
  BY AtIs
<1>4. reports' = reports
  BY DEF FillReport, FillPayout, WritePayout, CachePayout
<1> QED BY <1>2, <1>3, <1>4

LEMMA BlindGrows ==
    ASSUME [Next]_vars
    PROVE  blind \subseteq blind'
<1>1. ASSUME NEW p \in Workers, Request(p) PROVE blind \subseteq blind'
  BY <1>1 DEF Request, CreateRoyaltyReport, AutoAcceptRoyaltyReports,
              MerchantReviewRoyaltyReport, ChangeRoyaltyReport, CreateAccountingEntry,
              CreatePayoutDocument, UpdatePayoutDocument, GetMerchantBalance
<1>2. ASSUME NEW p \in Workers, Step(p) PROVE blind' = blind
  BY <1>2 DEF Step, FillReport, WriteReport, CacheReport, FillPayout, WritePayout,
              CachePayout, DebitQuery, CreditQuery, StoreBalance, BuildReport, AutoAccept,
              Review, Change, Correct, Recount, CheckFunds, Decide, NextSource, MarkSource, Fail
<1> QED BY <1>1, <1>2 DEF Next, vars

LEMMA NextKeepsPeriod ==
    ASSUME SettlementInv, OneHandler, PeriodInv, [Next]_vars
    PROVE  PeriodInv'
<1>0. \A d \in ReportDoc : d # NoDoc /\ d.id \in Reports
  BY NoDocIsNoDocument DEF ReportDoc
<1>b. blind \subseteq blind'
  BY BlindGrows
<1>1. ASSUME NEW p \in Workers, Request(p) PROVE PeriodInv'
  <2>0. Workers = {p}
    BY DEF OneHandler
  <2>1. ASSUME NEW per \in Periods, CreateRoyaltyReport(p, per) PROVE PeriodInv'
    <3>1. PICK t : /\ Set(p, t) /\ t.batch = {} /\ t.doc \in ReportDoc
                   /\ \/ reports[t.doc.id] = t.doc
                      \/ PeriodOf[t.doc.id] \in blind'
                      \/ \A r \in Reports : reports[r] # NoDoc => PeriodOf[r] # PeriodOf[t.doc.id]
      BY <2>1, CreateReportIs
    <3>2. reports' = reports
      BY <2>1 DEF CreateRoyaltyReport, GetReportExists
    <3> QED BY <1>0, <2>0, <3>1, <3>2, <1>b, PeriodStep
  <2>2. ASSUME AutoAcceptRoyaltyReports(p) PROVE PeriodInv'
    <3>1. PICK t : /\ Set(p, t) /\ t.doc = NoDoc
                   /\ \A d \in t.batch : d.id \in Reports /\ reports[d.id] = d /\ d # NoDoc
      BY <2>2, AutoAcceptIs
    <3>2. reports' = reports
      BY <2>2 DEF AutoAcceptRoyaltyReports
    <3> QED BY <2>0, <3>1, <3>2, <1>b, PeriodStep
  <2>3. ASSUME NEW r \in Reports,
               \/ \E verdict \in {"accepted", "dispute"} :
                     MerchantReviewRoyaltyReport(p, r, verdict)
               \/ \E status \in {"none", "pending", "accepted", "dispute"},
                     correct \in BOOLEAN : ChangeRoyaltyReport(p, r, status, correct)
        PROVE  PeriodInv'
    <3>1. PICK t : Set(p, t) /\ t.doc.id = r /\ t.batch = {}
      BY <2>3, OpenReportIs
    <3>2. reports[r] # NoDoc /\ reports' = reports
      BY <2>3, OpenReportIs
    <3> QED BY <2>0, <3>1, <3>2, <1>b, PeriodStep
  <2>4. ASSUME CreatePayoutDocument(p) PROVE PeriodInv'
    <3>1. PICK t : Set(p, t) /\ t.doc = NoDoc /\ t.batch = {}
      BY <2>4, CreatePayoutIs
    <3>2. reports' = reports
      BY <2>4 DEF CreatePayoutDocument
    <3> QED BY <2>0, <3>1, <3>2, <1>b, PeriodStep
  <2>5. ASSUME NEW x \in Payouts, NEW status \in PayoutStatuses \cup {"none"},
               UpdatePayoutDocument(p, x, status)
        PROVE  PeriodInv'
    <3>1. PICK t : Set(p, t) /\ t.doc = NoDoc /\ t.batch = {}
      BY <2>5, UpdatePayoutIs
    <3>2. reports' = reports
      BY <2>5 DEF UpdatePayoutDocument
    <3> QED BY <2>0, <3>1, <3>2, <1>b, PeriodStep
  <2>6. ASSUME AsksBalance(p) PROVE PeriodInv'
    <3>1. PICK t : Set(p, t) /\ t.batch \subseteq w[p].batch /\ t.doc \in {NoDoc, w[p].doc}
      BY <2>6, BalanceIs
    <3>2. reports' = reports
      BY <2>6 DEF AsksBalance, GetMerchantBalance, CreateAccountingEntry
    <3> QED BY <2>0, <3>1, <3>2, <1>b, PeriodStep
  <2> QED BY <1>1, <2>1, <2>2, <2>3, <2>4, <2>5, <2>6, Zenon DEF Request, AsksBalance
<1>2. ASSUME NEW p \in Workers, Step(p) PROVE PeriodInv'
  <2>0. Workers = {p}
    BY DEF OneHandler
  <2>1. ASSUME WriteReport(p) PROVE PeriodInv'
    BY <2>0, <2>1, WriteKeepsPeriod
  <2>2. ASSUME CacheReport(p) PROVE PeriodInv'
    <3>1. PICK t : Set(p, t) /\ t.batch \subseteq w[p].batch /\ t.doc \in {NoDoc, w[p].doc}
      BY <2>2, CacheReportIs
    <3>2. reports' = reports
      BY <2>2 DEF CacheReport
    <3> QED BY <2>0, <3>1, <3>2, <1>b, PeriodStep
  <2>3. ASSUME FillReport(p) \/ FillPayout(p) \/ WritePayout(p) \/ CachePayout(p)
        PROVE  PeriodInv'
    <3>1. reports' = reports
      BY <2>3, RepositoryIs
    <3>2. PICK t : Set(p, t) /\ t.doc = w[p].doc /\ t.batch = w[p].batch
      BY <2>3, RepositoryIs
    <3> QED BY <2>0, <3>1, <3>2, <1>b, PeriodStep
  <2>4. ASSUME DebitQuery(p) \/ CreditQuery(p) \/ StoreBalance(p) PROVE PeriodInv'
    <3>1. PICK t : Set(p, t) /\ t.batch \subseteq w[p].batch /\ t.doc \in {NoDoc, w[p].doc}
      BY <2>4, BalanceIs
    <3>2. reports' = reports
      BY <2>4 DEF DebitQuery, CreditQuery, StoreBalance
    <3> QED BY <2>0, <3>1, <3>2, <1>b, PeriodStep
  <2>5. ASSUME \/ BuildReport(p) \/ Review(p) \/ Change(p) \/ Correct(p) \/ Recount(p)
               \/ \E d \in w[p].batch : AutoAccept(p, d)
        PROVE  PeriodInv'
    <3>1. reports' = reports
      BY <2>5, ReportHandlerIs
    <3>2. PICK t : Set(p, t) /\ ReportStep(w[p], t)
      BY <2>5, ReportHandlerIs
    <3>3. \A d \in w[p].batch : d # NoDoc /\ d.id \in Reports /\ reports[d.id] # NoDoc
      BY <1>0 DEF PeriodInv, OnlyOfPeriod, SettlementInv, WorkerInv, IsWorker
    <3>4. CASE t = Idle
      BY <2>0, <3>1, <3>2, <3>4, IdleIs, <1>b, PeriodStep
    <3>5. CASE t # Idle
      <4>1. PICK d \in w[p].batch \cup {w[p].doc} : d # NoDoc /\ t.doc.id = d.id
        BY <1>0, <3>2, <3>5 DEF ReportStep
      <4>2. t.batch \subseteq w[p].batch
        BY <3>2, <3>5 DEF ReportStep
      <4>3. CASE d \in w[p].batch
        BY <2>0, <3>1, <3>2, <3>3, <4>1, <4>2, <4>3, <1>b, PeriodStep
      <4>4. CASE d = w[p].doc
        BY <2>0, <3>1, <3>2, <4>1, <4>2, <4>4, <1>b, PeriodStep
      <4> QED BY <4>1, <4>3, <4>4
    <3> QED BY <3>4, <3>5
  <2>6. ASSUME CheckFunds(p) PROVE PeriodInv'
    <3>1. PICK t : Set(p, t) /\ (t = Idle \/ (t.doc = w[p].doc /\ t.batch = w[p].batch))
      BY <2>6, CheckFundsIs
    <3>2. reports' = reports
      BY <2>6 DEF CheckFunds
    <3> QED BY <2>0, <3>1, <3>2, IdleIs, <1>b, PeriodStep
  <2>7. ASSUME Decide(p) PROVE PeriodInv'
    <3>1. PICK t : Set(p, t) /\ (t = Idle \/ (t.doc = w[p].doc /\ t.batch = w[p].batch))
      BY <2>7, DecideIs
    <3>2. reports' = reports
      BY <2>7 DEF Decide
    <3> QED BY <2>0, <3>1, <3>2, IdleIs, <1>b, PeriodStep
  <2>8. ASSUME NextSource(p) PROVE PeriodInv'
    <3>1. PICK t : /\ Set(p, t) /\ t.batch \subseteq w[p].batch
                   /\ t.doc # NoDoc => t.doc.id \in Reports /\ reports[t.doc.id] # NoDoc
      BY <2>8, NextSourceIs
    <3>2. reports' = reports
      BY <2>8 DEF NextSource
    <3> QED BY <2>0, <3>1, <3>2, <1>b, PeriodStep
  <2>9. ASSUME MarkSource(p) PROVE PeriodInv'
    <3>1. PICK t : Set(p, t) /\ t.batch = w[p].batch /\ t.doc.id = w[p].doc.id
      BY <2>9, MarkSourceIs
    <3>2. reports' = reports /\ w[p].doc # NoDoc
      BY <2>9, MarkSourceIs
    <3> QED BY <2>0, <3>1, <3>2, <1>b, PeriodStep
  <2>10. ASSUME Fail(p) PROVE PeriodInv'
    <3>1. Set(p, Idle) /\ reports' = reports
      BY <2>10 DEF Fail
    <3> QED BY <2>0, <3>1, IdleIs, <1>b, PeriodStep
  <2> QED BY <1>2, <2>1, <2>2, <2>3, <2>4, <2>5, <2>6, <2>7, <2>8, <2>9, <2>10, Zenon DEF Step
<1>3. ASSUME UNCHANGED vars PROVE PeriodInv'
  BY <1>3 DEF vars, PeriodInv, OneReportPerPeriod, StoredReports, OnlyOfPeriod
<1> QED BY <1>1, <1>2, <1>3, Zenon DEF Next

LEMMA PeriodHolds ==
    ASSUME OneHandler
    PROVE  Spec => []PeriodInv
<1>1. Init => PeriodInv
  BY IdleIs DEF Init, PeriodInv, OneReportPerPeriod, StoredReports, OnlyOfPeriod
<1>2. SettlementInv /\ PeriodInv /\ [Next]_vars => PeriodInv'
  BY NextKeepsPeriod
<1> QED BY <1>1, <1>2, InvariantHolds, PTL DEF Spec

\* With one handler at a time no two reports are of one period unless the look for a report of
\* that period failed, whatever else fails and however old the copies in Redis are: the look and
\* the insertion are of one handler, and no copy leads to a report of another period
\* (createMerchantRoyaltyReport, GetReportExists).
THEOREM PeriodsReportedOnce ==
    ASSUME OneHandler
    PROVE  Spec => []OneReportPerPeriod
<1>1. PeriodInv => OneReportPerPeriod
  BY DEF PeriodInv
<1> QED BY <1>1, PeriodHolds, PTL

-----------------------------------------------------------------------------
(* One handler and no failing call: the copies in Redis are of what is     *)
(* stored, and a report names the payout that is open for it.              *)

\* The payout x is open or paid.
Open(x) == payouts[x] # NoDoc /\ Active(payouts[x])

\* The handler has still to mark the report r, or writes it now.
WritesSource(s) == s.pc = "write" /\ s.next = "source"

ToMark(s, r) == r \in s.sources \/ ((HoldsSource(s) \/ WritesSource(s)) /\ s.doc.id = r)

\* Copies of a report name the payout the report names.
ReportsAgree(s) ==
    /\ \A r \in Reports : reportCache[r] # NoDoc =>
         /\ reports[r] # NoDoc
         /\ reportCache[r].payout = reports[r].payout \/ (s.pc = "cache" /\ s.doc.id = r)
    /\ s.doc # NoDoc /\ reports[s.doc.id] # NoDoc /\ ~WritesSource(s) =>
         s.doc.payout = reports[s.doc.id].payout
    /\ \A d \in s.batch : reports[d.id] # NoDoc => d.payout = reports[d.id].payout
    /\ WritesSource(s) =>
         /\ s.doc.id \in s.payout.sources
         /\ s.doc.payout = IF s.status = "accepted" THEN NoPayout ELSE s.payout.id
    /\ s.pc \in {"fill", "cache"} => reports[s.doc.id] # NoDoc
    /\ s.payout # NoDoc => s.batch = {}

\* Copies of a payout are the payout; only one that is pending gets a new status.
PayoutsAgree(s) ==
    /\ \A x \in Payouts : payoutCache[x] # NoDoc =>
         payoutCache[x] = payouts[x] \/ (s.pc = "cachePayout" /\ s.payout.id = x)
    /\ s.pc \in {"fillPayout", "decide"} \/ Marking(s) => s.payout = payouts[s.payout.id]
    /\ s.pc = "funds" => payouts[s.payout.id] = NoDoc
    /\ s.pc = "writePayout" =>
         LET old == payouts[s.payout.id] IN
         \/ /\ old = NoDoc /\ s.status = "waiting" /\ s.sources = s.payout.sources
            /\ s.payout.status \in {"pending", "skip"}
         \/ old = s.payout /\ s.sources = {}
         \/ /\ old # NoDoc /\ old.status = "pending" /\ s.sources = s.payout.sources
            /\ \/ s.payout.status = "paid" /\ s.status = "paid"
               \/ ~Active(s.payout) /\ s.status = "accepted"

\* The handler decides about the reports of its payout.
Claims(s) ==
    \/ s.pc = "funds"
    \/ s.pc = "writePayout" /\ (payouts[s.payout.id] = NoDoc \/ s.sources # {})
    \/ Marking(s) /\ \E r \in Reports : ToMark(s, r)

\* A report names the open payout that lists it, or is about to.
Bound(s) ==
    /\ \A x \in Payouts : Open(x) => \A r \in payouts[x].sources :
         \/ reports[r].payout = x
         \/ Marking(s) /\ s.payout.id = x /\ s.status = "waiting" /\ ToMark(s, r)
    /\ Claims(s) => \A y \in Payouts : Open(y) /\ y # s.payout.id =>
         payouts[y].sources \cap s.payout.sources = {}
    /\ Marking(s) /\ Claims(s) /\ s.status = "accepted" => ~Active(s.payout)

Disjoint ==
    \A x, y \in Payouts : x # y /\ Open(x) /\ Open(y) =>
        payouts[x].sources \cap payouts[y].sources = {}

AloneInv ==
    Disjoint /\ \A p \in Workers : ReportsAgree(w[p]) /\ PayoutsAgree(w[p]) /\ Bound(w[p])

\* What the handler must have after its step.
LEMMA AloneAfter ==
    ASSUME SettlementInv, NEW p \in Workers, Workers = {p}, NEW t, Set(p, t),
           ReportsAgree(t)', PayoutsAgree(t)', Bound(t)', Disjoint'
    PROVE  AloneInv'
<1>1. w'[p] = t
  BY MovedTo
<1>2. \A q \in Workers : q = p
  OBVIOUS
<1> QED BY <1>1, <1>2 DEF AloneInv

\* A step that leaves the documents alone.
LEMMA AloneStep ==
    ASSUME SettlementInv, AloneInv, NEW p \in Workers, Workers = {p}, NEW t, Set(p, t),
           UNCHANGED <<reports, reportCache, payouts, payoutCache>>,
           ReportsAgree(t), PayoutsAgree(t), Bound(t)
    PROVE  AloneInv'
<1>1. ReportsAgree(t)'
  BY DEF ReportsAgree
<1>2. PayoutsAgree(t)'
  BY DEF PayoutsAgree
<1>3. Bound(t)' /\ Disjoint'
  BY DEF Bound, Claims, Disjoint, Open, AloneInv
<1> QED BY <1>1, <1>2, <1>3, AloneAfter

LEMMA SourcesAreReports ==
    ASSUME SettlementInv
    PROVE  \A x \in Payouts : Open(x) => payouts[x].sources \subseteq Reports
BY DEF SettlementInv, ShapeInv, Open, PayoutDoc

\* A step of a handler that has no more to do with a payout.
LEMMA PayoutsLeft ==
    ASSUME SettlementInv, AloneInv, NEW p \in Workers, NEW t,
           w[p].pc # "cachePayout", ~Marking(w[p]) \/ \A r \in Reports : ~ToMark(w[p], r),
           ~Marking(t), t.pc \notin {"funds", "fillPayout", "decide", "writePayout"}
    PROVE  PayoutsAgree(t) /\ Bound(t)
<1>1. PICK s : s = w[p]
  OBVIOUS
<1>2. PayoutsAgree(s) /\ Bound(s)
  BY <1>1 DEF AloneInv
<1>3. PayoutsAgree(t)
  BY <1>1, <1>2 DEF PayoutsAgree
<1>4. ~Claims(t)
  BY DEF Claims
<1>5. ASSUME NEW x \in Payouts, Open(x), NEW r \in payouts[x].sources
      PROVE  reports[r].payout = x
  <2>1. r \in Reports
    BY <1>5, SourcesAreReports
  <2> QED BY <1>1, <1>2, <1>5, <2>1 DEF Bound
<1> QED BY <1>3, <1>4, <1>5 DEF Bound

\* The handler has no copy of a report, or one that names the payout the report names.
LEMMA ReportsHeld ==
    ASSUME AloneInv, NEW p \in Workers, w[p].pc # "cache", NEW t,
           ~WritesSource(t), t.pc # "cache", t.pc = "fill" => reports[t.doc.id] # NoDoc,
           t.doc # NoDoc /\ reports[t.doc.id] # NoDoc =>
              t.doc.payout = reports[t.doc.id].payout,
           \A d \in t.batch : \/ d \in w[p].batch
                              \/ d.payout = reports[d.id].payout,
           t.payout # NoDoc => t.batch = {}
    PROVE  ReportsAgree(t)
<1>1. PICK s : s = w[p]
  OBVIOUS
<1>2. ReportsAgree(s)
  BY <1>1 DEF AloneInv
<1> QED BY <1>1, <1>2 DEF ReportsAgree

\* A step of updateMerchantBalance, or a request for the balance.
LEMMA BalanceAlone ==
    ASSUME SettlementInv, AloneInv, NEW p \in Workers, Workers = {p},
           DebitQuery(p) \/ CreditQuery(p) \/ StoreBalance(p) \/ AsksBalance(p)
    PROVE  AloneInv'
<1>1. PICK t : /\ Set(p, t) /\ t.pc \in BalancePCs /\ t.batch \subseteq w[p].batch
               /\ t.doc \in {NoDoc, w[p].doc} /\ t.payout \in {NoDoc, w[p].payout}
  BY BalanceIs
<1>2. /\ w[p].pc \in BalancePCs
      /\ UNCHANGED <<reports, reportCache, payouts, payoutCache>>
  BY BalanceIs
<1>3. ReportsAgree(w[p]) /\ ~WritesSource(w[p])
  BY <1>2 DEF AloneInv, WritesSource, BalancePCs
<1>4. ReportsAgree(t)
  BY <1>1, <1>2, <1>3 DEF ReportsAgree, WritesSource, BalancePCs
<1>5. PayoutsAgree(t) /\ Bound(t)
  BY <1>1, <1>2, PayoutsLeft DEF Marking, BalancePCs
<1> QED BY <1>1, <1>2, <1>4, <1>5, AloneStep

\* A request.
LEMMA RequestAlone ==
    ASSUME SettlementInv, OneHandler, AloneInv, NEW p \in Workers, Request(p)
    PROVE  AloneInv'
<1>0. Workers = {p}
  BY DEF OneHandler
<1>1. ASSUME NEW per \in Periods, CreateRoyaltyReport(p, per) PROVE AloneInv'
  <2>1. PICK t : /\ Set(p, t) /\ t.pc = "build" /\ t.payout = NoDoc /\ t.batch = {}
                 /\ reports[t.doc.id] \in {t.doc, NoDoc}
    BY <1>1, CreateReportIs
  <2>2. w[p].pc = "idle" /\ UNCHANGED <<reports, reportCache, payouts, payoutCache>>
    BY <1>1, CreateReportIs
  <2>3. ReportsAgree(t)
    BY <2>1, <2>2, ReportsHeld DEF WritesSource
  <2>4. PayoutsAgree(t) /\ Bound(t)
    BY <2>1, <2>2, PayoutsLeft DEF Marking
  <2> QED BY <1>0, <2>1, <2>2, <2>3, <2>4, AloneStep
<1>2. ASSUME AutoAcceptRoyaltyReports(p) PROVE AloneInv'
  <2>1. PICK t : /\ Set(p, t) /\ t.pc = "accept" /\ t.payout = NoDoc /\ t.doc = NoDoc
                 /\ \A d \in t.batch : d.id \in Reports /\ reports[d.id] = d /\ d # NoDoc
    BY <1>2, AutoAcceptIs
  <2>2. w[p].pc = "idle" /\ UNCHANGED <<reports, reportCache, payouts, payoutCache>>
    BY <1>2, AutoAcceptIs
  <2>3. ReportsAgree(t)
    BY <2>1, <2>2, ReportsHeld DEF WritesSource
  <2>4. PayoutsAgree(t) /\ Bound(t)
    BY <2>1, <2>2, PayoutsLeft DEF Marking
  <2> QED BY <1>0, <2>1, <2>2, <2>3, <2>4, AloneStep
<1>3. ASSUME NEW r \in Reports,
             \/ \E verdict \in {"accepted", "dispute"} :
                   MerchantReviewRoyaltyReport(p, r, verdict)
             \/ \E status \in {"none", "pending", "accepted", "dispute"},
                   correct \in BOOLEAN : ChangeRoyaltyReport(p, r, status, correct)
      PROVE  AloneInv'
  <2>1. PICK t : /\ Set(p, t) /\ t.doc # NoDoc /\ t.doc.id = r /\ t.payout = NoDoc
                 /\ t.batch = {} /\ t.doc \in {reports[r], reportCache[r]}
                 /\ \/ t.pc \in {"review", "change"}
                    \/ t.pc = "fill" /\ t.next \in {"review", "change"}
    BY <1>3, OpenReportIs
  <2>2. /\ reports[r] # NoDoc /\ w[p].pc = "idle"
        /\ UNCHANGED <<reports, reportCache, payouts, payoutCache>>
    BY <1>3, OpenReportIs
  <2>3. t.doc.payout = reports[r].payout
    <3>1. ReportsAgree(w[p])
      BY DEF AloneInv
    <3> QED BY <2>1, <2>2, <3>1 DEF ReportsAgree
  <2>4. ReportsAgree(t)
    BY <2>1, <2>2, <2>3, ReportsHeld DEF WritesSource
  <2>5. PayoutsAgree(t) /\ Bound(t)
    BY <2>1, <2>2, PayoutsLeft DEF Marking
  <2> QED BY <1>0, <2>1, <2>2, <2>4, <2>5, AloneStep
<1>4. ASSUME CreatePayoutDocument(p) PROVE AloneInv'
  <2>1. PICK t : /\ Set(p, t) /\ t.pc = "funds" /\ t.doc = NoDoc /\ t.batch = {}
                 /\ payouts[t.payout.id] = NoDoc
                 /\ \A r \in t.payout.sources :
                       r \in Reports /\ reports[r] # NoDoc /\ reports[r].payout = NoPayout
    BY <1>4, CreatePayoutIs
  <2>2. w[p].pc = "idle" /\ UNCHANGED <<reports, reportCache, payouts, payoutCache>>
    BY <1>4, CreatePayoutIs
  <2>3. ReportsAgree(t)
    BY <2>1, <2>2, ReportsHeld DEF WritesSource
  <2>4. PayoutsAgree(w[p]) /\ Bound(w[p]) /\ ~Marking(w[p])
    BY <2>2 DEF AloneInv, Marking
  <2>5. PayoutsAgree(t)
    BY <2>1, <2>2, <2>4 DEF PayoutsAgree, Marking
  <2>6. \A y \in Payouts : Open(y) => \A r \in payouts[y].sources \cap Reports :
           reports[r].payout = y
    BY <2>4 DEF Bound
  <2>7. \A y \in Payouts : Open(y) => payouts[y].sources \subseteq Reports
    BY SourcesAreReports
  <2>8. \A y \in Payouts : Open(y) => payouts[y].sources \cap t.payout.sources = {}
    BY <2>1, <2>6, SettlementAssumption
  <2>9. Bound(t)
    BY <2>1, <2>6, <2>7, <2>8 DEF Bound, Marking
  <2> QED BY <1>0, <2>1, <2>2, <2>3, <2>5, <2>9, AloneStep
<1>5. ASSUME NEW x \in Payouts, NEW status \in PayoutStatuses \cup {"none"},
             UpdatePayoutDocument(p, x, status)
      PROVE  AloneInv'
  <2>1. PICK t : /\ Set(p, t) /\ t.pc \in {"fillPayout", "decide"}
                 /\ t.payout # NoDoc /\ t.payout.id = x
                 /\ t.payout \in {payouts[x], payoutCache[x]}
                 /\ t.doc = NoDoc /\ t.batch = {}
    BY <1>5, UpdatePayoutIs
  <2>2. w[p].pc = "idle" /\ UNCHANGED <<reports, reportCache, payouts, payoutCache>>
    BY <1>5, UpdatePayoutIs
  <2>3. ReportsAgree(t)
    BY <2>1, <2>2, ReportsHeld DEF WritesSource
  <2>4. PayoutsAgree(w[p]) /\ Bound(w[p]) /\ ~Marking(w[p]) /\ ~Marking(t)
    BY <2>1, <2>2 DEF AloneInv, Marking
  <2>5. t.payout = payouts[x]
    BY <2>1, <2>2, <2>4 DEF PayoutsAgree
  <2>6. PayoutsAgree(t)
    BY <2>1, <2>2, <2>4, <2>5 DEF PayoutsAgree
  <2>7. ~Claims(t)
    BY <2>1, <2>4 DEF Claims
  <2>8. Bound(t)
    BY <2>4, <2>7 DEF Bound
  <2> QED BY <1>0, <2>1, <2>2, <2>3, <2>6, <2>8, AloneStep
<1>6. ASSUME AsksBalance(p) PROVE AloneInv'
  BY <1>0, <1>6, BalanceAlone
<1> QED BY <1>1, <1>2, <1>3, <1>4, <1>5, <1>6, Zenon DEF Request, AsksBalance

\* A step of the handler of a report.
LEMMA ReportHandlerAlone ==
    ASSUME SettlementInv, AloneInv, NEW p \in Workers, Workers = {p},
           \/ BuildReport(p) \/ Review(p) \/ Change(p) \/ Correct(p) \/ Recount(p)
           \/ \E d \in w[p].batch : AutoAccept(p, d)
    PROVE  AloneInv'
<1>1. PICK t : Set(p, t) /\ ReportStep(w[p], t)
  BY ReportHandlerIs
<1>2. /\ w[p].pc \in ReportPCs
      /\ UNCHANGED <<reports, reportCache, payouts, payoutCache>>
  BY ReportHandlerIs
<1>3. ReportsAgree(w[p]) /\ ~WritesSource(w[p])
  BY <1>2 DEF AloneInv, WritesSource, ReportPCs
<1>4. /\ t.pc \in {"idle", "correct", "recount"} \/ (t.pc = "write" /\ t.next \in {"idle", "debit"})
      /\ t.payout \in {NoDoc, w[p].payout} /\ t.batch \subseteq w[p].batch
  BY <1>1, IdleIs DEF ReportStep
<1>5. t.doc = NoDoc \/ \E d \in w[p].batch \cup {w[p].doc} :
                          d # NoDoc /\ t.doc.id = d.id /\ t.doc.payout = d.payout
  BY <1>1, IdleIs, NoDocIsNoDocument DEF ReportStep
<1>6. t.doc # NoDoc /\ reports[t.doc.id] # NoDoc => t.doc.payout = reports[t.doc.id].payout
  BY <1>3, <1>5 DEF ReportsAgree
<1>7. ReportsAgree(t)
  BY <1>2, <1>3, <1>4, <1>6 DEF ReportsAgree, WritesSource, ReportPCs
<1>8. PayoutsAgree(t) /\ Bound(t)
  BY <1>2, <1>4, PayoutsLeft DEF Marking, ReportPCs
<1> QED BY <1>1, <1>2, <1>7, <1>8, AloneStep

\* CreatePayoutDocument checks the funds of the payout nobody has stored yet.
LEMMA CheckFundsAlone ==
    ASSUME SettlementInv, AloneInv, NEW p \in Workers, Workers = {p}, CheckFunds(p)
    PROVE  AloneInv'
<1>1. PICK t : /\ Set(p, t)
               /\ \/ t = Idle
                  \/ /\ t.pc = "writePayout" /\ t.status = "waiting"
                     /\ t.sources = w[p].payout.sources
                     /\ t.payout \in PayoutDoc /\ t.payout.id = w[p].payout.id
                     /\ t.payout.sources = w[p].payout.sources
                     /\ t.payout.status \in {"pending", "skip"}
                     /\ t.doc = w[p].doc /\ t.batch = w[p].batch
  BY CheckFundsIs
<1>2. /\ w[p].pc = "funds" /\ UNCHANGED <<reports, reportCache, payouts, payoutCache>>
  BY CheckFundsIs
<1>3. PICK s : s = w[p]
  OBVIOUS
<1>4. /\ ReportsAgree(s) /\ PayoutsAgree(s) /\ Bound(s) /\ ~Marking(s) /\ ~WritesSource(s)
      /\ s.payout # NoDoc
  BY <1>2, <1>3 DEF AloneInv, Marking, WritesSource, SettlementInv, WorkerInv
<1>5. CASE t = Idle
  BY <1>1, <1>2, <1>5, IdleIs, ReportsHeld, PayoutsLeft, AloneStep
     DEF Marking, WritesSource
<1>6. CASE t # Idle
  <2>1. ReportsAgree(t)
    BY <1>1, <1>2, <1>3, <1>4, <1>6 DEF ReportsAgree, WritesSource
  <2>2. PayoutsAgree(t)
    BY <1>1, <1>2, <1>3, <1>4, <1>6 DEF PayoutsAgree, Marking
  <2>3. Claims(s) /\ ~Marking(t)
    BY <1>1, <1>2, <1>3, <1>6 DEF Claims, Marking
  <2>4. Bound(t)
    BY <1>1, <1>3, <1>4, <1>6, <2>3 DEF Bound
  <2> QED BY <1>1, <1>2, <2>1, <2>2, <2>4, AloneStep
<1> QED BY <1>5, <1>6

\* UpdatePayoutDocument decides about a payout as it is stored.
LEMMA DecideAlone ==
    ASSUME SettlementInv, AloneInv, NEW p \in Workers, Workers = {p}, Decide(p)
    PROVE  AloneInv'
<1>1. PICK t : /\ Set(p, t)
               /\ \/ t = Idle
                  \/ /\ t.pc = "writePayout" /\ t.sources = {} /\ t.payout = w[p].payout
                     /\ t.doc = w[p].doc /\ t.batch = w[p].batch
                  \/ /\ t.pc = "writePayout" /\ t.sources = w[p].payout.sources
                     /\ w[p].payout.status = "pending"
                     /\ \/ t.payout.status = "paid" /\ t.status = "paid"
                        \/ ~Active(t.payout) /\ t.status = "accepted"
                     /\ t.payout \in PayoutDoc /\ t.payout.id = w[p].payout.id
                     /\ t.payout.sources = w[p].payout.sources
                     /\ t.doc = w[p].doc /\ t.batch = w[p].batch
  BY DecideIs
<1>2. /\ w[p].pc = "decide" /\ UNCHANGED <<reports, reportCache, payouts, payoutCache>>
  BY DecideIs
<1>3. PICK s : s = w[p]
  OBVIOUS
<1>4. /\ ReportsAgree(s) /\ PayoutsAgree(s) /\ Bound(s) /\ ~Marking(s) /\ ~WritesSource(s)
      /\ Disjoint
  BY <1>2, <1>3 DEF AloneInv, Marking, WritesSource
<1>5. /\ s.payout # NoDoc /\ s.payout \in PayoutDoc /\ s.payout.id \in Payouts
      /\ payouts[s.payout.id] # NoDoc /\ payouts[s.payout.id] = s.payout
  <2>1. s.payout # NoDoc /\ s.payout \in PayoutDoc
    BY <1>2, <1>3 DEF SettlementInv, WorkerInv
  <2>2. payouts[s.payout.id] # NoDoc
    BY <1>2, <1>3 DEF SettlementInv, MarkInv
  <2>3. payouts[s.payout.id] = s.payout
    BY <1>2, <1>3, <1>4 DEF PayoutsAgree
  <2> QED BY <2>1, <2>2, <2>3 DEF PayoutDoc
<1>6. CASE t = Idle
  BY <1>1, <1>2, <1>6, IdleIs, ReportsHeld, PayoutsLeft, AloneStep
     DEF Marking, WritesSource
<1>7. CASE t # Idle
  <2>1. t.pc = "writePayout" /\ t.doc = s.doc /\ t.batch = s.batch
    BY <1>1, <1>3, <1>7
  <2>2. ReportsAgree(t)
    BY <1>2, <1>3, <1>4, <1>5, <2>1 DEF ReportsAgree, WritesSource
  <2>3. PayoutsAgree(t)
    BY <1>1, <1>2, <1>3, <1>4, <1>5, <1>7, <2>1 DEF PayoutsAgree, Marking
  <2>4. ~Marking(t) /\ t.payout.id = s.payout.id /\ t.payout.sources = s.payout.sources
    BY <1>1, <1>3, <1>7 DEF Marking
  <2>5. Claims(t) => Open(s.payout.id)
    BY <1>1, <1>3, <1>5, <1>7, <2>1, <2>4 DEF Claims, Open, Active
  <2>6. Bound(t)
    BY <1>4, <1>5, <2>4, <2>5 DEF Bound, Disjoint
  <2> QED BY <1>1, <1>2, <2>2, <2>3, <2>6, AloneStep
<1> QED BY <1>6, <1>7

\* The handler of a payout opens the next report, or is done.
LEMMA NextSourceAlone ==
    ASSUME SettlementInv, AloneInv, NEW p \in Workers, Workers = {p}, NextSource(p)
    PROVE  AloneInv'
<1>1. PICK t : /\ Set(p, t)
               /\ \/ /\ w[p].sources = {} /\ t.pc \in {"idle", "debit"}
                     /\ t.doc = NoDoc /\ t.payout = NoDoc /\ t.batch \subseteq w[p].batch
                  \/ \E r \in w[p].sources :
                        /\ HoldsSource(t) /\ Marking(t) /\ t.sources = w[p].sources \ {r}
                        /\ t.doc # NoDoc /\ t.doc.id = r /\ reports[r] # NoDoc
                        /\ t.doc \in {reports[r], reportCache[r]} /\ r \in Reports
                        /\ t.payout = w[p].payout /\ t.status = w[p].status
                        /\ t.batch = w[p].batch /\ t.pc \in {"mark", "fill"}
  BY NextSourceIs
<1>2. /\ w[p].pc = "source" /\ UNCHANGED <<reports, reportCache, payouts, payoutCache>>
  BY NextSourceIs
<1>3. PICK s : s = w[p]
  OBVIOUS
<1>4. /\ ReportsAgree(s) /\ PayoutsAgree(s) /\ Bound(s) /\ Marking(s) /\ ~WritesSource(s)
      /\ ~HoldsSource(s)
  BY <1>2, <1>3 DEF AloneInv, Marking, WritesSource, HoldsSource
<1>5. CASE s.sources = {}
  <2>1. \A r \in Reports : ~ToMark(s, r)
    BY <1>4, <1>5 DEF ToMark
  <2>2. t.pc \in {"idle", "debit"} /\ t.doc = NoDoc /\ t.payout = NoDoc /\ t.batch \subseteq s.batch
    BY <1>1, <1>3, <1>5
  <2> QED BY <1>1, <1>2, <1>3, <2>1, <2>2, ReportsHeld, PayoutsLeft, AloneStep
          DEF Marking, WritesSource
<1>6. CASE s.sources # {}
  <2>1. PICK r \in Reports :
           /\ r \in s.sources
           /\ HoldsSource(t) /\ Marking(t) /\ t.sources = s.sources \ {r}
           /\ t.doc # NoDoc /\ t.doc.id = r /\ reports[r] # NoDoc
           /\ t.doc \in {reports[r], reportCache[r]}
           /\ t.payout = s.payout /\ t.status = s.status
           /\ t.batch = s.batch /\ t.pc \in {"mark", "fill"}
    BY <1>1, <1>3, <1>6
  <2>2. t.doc.payout = reports[r].payout
    BY <1>2, <1>3, <1>4, <2>1 DEF ReportsAgree
  <2>3. ReportsAgree(t)
    BY <1>2, <1>3, <1>4, <2>1, <2>2 DEF ReportsAgree, WritesSource
  <2>4. PayoutsAgree(t)
    BY <1>2, <1>3, <1>4, <2>1 DEF PayoutsAgree
  <2>5. \A q \in Reports : ToMark(t, q) <=> ToMark(s, q)
    BY <1>4, <2>1 DEF ToMark
  <2>6. Claims(t) => Claims(s)
    BY <1>4, <2>1, <2>5 DEF Claims
  <2>7. Bound(t)
    BY <1>4, <2>1, <2>5, <2>6, SourcesAreReports DEF Bound
  <2> QED BY <1>1, <1>2, <2>3, <2>4, <2>7, AloneStep
<1> QED BY <1>5, <1>6

\* The handler of a payout calls Update for a report of it.
LEMMA MarkSourceAlone ==
    ASSUME SettlementInv, AloneInv, NEW p \in Workers, Workers = {p}, MarkSource(p)
    PROVE  AloneInv'
<1>1. PICK t : /\ Set(p, t) /\ t.pc = "write" /\ t.next = "source"
               /\ t.doc # NoDoc /\ t.doc.id = w[p].doc.id
               /\ t.doc.payout = IF w[p].status = "accepted" THEN NoPayout
                                 ELSE w[p].payout.id
               /\ t.payout = w[p].payout /\ t.status = w[p].status
               /\ t.batch = w[p].batch /\ t.sources = w[p].sources
  BY MarkSourceIs
<1>2. /\ w[p].pc = "mark" /\ UNCHANGED <<reports, reportCache, payouts, payoutCache>>
  BY MarkSourceIs
<1>3. PICK s : s = w[p]
  OBVIOUS
<1>4. /\ ReportsAgree(s) /\ PayoutsAgree(s) /\ Bound(s) /\ Marking(s) /\ HoldsSource(s)
      /\ s.doc.id \in s.payout.sources
  BY <1>2, <1>3 DEF AloneInv, Marking, HoldsSource, SettlementInv, WorkerInv
<1>5. Marking(t) /\ WritesSource(t) /\ ~HoldsSource(t)
  BY <1>1 DEF Marking, WritesSource, HoldsSource
<1>6. ReportsAgree(t)
  BY <1>1, <1>2, <1>3, <1>4, <1>5 DEF ReportsAgree
<1>7. PayoutsAgree(t)
  BY <1>1, <1>2, <1>3, <1>4, <1>5 DEF PayoutsAgree
<1>8. \A q \in Reports : ToMark(t, q) <=> ToMark(s, q)
  BY <1>1, <1>3, <1>4, <1>5 DEF ToMark
<1>9. Claims(t) => Claims(s)
  BY <1>1, <1>4, <1>5, <1>8 DEF Claims
<1>10. Bound(t)
  BY <1>1, <1>3, <1>4, <1>5, <1>8, <1>9, SourcesAreReports DEF Bound
<1> QED BY <1>1, <1>2, <1>6, <1>7, <1>10, AloneStep

\* A call of the repositories that sets a copy of the report the handler has.
LEMMA ReportCopyAgrees ==
    ASSUME SettlementInv, AloneInv, NEW p \in Workers, w[p].doc # NoDoc, ~WritesSource(w[p]),
           reports[w[p].doc.id] # NoDoc, reports' = reports,
           \/ reportCache' = [reportCache EXCEPT ![w[p].doc.id] = w[p].doc]
           \/ w[p].pc # "cache" /\ reportCache' = reportCache,
           NEW t, t.doc \in {NoDoc, w[p].doc}, t.payout \in {NoDoc, w[p].payout},
           t.batch \subseteq w[p].batch, ~WritesSource(t), t.pc \notin {"fill", "cache"}
    PROVE  ReportsAgree(t)'
<1>1. PICK s : s = w[p]
  OBVIOUS
<1>2. ReportsAgree(s) /\ s.doc.payout = reports[s.doc.id].payout
  BY <1>1 DEF AloneInv, ReportsAgree
<1>3. s.doc \in ReportDoc /\ s.doc.id \in Reports
  BY <1>1 DEF SettlementInv, WorkerInv, IsWorker, ReportDoc
<1>4. reportCache \in [Reports -> ReportDoc \cup {NoDoc}]
  BY DEF SettlementInv, ShapeInv
<1>5. \A r \in Reports : reportCache'[r] # NoDoc =>
         reports[r] # NoDoc /\ reportCache'[r].payout = reports[r].payout
  <2>1. CASE reportCache' = [reportCache EXCEPT ![s.doc.id] = s.doc]
    <3>1. \A r \in Reports : r # s.doc.id => reportCache'[r] = reportCache[r]
      BY <1>4, <2>1
    <3>2. reportCache'[s.doc.id] = s.doc
      BY <1>3, <1>4, <2>1
    <3> QED BY <1>1, <1>2, <3>1, <3>2 DEF ReportsAgree
  <2>2. CASE s.pc # "cache" /\ reportCache' = reportCache
    BY <1>2, <2>2 DEF ReportsAgree
  <2> QED BY <1>1, <2>1, <2>2
<1> QED BY <1>1, <1>2, <1>5 DEF ReportsAgree, WritesSource

\* A step that leaves the payouts alone, and which reports the handler has still to mark.
LEMMA StillMarking ==
    ASSUME SettlementInv, AloneInv, NEW p \in Workers, Marking(w[p]),
           w[p].pc # "cachePayout", NEW t, Marking(t),
           t.payout = w[p].payout, t.status = w[p].status,
           \A r \in Reports : ToMark(t, r) <=> ToMark(w[p], r)
    PROVE  PayoutsAgree(t) /\ Bound(t)
<1>1. PICK s : s = w[p]
  OBVIOUS
<1>2. PayoutsAgree(s) /\ Bound(s)
  BY <1>1 DEF AloneInv
<1>3. t.pc \notin {"funds", "writePayout"} /\ s.pc \notin {"funds", "writePayout"}
  BY <1>1 DEF Marking
<1>4. PayoutsAgree(t)
  BY <1>1, <1>2, <1>3 DEF PayoutsAgree
<1>5. Claims(t) => Claims(s)
  BY <1>1, <1>3 DEF Claims
<1>6. Bound(t)
  BY <1>1, <1>2, <1>5, SourcesAreReports DEF Bound
<1> QED BY <1>4, <1>6

\* Reports and payouts did not change: what the handler knew of them still holds.
LEMMA BoundStays ==
    ASSUME UNCHANGED <<reports, payouts>>, NEW t, Bound(t), Disjoint
    PROVE  Bound(t)' /\ Disjoint'
BY DEF Bound, Claims, Disjoint, Open

LEMMA PayoutsStay ==
    ASSUME UNCHANGED <<payouts, payoutCache>>, NEW t, PayoutsAgree(t)
    PROVE  PayoutsAgree(t)'
BY DEF PayoutsAgree

\* GetById sets the copy it read.
LEMMA FillReportAlone ==
    ASSUME SettlementInv, AloneInv, NEW p \in Workers, Workers = {p}, FillReport(p)
    PROVE  AloneInv'
<1>1. PICK s : s = w[p]
  OBVIOUS
<1>2. PICK t : /\ Set(p, t) /\ t.pc = s.next /\ t.doc = s.doc /\ t.payout = s.payout
               /\ t.status = s.status /\ t.batch = s.batch /\ t.sources = s.sources
  BY <1>1, RepositoryIs DEF FillReport
<1>3. /\ s.pc = "fill" /\ s.doc # NoDoc /\ s.next \in {"review", "change", "mark"}
      /\ UNCHANGED <<reports, payouts, payoutCache>>
      /\ \/ reportCache' = [reportCache EXCEPT ![s.doc.id] = s.doc]
         \/ reportCache' = reportCache
  BY <1>1 DEF FillReport, SetReportCache, SettlementInv, WorkerInv
<1>4. ReportsAgree(s) /\ ~WritesSource(s) /\ ~WritesSource(t) /\ Disjoint
  BY <1>1, <1>2, <1>3 DEF AloneInv, WritesSource
<1>5. reports[s.doc.id] # NoDoc
  BY <1>3, <1>4 DEF ReportsAgree
<1>6. ReportsAgree(t)'
  BY <1>1, <1>2, <1>3, <1>4, <1>5, ReportCopyAgrees
<1>7. PayoutsAgree(t) /\ Bound(t)
  <2>1. CASE s.next = "mark"
    <3>1. Marking(s) /\ Marking(t) /\ HoldsSource(s) /\ HoldsSource(t)
      BY <1>2, <1>3, <2>1 DEF Marking, HoldsSource
    <3>2. \A r \in Reports : ToMark(t, r) <=> ToMark(s, r)
      BY <1>2, <3>1 DEF ToMark
    <3> QED BY <1>1, <1>2, <1>3, <3>1, <3>2, StillMarking
  <2>2. CASE s.next # "mark"
    BY <1>1, <1>2, <1>3, <2>2, PayoutsLeft DEF Marking
  <2> QED BY <2>1, <2>2
<1>8. PayoutsAgree(t)' /\ Bound(t)' /\ Disjoint'
  BY <1>3, <1>4, <1>7, PayoutsStay, BoundStays
<1> QED BY <1>2, <1>6, <1>8, AloneAfter

\* Update has inserted the record of the change and sets the copy.
LEMMA CacheReportAlone ==
    ASSUME Failures = FALSE, SettlementInv, AloneInv, NEW p \in Workers, Workers = {p},
           CacheReport(p)
    PROVE  AloneInv'
<1>1. PICK s : s = w[p]
  OBVIOUS
<1>2. PICK t : /\ Set(p, t)
               /\ \/ /\ s.next \in {"idle", "debit"} /\ t.pc \in {"idle", "debit"}
                     /\ t.doc = NoDoc /\ t.payout = NoDoc /\ t.batch \subseteq s.batch
                  \/ /\ s.next = "source" /\ t.pc = "source"
                     /\ t.doc = s.doc /\ t.payout = s.payout /\ t.status = s.status
                     /\ t.batch = s.batch /\ t.sources = s.sources
  BY <1>1, CacheReportIs
<1>3. /\ s.pc = "cache" /\ s.doc # NoDoc
      /\ UNCHANGED <<reports, payouts, payoutCache>>
      /\ reportCache' = [reportCache EXCEPT ![s.doc.id] = s.doc]
  BY <1>1 DEF CacheReport, SetReportCache, SettlementInv, WorkerInv
<1>4. ReportsAgree(s) /\ ~WritesSource(s) /\ ~WritesSource(t) /\ Disjoint
  BY <1>1, <1>2, <1>3 DEF AloneInv, WritesSource
<1>5. reports[s.doc.id] # NoDoc
  BY <1>3, <1>4 DEF ReportsAgree
<1>6. ReportsAgree(t)'
  BY <1>1, <1>2, <1>3, <1>4, <1>5, ReportCopyAgrees
<1>7. PayoutsAgree(t) /\ Bound(t)
  <2>1. CASE s.next = "source"
    <3>1. Marking(s) /\ Marking(t) /\ ~HoldsSource(s) /\ ~HoldsSource(t)
      BY <1>2, <1>3, <2>1 DEF Marking, HoldsSource
    <3>2. \A r \in Reports : ToMark(t, r) <=> ToMark(s, r)
      BY <1>2, <1>4, <2>1, <3>1 DEF ToMark
    <3> QED BY <1>1, <1>2, <1>3, <2>1, <3>1, <3>2, StillMarking
  <2>2. CASE s.next # "source"
    BY <1>1, <1>2, <1>3, <2>2, PayoutsLeft DEF Marking
  <2> QED BY <2>1, <2>2
<1>8. PayoutsAgree(t)' /\ Bound(t)' /\ Disjoint'
  BY <1>3, <1>4, <1>7, PayoutsStay, BoundStays
<1> QED BY <1>2, <1>6, <1>8, AloneAfter

\* The repository of payouts sets the copy of a payout: it is the payout.
LEMMA CopyPayoutAlone ==
    ASSUME SettlementInv, AloneInv, NEW p \in Workers, Workers = {p},
           FillPayout(p) \/ CachePayout(p)
    PROVE  AloneInv'
<1>1. PICK s : s = w[p]
  OBVIOUS
<1>2. PICK t : /\ Set(p, t)
               /\ s.pc = "fillPayout" => t.pc = s.next
               /\ s.pc = "cachePayout" => t.pc = "source"
               /\ t.doc = s.doc /\ t.payout = s.payout
               /\ t.status = s.status /\ t.batch = s.batch /\ t.sources = s.sources
  BY <1>1, RepositoryIs
<1>3. /\ \/ s.pc = "fillPayout" /\ t.pc = "decide"
         \/ s.pc = "cachePayout" /\ t.pc = "source"
      /\ s.payout \in PayoutDoc /\ s.payout.id \in Payouts
      /\ payouts[s.payout.id] # NoDoc
      /\ UNCHANGED <<reports, reportCache, payouts>>
      /\ payoutCache' = [payoutCache EXCEPT ![s.payout.id] = s.payout]
  <2>1. /\ \/ s.pc = "fillPayout" /\ t.pc = "decide"
           \/ s.pc = "cachePayout" /\ t.pc = "source"
        /\ s.payout # NoDoc /\ s.payout \in PayoutDoc
    BY <1>1, <1>2 DEF FillPayout, CachePayout, SettlementInv, WorkerInv, Marking
  <2>2. payouts[s.payout.id] # NoDoc
    BY <1>1, <2>1 DEF SettlementInv, MarkInv, Marking
  <2>3. /\ UNCHANGED <<reports, reportCache, payouts>>
        /\ payoutCache' = [payoutCache EXCEPT ![s.payout.id] = s.payout]
    BY <1>1 DEF FillPayout, CachePayout
  <2> QED BY <2>1, <2>2, <2>3 DEF PayoutDoc
<1>4. ReportsAgree(s) /\ PayoutsAgree(s) /\ Bound(s) /\ Disjoint
  BY <1>1 DEF AloneInv
<1>5. s.payout = payouts[s.payout.id]
  BY <1>3, <1>4 DEF PayoutsAgree, Marking
<1>6. ReportsAgree(t)'
  BY <1>2, <1>3, <1>4 DEF ReportsAgree, WritesSource
<1>7. \A x \in Payouts : payoutCache'[x] # NoDoc => payoutCache'[x] = payouts[x]
  <2>1. payoutCache = [x \in Payouts |-> payoutCache[x]]
    BY DEF SettlementInv, ShapeInv
  <2>2. payoutCache'[s.payout.id] = s.payout
    BY <1>3, <2>1
  <2>3. \A x \in Payouts : x # s.payout.id => payoutCache'[x] = payoutCache[x]
    BY <1>3, <2>1
  <2> QED BY <1>3, <1>4, <1>5, <2>2, <2>3 DEF PayoutsAgree
<1>8. PayoutsAgree(t)'
  BY <1>2, <1>3, <1>5, <1>7 DEF PayoutsAgree
<1>9. /\ Marking(t) <=> Marking(s)
      /\ \A r \in Reports : ToMark(t, r) <=> ToMark(s, r)
      /\ Claims(t) => Claims(s)
  BY <1>2, <1>3 DEF Marking, ToMark, HoldsSource, WritesSource, Claims
<1>10. Bound(t)
  BY <1>2, <1>4, <1>9, SourcesAreReports DEF Bound
<1>11. Bound(t)' /\ Disjoint'
  BY <1>3, <1>4, <1>10, BoundStays
<1> QED BY <1>2, <1>6, <1>8, <1>11, AloneAfter

\* Update replaces the report. A report that is stored names the payout it named, unless the
\* handler marks it for its own payout, which is then the only open one that lists it.
LEMMA WriteReportAlone ==
    ASSUME SettlementInv, PeriodInv, AloneInv, NEW p \in Workers, Workers = {p}, WriteReport(p)
    PROVE  AloneInv'
<1>1. PICK s : s = w[p]
  OBVIOUS
<1>2. PICK t : /\ t = [w[p] EXCEPT !.pc = "cache"] /\ t.pc = "cache" /\ t.next = s.next
               /\ t.doc = s.doc /\ t.payout = s.payout /\ t.status = s.status
               /\ t.batch = s.batch /\ t.sources = s.sources
  BY <1>1, AtIs DEF PCs
<1>3. /\ s.pc = "write" /\ s.doc # NoDoc /\ s.doc \in ReportDoc /\ s.doc.id \in Reports
      /\ s.next = "source" => s.payout # NoDoc /\ s.payout \in PayoutDoc
      /\ s.next = "source" => (s.status # "accepted" => s.payout.id \in Payouts)
      /\ UNCHANGED <<reportCache, payouts, payoutCache>> /\ Set(p, t)
  BY <1>1, <1>2 DEF WriteReport, SettlementInv, WorkerInv, IsWorker, Marking, ReportDoc, PayoutDoc
<1>4. /\ ReportsAgree(s) /\ PayoutsAgree(s) /\ Bound(s) /\ Disjoint
      /\ ~WritesSource(t) /\ ~HoldsSource(t) /\ ~HoldsSource(s)
      /\ WritesSource(s) <=> s.next = "source"
      /\ Marking(s) <=> s.next = "source"
      /\ Marking(t) <=> s.next = "source"
  BY <1>1, <1>2, <1>3 DEF AloneInv, WritesSource, HoldsSource, Marking
<1>5. /\ reports'[s.doc.id] = s.doc
      /\ \A r \in Reports : r # s.doc.id => reports'[r] = reports[r]
  BY <1>1, <1>3 DEF WriteReport, SettlementInv, ShapeInv
<1>6. \A d \in s.batch : reports[d.id] # NoDoc /\ d.id \in Reports
  BY <1>1 DEF PeriodInv, OnlyOfPeriod, SettlementInv, WorkerInv, IsWorker, ReportDoc
<1>7. \A d \in s.batch : d.payout = reports'[d.id].payout
  BY <1>3, <1>4, <1>5, <1>6 DEF ReportsAgree
<1>8. \A r \in Reports : reportCache[r] # NoDoc =>
         /\ reports'[r] # NoDoc
         /\ r # s.doc.id => reportCache[r].payout = reports'[r].payout
  BY <1>3, <1>4, <1>5 DEF ReportsAgree
<1>9. ReportsAgree(t)'
  BY <1>2, <1>3, <1>4, <1>5, <1>7, <1>8 DEF ReportsAgree
<1>10. PayoutsAgree(t)
  BY <1>2, <1>3, <1>4 DEF PayoutsAgree
<1>11. PayoutsAgree(t)'
  BY <1>3, <1>10, PayoutsStay
<1>12. \A r \in Reports : ToMark(t, r) <=> r \in s.sources
  BY <1>2, <1>4 DEF ToMark
<1>13. Claims(t) => Claims(s)
  BY <1>2, <1>3, <1>4, <1>12 DEF Claims, ToMark
<1>14. ASSUME NEW x \in Payouts, Open(x), NEW r \in payouts[x].sources
       PROVE  \/ reports'[r].payout = x
              \/ Marking(t) /\ t.payout.id = x /\ t.status = "waiting" /\ ToMark(t, r)
  <2>1. r \in Reports /\ reports[r] # NoDoc
    BY <1>14 DEF SettlementInv, CopyInv, PayoutCopy, AcceptedInv, ShapeInv, Open
  <2>2. \/ reports[r].payout = x
        \/ Marking(s) /\ s.payout.id = x /\ s.status = "waiting" /\ ToMark(s, r)
    BY <1>4, <1>14, <2>1 DEF Bound
  <2>3. CASE r # s.doc.id
    BY <1>2, <1>4, <1>5, <1>12, <2>1, <2>2, <2>3 DEF ToMark
  <2>4. CASE r = s.doc.id /\ s.next # "source"
    BY <1>3, <1>4, <1>5, <2>1, <2>2, <2>4 DEF ReportsAgree
  <2>5. CASE r = s.doc.id /\ s.next = "source"
    <3>1. Claims(s)
      BY <1>4, <2>1, <2>5 DEF Claims, ToMark
    <3>2. /\ s.doc.id \in s.payout.sources
          /\ s.doc.payout = IF s.status = "accepted" THEN NoPayout ELSE s.payout.id
      BY <1>4, <2>5 DEF ReportsAgree
    <3>3. x = s.payout.id
      BY <1>4, <1>14, <2>5, <3>1, <3>2 DEF Bound
    <3>4. s.status # "accepted"
      <4>1. s.payout = payouts[s.payout.id]
        BY <1>4, <2>5 DEF PayoutsAgree
      <4> QED BY <1>4, <1>14, <2>5, <3>1, <3>3, <4>1 DEF Bound, Open
    <3> QED BY <1>5, <2>5, <3>2, <3>3, <3>4
  <2> QED BY <2>3, <2>4, <2>5
<1>15. /\ Claims(t) => \A y \in Payouts : Open(y) /\ y # t.payout.id =>
                          payouts[y].sources \cap t.payout.sources = {}
       /\ Marking(t) /\ Claims(t) /\ t.status = "accepted" => ~Active(t.payout)
  BY <1>2, <1>4, <1>13 DEF Bound
<1>16. Bound(t)' /\ Disjoint'
  BY <1>3, <1>4, <1>14, <1>15 DEF Bound, Claims, Disjoint, Open
<1> QED BY <1>3, <1>9, <1>11, <1>16, AloneAfter

\* The repository stores a payout: a new one, whose reports no open payout lists, or one that
\* was pending, or one as it is.
LEMMA WritePayoutAlone ==
    ASSUME SettlementInv, AloneInv, NEW p \in Workers, Workers = {p}, WritePayout(p)
    PROVE  /\ AloneInv'
           /\ \A x \in Payouts : payouts[x] # NoDoc /\ payouts[x].status = "paid"
                                    => payouts'[x].status = "paid"
<1>1. PICK s : s = w[p]
  OBVIOUS
<1>2. PICK t : /\ Set(p, t)
               /\ s.pc = "writePayout" => t.pc = "cachePayout"
               /\ t.doc = s.doc /\ t.payout = s.payout
               /\ t.status = s.status /\ t.batch = s.batch /\ t.sources = s.sources
  BY <1>1, RepositoryIs
<1>3. /\ s.pc = "writePayout" /\ t.pc = "cachePayout"
      /\ s.payout # NoDoc /\ s.payout \in PayoutDoc /\ s.payout.id \in Payouts
      /\ UNCHANGED <<reports, reportCache, payoutCache>>
      /\ s.payout.sources \subseteq Reports
  BY <1>1, <1>2 DEF WritePayout, SettlementInv, WorkerInv, PayoutDoc
<1>4. /\ ReportsAgree(s) /\ PayoutsAgree(s) /\ Bound(s) /\ Disjoint
      /\ ~Marking(s) /\ Marking(t) /\ ~WritesSource(s) /\ ~WritesSource(t) /\ ~HoldsSource(t)
  BY <1>1, <1>3 DEF AloneInv, WritesSource, HoldsSource, Marking
<1>5. PICK id \in Payouts : id = s.payout.id
  BY <1>3
<1>6. /\ payouts'[id] = s.payout
      /\ \A x \in Payouts : x # id => payouts'[x] = payouts[x]
  BY <1>1, <1>3, <1>5 DEF WritePayout, SettlementInv, ShapeInv
<1>7. payouts[id] # NoDoc => payouts[id].sources = s.payout.sources
  BY <1>1, <1>3, <1>5 DEF SettlementInv, CopyInv, PayoutCopy
<1>8. \/ payouts[id] = NoDoc /\ s.status = "waiting" /\ s.sources = s.payout.sources
      \/ payouts[id] = s.payout /\ s.sources = {}
      \/ /\ payouts[id] # NoDoc /\ payouts[id].status = "pending"
         /\ s.sources = s.payout.sources
         /\ \/ s.payout.status = "paid" /\ s.status = "paid"
            \/ ~Active(s.payout) /\ s.status = "accepted"
  BY <1>3, <1>4, <1>5 DEF PayoutsAgree
<1>9. \A x \in Payouts : payouts[x] # NoDoc /\ payouts[x].status = "paid"
                            => payouts'[x].status = "paid"
  BY <1>6, <1>8
<1>10. ReportsAgree(t)'
  BY <1>2, <1>3, <1>4 DEF ReportsAgree
<1>11. \A x \in Payouts : payoutCache[x] # NoDoc =>
           payoutCache[x] = payouts'[x] \/ x = id
  BY <1>3, <1>4, <1>6 DEF PayoutsAgree
<1>12. PayoutsAgree(t)'
  BY <1>2, <1>3, <1>5, <1>6, <1>11 DEF PayoutsAgree
<1>13. \A x \in Payouts : /\ Open(x)' => Open(x) \/ (x = id /\ Claims(s) /\ payouts[id] = NoDoc)
                          /\ Open(x)' => payouts'[x].sources = IF x = id THEN s.payout.sources
                                                               ELSE payouts[x].sources
  BY <1>3, <1>5, <1>6, <1>8 DEF Open, Claims, Active
<1>14. \A r \in Reports : ToMark(t, r) <=> r \in s.sources
  BY <1>2, <1>4 DEF ToMark
<1>15. Claims(s) => \A y \in Payouts : Open(y) /\ y # id =>
                       payouts[y].sources \cap s.payout.sources = {}
  BY <1>4, <1>5 DEF Bound
<1>16. Claims(t)' => Claims(s)
  BY <1>2, <1>3, <1>14 DEF Claims
<1>17. ASSUME NEW x \in Payouts, Open(x)', NEW r \in payouts'[x].sources
       PROVE  \/ reports[r].payout = x
              \/ t.payout.id = x /\ t.status = "waiting" /\ ToMark(t, r)
  <2>1. CASE Open(x)
    <3>1. r \in payouts[x].sources /\ r \in Reports
      BY <1>7, <1>13, <1>17, <2>1, SourcesAreReports DEF Open
    <3> QED BY <1>4, <2>1, <3>1 DEF Bound
  <2>2. CASE ~Open(x)
    BY <1>2, <1>3, <1>5, <1>8, <1>13, <1>14, <1>17, <2>2
  <2> QED BY <2>1, <2>2
<1>18. Claims(t)' /\ t.status = "accepted" => ~Active(t.payout)
  BY <1>2, <1>3, <1>8, <1>14 DEF Claims
<1>19. Claims(t)' => \A y \in Payouts : Open(y)' /\ y # id =>
                        payouts'[y].sources \cap s.payout.sources = {}
  BY <1>6, <1>13, <1>15, <1>16
<1>20. Bound(t)'
  BY <1>2, <1>3, <1>4, <1>5, <1>17, <1>18, <1>19 DEF Bound
<1>21. Disjoint'
  <2>1. ASSUME NEW x \in Payouts, NEW y \in Payouts, x # y, Open(x)', Open(y)'
        PROVE  payouts'[x].sources \cap payouts'[y].sources = {}
    <3>1. CASE Open(x) /\ Open(y)
      BY <1>4, <1>7, <1>13, <2>1, <3>1 DEF Disjoint, Open
    <3>2. CASE ~Open(x)
      BY <1>13, <1>15, <2>1, <3>2
    <3>3. CASE ~Open(y)
      BY <1>13, <1>15, <2>1, <3>3
    <3> QED BY <3>1, <3>2, <3>3
  <2> QED BY <2>1 DEF Disjoint
<1> QED BY <1>2, <1>9, <1>10, <1>12, <1>20, <1>21, AloneAfter

LEMMA NextKeepsAlone ==
    ASSUME Failures = FALSE, OneHandler, SettlementInv, PeriodInv, AloneInv, [Next]_vars
    PROVE  AloneInv'
<1>1. ASSUME NEW p \in Workers, Request(p) PROVE AloneInv'
  BY <1>1, RequestAlone
<1>2. ASSUME NEW p \in Workers, Step(p) PROVE AloneInv'
  <2>0. Workers = {p} /\ ~Fail(p)
    BY DEF OneHandler, Fail
  <2>1. ASSUME FillReport(p) \/ WriteReport(p) \/ CacheReport(p) PROVE AloneInv'
    BY <2>0, <2>1, FillReportAlone, WriteReportAlone, CacheReportAlone
  <2>2. ASSUME FillPayout(p) \/ WritePayout(p) \/ CachePayout(p) PROVE AloneInv'
    BY <2>0, <2>2, CopyPayoutAlone, WritePayoutAlone
  <2>3. ASSUME DebitQuery(p) \/ CreditQuery(p) \/ StoreBalance(p) PROVE AloneInv'
    BY <2>0, <2>3, BalanceAlone
  <2>4. ASSUME \/ BuildReport(p) \/ Review(p) \/ Change(p) \/ Correct(p) \/ Recount(p)
               \/ \E d \in w[p].batch : AutoAccept(p, d)
        PROVE  AloneInv'
    BY <2>0, <2>4, ReportHandlerAlone
  <2>5. ASSUME CheckFunds(p) \/ Decide(p) \/ NextSource(p) \/ MarkSource(p) PROVE AloneInv'
    BY <2>0, <2>5, CheckFundsAlone, DecideAlone, NextSourceAlone, MarkSourceAlone
  <2> QED BY <1>2, <2>0, <2>1, <2>2, <2>3, <2>4, <2>5, Zenon DEF Step
<1>3. ASSUME UNCHANGED vars PROVE AloneInv'
  <2>1. \A p \in Workers : ReportsAgree(w[p])'
    BY <1>3 DEF vars, AloneInv, ReportsAgree
  <2>2. \A p \in Workers : PayoutsAgree(w[p])'
    BY <1>3 DEF vars, AloneInv, PayoutsAgree
  <2>3. Disjoint' /\ \A p \in Workers : Bound(w[p])'
    BY <1>3 DEF vars, AloneInv, Bound, Claims, Disjoint, Open, ToMark, HoldsSource, WritesSource,
         Marking
  <2> QED BY <2>1, <2>2, <2>3 DEF AloneInv
<1> QED BY <1>1, <1>2, <1>3, Zenon DEF Next

LEMMA InitAlone == Init => AloneInv
<1> SUFFICES ASSUME Init PROVE AloneInv
  OBVIOUS
<1>1. /\ \A r \in Reports : reportCache[r] = NoDoc
      /\ \A x \in Payouts : payouts[x] = NoDoc /\ payoutCache[x] = NoDoc
      /\ \A p \in Workers : w[p] = Idle
  BY DEF Init
<1>2. ReportsAgree(Idle)
  BY <1>1, IdleIs DEF ReportsAgree, WritesSource
<1>3. PayoutsAgree(Idle) /\ ~Marking(Idle)
  BY <1>1, IdleIs DEF PayoutsAgree, Marking
<1>4. Bound(Idle) /\ Disjoint
  BY <1>1, <1>3, IdleIs DEF Bound, Claims, Disjoint, Open
<1> QED BY <1>1, <1>2, <1>3, <1>4 DEF AloneInv

LEMMA AloneHolds ==
    ASSUME OneHandler, Failures = FALSE
    PROVE  Spec => []AloneInv
<1>1. SettlementInv /\ PeriodInv /\ AloneInv /\ [Next]_vars => AloneInv'
  BY NextKeepsAlone
<1> QED BY <1>1, InitAlone, InvariantHolds, PeriodHolds, PTL DEF Spec

\* With one handler at a time and no failing call no report is in two open payouts: a payout is
\* made of reports that name none, and its reports name it before the next request is read
\* (CreatePayoutDocument, royaltyReportSetPayoutDocumentId).
THEOREM ReportsPaidOutOnce ==
    ASSUME OneHandler, Failures = FALSE
    PROVE  Spec => []PaidOutOnce
<1>1. SettlementInv /\ AloneInv => PaidOutOnce
  BY DEF SettlementInv, ShapeInv, AloneInv, Disjoint, Open, PaidOutOnce, StoredPayouts
<1> QED BY <1>1, AloneHolds, InvariantHolds, PTL

\* Then a payout that is paid stays paid: the copy UpdatePayoutDocument decides about is the
\* payout, and it only changes one that is pending.
THEOREM PaidPayoutsStay ==
    ASSUME OneHandler, Failures = FALSE
    PROVE  Spec => PaidPayoutIsFinal
<1> DEFINE Final == \A x \in Payouts : payouts[x] # NoDoc /\ payouts[x].status = "paid"
                                          => payouts'[x].status = "paid"
<1>1. ASSUME SettlementInv, AloneInv, [Next]_vars
      PROVE  Final
  <2>1. ASSUME NEW p \in Workers, WritePayout(p) PROVE Final
    <3>1. Workers = {p}
      BY DEF OneHandler
    <3> QED BY <1>1, <2>1, <3>1, WritePayoutAlone
  <2>2. ASSUME payouts' = payouts PROVE Final
    BY <2>2
  <2>3. ASSUME NEW p \in Workers, Request(p) PROVE payouts' = payouts
    BY <2>3 DEF Request, CreateRoyaltyReport, AutoAcceptRoyaltyReports,
         MerchantReviewRoyaltyReport, ChangeRoyaltyReport, CreatePayoutDocument,
         UpdatePayoutDocument, GetMerchantBalance,
       CreateAccountingEntry
  <2>4. ASSUME NEW p \in Workers, Step(p), ~WritePayout(p) PROVE payouts' = payouts
    BY <2>4 DEF Step, FillReport, WriteReport, CacheReport, FillPayout, CachePayout,
         DebitQuery, CreditQuery, StoreBalance, BuildReport, AutoAccept, Review, Change,
         Correct, Recount, CheckFunds, Decide, NextSource, MarkSource, Fail
  <2>5. UNCHANGED vars => payouts' = payouts
    BY DEF vars
  <2> HIDE DEF Final
  <2> QED BY <1>1, <2>1, <2>2, <2>3, <2>4, <2>5, Zenon DEF Next
<1>2. SettlementInv /\ AloneInv /\ [Next]_vars => [Final]_vars
  BY <1>1
<1> QED BY <1>2, AloneHolds, InvariantHolds, PTL DEF Spec, PaidPayoutIsFinal

-----------------------------------------------------------------------------
(* Amounts. Reports and payouts are finitely many, so their sums are       *)
(* numbers, and every amount that is stored or held is one.                *)

LEMMA DocumentsFinite ==
    ASSUME SettlementInv
    PROVE  /\ IsFiniteSet(StoredReports) /\ StoredReports \subseteq ReportDoc
           /\ IsFiniteSet(PayoutSources) /\ PayoutSources \subseteq StoredReports
<1>1. reports \in Surjection(Reports, {reports[r] : r \in Reports})
  BY DEF Surjection, SettlementInv, ShapeInv
<1>2. IsFiniteSet({reports[r] : r \in Reports})
  BY <1>1, FS_Surjection, SettlementAssumption
<1>3. IsFiniteSet(StoredReports) /\ StoredReports \subseteq ReportDoc
  BY <1>2, FS_Subset DEF StoredReports, SettlementInv, ShapeInv
<1>4. PayoutSources \subseteq StoredReports
  BY DEF PayoutSources, NonPayoutReports
<1> QED BY <1>3, <1>4, FS_Subset

\* What reports are worth.
Worths(S) == [d \in S |-> Worth(d)]

LEMMA WorthSum ==
    ASSUME NEW S, IsFiniteSet(S), S \subseteq ReportDoc
    PROVE  MapThenSumSet(Worth, S) = Total(Worths(S), S)
<1> DEFINE Eq(g) == g = [s \in SUBSET S |->
                           IF s = {} THEN 0
                           ELSE LET x == CHOOSE x \in s : TRUE IN Worth(x) + g[s \ {x}]]
<1>1. MapThenSumSet(Worth, S) = (CHOOSE g : Eq(g))[S]
  BY DEF MapThenSumSet, MapThenFoldSet
<1>2. ASSUME NEW g
      PROVE  Eq(g) <=> Partials(Worths(S), S, g)
  <2>1. ASSUME NEW s \in SUBSET S, s # {}
        PROVE  (LET x == CHOOSE x \in s : TRUE IN Worth(x) + g[s \ {x}])
                = (LET x == CHOOSE x \in s : TRUE IN Worths(S)[x] + g[s \ {x}])
    BY <2>1, SomeElement DEF Worths
  <2>2. [s \in SUBSET S |-> IF s = {} THEN 0
                            ELSE LET x == CHOOSE x \in s : TRUE IN Worth(x) + g[s \ {x}]]
        = [s \in SUBSET S |-> IF s = {} THEN 0
                              ELSE LET x == CHOOSE x \in s : TRUE IN Worths(S)[x] + g[s \ {x}]]
    BY <2>1, Zenon
  <2> QED BY <2>2, Zenon DEF Partials
<1> HIDE DEF Eq
<1>3. PICK g : g = CHOOSE h : Eq(h)
  OBVIOUS
<1>4. \E h : Eq(h)
  BY <1>2, PartialsExist
<1>5. Eq(g)
  BY <1>3, <1>4
<1>6. Partials(Worths(S), S, g)
  BY <1>2, <1>5
<1>7. Total(Worths(S), S) = g[S]
  BY <1>6, TotalIs
<1> QED BY <1>1, <1>3, <1>7

LEMMA WorthTyped ==
    ASSUME NEW S, S \subseteq ReportDoc
    PROVE  /\ \A d \in S : Worths(S)[d] \in Int
           /\ \A d \in S : d.correction >= d.reserve => Royalty <= Worths(S)[d]
BY SettlementAssumption DEF Worths, Worth, ReportDoc

\* What is to be paid for reports.
Payables(S) == [d \in S |-> Payable(d)]

LEMMA PayableSum ==
    ASSUME NEW S, IsFiniteSet(S), S \subseteq ReportDoc
    PROVE  MapThenSumSet(Payable, S) = Total(Payables(S), S)
<1> DEFINE Eq(g) == g = [s \in SUBSET S |->
                           IF s = {} THEN 0
                           ELSE LET x == CHOOSE x \in s : TRUE IN Payable(x) + g[s \ {x}]]
<1>1. MapThenSumSet(Payable, S) = (CHOOSE g : Eq(g))[S]
  BY DEF MapThenSumSet, MapThenFoldSet
<1>2. ASSUME NEW g
      PROVE  Eq(g) <=> Partials(Payables(S), S, g)
  <2>1. ASSUME NEW s \in SUBSET S, s # {}
        PROVE  (LET x == CHOOSE x \in s : TRUE IN Payable(x) + g[s \ {x}])
                = (LET x == CHOOSE x \in s : TRUE IN Payables(S)[x] + g[s \ {x}])
    BY <2>1, SomeElement DEF Payables
  <2>2. [s \in SUBSET S |-> IF s = {} THEN 0
                            ELSE LET x == CHOOSE x \in s : TRUE IN Payable(x) + g[s \ {x}]]
        = [s \in SUBSET S |-> IF s = {} THEN 0
                              ELSE LET x == CHOOSE x \in s : TRUE IN Payables(S)[x] + g[s \ {x}]]
    BY <2>1, Zenon
  <2> QED BY <2>2, Zenon DEF Partials
<1> HIDE DEF Eq
<1>3. PICK g : g = CHOOSE h : Eq(h)
  OBVIOUS
<1>4. \E h : Eq(h)
  BY <1>2, PartialsExist
<1>5. Eq(g)
  BY <1>3, <1>4
<1>6. Partials(Payables(S), S, g)
  BY <1>2, <1>5
<1>7. Total(Payables(S), S) = g[S]
  BY <1>6, TotalIs
<1> QED BY <1>1, <1>3, <1>7

\* What payouts promise.
Fees(S) == [d \in S |-> d.fees]

LEMMA FeesSum ==
    ASSUME NEW S, IsFiniteSet(S)
    PROVE  MapThenSumSet(LAMBDA d : d.fees, S) = Total(Fees(S), S)
<1> DEFINE Eq(g) == g = [s \in SUBSET S |->
                           IF s = {} THEN 0
                           ELSE LET x == CHOOSE x \in s : TRUE IN x.fees + g[s \ {x}]]
<1>1. MapThenSumSet(LAMBDA d : d.fees, S) = (CHOOSE g : Eq(g))[S]
  BY DEF MapThenSumSet, MapThenFoldSet
<1>2. ASSUME NEW g
      PROVE  Eq(g) <=> Partials(Fees(S), S, g)
  <2>1. ASSUME NEW s \in SUBSET S, s # {}
        PROVE  (LET x == CHOOSE x \in s : TRUE IN x.fees + g[s \ {x}])
                = (LET x == CHOOSE x \in s : TRUE IN Fees(S)[x] + g[s \ {x}])
    BY <2>1, SomeElement DEF Fees
  <2>2. [s \in SUBSET S |-> IF s = {} THEN 0
                            ELSE LET x == CHOOSE x \in s : TRUE IN x.fees + g[s \ {x}]]
        = [s \in SUBSET S |-> IF s = {} THEN 0
                              ELSE LET x == CHOOSE x \in s : TRUE IN Fees(S)[x] + g[s \ {x}]]
    BY <2>1, Zenon
  <2> QED BY <2>2, Zenon DEF Partials
<1> HIDE DEF Eq
<1>3. PICK g : g = CHOOSE h : Eq(h)
  OBVIOUS
<1>4. \E h : Eq(h)
  BY <1>2, PartialsExist
<1>5. Eq(g)
  BY <1>3, <1>4
<1>6. Partials(Fees(S), S, g)
  BY <1>2, <1>5
<1>7. Total(Fees(S), S) = g[S]
  BY <1>6, TotalIs
<1> QED BY <1>1, <1>3, <1>7

\* Only so many payouts have been stored so far.
FinitelyPaid == IsFiniteSet({x \in Payouts : payouts[x] # NoDoc})

LEMMA PayoutsFinite ==
    ASSUME SettlementInv, FinitelyPaid
    PROVE  IsFiniteSet(StoredPayouts) /\ StoredPayouts \subseteq PayoutDoc
<1> DEFINE X == {x \in Payouts : payouts[x] # NoDoc}
           F == [x \in X |-> payouts[x]]
<1>1. IsFiniteSet(X)
  BY DEF FinitelyPaid
<1>2. StoredPayouts = {payouts[x] : x \in X}
  BY DEF StoredPayouts
<1>3. F \in Surjection(X, {payouts[x] : x \in X})
  BY DEF Surjection
<1>4. IsFiniteSet({payouts[x] : x \in X})
  <2> HIDE DEF X, F
  <2> QED BY <1>1, <1>3, FS_Surjection
<1>5. StoredPayouts \subseteq PayoutDoc
  BY DEF StoredPayouts, SettlementInv, ShapeInv
<1> QED BY <1>2, <1>4, <1>5

LEMMA AmountsOfDocuments ==
    ASSUME SettlementInv, FinitelyPaid
    PROVE  /\ DebitAmount \in Int /\ CreditAmount \in Int
           /\ PayoutAmount \in Int
<1>1. ASSUME NEW S, IsFiniteSet(S), S \subseteq ReportDoc
      PROVE  MapThenSumSet(Worth, S) \in Int
  <2>1. Total(Worths(S), S) \in Int
    BY <1>1, WorthTyped, TotalInt
  <2> QED BY <1>1, <2>1, WorthSum
<1>2. DebitAmount \in Int
  <2>1. PICK S : S = {d \in StoredReports : d.status \in {"accepted", "waiting", "paid"}}
    OBVIOUS
  <2>2. IsFiniteSet(S) /\ S \subseteq ReportDoc
    BY <2>1, DocumentsFinite, FS_Subset
  <2>3. MapThenSumSet(Worth, S) \in Int
    BY <1>1, <2>2
  <2> QED BY <2>1, <2>3 DEF DebitAmount
<1>3. CreditAmount \in Int
  <2>1. PICK S : S = {d \in StoredPayouts : d.status \in {"pending", "paid"}}
    OBVIOUS
  <2>2. IsFiniteSet(StoredPayouts) /\ StoredPayouts \subseteq PayoutDoc
    BY PayoutsFinite
  <2>3. IsFiniteSet(S) /\ \A d \in S : d.fees \in Int
    BY <2>1, <2>2, FS_Subset DEF PayoutDoc
  <2>4. Total(Fees(S), S) \in Int
    BY <2>3, TotalInt DEF Fees
  <2>5. MapThenSumSet(LAMBDA d : d.fees, S) \in Int
    BY <2>3, <2>4, FeesSum
  <2> QED BY <2>1, <2>5 DEF CreditAmount
<1>4. PayoutAmount \in Int
  <2>1. PICK S : S = PayoutSources
    OBVIOUS
  <2>2. IsFiniteSet(S) /\ S \subseteq ReportDoc
    BY <2>1, DocumentsFinite
  <2>3. Total(Payables(S), S) \in Int
    BY <2>2, TotalInt, SettlementAssumption DEF Payables, Payable, Worth, ReportDoc
  <2>4. MapThenSumSet(Payable, S) \in Int
    BY <2>2, <2>3, PayableSum
  <2> QED BY <2>1, <2>4 DEF PayoutAmount
<1> QED BY <1>2, <1>3, <1>4

\* A payout is of some reports and pays the royalty of each of them.
Priced(d) == d.fees = Royalty * Cardinality(d.sources) /\ d.sources # {}

Amounts(s) ==
    /\ s.amount \in Int /\ s.debit \in Int /\ s.credit \in Int
    /\ s.payout # NoDoc => Priced(s.payout)

AmountsInv ==
    /\ FinitelyPaid
    /\ \A x \in Payouts : /\ payouts[x] # NoDoc => Priced(payouts[x])
                          /\ payoutCache[x] # NoDoc => Priced(payoutCache[x])
    /\ \A p \in Workers : Amounts(w[p])
    /\ balance \in [debit : Int, credit : Int] \cup {NoBalance}

\* What handlers do to each other's state and their own keeps the amounts.
LEMMA AmountsKept ==
    ASSUME AmountsInv, NEW s, IsWorker(s), Amounts(s)
    PROVE  /\ \A r, next : Amounts(GetReport(s, r, next))
           /\ \A x \in Payouts : \A next : Amounts(GetPayout(s, x, next))
           /\ \A d, next : Amounts(UpdateReport(s, d, next))
           /\ \A pc : Amounts(Goto(s, pc))
           /\ \A pc : Amounts([s EXCEPT !.pc = pc])
           /\ Amounts(Idle)
<1>1. Amounts(Idle)
  BY DEF Amounts, Idle
<1>2. \A pc, batch : Amounts([Idle EXCEPT !.pc = pc, !.batch = batch])
  BY DEF Amounts, Idle
<1>3. \A pc : Amounts([s EXCEPT !.pc = pc])
  BY DEF Amounts, IsWorker
<1>4. ASSUME NEW r, NEW next PROVE Amounts(GetReport(s, r, next))
  BY DEF Amounts, IsWorker, GetReport
<1>5. ASSUME NEW x \in Payouts, NEW next PROVE Amounts(GetPayout(s, x, next))
  BY DEF Amounts, AmountsInv, IsWorker, GetPayout
<1>6. ASSUME NEW d, NEW next PROVE Amounts(UpdateReport(s, d, next))
  BY DEF Amounts, IsWorker, UpdateReport
<1>7. ASSUME NEW pc PROVE Amounts(Goto(s, pc))
  <2>1. CASE pc = "idle"
    BY <1>1, <2>1 DEF Goto
  <2>2. CASE pc = "debit"
    <3>1. PICK t : t = [Idle EXCEPT !.pc = pc, !.batch = s.batch]
      OBVIOUS
    <3>2. Goto(s, pc) = t
      BY <2>2, <3>1 DEF Goto
    <3>3. Amounts(t)
      BY <1>2, <3>1
    <3> QED BY <3>2, <3>3
  <2>3. CASE pc # "idle" /\ pc # "debit"
    <3>1. Goto(s, pc) = [s EXCEPT !.pc = pc]
      BY <2>3 DEF Goto
    <3> QED BY <1>3, <3>1
  <2> QED BY <2>1, <2>2, <2>3
<1> QED BY <1>1, <1>3, <1>4, <1>5, <1>6, <1>7

\* A payout lists as many reports as it was made of.
LEMMA SourcesCounted ==
    ASSUME SettlementInv
    PROVE  Cardinality({d.id : d \in PayoutSources}) = Cardinality(PayoutSources)
<1>1. PICK S : S = PayoutSources
  OBVIOUS
<1>2. IsFiniteSet(S) /\ \A d \in S : reports[d.id] = d
  BY <1>1, DocumentsFinite DEF PayoutSources, NonPayoutReports, StoredReports, SettlementInv,
     ShapeInv
<1>3. PICK f : f = [d \in S |-> d.id]
  OBVIOUS
<1>4. f \in Bijection(S, {d.id : d \in S})
  BY <1>2, <1>3 DEF Bijection, Injection, Surjection, IsInjective
<1>5. Cardinality({d.id : d \in S}) = Cardinality(S)
  BY <1>2, <1>4, FS_Bijection DEF ExistsBijection
<1> QED BY <1>1, <1>5

LEMMA RequestAmounts ==
    ASSUME SettlementInv, AmountsInv, NEW p \in Workers, Request(p)
    PROVE  \E t : Set(p, t) /\ Amounts(t)
<1>1. ASSUME NEW t \in Periods, CreateRoyaltyReport(p, t)
      PROVE  \E s : Set(p, s) /\ Amounts(s)
  <2>1. \A d : Amounts([Idle EXCEPT !.pc = "build", !.doc = d])
    BY DEF Amounts, Idle
  <2> QED BY <1>1, <2>1 DEF CreateRoyaltyReport, GetReportExists
<1>2. ASSUME AutoAcceptRoyaltyReports(p) PROVE \E s : Set(p, s) /\ Amounts(s)
  <2>1. \A d : Amounts([Idle EXCEPT !.pc = "accept", !.batch = d])
    BY DEF Amounts, Idle
  <2> QED BY <1>2, <2>1 DEF AutoAcceptRoyaltyReports
<1>3. ASSUME NEW r \in Reports, NEW verdict \in {"accepted", "dispute"},
             MerchantReviewRoyaltyReport(p, r, verdict)
      PROVE  \E s : Set(p, s) /\ Amounts(s)
  <2> DEFINE t == [Idle EXCEPT !.status = verdict]
  <2>1. IsWorker(t)
    BY DEF Idle, IsWorker, PCs, ReportStatuses
  <2>2. Amounts(t)
    BY DEF Idle, Amounts
  <2> HIDE DEF t
  <2>4. Amounts(GetReport(t, r, "review"))
    BY <2>1, <2>2, AmountsKept
  <2> QED BY <1>3, <2>4 DEF MerchantReviewRoyaltyReport, t
<1>4. ASSUME NEW r \in Reports, NEW status \in {"none", "pending", "accepted", "dispute"},
             NEW correct \in BOOLEAN, ChangeRoyaltyReport(p, r, status, correct)
      PROVE  \E s : Set(p, s) /\ Amounts(s)
  <2> DEFINE t == [Idle EXCEPT !.status = status, !.correct = correct]
  <2>1. IsWorker(t)
    BY DEF Idle, IsWorker, PCs, ReportStatuses
  <2>2. Amounts(t)
    BY DEF Idle, Amounts
  <2> HIDE DEF t
  <2>4. Amounts(GetReport(t, r, "change"))
    BY <2>1, <2>2, AmountsKept
  <2> QED BY <1>4, <2>4 DEF ChangeRoyaltyReport, t
<1>5. ASSUME CreatePayoutDocument(p) PROVE \E s : Set(p, s) /\ Amounts(s)
  <2>1. PICK n : n = PayoutAmount
    OBVIOUS
  <2>2. n \in Int
    BY <2>1, AmountsOfDocuments DEF AmountsInv
  <2>3. \A d : Priced(d) => Amounts([Idle EXCEPT !.pc = "funds", !.amount = n, !.payout = d])
    BY <2>2 DEF Amounts, Idle
  <2>4. PICK x, d :
          /\ d = [id |-> x, status |-> "pending", sources |-> {e.id : e \in PayoutSources},
                  fees |-> Royalty * Cardinality(PayoutSources)]
          /\ Set(p, [Idle EXCEPT !.pc = "funds", !.amount = n, !.payout = d])
          /\ PayoutSources # {}
    BY <1>5, <2>1 DEF CreatePayoutDocument
  <2>5. Priced(d)
    BY <2>4, SourcesCounted DEF Priced
  <2> QED BY <2>3, <2>4, <2>5
<1>6. ASSUME NEW x \in Payouts, NEW status \in PayoutStatuses \cup {"none"},
             UpdatePayoutDocument(p, x, status)
      PROVE  \E s : Set(p, s) /\ Amounts(s)
  <2> DEFINE t == [Idle EXCEPT !.status = status]
  <2>1. IsWorker(t)
    BY DEF Idle, IsWorker, PCs
  <2>2. Amounts(t)
    BY DEF Idle, Amounts
  <2> HIDE DEF t
  <2>4. Amounts(GetPayout(t, x, "decide"))
    BY <2>1, <2>2, AmountsKept
  <2> QED BY <1>6, <2>4 DEF UpdatePayoutDocument, t
<1>7. ASSUME AsksBalance(p) PROVE \E s : Set(p, s) /\ Amounts(s)
  <2>1. Amounts([Idle EXCEPT !.pc = "debit"])
    BY DEF Amounts, Idle
  <2> QED BY <1>7, <2>1 DEF AsksBalance, GetMerchantBalance, CreateAccountingEntry
<1> QED BY <1>1, <1>2, <1>3, <1>4, <1>5, <1>6, <1>7, Zenon DEF Request, AsksBalance

LEMMA StepAmounts ==
    ASSUME SettlementInv, AmountsInv, NEW p \in Workers, Step(p)
    PROVE  \E t : Set(p, t) /\ Amounts(t)
<1>1. PICK s : s = w[p]
  OBVIOUS
<1>2. IsWorker(s) /\ Amounts(s)
  BY <1>1 DEF SettlementInv, WorkerInv, AmountsInv
<1>3. ASSUME NEW pc PROVE Amounts([s EXCEPT !.pc = pc])
  BY <1>2, AmountsKept
<1>4. ASSUME NEW pc PROVE Amounts(Goto(s, pc))
  BY <1>2, AmountsKept
<1>5. Amounts(Idle)
  BY <1>2, AmountsKept
<1>6. ASSUME NEW d, NEW next PROVE Amounts(UpdateReport(s, d, next))
  BY <1>2, AmountsKept
<1>7. ASSUME FillReport(p) \/ WriteReport(p) \/ CacheReport(p)
             \/ FillPayout(p) \/ WritePayout(p) \/ CachePayout(p)
      PROVE  \E t : Set(p, t) /\ Amounts(t)
  BY <1>1, <1>3, <1>4, <1>7
     DEF FillReport, WriteReport, CacheReport, FillPayout, WritePayout, CachePayout
<1>8. ASSUME DebitQuery(p) PROVE \E t : Set(p, t) /\ Amounts(t)
  <2>1. DebitAmount \in Int
    BY AmountsOfDocuments DEF AmountsInv
  <2>2. Amounts([s EXCEPT !.pc = "credit", !.debit = DebitAmount])
    BY <1>2, <2>1 DEF Amounts, IsWorker
  <2> QED BY <1>1, <1>8, <2>2 DEF DebitQuery
<1>9. ASSUME CreditQuery(p) PROVE \E t : Set(p, t) /\ Amounts(t)
  <2>1. CreditAmount \in Int
    BY AmountsOfDocuments DEF AmountsInv
  <2>2. Amounts([s EXCEPT !.pc = "store", !.credit = CreditAmount])
    BY <1>2, <2>1 DEF Amounts, IsWorker
  <2> QED BY <1>1, <1>9, <2>2 DEF CreditQuery
<1>10. ASSUME StoreBalance(p) PROVE \E t : Set(p, t) /\ Amounts(t)
  BY <1>1, <1>3, <1>5, <1>10 DEF StoreBalance
<1>11. ASSUME BuildReport(p) \/ Review(p) PROVE \E t : Set(p, t) /\ Amounts(t)
  BY <1>1, <1>5, <1>6, <1>11 DEF BuildReport, Review
<1>12. ASSUME NEW d \in w[p].batch, AutoAccept(p, d) PROVE \E t : Set(p, t) /\ Amounts(t)
  <2> DEFINE r == [s EXCEPT !.batch = @ \ {d}]
  <2>1. IsWorker(r) /\ Amounts(r)
    BY <1>2 DEF IsWorker, Amounts
  <2> HIDE DEF r
  <2>2. Amounts(UpdateReport(r, [d EXCEPT !.status = "accepted"], "debit"))
    BY <2>1, AmountsKept
  <2> QED BY <1>1, <1>12, <2>2 DEF AutoAccept, r
<1>13. ASSUME Change(p) PROVE \E t : Set(p, t) /\ Amounts(t)
  <2>1. PICK t : /\ Set(p, t)
                 /\ t \in {Idle, [s EXCEPT !.pc = "correct"],
                           UpdateReport(s, NewStatus(s), "debit")}
    BY <1>1, <1>13 DEF Change
  <2> QED BY <1>3, <1>5, <1>6, <2>1
<1>14. ASSUME Correct(p) PROVE \E t : Set(p, t) /\ Amounts(t)
  BY <1>1, <1>3, <1>14 DEF Correct
<1>15. ASSUME Recount(p) PROVE \E t : Set(p, t) /\ Amounts(t)
  <2> DEFINE r == [s EXCEPT !.doc.correction = corrections[PeriodOf[s.doc.id]]]
  <2>0. s.doc \in ReportDoc /\ corrections[PeriodOf[s.doc.id]] \in Int
    <3>1. s.doc \in ReportDoc
      BY <1>1, <1>2, <1>15 DEF Recount, SettlementInv, WorkerInv, IsWorker
    <3> QED BY <3>1, SettlementAssumption DEF SettlementInv, ShapeInv, ReportDoc
  <2>1. IsWorker(r) /\ Amounts(r)
    BY <1>2, <2>0 DEF IsWorker, Amounts, ReportDoc
  <2> HIDE DEF r
  <2>2. Amounts(UpdateReport(r, NewStatus(r), "debit"))
    BY <2>1, AmountsKept
  <2> QED BY <1>1, <1>15, <2>2 DEF Recount, r
<1>a. ASSUME s.payout \in PayoutDoc, s.payout # NoDoc, NEW status
      PROVE  Priced([s.payout EXCEPT !.status = status])
  <2>1. PICK d : d = [s.payout EXCEPT !.status = status]
    OBVIOUS
  <2>2. d.sources = s.payout.sources /\ d.fees = s.payout.fees
    BY <1>a, <2>1 DEF PayoutDoc
  <2> QED BY <1>2, <1>a, <2>1, <2>2 DEF Amounts, Priced
<1>b. w[p].pc \in {"funds", "decide"} => s.payout \in PayoutDoc /\ s.payout # NoDoc
  BY <1>1 DEF SettlementInv, WorkerInv
<1>16. ASSUME CheckFunds(p) PROVE \E t : Set(p, t) /\ Amounts(t)
  <2>1. ASSUME NEW status
        PROVE  Amounts([s EXCEPT !.pc = "writePayout", !.last = "debit", !.status = "waiting",
                                 !.sources = s.payout.sources, !.payout.status = status])
    <3>1. PICK d : d = [s.payout EXCEPT !.status = status]
      OBVIOUS
    <3>2. Priced(d)
      BY <1>16, <1>a, <1>b, <3>1 DEF CheckFunds
    <3>3. Amounts([s EXCEPT !.pc = "writePayout", !.last = "debit", !.status = "waiting",
                            !.sources = s.payout.sources, !.payout = d])
      BY <1>2, <3>2 DEF IsWorker, Amounts
    <3> QED BY <1>2, <3>1, <3>3 DEF IsWorker
  <2> QED BY <1>1, <1>5, <1>16, <2>1 DEF CheckFunds
<1>17. ASSUME Decide(p) PROVE \E t : Set(p, t) /\ Amounts(t)
  <2>1. Amounts([s EXCEPT !.pc = "writePayout", !.last = "idle"])
    BY <1>2 DEF IsWorker, Amounts
  <2>2. ASSUME NEW last
        PROVE  Amounts([s EXCEPT !.pc = "writePayout", !.payout.status = s.status,
                                 !.sources = s.payout.sources,
                                 !.status = ReportStatusFor(s.status), !.last = last])
    <3>1. PICK d : d = [s.payout EXCEPT !.status = s.status]
      OBVIOUS
    <3>2. Priced(d)
      BY <1>17, <1>a, <1>b, <3>1 DEF Decide
    <3>3. Amounts([s EXCEPT !.pc = "writePayout", !.payout = d,
                            !.sources = s.payout.sources,
                            !.status = ReportStatusFor(s.status), !.last = last])
      BY <1>2, <3>2 DEF IsWorker, Amounts
    <3> QED BY <1>2, <3>1, <3>3 DEF IsWorker
  <2> QED BY <1>1, <1>5, <1>17, <2>1, <2>2 DEF Decide
<1>18. ASSUME NextSource(p) PROVE \E t : Set(p, t) /\ Amounts(t)
  <2>1. ASSUME NEW r \in s.sources
        PROVE  Amounts(GetReport([s EXCEPT !.sources = @ \ {r}], r, "mark"))
    <3> DEFINE u == [s EXCEPT !.sources = @ \ {r}]
    <3>1. IsWorker(u) /\ Amounts(u)
      BY <1>2 DEF IsWorker, Amounts
    <3> HIDE DEF u
    <3>2. Amounts(GetReport(u, r, "mark"))
      BY <3>1, AmountsKept
    <3> QED BY <3>2 DEF u
  <2> QED BY <1>1, <1>4, <1>18, <2>1 DEF NextSource
<1>19. ASSUME MarkSource(p) PROVE \E t : Set(p, t) /\ Amounts(t)
  BY <1>1, <1>6, <1>19 DEF MarkSource
<1>20. ASSUME Fail(p) PROVE \E t : Set(p, t) /\ Amounts(t)
  BY <1>5, <1>20 DEF Fail
<1> QED BY <1>7, <1>8, <1>9, <1>10, <1>11, <1>12, <1>13, <1>14, <1>15, <1>16, <1>17, <1>18,
           <1>19, <1>20 DEF Step

LEMMA NextAmounts ==
    ASSUME SettlementInv, AmountsInv, [Next]_vars
    PROVE  AmountsInv'
<1>1. FinitelyPaid'
  <2> DEFINE X == {x \in Payouts : payouts[x] # NoDoc}
  <2>1. IsFiniteSet(X)
    BY DEF AmountsInv, FinitelyPaid
  <2>2. ASSUME NEW p \in Workers, WritePayout(p)
        PROVE  X' \subseteq X \cup {w[p].payout.id}
    BY <2>2 DEF WritePayout
  <2>3. ASSUME UNCHANGED payouts PROVE X' = X
    BY <2>3
  <2>4. ASSUME NEW p \in Workers, Request(p) PROVE UNCHANGED payouts
    BY <2>4 DEF Request, CreateRoyaltyReport, AutoAcceptRoyaltyReports,
         MerchantReviewRoyaltyReport, ChangeRoyaltyReport, CreatePayoutDocument,
         UpdatePayoutDocument, GetMerchantBalance,
       CreateAccountingEntry
  <2>5. ASSUME NEW p \in Workers, Step(p), ~WritePayout(p) PROVE UNCHANGED payouts
    BY <2>5 DEF Step, FillReport, WriteReport, CacheReport, FillPayout, CachePayout,
         DebitQuery, CreditQuery, StoreBalance, BuildReport, AutoAccept, Review, Change,
         Correct, Recount, CheckFunds, Decide, NextSource, MarkSource, Fail
  <2>6. UNCHANGED vars => UNCHANGED payouts
    BY DEF vars
  <2>7. \E e : X' \subseteq X \cup {e}
    <3> HIDE DEF X
    <3> QED BY <2>2, <2>3, <2>4, <2>5, <2>6, Zenon DEF Next
  <2>8. IsFiniteSet(X')
    <3> HIDE DEF X
    <3>1. PICK e : X' \subseteq X \cup {e}
      BY <2>7
    <3>2. IsFiniteSet(X \cup {e})
      BY <2>1, FS_AddElement
    <3> QED BY <3>1, <3>2, FS_Subset
  <2> QED BY <2>8 DEF FinitelyPaid
<1>2. \A p \in Workers : Amounts(w[p])'
  <2>1. ASSUME NEW p \in Workers, Request(p) \/ Step(p)
        PROVE  \A q \in Workers : Amounts(w'[q])
    <3>1. PICK t : Set(p, t) /\ Amounts(t)
      BY <2>1, RequestAmounts, StepAmounts
    <3>2. w'[p] = t /\ \A q \in Workers : q # p => w'[q] = w[q]
      BY <3>1 DEF Set, SettlementInv, ShapeInv
    <3> QED BY <3>1, <3>2 DEF AmountsInv
  <2>2. ASSUME UNCHANGED vars PROVE \A q \in Workers : Amounts(w'[q])
    BY <2>2 DEF vars, AmountsInv
  <2>3. \A q \in Workers : Amounts(w'[q])
    BY <2>1, <2>2 DEF Next
  <2> QED BY <2>3 DEF Amounts
<1>3. \A x \in Payouts : /\ payouts'[x] # NoDoc => Priced(payouts'[x])
                         /\ payoutCache'[x] # NoDoc => Priced(payoutCache'[x])
  <2>1. ASSUME NEW p \in Workers, FillPayout(p) \/ WritePayout(p) \/ CachePayout(p)
        PROVE  /\ payouts' \in {payouts, [payouts EXCEPT ![w[p].payout.id] = w[p].payout]}
               /\ payoutCache' \in {payoutCache,
                                    [payoutCache EXCEPT ![w[p].payout.id] = w[p].payout]}
               /\ Priced(w[p].payout)
    <3>1. w[p].payout # NoDoc
      BY <2>1 DEF FillPayout, WritePayout, CachePayout, SettlementInv, WorkerInv, Marking
    <3> QED BY <2>1, <3>1 DEF FillPayout, WritePayout, CachePayout, AmountsInv, Amounts
  <2>2. ASSUME NEW p \in Workers, FillPayout(p) \/ WritePayout(p) \/ CachePayout(p),
               NEW x \in Payouts
        PROVE  /\ payouts'[x] # NoDoc => Priced(payouts'[x])
               /\ payoutCache'[x] # NoDoc => Priced(payoutCache'[x])
    BY <2>1, <2>2 DEF AmountsInv, SettlementInv, ShapeInv
  <2>3. ASSUME NEW p \in Workers, Request(p) PROVE UNCHANGED <<payouts, payoutCache>>
    BY <2>3 DEF Request, CreateRoyaltyReport, AutoAcceptRoyaltyReports,
         MerchantReviewRoyaltyReport, ChangeRoyaltyReport, CreatePayoutDocument,
         UpdatePayoutDocument, GetMerchantBalance,
       CreateAccountingEntry
  <2>4. ASSUME NEW p \in Workers, Step(p), ~(FillPayout(p) \/ WritePayout(p) \/ CachePayout(p))
        PROVE  UNCHANGED <<payouts, payoutCache>>
    BY <2>4 DEF Step, FillReport, WriteReport, CacheReport,
         DebitQuery, CreditQuery, StoreBalance, BuildReport, AutoAccept, Review, Change,
         Correct, Recount, CheckFunds, Decide, NextSource, MarkSource, Fail
  <2>5. UNCHANGED vars => UNCHANGED <<payouts, payoutCache>>
    BY DEF vars
  <2>6. ASSUME UNCHANGED <<payouts, payoutCache>>, NEW x \in Payouts
        PROVE  /\ payouts'[x] # NoDoc => Priced(payouts'[x])
               /\ payoutCache'[x] # NoDoc => Priced(payoutCache'[x])
    BY <2>6 DEF AmountsInv
  <2> QED BY <2>2, <2>3, <2>4, <2>5, <2>6, Zenon DEF Next
<1>4. (balance \in [debit : Int, credit : Int] \cup {NoBalance})'
  <2>1. ASSUME NEW p \in Workers, StoreBalance(p)
        PROVE  balance' \in [debit : Int, credit : Int]
    BY <2>1 DEF StoreBalance, AmountsInv, Amounts
  <2>2. ASSUME NEW p \in Workers, Request(p) PROVE UNCHANGED balance
    BY <2>2 DEF Request, CreateRoyaltyReport, AutoAcceptRoyaltyReports,
         MerchantReviewRoyaltyReport, ChangeRoyaltyReport, CreatePayoutDocument,
         UpdatePayoutDocument, GetMerchantBalance,
       CreateAccountingEntry
  <2>3. ASSUME NEW p \in Workers, Step(p), ~StoreBalance(p) PROVE UNCHANGED balance
    BY <2>3 DEF Step, FillReport, WriteReport, CacheReport, FillPayout, WritePayout,
         CachePayout, DebitQuery, CreditQuery, BuildReport, AutoAccept, Review, Change,
         Correct, Recount, CheckFunds, Decide, NextSource, MarkSource, Fail
  <2>4. UNCHANGED vars => UNCHANGED balance
    BY DEF vars
  <2> QED BY <2>1, <2>2, <2>3, <2>4 DEF Next, AmountsInv
<1>5. (\A x \in Payouts : /\ payouts[x] # NoDoc => Priced(payouts[x])
                          /\ payoutCache[x] # NoDoc => Priced(payoutCache[x]))'
  BY <1>3 DEF Priced
<1> QED BY <1>1, <1>2, <1>4, <1>5 DEF AmountsInv

\* The counters and what has been paid.
CountersInv ==
    /\ corrections \in [Periods -> -MaxCorrections .. MaxCorrections]
    /\ reserves \in [Periods -> -MaxReserve .. MaxReserve]
    /\ requests \in 0 .. MaxRequests
    /\ settled \subseteq Payouts
    /\ blind \subseteq Periods

\* An entry adds to the sum of its period.
LEMMA EntryAdds ==
    ASSUME NEW f, NEW g, NEW max \in Nat, f \in [Periods -> -max .. max],
           NEW t, NEW n, f[t] + n \in -max .. max, g = [f EXCEPT ![t] = @ + n]
    PROVE  g \in [Periods -> -max .. max]
<1>1. \A u \in Periods : g[u] = IF u = t THEN f[t] + n ELSE f[u]
  OBVIOUS
<1>2. \A u \in Periods : g[u] \in -max .. max
  BY <1>1
<1> QED BY <1>2

LEMMA NextCounters ==
    ASSUME SettlementInv, CountersInv, [Next]_vars
    PROVE  CountersInv'
<1>1. ASSUME NEW p \in Workers, Request(p) PROVE CountersInv'
  <2>1. requests' = requests + 1 /\ requests < MaxRequests
    BY <1>1 DEF Request
  <2>2. UNCHANGED <<corrections, settled>>
    BY <1>1 DEF Request, CreateRoyaltyReport, AutoAcceptRoyaltyReports,
         MerchantReviewRoyaltyReport, ChangeRoyaltyReport, CreatePayoutDocument,
         UpdatePayoutDocument, GetMerchantBalance, CreateAccountingEntry
  <2>3. reserves' \in [Periods -> -MaxReserve .. MaxReserve]
    <3>1. ASSUME NEW t \in Periods, CreateAccountingEntry(p, t)
          PROVE  reserves' \in [Periods -> -MaxReserve .. MaxReserve]
      <4>1. PICK n : /\ reserves[t] + n \in -MaxReserve .. MaxReserve
                     /\ reserves' = [reserves EXCEPT ![t] = @ + n]
        BY <3>1 DEF CreateAccountingEntry
      <4> QED BY <4>1, EntryAdds, SettlementAssumption DEF CountersInv
    <3>2. ASSUME \A t \in Periods : ~CreateAccountingEntry(p, t) PROVE UNCHANGED reserves
      BY <1>1, <3>2 DEF Request, CreateRoyaltyReport, AutoAcceptRoyaltyReports,
           MerchantReviewRoyaltyReport, ChangeRoyaltyReport, CreatePayoutDocument,
           UpdatePayoutDocument, GetMerchantBalance
    <3> QED BY <3>1, <3>2 DEF CountersInv
  <2>4. blind' \subseteq Periods
    BY <1>1 DEF CountersInv, Request, CreateRoyaltyReport, AutoAcceptRoyaltyReports,
         MerchantReviewRoyaltyReport, ChangeRoyaltyReport, CreatePayoutDocument,
         UpdatePayoutDocument, GetMerchantBalance, CreateAccountingEntry
  <2> QED BY <2>1, <2>2, <2>3, <2>4, SettlementAssumption DEF CountersInv
<1>2. ASSUME NEW p \in Workers, Step(p) PROVE CountersInv'
  <2>1. UNCHANGED <<requests, reserves, blind>>
    BY <1>2 DEF Step, FillReport, WriteReport, CacheReport, FillPayout, WritePayout,
         CachePayout, DebitQuery, CreditQuery, StoreBalance, BuildReport, AutoAccept, Review,
         Change, Correct, Recount, CheckFunds, Decide, NextSource, MarkSource, Fail
  <2>2. CASE Correct(p)
    <3>1. UNCHANGED settled
      BY <2>2 DEF Correct
    <3>2. PICK t, n : /\ corrections[t] + n \in -MaxCorrections .. MaxCorrections
                      /\ corrections' = [corrections EXCEPT ![t] = @ + n]
      BY <2>2 DEF Correct
    <3>3. corrections' \in [Periods -> -MaxCorrections .. MaxCorrections]
      BY <3>2, EntryAdds, SettlementAssumption DEF CountersInv
    <3> QED BY <2>1, <3>1, <3>3 DEF CountersInv
  <2>3. CASE WritePayout(p)
    <3>1. w[p].payout \in PayoutDoc
      BY <2>3 DEF WritePayout, SettlementInv, WorkerInv
    <3>2. settled' \subseteq settled \cup {w[p].payout.id} /\ UNCHANGED corrections
      BY <2>3 DEF WritePayout
    <3>3. w[p].payout.id \in Payouts
      BY <3>1 DEF PayoutDoc
    <3> QED BY <2>1, <3>2, <3>3 DEF CountersInv
  <2>4. ASSUME ~Correct(p), ~WritePayout(p) PROVE UNCHANGED <<corrections, settled>>
    BY <1>2, <2>4 DEF Step, FillReport, WriteReport, CacheReport, FillPayout,
         CachePayout, DebitQuery, CreditQuery, StoreBalance, BuildReport, AutoAccept, Review,
         Change, Recount, CheckFunds, Decide, NextSource, MarkSource, Fail
  <2> QED BY <2>1, <2>2, <2>3, <2>4 DEF CountersInv
<1>3. UNCHANGED vars => CountersInv'
  BY DEF vars, CountersInv
<1> QED BY <1>1, <1>2, <1>3 DEF Next

LEMMA TypesFollow == SettlementInv /\ AmountsInv /\ CountersInv => TypeOK
<1> SUFFICES ASSUME SettlementInv, AmountsInv, CountersInv PROVE TypeOK
  OBVIOUS
<1>1. \A p \in Workers : w[p] \in Worker
  BY DEF SettlementInv, WorkerInv, IsWorker, Worker, AmountsInv, Amounts
<1>2. payouts \in [Payouts -> PayoutDoc \cup {NoDoc}]
  BY DEF SettlementInv, ShapeInv
<1>3. payoutCache \in [Payouts -> PayoutDoc \cup {NoDoc}]
  BY DEF SettlementInv, ShapeInv
<1>4. w \in [Workers -> Worker]
  BY <1>1 DEF SettlementInv, ShapeInv
<1> QED BY <1>2, <1>3, <1>4 DEF TypeOK, SettlementInv, ShapeInv, AmountsInv, CountersInv

LEMMA AmountsStart == Init => AmountsInv /\ CountersInv
<1>1. Amounts(Idle)
  BY DEF Amounts, Idle
<1>2. Init => FinitelyPaid
  <2>1. Init => {x \in Payouts : payouts[x] # NoDoc} = {}
    BY DEF Init
  <2> QED BY <2>1, FS_EmptySet DEF FinitelyPaid
<1> QED BY <1>1, <1>2, SettlementAssumption DEF Init, AmountsInv, CountersInv

LEMMA AmountsHold == Spec => [](SettlementInv /\ AmountsInv /\ CountersInv)
<1>1. SettlementInv /\ AmountsInv /\ CountersInv /\ [Next]_vars => (AmountsInv /\ CountersInv)'
  BY NextAmounts, NextCounters
<1> QED BY <1>1, AmountsStart, InvariantHolds, PTL DEF Spec

\* Documents, copies, handlers and amounts keep their shape: the sums the balance and the
\* payouts are computed with (GetBalanceAmount, createPayoutDocument) are numbers.
THEOREM SettlementTypeCorrect == Spec => []TypeOK
BY AmountsHold, TypesFollow, PTL


-----------------------------------------------------------------------------
(* What the merchant is owed. With one handler and no failing call a       *)
(* report that was accepted is never pending or in dispute again.          *)

\* The report shows what the stored one shows to be paid for it.
Corrected(d) ==
    /\ d.correction = reports[d.id].correction
    /\ d.reserve = reports[d.id].reserve

\* A copy of an accepted report is of the report as it was accepted, or later.
Current(d) == d.id \in accepted => ~Undecided(d) /\ Corrected(d)

\* Where AutoAcceptRoyaltyReports is while it has a batch.
BatchPCs == BalancePCs \cup {"write", "cache"}

\* An old copy of an accepted report lives until the handler that accepts it has set the copy
\* in Redis, and is held by nobody. The task accepts reports as they are.
StillOwed(s) ==
    /\ \A r \in accepted : reportCache[r] # NoDoc =>
          Current(reportCache[r]) \/ (s.pc = "cache" /\ s.doc.id = r)
    /\ s.doc # NoDoc => Current(s.doc)
    /\ s.pc \in {"build", "correct", "recount"} => Undecided(s.doc)
    /\ s.batch # {} =>
          /\ s.pc \in BatchPCs
          /\ s.pc \in {"write", "cache"} => s.next \in {"idle", "debit"}
          /\ \A d \in s.batch \cup {s.doc} : d # NoDoc => Corrected(d)

OwedInv ==
    /\ \A r \in accepted : Owed(reports[r])
    /\ \A p \in Workers : StillOwed(w[p])

LEMMA OwedIsDecided ==
    /\ \A d \in ReportDoc : Owed(d) <=> ~Undecided(d)
    /\ \A pc \in {"build", "correct", "recount", "cache"} : pc \notin BalancePCs
BY DEF ReportDoc, ReportStatuses, Owed, Undecided, BalancePCs

\* A step that leaves the reports and their copies alone.
LEMMA OwedStep ==
    ASSUME SettlementInv, OwedInv, NEW p \in Workers, Workers = {p}, NEW t, Set(p, t),
           UNCHANGED <<reports, reportCache, accepted>>, w[p].pc # "cache",
           t.doc # NoDoc => Current(t.doc),
           t.pc \in {"build", "correct", "recount"} => Undecided(t.doc),
           t.batch # {} =>
               /\ t.pc \in BatchPCs
               /\ t.pc \in {"write", "cache"} => t.next \in {"idle", "debit"}
               /\ \A d \in t.batch \cup {t.doc} : d # NoDoc => Corrected(d)
    PROVE  OwedInv'
<1>1. StillOwed(w[p])
  BY DEF OwedInv
<1>2. StillOwed(t)'
  BY <1>1 DEF StillOwed, Current, Corrected
<1> QED BY <1>2, MovedTo DEF OwedInv

\* A handler that keeps its report, or leaves it, keeps the invariant.
LEMMA OwedKept ==
    ASSUME SettlementInv, OwedInv, NEW p \in Workers, Workers = {p}, NEW t, Set(p, t),
           UNCHANGED <<reports, reportCache, accepted>>, w[p].pc # "cache",
           t.doc \in {NoDoc, w[p].doc}, t.pc \notin {"build", "correct", "recount"},
           t.batch \subseteq w[p].batch,
           w[p].pc \notin BatchPCs \/ t.pc \in BalancePCs
    PROVE  OwedInv'
<1>1. StillOwed(w[p])
  BY DEF OwedInv
<1>2. t.doc # NoDoc => Current(t.doc)
  BY <1>1 DEF StillOwed
<1>3. ASSUME t.batch # {}
      PROVE  /\ t.pc \in BalancePCs
             /\ \A d \in t.batch \cup {t.doc} : d # NoDoc => Corrected(d)
  BY <1>1, <1>3 DEF StillOwed
<1>4. t.pc \in BalancePCs => t.pc \in BatchPCs /\ t.pc \notin {"write", "cache"}
  BY DEF BatchPCs, BalancePCs
<1> QED BY <1>2, <1>3, <1>4, OwedStep

\* The copy of a report that a handler loads from MongoDB or Redis.
LEMMA LoadedIsOwed ==
    ASSUME SettlementInv, OwedInv, NEW p \in Workers, w[p].pc # "cache", NEW r \in Reports,
           reports[r] # NoDoc, NEW d \in {reports[r], reportCache[r]}, d # NoDoc, d.id = r
    PROVE  Current(d)
<1>1. StillOwed(w[p]) /\ reports[r] \in ReportDoc
  BY DEF OwedInv, SettlementInv, ShapeInv
<1>2. d = reports[r] => Current(d)
  BY <1>1, OwedIsDecided DEF OwedInv, Current, Corrected
<1> QED BY <1>1, <1>2 DEF StillOwed, Current

LEMMA RequestOwed ==
    ASSUME SettlementInv, OwedInv, NEW p \in Workers, Workers = {p}, Request(p)
    PROVE  OwedInv'
<1>0. accepted' = accepted
  BY DEF Request, CreateRoyaltyReport, AutoAcceptRoyaltyReports, MerchantReviewRoyaltyReport,
         ChangeRoyaltyReport, CreatePayoutDocument, UpdatePayoutDocument, GetMerchantBalance,
       CreateAccountingEntry
<1>1. ASSUME NEW per \in Periods, CreateRoyaltyReport(p, per) PROVE OwedInv'
  <2>1. PICK t : /\ Set(p, t) /\ t.pc = "build" /\ t.doc \in ReportDoc
                 /\ reports[t.doc.id] \in {t.doc, NoDoc}
                 /\ Undecided(t.doc) /\ t.batch = {}
    BY <1>1, CreateReportIs
  <2>2. w[p].pc = "idle" /\ UNCHANGED <<reports, reportCache, payouts, payoutCache>>
    BY <1>1, CreateReportIs
  <2>3. t.doc.id \in Reports
    BY <2>1 DEF ReportDoc
  <2>4. t.doc.id \notin accepted
    BY <2>1, <2>3, OwedIsDecided DEF OwedInv, SettlementInv, AcceptedInv
  <2> QED BY <1>0, <2>1, <2>2, <2>4, OwedStep DEF Current
<1>2. ASSUME AutoAcceptRoyaltyReports(p) PROVE OwedInv'
  <2>1. PICK t : /\ Set(p, t) /\ t.pc = "accept" /\ t.doc = NoDoc
                 /\ \A d \in t.batch : reports[d.id] = d
    BY <1>2, AutoAcceptIs
  <2>2. w[p].pc = "idle" /\ UNCHANGED <<reports, reportCache, payouts, payoutCache>>
    BY <1>2, AutoAcceptIs
  <2>3. t.pc \in BatchPCs /\ \A d \in t.batch \cup {t.doc} : d # NoDoc => Corrected(d)
    BY <2>1 DEF BatchPCs, BalancePCs, Corrected
  <2> QED BY <1>0, <2>1, <2>2, <2>3, OwedStep
<1>3. ASSUME NEW r \in Reports,
             \/ \E verdict \in {"accepted", "dispute"} :
                   MerchantReviewRoyaltyReport(p, r, verdict)
             \/ \E status \in {"none", "pending", "accepted", "dispute"},
                   correct \in BOOLEAN : ChangeRoyaltyReport(p, r, status, correct)
      PROVE  OwedInv'
  <2>1. PICK t : /\ Set(p, t) /\ t.doc # NoDoc /\ t.doc.id = r
                 /\ t.doc \in {reports[r], reportCache[r]} /\ t.batch = {}
                 /\ t.pc \in {"review", "change", "fill"}
    BY <1>3, OpenReportIs
  <2>2. /\ reports[r] # NoDoc /\ w[p].pc = "idle"
        /\ UNCHANGED <<reports, reportCache, payouts, payoutCache>>
    BY <1>3, OpenReportIs
  <2>3. Current(t.doc)
    BY <2>1, <2>2, LoadedIsOwed
  <2> QED BY <1>0, <2>1, <2>2, <2>3, OwedStep
<1>4. ASSUME CreatePayoutDocument(p) PROVE OwedInv'
  <2>1. PICK t : Set(p, t) /\ t.pc = "funds" /\ t.doc = NoDoc /\ t.batch = {}
    BY <1>4, CreatePayoutIs
  <2>2. w[p].pc = "idle" /\ UNCHANGED <<reports, reportCache, payouts, payoutCache>>
    BY <1>4, CreatePayoutIs
  <2> QED BY <1>0, <2>1, <2>2, OwedStep
<1>5. ASSUME NEW x \in Payouts, NEW status \in PayoutStatuses \cup {"none"},
             UpdatePayoutDocument(p, x, status)
      PROVE  OwedInv'
  <2>1. PICK t : /\ Set(p, t) /\ t.doc = NoDoc /\ t.batch = {}
                 /\ t.pc \in {"decide", "fillPayout"}
    BY <1>5, UpdatePayoutIs
  <2>2. w[p].pc = "idle" /\ UNCHANGED <<reports, reportCache, payouts, payoutCache>>
    BY <1>5, UpdatePayoutIs
  <2> QED BY <1>0, <2>1, <2>2, OwedStep
<1>6. ASSUME AsksBalance(p) PROVE OwedInv'
  <2>1. PICK t : /\ Set(p, t) /\ t.pc \in BalancePCs /\ t.doc \in {NoDoc, w[p].doc}
                 /\ t.batch \subseteq w[p].batch
    BY <1>6, BalanceIs
  <2>2. w[p].pc \in BalancePCs /\ UNCHANGED <<reports, reportCache, payouts, payoutCache>>
    BY <1>6, BalanceIs
  <2> QED BY <1>0, <2>1, <2>2, OwedIsDecided, OwedKept
<1> QED BY <1>1, <1>2, <1>3, <1>4, <1>5, <1>6, Zenon DEF Request, AsksBalance

\* Writing a report: what is written in place of an accepted report shows the same to be paid.
LEMMA WriteReportOwed ==
    ASSUME SettlementInv, OwedInv, NEW p \in Workers, Workers = {p}, WriteReport(p)
    PROVE  OwedInv'
<1>1. PICK s : s = w[p]
  OBVIOUS
<1>2. /\ s.pc = "write" /\ s.doc # NoDoc /\ s.doc \in ReportDoc /\ s.doc.id \in Reports
      /\ StillOwed(s) /\ ReportCopy(s.doc)
  BY <1>1 DEF WriteReport, SettlementInv, WorkerInv, IsWorker, ReportDoc, OwedInv, CopyInv
<1>3. "cache" \in PCs
  BY DEF PCs
<1>4. PICK t : /\ t = [w[p] EXCEPT !.pc = "cache"] /\ t.pc = "cache" /\ t.doc = s.doc
               /\ t.next = s.next /\ t.batch = s.batch
  BY <1>1, <1>3, AtIs
<1>5. /\ reports'[s.doc.id] = s.doc
      /\ \A r \in Reports : r # s.doc.id => reports'[r] = reports[r]
      /\ accepted' = IF s.doc.status = "accepted" THEN accepted \cup {s.doc.id} ELSE accepted
      /\ Set(p, t) /\ reportCache' = reportCache /\ accepted \subseteq Reports
  BY <1>1, <1>2, <1>4 DEF WriteReport, SettlementInv, ShapeInv
<1>6. s.doc.id \in accepted' => ~Undecided(s.doc)
  BY <1>2, <1>5 DEF StillOwed, Current, Undecided
<1>7. Current(s.doc)'
  BY <1>5, <1>6 DEF Current, Corrected
<1>8. \A d : d.id \in Reports /\ Corrected(d) /\ (d.id = s.doc.id => Corrected(s.doc)) =>
        /\ reports'[d.id].correction = d.correction
        /\ reports'[d.id].reserve = d.reserve
  BY <1>5 DEF Corrected
<1>9. ASSUME NEW r \in accepted', reportCache'[r] # NoDoc, r # s.doc.id
      PROVE  Current(reportCache[r])'
  <2>1. r \in accepted /\ r \in Reports /\ reportCache[r] # NoDoc /\ reportCache[r].id = r
    BY <1>5, <1>9 DEF SettlementInv, ShapeInv
  <2>2. Current(reportCache[r])
    BY <1>2, <2>1 DEF StillOwed
  <2> QED BY <1>5, <1>9, <2>1, <2>2 DEF Current, Corrected
<1>10. ASSUME s.batch # {}, NEW d \in s.batch \cup {s.doc}, d # NoDoc
       PROVE  /\ reports'[d.id].correction = d.correction
              /\ reports'[d.id].reserve = d.reserve
  <2>1. Corrected(d) /\ Corrected(s.doc)
    BY <1>2, <1>10 DEF StillOwed
  <2>2. d.id \in Reports
    BY <1>1, <1>2, <1>10 DEF SettlementInv, WorkerInv, IsWorker, ReportDoc
  <2> QED BY <1>8, <2>1, <2>2
<1>11. "cache" \in BatchPCs
  BY DEF BatchPCs
<1>12. StillOwed(t)'
  BY <1>2, <1>4, <1>5, <1>7, <1>9, <1>10, <1>11 DEF StillOwed, Corrected
<1>13. \A r \in accepted' : Owed(reports'[r])
  BY <1>2, <1>5, <1>6, OwedIsDecided DEF OwedInv
<1> QED BY <1>5, <1>12, <1>13, MovedTo DEF OwedInv

\* Copying a report to Redis: what the handler that has written it leaves there is the report.
LEMMA CopyReportOwed ==
    ASSUME SettlementInv, OwedInv, Failures = FALSE, NEW p \in Workers, Workers = {p},
           FillReport(p) \/ CacheReport(p)
    PROVE  OwedInv'
<1>1. PICK s : s = w[p]
  OBVIOUS
<1>2. /\ s.pc \in {"fill", "cache"} /\ s.doc # NoDoc /\ s.doc \in ReportDoc
      /\ s.doc.id \in Reports /\ StillOwed(s)
      /\ s.pc = "fill" => s.next \in {"review", "change", "mark"}
      /\ UNCHANGED <<reports, accepted>>
  BY <1>1 DEF FillReport, CacheReport, SettlementInv, WorkerInv, IsWorker, ReportDoc, OwedInv
<1>3. /\ reportCache'[s.doc.id] = s.doc
      /\ \A r \in Reports : r # s.doc.id => reportCache'[r] = reportCache[r]
      /\ accepted \subseteq Reports
  BY <1>1, <1>2 DEF FillReport, CacheReport, SetReportCache, SettlementInv, ShapeInv
<1>4. "fill" \notin BatchPCs /\ "idle" \in BatchPCs /\ "debit" \in BatchPCs
  BY DEF BatchPCs, BalancePCs
<1>5. PICK t : /\ Set(p, t) /\ t.doc \in {NoDoc, s.doc}
               /\ t.pc \notin {"build", "correct", "recount"}
               /\ t.batch \subseteq s.batch
               /\ t.batch # {} => t.pc \in {"idle", "debit"}
  <2>1. CASE FillReport(p)
    <3>1. s.pc = "fill"
      BY <1>1, <2>1 DEF FillReport
    <3>2. s.batch = {}
      BY <1>2, <1>4, <3>1 DEF StillOwed
    <3> QED BY <1>1, <1>2, <2>1, <3>1, <3>2, RepositoryIs
  <2>2. CASE CacheReport(p)
    <3>1. s.pc = "cache"
      BY <1>1, <2>2 DEF CacheReport
    <3>2. s.batch # {} => s.next \in {"idle", "debit"}
      BY <1>2, <3>1 DEF StillOwed
    <3> QED BY <1>1, <2>2, <3>2, CacheReportIs
  <2> QED BY <2>1, <2>2
<1>6. \A r \in accepted : reportCache'[r] # NoDoc => Current(reportCache'[r])
  BY <1>2, <1>3 DEF StillOwed
<1>7. t.batch # {} => \A d \in t.batch \cup {t.doc} : d # NoDoc => Corrected(d)
  BY <1>2, <1>5 DEF StillOwed
<1>8. StillOwed(t)'
  BY <1>2, <1>4, <1>5, <1>6, <1>7 DEF StillOwed, Current, Corrected
<1> QED BY <1>2, <1>5, <1>8, MovedTo DEF OwedInv

LEMMA StepOwed ==
    ASSUME SettlementInv, OwedInv, Failures = FALSE, NEW p \in Workers, Workers = {p}, Step(p)
    PROVE  OwedInv'
<1>0. \A d \in ReportDoc : d # NoDoc
  BY NoDocIsNoDocument
<1>p. /\ \A pc \in {"fillPayout", "writePayout", "cachePayout", "funds", "decide", "source",
                     "mark", "build", "review", "change", "correct", "recount"} :
            pc \notin BatchPCs
      /\ "write" \in BatchPCs
      /\ \A pc \in BalancePCs : pc \in BatchPCs /\ pc \notin {"write", "cache"}
  BY DEF BatchPCs, BalancePCs
<1>b. StillOwed(w[p])
  BY DEF OwedInv
<1>1. ASSUME WriteReport(p) PROVE OwedInv'
  BY <1>1, WriteReportOwed
<1>2. ASSUME FillReport(p) \/ CacheReport(p) PROVE OwedInv'
  BY <1>2, CopyReportOwed
<1>3. ASSUME FillPayout(p) \/ WritePayout(p) \/ CachePayout(p) PROVE OwedInv'
  <2>1. /\ UNCHANGED <<reports, reportCache, accepted>>
        /\ w[p].pc \in {"fillPayout", "writePayout", "cachePayout"}
        /\ w[p].pc = "fillPayout" => w[p].next = "decide"
    BY <1>3 DEF FillPayout, WritePayout, CachePayout, SettlementInv, WorkerInv
  <2>2. PICK t : /\ Set(p, t) /\ t.doc = w[p].doc /\ t.batch = w[p].batch
                 /\ t.pc \in {"decide", "cachePayout", "source"}
    BY <1>3, <2>1, RepositoryIs
  <2> QED BY <1>p, <2>1, <2>2, OwedKept
<1>4. ASSUME DebitQuery(p) \/ CreditQuery(p) \/ StoreBalance(p) PROVE OwedInv'
  <2>1. PICK t : /\ Set(p, t) /\ t.pc \in BalancePCs /\ t.doc \in {NoDoc, w[p].doc}
                 /\ t.batch \subseteq w[p].batch
    BY <1>4, BalanceIs
  <2>2. w[p].pc \in BalancePCs /\ UNCHANGED <<reports, reportCache, accepted>>
    BY <1>4, BalanceIs DEF DebitQuery, CreditQuery, StoreBalance
  <2> QED BY <2>1, <2>2, OwedIsDecided, OwedKept
<1>5. ASSUME \/ BuildReport(p) \/ Review(p) \/ Change(p) \/ Correct(p) \/ Recount(p)
             \/ \E d \in w[p].batch : AutoAccept(p, d)
      PROVE  OwedInv'
  <2>1. PICK t : Set(p, t) /\ ReportStep(w[p], t)
    BY <1>5, ReportHandlerIs
  <2>2. /\ w[p].pc \in ReportPCs /\ w[p].pc # "cache"
        /\ UNCHANGED <<reports, reportCache, accepted>>
    BY <1>5, ReportHandlerIs DEF ReportPCs, BuildReport, Review, Change, Correct, Recount,
       AutoAccept
  <2>3. PICK s : s = w[p] /\ StillOwed(s)
    BY DEF OwedInv
  <2>4. CASE t = Idle
    BY <2>1, <2>2, <2>4, IdleIs, OwedStep
  <2>5. CASE t # Idle
    <3>1. /\ FromUndecided(s, t.doc) /\ t.batch \subseteq s.batch
          /\ t.pc \in {"correct", "recount"} \/ (t.pc = "write" /\ t.next \in {"idle", "debit"})
      BY <2>1, <2>3, <2>5 DEF ReportStep
    <3>2. t.pc \in {"correct", "recount"} => Undecided(t.doc)
      BY <2>1, <2>3, <2>5 DEF ReportStep, StillOwed
    <3>3. CASE s.pc # "accept"
      <4>1. Undecided(s.doc) /\ Current(s.doc) /\ t.doc.id = s.doc.id
        BY <2>3, <3>1, <3>3 DEF FromUndecided, StillOwed
      <4>2. Current(t.doc)
        BY <4>1 DEF Current
      <4>3. t.batch = {}
        BY <1>p, <2>2, <2>3, <3>1, <3>3 DEF StillOwed, ReportPCs
      <4>4. t.pc \in {"build", "correct", "recount"} => Undecided(t.doc)
        BY <3>1, <3>2
      <4> QED BY <2>1, <2>2, <4>2, <4>3, <4>4, OwedStep
    <3>4. CASE s.pc = "accept"
      <4>1. PICK d \in s.batch : /\ ~Undecided(t.doc) /\ t.doc.id = d.id
                                 /\ t.doc.correction = d.correction
                                 /\ t.doc.reserve = d.reserve
        BY <2>3, <3>1, <3>4 DEF FromUndecided
      <4>2. Corrected(d) /\ \A e \in s.batch : e # NoDoc => Corrected(e)
        BY <2>3, <4>1, <1>0 DEF StillOwed, SettlementInv, WorkerInv, IsWorker
      <4>3. Current(t.doc) /\ Corrected(t.doc)
        BY <4>1, <4>2 DEF Current, Corrected
      <4> QED BY <1>p, <2>1, <2>2, <2>3, <3>1, <3>2, <4>1, <4>2, <4>3, OwedStep
    <3> QED BY <3>3, <3>4
  <2> QED BY <2>4, <2>5
<1>6. ASSUME CheckFunds(p) PROVE OwedInv'
  <2>1. PICK t : Set(p, t) /\ (t = Idle \/ (t.pc = "writePayout" /\ t.doc = w[p].doc
                                            /\ t.batch = w[p].batch))
    BY <1>6, CheckFundsIs
  <2>2. w[p].pc = "funds" /\ UNCHANGED <<reports, reportCache, accepted>>
    BY <1>6 DEF CheckFunds
  <2>3. t.doc \in {NoDoc, w[p].doc} /\ t.batch \subseteq w[p].batch
    BY <2>1, IdleIs
  <2> QED BY <1>p, <2>1, <2>2, <2>3, IdleIs, OwedKept
<1>7. ASSUME Decide(p) PROVE OwedInv'
  <2>1. PICK t : Set(p, t) /\ (t = Idle \/ (t.pc = "writePayout" /\ t.doc = w[p].doc
                                            /\ t.batch = w[p].batch))
    BY <1>7, DecideIs
  <2>2. w[p].pc = "decide" /\ UNCHANGED <<reports, reportCache, accepted>>
    BY <1>7 DEF Decide
  <2>3. t.doc \in {NoDoc, w[p].doc} /\ t.batch \subseteq w[p].batch
    BY <2>1, IdleIs
  <2> QED BY <1>p, <2>1, <2>2, <2>3, IdleIs, OwedKept
<1>8. ASSUME NextSource(p) PROVE OwedInv'
  <2>1. w[p].pc = "source" /\ UNCHANGED <<reports, reportCache, accepted>>
    BY <1>8 DEF NextSource
  <2>2. PICK t : /\ Set(p, t) /\ t.batch \subseteq w[p].batch
                 /\ \/ t.doc = NoDoc /\ t.pc \in {"idle", "debit"}
                    \/ /\ t.doc # NoDoc /\ t.doc.id \in Reports /\ reports[t.doc.id] # NoDoc
                       /\ t.doc \in {reports[t.doc.id], reportCache[t.doc.id]}
                       /\ t.pc \in {"mark", "fill"}
    BY <1>8, NextSourceIs
  <2>3. t.doc # NoDoc => Current(t.doc)
    BY <2>1, <2>2, LoadedIsOwed
  <2>4. t.batch = {}
    BY <1>b, <1>p, <2>1, <2>2 DEF StillOwed
  <2> QED BY <2>1, <2>2, <2>3, <2>4, OwedStep
<1>9. ASSUME MarkSource(p) PROVE OwedInv'
  <2>1. /\ w[p].pc = "mark" /\ UNCHANGED <<reports, reportCache, accepted>>
        /\ w[p].status \in {"waiting", "paid", "accepted"}
    BY <1>9 DEF MarkSource, SettlementInv, WorkerInv, Marking, HoldsSource
  <2>2. PICK t : /\ Set(p, t) /\ t.pc = "write" /\ t.doc.status = w[p].status
                 /\ t.doc.id = w[p].doc.id /\ t.doc.correction = w[p].doc.correction
                 /\ t.doc.reserve = w[p].doc.reserve
                 /\ t.batch = w[p].batch /\ w[p].doc # NoDoc
    BY <1>9, MarkSourceIs
  <2>3. ~Undecided(t.doc) /\ Current(w[p].doc)
    BY <1>b, <2>1, <2>2 DEF Undecided, StillOwed
  <2>4. Current(t.doc)
    BY <2>2, <2>3 DEF Current, Corrected
  <2>5. t.batch = {}
    BY <1>b, <1>p, <2>1, <2>2 DEF StillOwed
  <2> QED BY <2>1, <2>2, <2>4, <2>5, OwedStep
<1>10. ~Fail(p)
  BY DEF Fail
<1> QED BY <1>1, <1>2, <1>3, <1>4, <1>5, <1>6, <1>7, <1>8, <1>9, <1>10, Zenon DEF Step

LEMMA OwedHolds ==
    ASSUME OneHandler, Failures = FALSE
    PROVE  Spec => []OwedInv
<1>1. Init => OwedInv
  BY IdleIs DEF Init, OwedInv, StillOwed
<1>2. SettlementInv /\ OwedInv /\ [Next]_vars => OwedInv'
  <2> SUFFICES ASSUME SettlementInv, OwedInv, [Next]_vars PROVE OwedInv'
    OBVIOUS
  <2>1. ASSUME NEW p \in Workers, Request(p) \/ Step(p) PROVE OwedInv'
    <3>1. Workers = {p}
      BY DEF OneHandler
    <3> QED BY <2>1, <3>1, RequestOwed, StepOwed
  <2>2. ASSUME UNCHANGED vars PROVE OwedInv'
    BY <2>2 DEF vars, OwedInv, StillOwed, Current, Corrected
  <2> QED BY <2>1, <2>2, Zenon DEF Next
<1> QED BY <1>1, <1>2, InvariantHolds, PTL DEF Spec


-----------------------------------------------------------------------------
(* The balance. With one handler and no failing call the open payouts are  *)
(* of different reports, all of them accepted, so that what is credited    *)
(* never exceeds what is debited.                                          *)

\* The open payouts pay the royalty of each report they list.
LEMMA CreditIs ==
    ASSUME SettlementInv, AmountsInv, AloneInv
    PROVE  LET U == UNION {payouts[x].sources : x \in {y \in Payouts : Open(y)}}
           IN  /\ U \subseteq accepted /\ IsFiniteSet(U)
               /\ CreditAmount = Royalty * Cardinality(U)
<1>1. PICK P : P = {d \in StoredPayouts : d.status \in {"pending", "paid"}}
  OBVIOUS
<1>2. IsFiniteSet(P) /\ P \subseteq PayoutDoc
  BY <1>1, PayoutsFinite, FS_Subset DEF AmountsInv
<1>3. \A d \in P : /\ d.id \in Payouts /\ payouts[d.id] = d /\ Open(d.id)
                   /\ Priced(d) /\ d.sources \subseteq accepted
  <2> TAKE d \in P
  <2>1. PICK x \in Payouts : payouts[x] = d /\ d # NoDoc
    BY <1>1 DEF StoredPayouts
  <2>2. d.id = x /\ Priced(d) /\ d.sources \subseteq accepted
    BY <2>1 DEF SettlementInv, ShapeInv, CopyInv, PayoutCopy, AmountsInv
  <2>3. Open(x)
    BY <1>1, <2>1 DEF Open, Active
  <2> QED BY <2>1, <2>2, <2>3
<1>4. PICK A : A = [d \in P |-> d.sources]
  OBVIOUS
<1>5. PICK C : C = [d \in P |-> Cardinality(d.sources)]
  OBVIOUS
<1>6. \A d \in P : IsFiniteSet(d.sources)
  BY <1>3, FS_Subset, SettlementAssumption DEF SettlementInv, ShapeInv
<1>7. \A d, e \in P : d # e => A[d] \cap A[e] = {}
  BY <1>3, <1>4 DEF AloneInv, Disjoint
<1>8. PICK U : U = UNION {A[d] : d \in P}
  OBVIOUS
<1>9. IsFiniteSet(U) /\ Total(C, P) = Cardinality(U)
  <2>1. /\ \A d \in P : IsFiniteSet(A[d])
        /\ \A d \in P : C[d] = Cardinality(A[d])
    BY <1>4, <1>5, <1>6
  <2>2. \A e : e \in U <=> \E d \in P : e \in A[d]
    BY <1>8, Zenon
  <2> QED BY <1>2, <1>7, <2>1, <2>2, TotalOfCounts
<1>10. Total(Fees(P), P) = Royalty * Total(C, P)
  <2>1. \A d \in P : C[d] \in Int /\ Fees(P)[d] = Royalty * C[d]
    BY <1>3, <1>5, <1>6, FS_CardinalityType DEF Fees, Priced
  <2> QED BY <1>2, <2>1, TotalTimes, SettlementAssumption
<1>11. CreditAmount = Total(Fees(P), P)
  <2>1. MapThenSumSet(LAMBDA d : d.fees, P) = Total(Fees(P), P)
    BY <1>2, FeesSum
  <2> QED BY <1>1, <2>1 DEF CreditAmount
<1>12. U = UNION {payouts[x].sources : x \in {y \in Payouts : Open(y)}}
  <2>1. {A[d] : d \in P} = {payouts[x].sources : x \in {y \in Payouts : Open(y)}}
    <3>1. \A x \in Payouts : Open(x) => payouts[x] \in P
      BY <1>1 DEF Open, Active, StoredPayouts
    <3> QED BY <1>3, <1>4, <3>1
  <2> QED BY <1>8, <2>1
<1>13. U \subseteq accepted
  BY <1>3, <1>4, <1>8
<1> QED BY <1>9, <1>10, <1>11, <1>12, <1>13

\* Every accepted report that was not cut is worth its royalty at least.
LEMMA DebitCovers ==
    ASSUME SettlementInv, OwedInv, Uncut, NEW U, U \subseteq accepted
    PROVE  Royalty * Cardinality(U) <= DebitAmount
<1>1. PICK D : D = {d \in StoredReports : d.status \in {"accepted", "waiting", "paid"}}
  OBVIOUS
<1>2. IsFiniteSet(D) /\ D \subseteq ReportDoc /\ \A d \in D : reports[d.id] = d
  BY <1>1, DocumentsFinite, FS_Subset DEF StoredReports, SettlementInv, ShapeInv
<1>3. PICK I : I = {d.id : d \in D}
  OBVIOUS
<1>4. IsFiniteSet(I) /\ Cardinality(I) = Cardinality(D)
  <2>1. PICK f : f = [d \in D |-> d.id]
    OBVIOUS
  <2>2. f \in Bijection(D, I)
    BY <1>2, <1>3, <2>1 DEF Bijection, Injection, Surjection, IsInjective
  <2> QED BY <1>2, <2>2, FS_Bijection DEF ExistsBijection
<1>5. U \subseteq I
  <2>1. ASSUME NEW r \in U PROVE r \in I
    <3>1. r \in Reports /\ reports[r] # NoDoc /\ reports[r].id = r /\ Owed(reports[r])
      BY DEF SettlementInv, ShapeInv, AcceptedInv, OwedInv
    <3>2. reports[r] \in D
      BY <1>1, <3>1 DEF Owed, StoredReports
    <3> QED BY <1>3, <3>1, <3>2
  <2> QED BY <2>1
<1>6. PICK K : K = [r \in I |-> Royalty]
  OBVIOUS
<1>7. /\ Royalty \in Int /\ 0 <= Royalty
      /\ \A r \in I : K[r] = Royalty
  BY <1>6, SettlementAssumption
<1>8. IsFiniteSet(U)
  BY <1>4, <1>5, FS_Subset
<1>9. Total(K, U) = Royalty * Cardinality(U)
  BY <1>5, <1>7, <1>8, TotalConstant
<1>10. Total(K, I) = Royalty * Cardinality(I)
  BY <1>4, <1>7, TotalConstant
<1>11. Total(K, U) <= Total(K, I)
  BY <1>4, <1>5, <1>7, TotalSubset
<1>12. PICK R : R = [d \in D |-> Royalty]
  OBVIOUS
<1>13. Total(R, D) = Royalty * Cardinality(D)
  <2>1. \A d \in D : R[d] = Royalty
    BY <1>12
  <2> QED BY <1>2, <1>7, <2>1, TotalConstant
<1>14. Total(R, D) <= Total(Worths(D), D)
  <2>1. \A d \in D : d.correction >= d.reserve
    BY <1>1 DEF Uncut, Owed
  <2>2. \A d \in D : /\ R[d] \in Int /\ Worths(D)[d] \in Int
                     /\ R[d] <= Worths(D)[d]
    BY <1>2, <1>7, <1>12, <2>1, WorthTyped
  <2> QED BY <1>2, <2>2, TotalLeq
<1>15. DebitAmount = Total(Worths(D), D)
  <2>1. MapThenSumSet(Worth, D) = Total(Worths(D), D)
    BY <1>2, WorthSum
  <2> QED BY <1>1, <2>1 DEF DebitAmount
<1>16. PICK i, j, k : i = Total(K, U) /\ j = Total(R, D) /\ k = Total(Worths(D), D)
  OBVIOUS
<1>17. i \in Int /\ j \in Int /\ k \in Int
  <2>1. \A d \in D : R[d] \in Int /\ Worths(D)[d] \in Int
    BY <1>2, <1>7, <1>12, WorthTyped
  <2>2. \A r \in U : K[r] \in Int
    BY <1>5, <1>7
  <2> QED BY <1>2, <1>8, <1>16, <2>1, <2>2, TotalInt
<1>18. i <= j /\ j <= k
  BY <1>4, <1>10, <1>11, <1>13, <1>14, <1>16
<1>19. i <= k
  BY <1>17, <1>18
<1> QED BY <1>9, <1>15, <1>16, <1>19

LEMMA CreditIsCovered ==
    ASSUME SettlementInv, AmountsInv, AloneInv, OwedInv, Uncut
    PROVE  CreditAmount <= DebitAmount
<1>1. PICK U : U = UNION {payouts[x].sources : x \in {y \in Payouts : Open(y)}}
  OBVIOUS
<1>2. U \subseteq accepted /\ CreditAmount = Royalty * Cardinality(U)
  BY <1>1, CreditIs
<1>3. Royalty * Cardinality(U) <= DebitAmount
  BY <1>2, DebitCovers
<1> QED BY <1>2, <1>3

\* The debit, as a sum of the reports the merchant is owed for.
OwedReports == {d \in StoredReports : d.status \in {"accepted", "waiting", "paid"}}

DebitTotal == Total(Worths(OwedReports), OwedReports)

LEMMA DebitIs ==
    ASSUME SettlementInv
    PROVE  DebitAmount = DebitTotal
<1>1. PICK D : D = OwedReports
  OBVIOUS
<1>2. IsFiniteSet(D) /\ D \subseteq ReportDoc
  BY <1>1, DocumentsFinite, FS_Subset DEF OwedReports
<1>3. MapThenSumSet(Worth, D) = Total(Worths(D), D)
  BY <1>2, WorthSum
<1> QED BY <1>1, <1>3 DEF DebitAmount, DebitTotal, OwedReports

\* What a handler has read for the balance is what is stored.
CoverInv ==
    /\ \A p \in Workers :
          /\ w[p].pc = "credit" => w[p].debit = DebitTotal
          /\ w[p].pc = "store" /\ Uncut => w[p].credit <= w[p].debit
    /\ balance # NoBalance /\ Uncut => balance.credit <= balance.debit

\* Only the queries lead to a handler that stores a balance.
LEMMA ElsewhereIs ==
    ASSUME SettlementInv, NEW p \in Workers, Request(p) \/ Step(p),
           ~DebitQuery(p), ~CreditQuery(p)
    PROVE  \E t : Set(p, t) /\ t.pc \notin {"credit", "store"}
<1>i. Idle.pc = "idle"
  BY IdleIs
<1>1. ASSUME NEW per \in Periods, CreateRoyaltyReport(p, per)
      PROVE  \E t : Set(p, t) /\ t.pc \notin {"credit", "store"}
  <2>1. PICK t : Set(p, t) /\ t.pc = "build"
    BY <1>1, CreateReportIs
  <2> QED BY <2>1
<1>2. ASSUME AutoAcceptRoyaltyReports(p)
      PROVE  \E t : Set(p, t) /\ t.pc \notin {"credit", "store"}
  <2>1. PICK t : Set(p, t) /\ t.pc = "accept"
    BY <1>2, AutoAcceptIs
  <2> QED BY <2>1
<1>3. ASSUME NEW r \in Reports,
             \/ \E verdict \in {"accepted", "dispute"} :
                   MerchantReviewRoyaltyReport(p, r, verdict)
             \/ \E status \in {"none", "pending", "accepted", "dispute"},
                   correct \in BOOLEAN : ChangeRoyaltyReport(p, r, status, correct)
      PROVE  \E t : Set(p, t) /\ t.pc \notin {"credit", "store"}
  <2>1. PICK t : Set(p, t) /\ t.pc \in {"review", "change", "fill"}
    BY <1>3, OpenReportIs
  <2> QED BY <2>1
<1>4. ASSUME CreatePayoutDocument(p)
      PROVE  \E t : Set(p, t) /\ t.pc \notin {"credit", "store"}
  <2>1. PICK t : Set(p, t) /\ t.pc = "funds"
    BY <1>4, CreatePayoutIs
  <2> QED BY <2>1
<1>5. ASSUME NEW x \in Payouts, NEW status \in PayoutStatuses \cup {"none"},
             UpdatePayoutDocument(p, x, status)
      PROVE  \E t : Set(p, t) /\ t.pc \notin {"credit", "store"}
  <2>1. PICK t : Set(p, t) /\ t.pc \in {"fillPayout", "decide"}
    BY <1>5, UpdatePayoutIs
  <2> QED BY <2>1
<1>6. ASSUME AsksBalance(p) \/ StoreBalance(p)
      PROVE  \E t : Set(p, t) /\ t.pc \notin {"credit", "store"}
  <2>1. IsWorker(w[p])
    BY DEF SettlementInv, WorkerInv
  <2>2. PICK t : Set(p, t) /\ t \in {Idle, [Idle EXCEPT !.pc = "debit"],
                                     [w[p] EXCEPT !.pc = "accept"]}
    BY <1>6 DEF AsksBalance, GetMerchantBalance, CreateAccountingEntry, StoreBalance
  <2>3. t.pc \in {"idle", "debit", "accept"}
    BY <1>i, <2>1, <2>2, IdleIs DEF IsWorker
  <2> QED BY <2>2, <2>3
<1>7. ASSUME FillReport(p) \/ FillPayout(p) \/ WritePayout(p) \/ CachePayout(p)
      PROVE  \E t : Set(p, t) /\ t.pc \notin {"credit", "store"}
  <2>1. /\ w[p].pc \in {"fill", "fillPayout", "writePayout", "cachePayout"}
        /\ w[p].pc \in {"fill", "fillPayout"} =>
              w[p].next \in {"review", "change", "mark", "decide"}
    BY <1>7 DEF FillReport, FillPayout, WritePayout, CachePayout, SettlementInv, WorkerInv
  <2>2. PICK t : /\ Set(p, t)
                 /\ w[p].pc \in {"fill", "fillPayout"} => t.pc = w[p].next
                 /\ w[p].pc = "writePayout" => t.pc = "cachePayout"
                 /\ w[p].pc = "cachePayout" => t.pc = "source"
    BY <1>7, RepositoryIs
  <2> QED BY <2>1, <2>2
<1>8. ASSUME WriteReport(p) PROVE \E t : Set(p, t) /\ t.pc \notin {"credit", "store"}
  <2>1. "cache" \in PCs
    BY DEF PCs
  <2>2. PICK t : t = [w[p] EXCEPT !.pc = "cache"] /\ t.pc = "cache"
    BY <2>1, AtIs
  <2> QED BY <1>8, <2>2 DEF WriteReport
<1>9. ASSUME CacheReport(p) PROVE \E t : Set(p, t) /\ t.pc \notin {"credit", "store"}
  <2>1. PICK t : Set(p, t) /\ t.pc \in {"idle", "debit", "source"}
    BY <1>9, CacheReportIs
  <2> QED BY <2>1
<1>10. ASSUME \/ BuildReport(p) \/ Review(p) \/ Change(p) \/ Correct(p) \/ Recount(p)
              \/ \E d \in w[p].batch : AutoAccept(p, d)
       PROVE  \E t : Set(p, t) /\ t.pc \notin {"credit", "store"}
  <2>1. PICK t : Set(p, t) /\ ReportStep(w[p], t)
    BY <1>10, ReportHandlerIs
  <2>2. t.pc \in {"idle", "correct", "recount", "write"}
    BY <1>i, <2>1 DEF ReportStep
  <2> QED BY <2>1, <2>2
<1>11. ASSUME CheckFunds(p) PROVE \E t : Set(p, t) /\ t.pc \notin {"credit", "store"}
  <2>1. PICK t : Set(p, t) /\ (t = Idle \/ t.pc = "writePayout")
    BY <1>11, CheckFundsIs
  <2> QED BY <1>i, <2>1
<1>12. ASSUME Decide(p) PROVE \E t : Set(p, t) /\ t.pc \notin {"credit", "store"}
  <2>1. PICK t : Set(p, t) /\ (t = Idle \/ t.pc = "writePayout")
    BY <1>12, DecideIs
  <2> QED BY <1>i, <2>1
<1>13. ASSUME NextSource(p) PROVE \E t : Set(p, t) /\ t.pc \notin {"credit", "store"}
  <2>1. PICK t : Set(p, t) /\ t.pc \in {"idle", "debit", "mark", "fill"}
    BY <1>13, NextSourceIs
  <2> QED BY <2>1
<1>14. ASSUME MarkSource(p) PROVE \E t : Set(p, t) /\ t.pc \notin {"credit", "store"}
  <2>1. PICK t : Set(p, t) /\ t.pc = "write"
    BY <1>14, MarkSourceIs
  <2> QED BY <2>1
<1>15. ASSUME Fail(p) PROVE \E t : Set(p, t) /\ t.pc \notin {"credit", "store"}
  BY <1>i, <1>15 DEF Fail
<1>16. ASSUME Request(p) PROVE \E t : Set(p, t) /\ t.pc \notin {"credit", "store"}
  BY <1>16, <1>1, <1>2, <1>3, <1>4, <1>5, <1>6, Zenon DEF Request, AsksBalance
<1>17. ASSUME Step(p) PROVE \E t : Set(p, t) /\ t.pc \notin {"credit", "store"}
  BY <1>17, <1>6, <1>7, <1>8, <1>9, <1>10, <1>11, <1>12, <1>13, <1>14, <1>15, Zenon DEF Step
<1> QED BY <1>16, <1>17

\* A report is due exactly if it was ever accepted.
LEMMA DueIsAccepted == SettlementInv /\ OwedInv => Due = accepted
<1> SUFFICES ASSUME SettlementInv, OwedInv PROVE Due = accepted
  OBVIOUS
<1>1. accepted \subseteq Due
  BY DEF SettlementInv, ShapeInv, AcceptedInv, OwedInv, Due
<1>2. ASSUME NEW r \in Due PROVE r \in accepted
  <2>1. r \in Reports /\ reports[r] # NoDoc /\ Owed(reports[r]) /\ reports[r].id = r
    BY DEF Due, SettlementInv, ShapeInv
  <2>2. CASE reports[r].status = "accepted"
    BY <2>1, <2>2 DEF SettlementInv, AcceptedInv
  <2>3. CASE reports[r].status \in {"waiting", "paid"}
    <3>1. PICK x \in Payouts : payouts[x] # NoDoc /\ r \in payouts[x].sources
      BY <2>1, <2>3 DEF SettlementInv, CopyInv, ReportCopy
    <3> QED BY <3>1 DEF SettlementInv, CopyInv, PayoutCopy
  <2> QED BY <2>1, <2>2, <2>3 DEF Owed
<1> QED BY <1>1, <1>2

\* A report that was cut stays so: what is written in place of a report that is owed for has
\* its correction and reserve.
LEMMA UncutStays ==
    ASSUME SettlementInv, OwedInv, NEW p \in Workers, Request(p) \/ Step(p), Uncut'
    PROVE  Uncut
<1>1. CASE ~WriteReport(p)
  <2>1. Request(p) => reports' = reports
    BY DEF Request, CreateRoyaltyReport, AutoAcceptRoyaltyReports, MerchantReviewRoyaltyReport,
       ChangeRoyaltyReport, CreatePayoutDocument, UpdatePayoutDocument, GetMerchantBalance,
       CreateAccountingEntry
  <2>2. Step(p) => reports' = reports
    BY <1>1 DEF Step, FillReport, CacheReport, FillPayout, WritePayout, CachePayout,
       DebitQuery, CreditQuery, StoreBalance, BuildReport, AutoAccept, Review, Change, Correct,
       Recount, CheckFunds, Decide, NextSource, MarkSource, Fail
  <2>3. reports' = reports
    BY <2>1, <2>2
  <2> QED BY <2>3 DEF Uncut, StoredReports
<1>2. CASE WriteReport(p)
  <2>1. PICK e : e = w[p].doc
    OBVIOUS
  <2>2. /\ e # NoDoc /\ e \in ReportDoc /\ e.id \in Reports
        /\ reports' = [reports EXCEPT ![e.id] = e]
    BY <1>2, <2>1 DEF WriteReport, SettlementInv, WorkerInv, IsWorker, ReportDoc
  <2>3. Current(e)
    BY <2>1, <2>2 DEF OwedInv, StillOwed
  <2>4. ASSUME NEW d \in StoredReports, Owed(d) PROVE d.correction >= d.reserve
    <3>1. PICK r \in Reports : reports[r] = d /\ d # NoDoc /\ d.id = r
      BY <2>4 DEF StoredReports, SettlementInv, ShapeInv
    <3>2. r \in accepted
      BY <2>4, <3>1, DueIsAccepted DEF Due
    <3>3. CASE r = e.id
      <4>1. ~Undecided(e) /\ e.correction = d.correction /\ e.reserve = d.reserve
        BY <2>3, <3>1, <3>2, <3>3 DEF Current, Corrected
      <4>2. Owed(e)
        BY <2>2, <4>1, OwedIsDecided
      <4>3. reports'[r] = e
        BY <2>2, <3>3 DEF SettlementInv, ShapeInv
      <4>4. e \in StoredReports'
        BY <2>2, <4>3, <3>1 DEF StoredReports
      <4> QED BY <4>1, <4>2, <4>4 DEF Uncut, Owed
    <3>4. CASE r # e.id
      <4>1. reports'[r] = d
        BY <2>2, <3>1, <3>4 DEF SettlementInv, ShapeInv
      <4>2. d \in StoredReports'
        BY <3>1, <4>1 DEF StoredReports
      <4> QED BY <2>4, <4>2 DEF Uncut, Owed
    <3> QED BY <3>3, <3>4
  <2> QED BY <2>4 DEF Uncut
<1> QED BY <1>1, <1>2

LEMMA NextKeepsCover ==
    ASSUME SettlementInv, AmountsInv, AloneInv, OwedInv, CoverInv, OneHandler, [Next]_vars
    PROVE  CoverInv'
<1> DEFINE Covered == balance' # NoBalance /\ Uncut' => balance'.credit <= balance'.debit
<1>1. ASSUME NEW p \in Workers, Request(p) \/ Step(p), ~DebitQuery(p), ~CreditQuery(p)
      PROVE  CoverInv'
  <2>1. PICK t : Set(p, t) /\ t.pc \notin {"credit", "store"}
    BY <1>1, ElsewhereIs
  <2>2. Workers = {p} /\ w'[p] = t
    BY <2>1, MovedTo DEF OneHandler
  <2>c. Uncut' => Uncut
    BY <1>1, UncutStays
  <2>3. Covered
    <3>1. CASE StoreBalance(p)
      BY <2>c, <3>1 DEF StoreBalance, CoverInv
    <3>2. CASE Request(p)
      <4>1. balance' = balance
        BY <3>2 DEF Request, CreateRoyaltyReport, AutoAcceptRoyaltyReports,
             MerchantReviewRoyaltyReport, ChangeRoyaltyReport, CreatePayoutDocument,
             UpdatePayoutDocument, GetMerchantBalance,
       CreateAccountingEntry
      <4> QED BY <2>c, <4>1 DEF CoverInv
    <3>3. CASE Step(p) /\ ~StoreBalance(p)
      <4>1. balance' = balance
        BY <1>1, <3>3 DEF Step, FillReport, WriteReport, CacheReport, FillPayout, WritePayout,
             CachePayout, BuildReport, AutoAccept, Review, Change, Correct, Recount, CheckFunds,
             Decide, NextSource, MarkSource, Fail
      <4> QED BY <2>c, <4>1 DEF CoverInv
    <3> QED BY <1>1, <3>1, <3>2, <3>3
  <2> QED BY <2>1, <2>2, <2>3 DEF CoverInv
<1>2. ASSUME NEW p \in Workers, DebitQuery(p) PROVE CoverInv'
  <2>1. PICK n : n = DebitAmount
    OBVIOUS
  <2>2. PICK t : t = [w[p] EXCEPT !.pc = "credit", !.debit = n]
    OBVIOUS
  <2>3. t.pc = "credit" /\ t.debit = n
    BY <2>2 DEF SettlementInv, WorkerInv, IsWorker
  <2>4. Set(p, t) /\ reports' = reports /\ balance' = balance
    BY <1>2, <2>1, <2>2 DEF DebitQuery
  <2>5. Workers = {p} /\ w'[p] = t
    BY <2>4, MovedTo DEF OneHandler
  <2>6. DebitTotal' = n
    BY <2>1, <2>4, DebitIs DEF DebitTotal, OwedReports, StoredReports
  <2>7. Uncut' => Uncut
    BY <2>4 DEF Uncut, StoredReports
  <2> QED BY <2>3, <2>4, <2>5, <2>6, <2>7 DEF CoverInv
<1>3. ASSUME NEW p \in Workers, CreditQuery(p) PROVE CoverInv'
  <2>1. PICK n : n = CreditAmount
    OBVIOUS
  <2>2. PICK t : t = [w[p] EXCEPT !.pc = "store", !.credit = n]
    OBVIOUS
  <2>3. t.pc = "store" /\ t.credit = n /\ t.debit = w[p].debit
    BY <2>2 DEF SettlementInv, WorkerInv, IsWorker
  <2>4. Set(p, t) /\ reports' = reports /\ balance' = balance /\ w[p].pc = "credit"
    BY <1>3, <2>1, <2>2 DEF CreditQuery
  <2>5. Workers = {p} /\ w'[p] = t
    BY <2>4, MovedTo DEF OneHandler
  <2>6. Uncut => t.credit <= t.debit
    BY <2>1, <2>3, <2>4, CreditIsCovered, DebitIs DEF CoverInv
  <2>7. Uncut' => Uncut
    BY <2>4 DEF Uncut, StoredReports
  <2> QED BY <2>3, <2>4, <2>5, <2>6, <2>7 DEF CoverInv
<1>4. ASSUME UNCHANGED vars PROVE CoverInv'
  <2>1. reports' = reports /\ balance' = balance /\ w' = w
    BY <1>4 DEF vars
  <2>2. DebitTotal' = DebitTotal /\ (Uncut' => Uncut)
    BY <2>1 DEF DebitTotal, OwedReports, StoredReports, Uncut
  <2> QED BY <2>1, <2>2 DEF CoverInv
<1> HIDE DEF Covered
<1> QED BY <1>1, <1>2, <1>3, <1>4, Zenon DEF Next

\* With one handler at a time and no failing call the balance covers what is paid out, unless a
\* report was cut by a correction or the rolling reserve: no report is in two open payouts, what a payout
\* lists was accepted and is still owed for, and it is booked as the royalties of its reports
\* (updateMerchantBalance, CreatePayoutDocument).
THEOREM PayoutsAreCovered ==
    ASSUME OneHandler, Failures = FALSE
    PROVE  Spec => []BalanceIsCovered
<1>1. Init => CoverInv
  BY IdleIs DEF Init, CoverInv
<1>2. SettlementInv /\ AmountsInv /\ AloneInv /\ OwedInv /\ CoverInv /\ [Next]_vars => CoverInv'
  BY NextKeepsCover
<1>3. SettlementInv /\ AmountsInv /\ AloneInv /\ OwedInv /\ CoverInv => BalanceIsCovered
  BY CreditIsCovered DEF BalanceIsCovered, CoverInv
<1> QED BY <1>1, <1>2, <1>3, AmountsHold, AloneHolds, OwedHolds, PTL DEF Spec


-----------------------------------------------------------------------------
(* The account. With one handler and no failing call every step of         *)
(* Settlement is a step of RoyaltyAccount, or changes nothing there.       *)

AccountState ==
    [x \in Payouts |-> IF payouts[x] = NoDoc THEN "none" ELSE PayoutState(payouts[x])]

AccountLists == [x \in Payouts |-> IF payouts[x] = NoDoc THEN {} ELSE payouts[x].sources]

LEMMA DueIsAcceptedAfter == (SettlementInv /\ OwedInv)' => (Due = accepted)'
BY DueIsAccepted, PTL

\* The account keeps its payouts when the documents stay.
LEMMA AccountKept ==
    ASSUME payouts' = payouts
    PROVE  AccountState' = AccountState /\ AccountLists' = AccountLists
BY DEF AccountState, AccountLists

\* Storing a payout moves it in the account: a new one is promised, one that was pending is
\* settled, and one that is stored as it was is left.
LEMMA WritePayoutIsAccount ==
    ASSUME SettlementInv, AmountsInv, AloneInv, OwedInv, NEW p \in Workers, WritePayout(p),
           Due' = Due
    PROVE  Account!Next \/ (AccountState' = AccountState /\ AccountLists' = AccountLists)
<1>1. PICK s : s = w[p]
  OBVIOUS
<1>2. /\ s.pc = "writePayout" /\ s.payout # NoDoc /\ s.payout \in PayoutDoc
      /\ s.payout.id \in Payouts
      /\ payouts' = [payouts EXCEPT ![s.payout.id] = s.payout]
  BY <1>1 DEF WritePayout, SettlementInv, WorkerInv, PayoutDoc
<1>3. /\ PayoutsAgree(s) /\ Bound(s) /\ PayoutCopy(s.payout) /\ Priced(s.payout)
  BY <1>1, <1>2 DEF AloneInv, SettlementInv, CopyInv, AmountsInv, Amounts
<1>4. PICK id \in Payouts : id = s.payout.id
  BY <1>2
<1>5. PICK d : d = s.payout
  OBVIOUS
<1>6. /\ AccountState' = [AccountState EXCEPT ![id] = PayoutState(d)]
      /\ AccountLists' = [AccountLists EXCEPT ![id] = d.sources]
  <2>1. payouts \in [Payouts -> PayoutDoc \cup {NoDoc}]
    BY DEF SettlementInv, ShapeInv
  <2>2. payouts'[id] = d /\ d # NoDoc /\ \A x \in Payouts : x # id => payouts'[x] = payouts[x]
    BY <1>2, <1>4, <1>5, <2>1
  <2> QED BY <2>2 DEF AccountState, AccountLists
<1>7. d.sources # {} /\ d.sources \subseteq Due /\ d.sources \subseteq Reports
  BY <1>2, <1>3, <1>5, DueIsAccepted DEF Priced, PayoutCopy, PayoutDoc
<1>8. CASE payouts[id] = NoDoc
  <2>1. d.status \in {"pending", "skip"}
    BY <1>2, <1>3, <1>4, <1>5, <1>8 DEF PayoutsAgree
  <2>2. PayoutState(d) \in {"open", "void"}
    BY <2>1 DEF PayoutState
  <2>3. AccountState[id] = "none"
    BY <1>8 DEF AccountState
  <2>4. ASSUME NEW y \in Payouts, AccountState[y] \in {"open", "paid"}
        PROVE  AccountLists[y] \cap d.sources = {}
    <3>1. payouts[y] # NoDoc /\ PayoutState(payouts[y]) \in {"open", "paid"}
      BY <2>4 DEF AccountState
    <3>2. Open(y)
      BY <3>1 DEF PayoutState, Open, Active
    <3>3. payouts[y].sources \cap d.sources = {}
      BY <1>2, <1>3, <1>4, <1>5, <1>8, <3>1, <3>2 DEF Bound, Claims
    <3> QED BY <3>1, <3>3 DEF AccountLists
  <2>5. Account!Promise(id, d.sources, PayoutState(d))
    BY <1>6, <1>7, <2>3, <2>4 DEF Account!Promise, AccountState, AccountLists
  <2> QED BY <1>7, <2>2, <2>5 DEF Account!Next
<1>9. CASE payouts[id] # NoDoc
  <2>1. payouts[id].sources = d.sources
    BY <1>3, <1>4, <1>5, <1>9 DEF PayoutCopy
  <2>2. AccountLists' = AccountLists
    BY <1>6, <1>9, <2>1 DEF AccountLists
  <2>3. CASE payouts[id] = d
    <3>1. AccountState' = AccountState
      BY <1>6, <1>9, <2>3 DEF AccountState
    <3> QED BY <2>2, <3>1
  <2>4. CASE payouts[id] # d
    <3>1. payouts[id].status = "pending" /\ (d.status = "paid" \/ ~Active(d))
      BY <1>2, <1>3, <1>4, <1>5, <1>9, <2>4 DEF PayoutsAgree
    <3>2. AccountState[id] = "open" /\ PayoutState(d) \in {"paid", "void"}
      BY <1>9, <3>1 DEF AccountState, PayoutState, Active
    <3>3. Account!Settle(id, PayoutState(d))
      BY <1>6, <2>2, <3>2 DEF Account!Settle, AccountState, AccountLists
    <3> QED BY <3>2, <3>3 DEF Account!Next
  <2> QED BY <2>3, <2>4
<1> QED BY <1>8, <1>9

\* Only WriteReport and WritePayout change what the account shows.
LEMMA AccountStep ==
    ASSUME [Next]_vars
    PROVE  \/ payouts' = payouts /\ accepted' = accepted
           \/ \E p \in Workers : WriteReport(p) \/ WritePayout(p)
<1>1. ASSUME NEW p \in Workers, Request(p) PROVE payouts' = payouts /\ accepted' = accepted
  BY <1>1 DEF Request, CreateRoyaltyReport, AutoAcceptRoyaltyReports,
       MerchantReviewRoyaltyReport, ChangeRoyaltyReport, CreatePayoutDocument,
       UpdatePayoutDocument, GetMerchantBalance,
       CreateAccountingEntry
<1>2. ASSUME NEW p \in Workers, Step(p), ~WriteReport(p), ~WritePayout(p)
      PROVE  payouts' = payouts /\ accepted' = accepted
  BY <1>2 DEF Step, FillReport, CacheReport, FillPayout, CachePayout,
       DebitQuery, CreditQuery, StoreBalance, BuildReport, AutoAccept, Review, Change,
       Correct, Recount, CheckFunds, Decide, NextSource, MarkSource, Fail
<1>3. UNCHANGED vars => payouts' = payouts /\ accepted' = accepted
  BY DEF vars
<1> QED BY <1>1, <1>2, <1>3, Zenon DEF Next

LEMMA NextIsAccount ==
    ASSUME SettlementInv, SettlementInv', AmountsInv, AloneInv, OwedInv, OwedInv', [Next]_vars
    PROVE  [Account!Next]_(Account!accountVars)
<1>1. Due = accepted /\ Due' = accepted'
  BY DueIsAccepted, DueIsAcceptedAfter
<1>2. CASE payouts' = payouts /\ accepted' = accepted
  BY <1>1, <1>2, AccountKept DEF Account!accountVars, AccountState, AccountLists
<1>3. ASSUME NEW p \in Workers, WriteReport(p) PROVE [Account!Next]_(Account!accountVars)
  <2>1. payouts' = payouts
    BY <1>3 DEF WriteReport
  <2>2. CASE accepted' = accepted
    BY <1>2, <2>1, <2>2
  <2>3. CASE accepted' # accepted
    <3>1. PICK r : accepted' = accepted \cup {r}
      BY <1>3, <2>3 DEF WriteReport
    <3>2. r \in Reports
      BY <3>1 DEF SettlementInv, ShapeInv
    <3>3. Account!Accept(r)
      BY <1>1, <2>1, <3>1, AccountKept DEF Account!Accept, AccountState, AccountLists
    <3> QED BY <3>2, <3>3 DEF Account!Next
  <2> QED BY <2>2, <2>3
<1>4. ASSUME NEW p \in Workers, WritePayout(p) PROVE [Account!Next]_(Account!accountVars)
  <2>1. Due' = Due
    BY <1>1, <1>4 DEF WritePayout
  <2> QED BY <1>4, <2>1, WritePayoutIsAccount
       DEF Account!accountVars, AccountState, AccountLists
<1> QED BY <1>2, <1>3, <1>4, AccountStep

\* With one handler at a time and no failing call the documents keep the account's promises: a
\* report that was accepted stays due, a payout is made of reports that are due and that no
\* other open or paid payout lists, and one that is paid or given up stays so
\* (CreatePayoutDocument, UpdatePayoutDocument, ChangeRoyaltyReport).
THEOREM SettlementIsAccount ==
    ASSUME OneHandler, Failures = FALSE
    PROVE  Spec => ImplementsAccount
<1>1. Init => Account!Init
  BY DEF Init, Due, Account!Init
<1>2. /\ SettlementInv /\ SettlementInv' /\ AmountsInv /\ AloneInv /\ OwedInv /\ OwedInv'
      /\ [Next]_vars
      => [Account!Next]_(Account!accountVars)
  BY NextIsAccount
<1> QED BY <1>1, <1>2, InvariantHolds, AmountsHold, AloneHolds, OwedHolds, PTL
     DEF Spec, ImplementsAccount, Account!Spec
=============================================================================
