------------------------------- MODULE Refund -------------------------------
(***************************************************************************)
(* Refunds of one paid order: internal/service/refund.go with the refund   *)
(* half of internal/payment_system/cardpay.go, the entries the refund is   *)
(* booked with (accounting_entry.go), their repair by hand                 *)
(* (CreateAccountingEntry, RebuildAccountingEntries, RebuildOrderView) and *)
(* the order views made of them.                                           *)
(*                                                                         *)
(* Every call of the database, of the gateway and of the subscription      *)
(* service is a step of the handler that makes it, and any of them may     *)
(* fail and end the handler. The gateway settles a refund once and may     *)
(* send its callback any number of times.                                  *)
(***************************************************************************)
EXTENDS Accounting, FiniteSets

CONSTANTS
    Workers,       \* handlers running at the same time
    Refunds,       \* ids of refunds
    RefundOrders,  \* ids of the orders made for refunds
    Order,         \* id of the order that was paid
    None,          \* no document, no id
    FactsOfOrder,  \* the facts an order may have
    Rebuilds,      \* what RebuildAccountingEntries is run for
    MaxFailures,   \* bound on failed calls
    MaxRepairs     \* bound on the repairs by hand

Sources == {Order} \cup RefundOrders

VARIABLES
    facts,         \* what the order, the rates and the cost tables say
    order,         \* MongoDB: the order that was paid
    refunds,       \* MongoDB: refund id -> document or None
    refundOrders,  \* MongoDB: order made for a refund -> that refund or None
    booked,        \* source -> how many times its entries were inserted
    manual,        \* source -> entries made by CreateAccountingEntry
    views,         \* source -> its order view or None
    total,         \* TotalAmount of the subscription, in payments
    gateway,       \* refund id -> what the gateway has done with it
    w,             \* worker -> the state of the handler it runs
    failures, repairs,
    disowned       \* history: refunds the gateway has, stored as rejected at some time

vars == <<facts, order, refunds, refundOrders, booked, manual, views, total, gateway, w,
          failures, repairs, disowned>>

bounds == <<failures, repairs, disowned>>

docs == <<order, refunds, refundOrders>>

books == <<booked, manual, views>>

\* A refund the gateway declined and one it canceled are treated alike: "declined".
Statuses == {"created", "rejected", "inprogress", "completed", "declined"}

RefundDoc == [status : Statuses, chargeback : BOOLEAN, created : RefundOrders \cup {None}]

OrderDoc == [status : {"processed", "refunded", "chargeback"}, allowed : BOOLEAN]

ViewDoc == [status : {"processed", "refunded", "chargeback"},
            pay : [net : Int, tax : Int, fees : Int, profit : Int],
            back : [net : Int, tax : Int, fees : Int, profit : Int]]

ASSUME RefundAssumption ==
    /\ Order \notin RefundOrders
    /\ None \notin Refunds \cup Sources
    /\ FactsOfOrder \subseteq Facts
    /\ Rebuilds \subseteq {"order", "refund"}
    /\ MaxFailures \in Nat /\ MaxRepairs \in Nat
    /\ IsFiniteSet(Refunds)
    /\ None \notin RefundDoc /\ None \notin OrderDoc /\ None \notin ViewDoc

PCs == {"idle", "sum", "insert", "send", "answer", "read", "store", "copy", "allow", "allowView",
        "link", "amount", "mark", "notify", "book", "view", "subscription", "debit", "payment"}

Worker == [pc : PCs, id : Refunds \cup {None}, doc : RefundDoc \cup {None},
           ord : OrderDoc \cup {None}, src : Sources \cup {None},
           answer : {"none", "completed", "declined", "pending", "refused"},
           amount : Int]

Idle == [pc |-> "idle", id |-> None, doc |-> None, ord |-> None, src |-> None,
         answer |-> "none", amount |-> 0]

TypeOK ==
    /\ facts \in FactsOfOrder
    /\ order \in OrderDoc
    /\ refunds \in [Refunds -> RefundDoc \cup {None}]
    /\ refundOrders \in [RefundOrders -> Refunds \cup {None}]
    /\ booked \in [Sources -> Nat]
    /\ manual \in [Sources -> Nat]
    /\ views \in [Sources -> ViewDoc \cup {None}]
    /\ total \in Int
    /\ gateway \in [Refunds -> {"none", "accepted", "completed", "declined"}]
    /\ w \in [Workers -> Worker]
    /\ failures \in 0 .. MaxFailures
    /\ repairs \in 0 .. MaxRepairs
    /\ disowned \subseteq Refunds

-----------------------------------------------------------------------------
(* The repositories.                                                       *)

\* Mistake: only refunds that were completed count.
GetCompletedAmount ==
    Cardinality({r \in Refunds : refunds[r] # None /\ refunds[r].status = "completed"})

\* refundRepository.GetAmountByOrderId, in refunds of the whole charge.
GetAmountByOrderId ==
    LET counted == {"created", "inprogress", "completed"}
    IN  Cardinality({r \in Refunds : refunds[r] # None /\ refunds[r].status \in counted})

\* accountingRepository.GetByObjectSource: some entry of the source is stored.
GetByObjectSource(s) == booked[s] + manual[s] > 0

\* accountingRepository.ApplyObjectSource: the entries of the payment of an order.
ApplyObjectSource(s) == s = Order /\ booked[Order] > 0

MultipleInsert(s) == booked' = [booked EXCEPT ![s] = @ + 1]

DeleteBySource(s) ==
    /\ booked' = [booked EXCEPT ![s] = 0]
    /\ manual' = [manual EXCEPT ![s] = 0]

\* The amounts of the stored entries of source s, as UpdateOrderView finds them.
Pay(s) == IF s = Order /\ booked[s] > 0
          THEN PaymentView(PaymentRevenue(facts), PaymentFees(facts)) ELSE EmptyView

Back(s) == IF s # Order /\ booked[s] > 0
           THEN RefundView(RefundCosts(facts, PaymentRevenue(facts)),
                           RefundTaxes(facts, PaymentRevenue(facts)))
           ELSE EmptyView

StatusOf(s) ==
    IF s = Order THEN order.status
    ELSE IF refunds[refundOrders[s]].chargeback THEN "chargeback" ELSE "refunded"

\* orderRepository.UpdateOrderView for the orders ids.
UpdateOrderView(ids) ==
    views' = [s \in Sources |->
                IF s \in ids THEN [status |-> StatusOf(s), pay |-> Pay(s), back |-> Back(s)]
                ELSE views[s]]

Init ==
    /\ facts \in FactsOfOrder
    /\ order = [status |-> "processed", allowed |-> TRUE]
    /\ refunds = [r \in Refunds |-> None]
    /\ refundOrders = [o \in RefundOrders |-> None]
    /\ booked = [s \in Sources |-> IF s = Order THEN 1 ELSE 0]
    /\ manual = [s \in Sources |-> 0]
    /\ views = [s \in Sources |->
                  IF s = Order
                  THEN [status |-> "processed",
                        pay |-> PaymentView(PaymentRevenue(facts), PaymentFees(facts)),
                        back |-> EmptyView]
                  ELSE None]
    /\ total = 1
    /\ gateway = [r \in Refunds |-> "none"]
    /\ w = [p \in Workers |-> Idle]
    /\ failures = 0
    /\ repairs = 0
    /\ disowned = {}

-----------------------------------------------------------------------------
(* CreateRefund.                                                           *)

Goto(p, pc) == w' = [w EXCEPT ![p].pc = pc]

Return(p) == w' = [w EXCEPT ![p] = Idle]

\* External: billingpb.Order.RefundAllowed: the order is paid and not paid back.
RefundAllowed == order.status = "processed"

\* processOrder (hasMoneyBackCosts only reads the cost tables).
ProcessOrder == order.status # "refunded" /\ RefundAllowed

CreateRefund(p, c) ==
    /\ w[p].pc = "idle" /\ ProcessOrder
    /\ \E r \in Refunds : refunds[r] = None \* bound on refunds
    /\ w' = [w EXCEPT ![p].pc = "sum",
                      ![p].doc = [status |-> "created", chargeback |-> c, created |-> None]]
    /\ UNCHANGED <<facts, docs, books, total, gateway, bounds>>

ProcessRefundsByOrder(p) ==
    /\ w[p].pc = "sum"
    /\ IF GetAmountByOrderId > 0 THEN Return(p) ELSE Goto(p, "insert")
    /\ UNCHANGED <<facts, docs, books, total, gateway, bounds>>

ProcessCreateRefund(p) ==
    /\ w[p].pc = "insert"
    /\ \E r \in Refunds :
          /\ refunds[r] = None
          /\ refunds' = [refunds EXCEPT ![r] = w[p].doc]
          /\ w' = [w EXCEPT ![p].pc = "send", ![p].id = r]
    /\ UNCHANGED <<facts, order, refundOrders, books, total, gateway, bounds>>

\* cardPay.CreateRefund: the refund is rejected unless the gateway's answer, read to its
\* end, says that it is taken. If the answer is lost or makes no sense, the gateway may
\* have taken the refund all the same.
CardPayCreateRefund(p) ==
    LET taken == [gateway EXCEPT ![w[p].id] = "accepted"]
        held(status) == [w EXCEPT ![p].pc = "answer", ![p].doc.status = status]
    IN  /\ w[p].pc = "send"
        /\ \/ w' = held("inprogress") /\ gateway' = taken /\ UNCHANGED <<failures, disowned>>
           \/ w' = held("rejected") /\ UNCHANGED <<gateway, failures, disowned>>
           \/ /\ failures < MaxFailures /\ failures' = failures + 1
              /\ w' = held("rejected") /\ gateway' = taken
              /\ disowned' = disowned \cup {w[p].id}
        /\ UNCHANGED <<facts, docs, books, total, repairs>>

StoreAnswer(p) ==
    /\ w[p].pc = "answer"
    /\ refunds' = [refunds EXCEPT ![w[p].id] = w[p].doc]
    /\ Return(p)
    /\ UNCHANGED <<facts, order, refundOrders, books, total, gateway, bounds>>

\* External: the gateway settles a refund it has taken.
Settle(r) ==
    /\ gateway[r] = "accepted"
    /\ \E a \in {"completed", "declined"} : gateway' = [gateway EXCEPT ![r] = a]
    /\ UNCHANGED <<facts, docs, books, total, w, bounds>>

-----------------------------------------------------------------------------
(* ProcessRefundCallback.                                                  *)

\* The gateway tells how a refund stands, and the handler reads the refund.
Callback(p, r) ==
    /\ w[p].pc = "idle"
    /\ gateway[r] # "none" /\ refunds[r] # None
    /\ \E a \in {"refused", IF gateway[r] = "accepted" THEN "pending" ELSE gateway[r]} :
          /\ w' = [w EXCEPT ![p].pc = "read", ![p].id = r, ![p].doc = refunds[r],
                            ![p].answer = a]
          /\ IF a = "refused"
             THEN /\ failures < MaxFailures /\ failures' = failures + 1
                  /\ disowned' = disowned \cup {r}
             ELSE UNCHANGED <<failures, disowned>>
    /\ UNCHANGED <<facts, docs, books, total, gateway, repairs>>

\* Mistake: the gateway's word for a refund under way is taken as its status.
ProcessRefundUntranslated(answer, status) == IF answer = "refused" THEN "rejected" ELSE answer

\* Mistake: what is neither refused nor under way counts as completed.
ProcessRefundByDefault(answer, status) ==
    CASE answer = "refused" -> "rejected"
      [] answer = "pending" -> status
      [] OTHER -> "completed"

\* cardPay.ProcessRefund: the status the refund gets.
ProcessRefund(answer, status) ==
    CASE answer = "refused" -> "rejected"
      [] answer = "pending" -> status
      [] OTHER -> answer

ReadOrder(p) ==
    /\ w[p].pc = "read"
    /\ w' = [w EXCEPT ![p].pc = "store", ![p].ord = order,
                      ![p].doc.status = ProcessRefund(w[p].answer, w[p].doc.status)]
    /\ UNCHANGED <<facts, docs, books, total, gateway, bounds>>

\* What comes after the status: a completed refund gets an order unless it has one.
AfterStatus(doc) ==
    IF doc.status # "completed" THEN "allow" ELSE IF doc.created = None THEN "copy" ELSE "link"

\* Mistake: nothing more is done for a refund that was completed before.
StoreStatusOnce(p) ==
    LET s == w[p]
    IN  /\ s.pc = "store"
        /\ refunds' = [refunds EXCEPT ![s.id] = s.doc]
        /\ IF s.answer \in {"refused", "pending"} \/ refunds[s.id].status = "completed"
           THEN Return(p)
           ELSE Goto(p, AfterStatus(s.doc))
        /\ UNCHANGED <<facts, order, refundOrders, books, total, gateway, bounds>>

\* The first refundRepository.Update, whatever ProcessRefund said of the callback.
StoreStatus(p) ==
    LET s == w[p]
    IN  /\ s.pc = "store"
        /\ refunds' = [refunds EXCEPT ![s.id] = s.doc]
        /\ IF s.answer \in {"refused", "pending"} THEN Return(p) ELSE Goto(p, AfterStatus(s.doc))
        /\ UNCHANGED <<facts, order, refundOrders, books, total, gateway, bounds>>

CreateOrderByRefund(p) ==
    /\ w[p].pc = "copy"
    /\ \E o \in RefundOrders :
          /\ refundOrders[o] = None
          /\ refundOrders' = [refundOrders EXCEPT ![o] = w[p].id]
          /\ w' = [w EXCEPT ![p].pc = "link", ![p].doc.created = o]
    /\ UNCHANGED <<facts, order, refunds, books, total, gateway, bounds>>

\* A refund that came to nothing: the order, as it was read, may be refunded again.
AllowRefund(p) ==
    /\ w[p].pc = "allow"
    /\ order' = [w[p].ord EXCEPT !.allowed = TRUE]
    /\ Goto(p, "allowView")
    /\ UNCHANGED <<facts, refunds, refundOrders, books, total, gateway, bounds>>

\* updateOrderView, which the same handler calls next.
AllowRefundView(p) ==
    /\ w[p].pc = "allowView"
    /\ UpdateOrderView({Order})
    /\ Goto(p, "link")
    /\ UNCHANGED <<facts, docs, booked, manual, total, gateway, bounds>>

\* Mistake: the order made for the refund is not noted.
LinkNoOrder(p) ==
    LET s == w[p]
    IN  /\ s.pc = "link"
        /\ IF s.doc.status = "completed" THEN Goto(p, "amount") ELSE Return(p)
        /\ UNCHANGED <<facts, docs, books, total, gateway, bounds>>

\* The second refundRepository.Update.
LinkOrder(p) ==
    LET s == w[p]
    IN  /\ s.pc = "link"
        /\ refunds' = [refunds EXCEPT ![s.id] = s.doc]
        /\ IF s.doc.status = "completed" THEN Goto(p, "amount") ELSE Return(p)
        /\ UNCHANGED <<facts, order, refundOrders, books, total, gateway, bounds>>

\* The order is marked if the refunds make up its charge. An error of the query counts
\* as an amount of 0 and is forgotten.
CheckAmount(p) ==
    LET s == w[p]
        marked == [status |-> IF s.doc.chargeback THEN "chargeback" ELSE "refunded",
                   allowed |-> FALSE]
    IN  /\ s.pc = "amount"
        /\ \/ /\ w' = IF GetAmountByOrderId = 1
                      THEN [w EXCEPT ![p].pc = "mark", ![p].ord = marked]
                      ELSE [w EXCEPT ![p].pc = "notify", ![p].src = s.doc.created]
              /\ UNCHANGED failures
           \/ /\ failures < MaxFailures /\ failures' = failures + 1
              /\ w' = [w EXCEPT ![p].pc = "notify", ![p].src = s.doc.created]
        /\ UNCHANGED <<facts, docs, books, total, gateway, repairs, disowned>>

\* updateOrder; its error is logged and the handler goes on.
MarkOrder(p) ==
    /\ w[p].pc = "mark"
    /\ w' = [w EXCEPT ![p].pc = "notify", ![p].src = w[p].doc.created]
    /\ \/ order' = w[p].ord /\ UNCHANGED failures
       \/ failures < MaxFailures /\ failures' = failures + 1 /\ UNCHANGED order
    /\ UNCHANGED <<facts, refunds, refundOrders, books, total, gateway, repairs, disowned>>

\* onRefundNotify up to its entries: they exist, or the tax entry of the order that was
\* paid does not.
ProcessRefundEvent(p) ==
    LET s == w[p]
    IN  /\ s.pc = "notify"
        /\ IF GetByObjectSource(s.src) \/ ~ApplyObjectSource(Order)
           THEN Return(p) ELSE Goto(p, "book")
        /\ UNCHANGED <<facts, docs, books, total, gateway, bounds>>

\* saveAccountingEntries: the entries, then the views of the orders.
SaveEntries(p) ==
    /\ w[p].pc = "book"
    /\ MultipleInsert(w[p].src)
    /\ Goto(p, "view")
    /\ UNCHANGED <<facts, docs, manual, views, total, gateway, bounds>>

\* Mistake: only the view of the order made for the refund is updated.
SaveOneView(p) ==
    LET s == w[p]
    IN  /\ s.pc = "view"
        /\ UpdateOrderView({s.src})
        /\ IF s.src = Order THEN Return(p) ELSE Goto(p, "subscription")
        /\ UNCHANGED <<facts, docs, booked, manual, total, gateway,
                       bounds>>

SaveViews(p) ==
    LET s == w[p]
    IN  /\ s.pc = "view"
        /\ UpdateOrderView({Order, s.src})
        /\ IF s.src = Order THEN Return(p) ELSE Goto(p, "subscription")
        /\ UNCHANGED <<facts, docs, booked, manual, total, gateway,
                       bounds>>

\* The payments of a recurring order are counted in its subscription.
GetSubscription(p) ==
    /\ w[p].pc = "subscription"
    /\ w' = [w EXCEPT ![p].pc = "debit", ![p].amount = total]
    /\ UNCHANGED <<facts, docs, books, total, gateway, bounds>>

UpdateSubscription(p) ==
    /\ w[p].pc = "debit"
    /\ total' = w[p].amount - 1
    /\ Return(p)
    /\ UNCHANGED <<facts, docs, books, gateway, bounds>>

-----------------------------------------------------------------------------
(* Repairs by hand.                                                        *)

\* CreateAccountingEntry for the order that was paid or for a refund.
CreateAccountingEntry(s) ==
    /\ repairs < MaxRepairs /\ repairs' = repairs + 1
    /\ \/ s = Order
       \/ \E r \in Refunds : refunds[r] # None /\ refunds[r].created = s
    /\ manual' = [manual EXCEPT ![s] = @ + 1]
    /\ UNCHANGED <<facts, docs, booked, views, total, gateway, w, failures, disowned>>

\* RebuildAccountingEntries of an order or of the order of a refund; force deletes the
\* entries first. The entries of a refund are built from the order it is given, which
\* is not the one that was paid.
RebuildAccountingEntries(p, s, force) ==
    /\ w[p].pc = "idle"
    /\ repairs < MaxRepairs /\ repairs' = repairs + 1
    /\ \/ s = Order /\ "order" \in Rebuilds
       \/ s # Order /\ "refund" \in Rebuilds /\ refundOrders[s] # None
    /\ IF force THEN DeleteBySource(s) ELSE UNCHANGED <<booked, manual>>
    /\ IF s = Order
       THEN w' = [w EXCEPT ![p].pc = "payment", ![p].src = s]
       ELSE UNCHANGED w \* GetByObjectSource(s) or else ~ApplyObjectSource(s)
    /\ UNCHANGED <<facts, docs, views, total, gateway, failures, disowned>>

\* processPaymentEvent up to its entries.
ProcessPaymentEvent(p) ==
    /\ w[p].pc = "payment"
    /\ IF GetByObjectSource(w[p].src) THEN Return(p) ELSE Goto(p, "book")
    /\ UNCHANGED <<facts, docs, books, total, gateway, bounds>>

\* RebuildOrderView: the views of every order that has entries.
RebuildOrderView ==
    /\ repairs < MaxRepairs /\ repairs' = repairs + 1
    /\ UpdateOrderView({s \in Sources : booked[s] + manual[s] > 0})
    /\ UNCHANGED <<facts, docs, booked, manual, total, gateway, w, failures, disowned>>

-----------------------------------------------------------------------------
\* A call fails and the handler returns the error, or the process dies.
Fail(p) ==
    /\ w[p].pc # "idle"
    /\ failures < MaxFailures /\ failures' = failures + 1
    /\ Return(p)
    /\ UNCHANGED <<facts, docs, books, total, gateway, repairs, disowned>>

Step(p) ==
    \/ ProcessRefundsByOrder(p)
    \/ ProcessCreateRefund(p)
    \/ CardPayCreateRefund(p)
    \/ StoreAnswer(p)
    \/ ReadOrder(p)
    \/ StoreStatus(p)
    \/ CreateOrderByRefund(p)
    \/ AllowRefund(p)
    \/ AllowRefundView(p)
    \/ LinkOrder(p)
    \/ CheckAmount(p)
    \/ MarkOrder(p)
    \/ ProcessRefundEvent(p)
    \/ SaveEntries(p)
    \/ SaveViews(p)
    \/ GetSubscription(p)
    \/ UpdateSubscription(p)
    \/ ProcessPaymentEvent(p)

Next ==
    \/ \E p \in Workers : Step(p) \/ Fail(p)
    \/ \E p \in Workers, c \in BOOLEAN : CreateRefund(p, c)
    \/ \E r \in Refunds : Settle(r) \/ \E p \in Workers : Callback(p, r)
    \/ \E s \in Sources : CreateAccountingEntry(s)
    \/ \E p \in Workers, s \in Sources, force \in BOOLEAN :
          RebuildAccountingEntries(p, s, force)
    \/ RebuildOrderView

\* A handler that runs goes on, and the gateway repeats a callback until it is taken.
Fairness ==
    /\ \A p \in Workers : WF_vars(Step(p))
    /\ \A r \in Refunds : SF_vars(\E p \in Workers : Callback(p, r))

Spec == Init /\ [][Next]_vars /\ Fairness

-----------------------------------------------------------------------------
(* Properties.                                                             *)

BookedOrders(r) == {o \in RefundOrders : refundOrders[o] = r /\ booked[o] > 0}

\* The gateway is never asked to pay the same order back twice: a refund is sent only
\* while no other one is under way or done (processOrder, processRefundsByOrder), also
\* if a refund was stored and the handler then failed. This says exactly when it goes
\* wrong: a refund the gateway has taken no longer counts once the server has stored it as
\* rejected, because the gateway's answer was lost (cardPay.CreateRefund) or because
\* ProcessRefund refused a callback.
PaidBackOnce ==
    LET live == {r \in Refunds : gateway[r] \in {"accepted", "completed"}}
    IN  Cardinality(live \ disowned) <= 1

\* However often its callback comes, and wherever it failed before, a refund is booked
\* once: under one order, with one set of entries (ProcessRefundCallback).
RefundBookedOnce ==
    \A r \in Refunds :
        /\ Cardinality(BookedOrders(r)) <= 1
        /\ \A o \in BookedOrders(r) : booked[o] = 1

\* Entries, a refunded order and a smaller subscription all stand for a refund the
\* gateway has paid back, and there is none of them without one.
BooksFollowGateway ==
    LET paidBack == {r \in Refunds : gateway[r] = "completed"}
    IN  /\ order.status # "processed" => paidBack # {}
        /\ \A r \in Refunds : BookedOrders(r) # {} => r \in paidBack
        /\ total >= 1 - Cardinality({r \in paidBack : BookedOrders(r) # {}})

\* A merchant never gains from a sale that was paid back: what the refund takes is at
\* least what the payment gave, as long as the merchant's rate is not below the common
\* one and the tax of a country is only charged where VAT is enabled.
NoGainFromRefund ==
    \A o \in RefundOrders :
        (/\ views[o] # None /\ views[o].back # EmptyView
         /\ views[Order].pay # EmptyView
         /\ facts.merchant >= facts.common
         /\ (~facts.vatEnabled => facts.taxRate = 0))
        => ReportSummary(views[Order].pay, views[o].back).revenue <= 0

\* Between requests, unless a call failed or somebody repaired the books, the order view
\* says what the order and its entries say.
ViewsFollowBooks ==
    (failures = 0 /\ repairs = 0 /\ \A p \in Workers : w[p].pc = "idle") =>
        \A s \in Sources : booked[s] > 0 =>
            views[s] = [status |-> StatusOf(s), pay |-> Pay(s), back |-> Back(s)]

\* A refund the gateway has paid back is booked in the end, unless somebody has written
\* entries for it by hand or deleted those of the payment, or the bound on the number of
\* refund orders, RefundOrders, is used up.
PaidBackIsBooked ==
    \A r \in Refunds :
        gateway[r] = "completed"
            ~> \/ BookedOrders(r) # {}
               \/ repairs > 0
               \/ \A o \in RefundOrders : refundOrders[o] # None
=============================================================================
