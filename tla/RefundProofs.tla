---------------------------- MODULE RefundProofs ----------------------------
(***************************************************************************)
(* Proofs about Refund, for any number of refunds, facts, failures and     *)
(* repairs. What the books, the order and the subscription say of a refund *)
(* follows the gateway whatever number of handlers runs (FollowInv). That  *)
(* the order is paid back once and the refund booked once is only true of  *)
(* one handler at a time, OneHandler: between the reads and the writes of  *)
(* a handler the code does nothing against another one.                    *)
(***************************************************************************)
EXTENDS Refund, FiniteSetTheorems, TLAPS

OneHandler == \E p : Workers = {p}

-----------------------------------------------------------------------------
(* The invariants of any number of handlers.                               *)

\* Somebody's money was paid back.
SomePaid == \E r \in Refunds : gateway[r] = "completed"

\* The order o was made for a refund that was paid back.
PaidBack(o) ==
    o \in RefundOrders /\ refundOrders[o] \in Refunds /\ gateway[refundOrders[o]] = "completed"

\* What the handler of CreateRefund holds.
Creating(s) ==
    /\ s.pc \in {"sum", "insert", "send", "answer"} =>
         s.doc \in RefundDoc /\ s.doc.created = None
    /\ s.pc \in {"sum", "insert"} => s.doc.status = "created"
    /\ s.pc \in {"send", "answer"} => s.id \in Refunds /\ refunds[s.id] # None
    /\ s.pc = "send" => gateway[s.id] = "none"

\* What the handler of a callback holds: the refund and what the gateway said of it ...
Answering(s) ==
    s.pc \in {"read", "store", "copy", "allow", "allowView", "link", "amount", "mark"} =>
        /\ s.id \in Refunds /\ s.doc \in RefundDoc /\ s.answer # "none"
        /\ refunds[s.id] # None
        /\ s.doc.created # None => refundOrders[s.doc.created] = s.id
        /\ s.answer \in {"completed", "declined"} => gateway[s.id] = s.answer

\* ... the order as it was read ...
Ordering(s) ==
    s.pc \in {"store", "copy", "allow", "allowView", "link", "amount", "mark"} =>
        /\ s.ord \in OrderDoc
        /\ s.ord.status # "processed" => SomePaid
        /\ s.answer \in {"completed", "declined"} => s.doc.status = s.answer

\* ... and what it has decided.
Deciding(s) ==
    /\ s.pc \in {"copy", "allow", "allowView", "link", "amount", "mark"} =>
         s.answer \in {"completed", "declined"}
    /\ s.pc = "copy" => s.doc.status = "completed" /\ s.doc.created = None
    /\ s.pc \in {"allow", "allowView"} => s.doc.status = "declined"
    /\ s.pc = "link" => (s.doc.status = "completed" => s.doc.created # None)
    /\ s.pc \in {"amount", "mark"} => s.doc.status = "completed" /\ s.doc.created # None

\* The order whose entries are made.
Booking(s) ==
    /\ s.pc \in {"notify", "subscription", "debit"} => PaidBack(s.src)
    /\ s.pc \in {"book", "view"} => s.src = Order \/ PaidBack(s.src)
    /\ s.pc = "payment" => s.src = Order

Handling(s) == Creating(s) /\ Answering(s) /\ Ordering(s) /\ Deciding(s) /\ Booking(s)

\* Two handlers never send the same refund to the gateway.
SendersDiffer ==
    \A p, q \in Workers : w[p].pc = "send" /\ w[q].pc = "send" /\ p # q => w[p].id # w[q].id

\* What is stored.
StoredInv ==
    /\ \A r \in Refunds : gateway[r] # "none" => refunds[r] # None
    /\ \A r \in Refunds : refunds[r] # None /\ refunds[r].created # None =>
                             refundOrders[refunds[r].created] = r
    /\ \A o \in RefundOrders : booked[o] > 0 => PaidBack(o)
    /\ order.status # "processed" => SomePaid

\* The amounts of a view are none, or those of the entries.
ViewsInv ==
    /\ views[Order] # None
    /\ \A s \in Sources : views[s] # None =>
         /\ views[s].pay \in {EmptyView, PaymentView(PaymentRevenue(facts), PaymentFees(facts))}
         /\ views[s].back \in {EmptyView, RefundView(RefundCosts(facts, PaymentRevenue(facts)),
                                                     RefundTaxes(facts, PaymentRevenue(facts)))}

FollowInv == TypeOK /\ StoredInv /\ SendersDiffer /\ \A p \in Workers : Handling(w[p])

-----------------------------------------------------------------------------
(* The invariants of one handler at a time.                                *)

\* Somebody may be waiting for the money of r, and the server has never stored it as rejected.
Live(r) == gateway[r] \in {"accepted", "completed"} /\ r \notin disowned

Counted == {"created", "inprogress", "completed"}

\* A live refund counts, and there is one of them at a time.
Lively(s) ==
    /\ \A r \in Refunds : Live(r) => refunds[r].status \in Counted
    /\ s.pc \in {"answer", "read", "store", "link"} =>
         (Live(s.id) => s.doc.status \in Counted)
    /\ s.pc \in {"insert", "send"} => \A r \in Refunds : ~Live(r)
    /\ s.pc \in {"read", "store"} => (s.answer = "refused" => s.id \in disowned)
    /\ \A r1, r2 \in Refunds : Live(r1) /\ Live(r2) => r1 = r2

\* The copy of the handler: nobody else has changed the refund.
Copied(s) ==
    /\ s.pc = "answer" => refunds[s.id].created = None
                          /\ refunds[s.id].chargeback = s.doc.chargeback
    /\ s.pc = "send" => refunds[s.id] = s.doc /\ s.doc.status = "created"
    /\ s.pc \in {"read", "store", "copy", "allow", "allowView", "link", "amount", "mark"} =>
         /\ s.doc.chargeback = refunds[s.id].chargeback
         /\ refunds[s.id].created # None => s.doc.created = refunds[s.id].created
    /\ s.pc \in {"amount", "mark"} => s.doc = refunds[s.id]
    /\ s.pc = "notify" => s.src = refunds[refundOrders[s.src]].created
    /\ s.pc = "book" /\ s.src # Order => s.src = refunds[refundOrders[s.src]].created
                                         /\ booked[s.src] = 0

\* A refund has entries under one order, the one it names, and one set of them.
OnceInv ==
    \A o \in RefundOrders : booked[o] > 0 =>
        booked[o] = 1 /\ refunds[refundOrders[o]].created = o

BookedRefunds == {r \in Refunds : BookedOrders(r) # {}}

\* The handler has booked a refund and not yet made the subscription smaller.
Owes(s) == (s.pc = "view" /\ s.src # Order) \/ s.pc \in {"subscription", "debit"}

\* The subscription was made smaller at most once for every refund with entries, and if the
\* handler has not done so for the last of them, once less.
TotalInv(s) ==
    /\ total >= 1 - Cardinality(BookedRefunds)
    /\ Owes(s) => total >= 2 - Cardinality(BookedRefunds)
    /\ s.pc = "debit" => s.amount = total

OnceAndLive ==
    /\ OnceInv
    /\ \A p \in Workers : Copied(w[p])
    /\ \A p \in Workers : Lively(w[p])
TotalsInv == \A p \in Workers : TotalInv(w[p])

-----------------------------------------------------------------------------
(* The invariant of one handler at a time while no call has failed and     *)
(* nothing was repaired.                                                   *)

RightView(s) == views[s] = [status |-> StatusOf(s), pay |-> Pay(s), back |-> Back(s)]

Counts(r) == refunds[r] # None /\ refunds[r].status \in Counted

\* One refund counts at a time, and one that does not will not.
CountsStored ==
    /\ \A r1, r2 \in Refunds : Counts(r1) /\ Counts(r2) => r1 = r2
    /\ \A r \in Refunds : refunds[r] # None =>
          /\ refunds[r].status = "rejected" => gateway[r] = "none"
          /\ refunds[r].status = "declined" => gateway[r] = "declined"

CountsHeld(s) ==
    /\ s.pc = "insert" => \A r \in Refunds : ~Counts(r)
    /\ s.pc = "answer" => /\ refunds[s.id].status = "created"
                          /\ s.doc.status \in {"rejected", "inprogress"}
                          /\ s.doc.status = "rejected" => gateway[s.id] = "none"
    /\ s.pc \in {"read", "store"} => /\ s.answer # "refused" /\ gateway[s.id] # "none"
                                     /\ s.answer = "pending" =>
                                          s.doc.status = refunds[s.id].status
    /\ s.pc \in {"copy", "allow", "allowView", "link", "amount", "mark"} =>
          s.doc.status = refunds[s.id].status

\* The mark of the order is that of the refund that has entries, or gets them next.
MarkStored ==
    /\ \A o \in Sources : manual[o] = 0
    /\ booked[Order] = 1
    /\ \A o \in RefundOrders : booked[o] > 0 =>
          refunds[refundOrders[o]].status = "completed" /\ order.status = StatusOf(o)

MarkHeld(s) ==
    /\ s.pc \in {"store", "allow"} => s.ord = order
    /\ s.pc = "mark" => s.ord.status = IF s.doc.chargeback THEN "chargeback" ELSE "refunded"
    /\ s.pc \in {"notify", "book"} => order.status = StatusOf(s.src)
                                      /\ refunds[refundOrders[s.src]].status = "completed"
    /\ s.pc \in {"book", "view"} => s.src # Order
    /\ s.pc # "payment"

\* The views of what has entries are right, but for those the handler is about to update.
ViewHeld(s) ==
    \A x \in Sources : booked[x] > 0 =>
        \/ RightView(x)
        \/ s.pc \in {"notify", "book"} /\ booked[s.src] = 0 /\ x = Order
        \/ s.pc = "view" /\ x \in {Order, s.src}

Quietly(s) == CountsStored /\ MarkStored /\ CountsHeld(s) /\ MarkHeld(s) /\ ViewHeld(s)

QuietInv == failures = 0 /\ repairs = 0 => \A p \in Workers : Quietly(w[p])

-----------------------------------------------------------------------------
(* The amounts.                                                            *)

Amounts == [net : Int, tax : Int, fees : Int, profit : Int]

LEMMA PercentIsInt ==
    ASSUME NEW amount \in Int, NEW percent \in Nat
    PROVE  Percent(amount, percent) \in Int
<1>1. amount * percent \in Int
  OBVIOUS
<1> QED BY <1>1 DEF Percent

LEMMA PartIsInt ==
    ASSUME NEW amount \in Int, NEW rate \in Nat
    PROVE  GetPercentPartFromAmount(amount, rate) \in Int
<1>1. amount * rate \in Int /\ 100 + rate \in Nat /\ 100 + rate > 0
  OBVIOUS
<1> QED BY <1>1 DEF GetPercentPartFromAmount

LEMMA ExchangeIsInt ==
    ASSUME NEW amount \in Int, NEW rate \in Nat
    PROVE  Exchange(amount, rate) \in Int
<1>1. amount * rate \in Int
  OBVIOUS
<1> QED BY <1>1 DEF Exchange

LEMMA FactsHaveNumbers ==
    ASSUME NEW f \in Facts
    PROVE  /\ f.charge \in Nat /\ f.tax \in Nat /\ f.taxRate \in Nat /\ f.common \in Nat
           /\ f.merchant \in Nat /\ f.centralBank \in Nat /\ f.stock \in Nat
           /\ f.psPercent \in Nat /\ f.methodPercent \in Nat /\ f.systemPercent \in Nat
           /\ f.psFixedFee \in Nat /\ f.methodFixAmount \in Nat /\ f.systemFixAmount \in Nat
           /\ f.backPercent \in Nat /\ f.backFixAmount \in Nat
           /\ f.backSystemPercent \in Nat /\ f.backSystemFixAmount \in Nat
BY DEF Facts

LEMMA RatesGiveInts ==
    ASSUME NEW f \in Facts, NEW amount \in Int
    PROVE  /\ GetExchangePsByDateCommon(f, amount) \in Int
           /\ GetExchangePsByDateMerchant(f, amount) \in Int
           /\ GetPercentPartFromAmount(amount, f.taxRate) \in Int
           /\ CentralBankFx(f, amount) \in Int
<1>1. /\ f.taxRate \in Nat /\ f.common \in Nat /\ f.merchant \in Nat /\ f.centralBank \in Nat
      /\ f.stock \in Nat
  BY FactsHaveNumbers
<1>2. /\ GetExchangePsByDateCommon(f, amount) \in Int
      /\ GetExchangePsByDateMerchant(f, amount) \in Int
  BY <1>1, ExchangeIsInt DEF GetExchangePsByDateCommon, GetExchangePsByDateMerchant
<1>3. GetPercentPartFromAmount(amount, f.taxRate) \in Int
  BY <1>1, PartIsInt
<1>4. GetExchangeCbByDateCommon(f, amount) \in Int
  BY <1>1, ExchangeIsInt DEF GetExchangeCbByDateCommon
<1>5. GetExchangeStockByDateCommon(f, GetExchangeCbByDateCommon(f, amount)) \in Int
  BY <1>1, <1>4, ExchangeIsInt DEF GetExchangeStockByDateCommon
<1>6. CentralBankFx(f, amount) \in Int
  BY <1>5 DEF CentralBankFx
<1> QED BY <1>2, <1>3, <1>6

Revenue == [realGrossRevenue : Int, realTaxFee : Int, centralBankTaxFee : Int,
            psGrossRevenueFx : Int, psGrossRevenueFxTaxFee : Int,
            merchantTaxFeeCostValue : Int, merchantTaxFeeCentralBankFx : Int]

LEMMA RevenueIsInts ==
    ASSUME NEW f \in Facts
    PROVE  PaymentRevenue(f) \in Revenue
<1> DEFINE gross == GetExchangePsByDateCommon(f, f.charge)
           fx == GetExchangePsByDateMerchant(f, f.charge) - gross
           taxCost == GetPercentPartFromAmount(gross - fx, f.taxRate)
           bankFx == CentralBankFx(f, taxCost)
<1>1. f.charge \in Int /\ f.tax \in Int
  BY FactsHaveNumbers
<1>2. gross \in Int /\ GetExchangePsByDateMerchant(f, f.charge) \in Int
      /\ GetExchangePsByDateCommon(f, f.tax) \in Int
  BY <1>1, RatesGiveInts
<1>3. fx \in Int /\ gross - fx \in Int
  BY <1>2
<1>4. taxCost \in Int /\ GetPercentPartFromAmount(fx, f.taxRate) \in Int
  BY <1>3, RatesGiveInts
<1>5. bankFx \in Int
  BY <1>4, RatesGiveInts
<1> HIDE DEF gross, fx, taxCost, bankFx
<1>6. PaymentRevenue(f) =
        [realGrossRevenue |-> gross,
         realTaxFee |-> GetExchangePsByDateCommon(f, f.tax),
         centralBankTaxFee |-> 0,
         psGrossRevenueFx |-> fx,
         psGrossRevenueFxTaxFee |-> GetPercentPartFromAmount(fx, f.taxRate),
         merchantTaxFeeCostValue |-> taxCost,
         merchantTaxFeeCentralBankFx |-> IF f.vatEnabled /\ bankFx > 0 THEN bankFx ELSE 0]
  BY DEF PaymentRevenue, gross, fx, taxCost, bankFx
<1> QED BY <1>2, <1>3, <1>4, <1>5, <1>6 DEF Revenue

LEMMA PaymentViewIsInts ==
    ASSUME NEW f \in Facts
    PROVE  PaymentView(PaymentRevenue(f), PaymentFees(f)) \in Amounts
<1>1. PICK e : e = PaymentRevenue(f)
  OBVIOUS
<1>2. e \in Revenue
  BY <1>1, RevenueIsInts
<1> DEFINE gross == GetExchangePsByDateCommon(f, f.charge)
           merchantGross == 2 * gross - GetExchangePsByDateMerchant(f, f.charge)
<1>3. /\ f.charge \in Int /\ f.methodFixAmount \in Int /\ f.systemFixAmount \in Int
      /\ f.psFixedFee \in Int
      /\ f.psPercent \in Nat /\ f.systemPercent \in Nat
  BY FactsHaveNumbers
<1>4. gross \in Int /\ GetExchangePsByDateMerchant(f, f.charge) \in Int
  BY <1>3, RatesGiveInts
<1>5. merchantGross \in Int
  BY <1>4
<1>6. /\ Percent(merchantGross, f.psPercent) \in Int
      /\ Percent(gross, f.systemPercent) \in Int
      /\ GetExchangePsByDateCommon(f, f.systemFixAmount) \in Int
      /\ GetExchangePsByDateMerchant(f, f.psFixedFee) \in Int
  BY <1>3, <1>4, <1>5, PercentIsInt, RatesGiveInts
<1> HIDE DEF gross, merchantGross
<1>7. PICK g : g = PaymentFees(f)
  OBVIOUS
<1>8. /\ g.psMethodFee \in Int /\ g.merchantMethodFeeCostValue \in Int
      /\ g.realMerchantMethodFixedFeeCostValue \in Int /\ g.merchantPsFixedFee \in Int
  BY <1>6, <1>7 DEF PaymentFees, gross, merchantGross
<1>9. PaymentView(e, g) \in Amounts
  BY <1>2, <1>8 DEF PaymentView, Amounts, Revenue
<1> QED BY <1>1, <1>7, <1>9

LEMMA RefundViewIsInts ==
    ASSUME NEW f \in Facts
    PROVE  RefundView(RefundCosts(f, PaymentRevenue(f)), RefundTaxes(f, PaymentRevenue(f)))
             \in Amounts
<1>1. PICK e : e = PaymentRevenue(f)
  OBVIOUS
<1>2. e \in Revenue
  BY <1>1, RevenueIsInts
<1>3. /\ f.charge \in Int /\ f.backPercent \in Nat /\ f.backFixAmount \in Int
      /\ f.backSystemPercent \in Nat /\ f.backSystemFixAmount \in Int
  BY FactsHaveNumbers
<1>4. PICK real, merchant : /\ real = GetExchangePsByDateCommon(f, f.charge)
                            /\ merchant = GetExchangePsByDateMerchant(f, f.charge)
  OBVIOUS
<1>5. real \in Int /\ merchant \in Int
  BY <1>3, <1>4, RatesGiveInts
<1>6. /\ Percent(real, f.backSystemPercent) \in Int
      /\ Percent(merchant, f.backPercent) \in Int
      /\ GetExchangePsByDateCommon(f, f.backSystemFixAmount) \in Int
      /\ GetExchangePsByDateMerchant(f, f.backFixAmount) \in Int
      /\ CentralBankFx(f, GetPercentPartFromAmount(merchant, f.taxRate)) \in Int
  BY <1>3, <1>5, PercentIsInt, RatesGiveInts
<1>7. PICK c : c = RefundCosts(f, e)
  OBVIOUS
<1>8. /\ c.merchantRefund \in Int /\ c.merchantRefundFee \in Int
      /\ c.merchantRefundFixedFee \in Int /\ c.realRefundFixedFee \in Int
      /\ c.realRefundFee \in Int
  BY <1>4, <1>5, <1>6, <1>7 DEF RefundCosts
<1>9. PICK t : t = RefundTaxes(f, e)
  OBVIOUS
<1>10. e.merchantTaxFeeCentralBankFx \in Int /\ e.merchantTaxFeeCostValue \in Int
  BY <1>2 DEF Revenue
<1>11. /\ t.reverseTaxFee \in Int /\ t.reverseTaxFeeDelta \in Int
       /\ t.psReverseTaxFeeDelta \in Int
  BY <1>4, <1>6, <1>9, <1>10 DEF RefundTaxes
<1>12. RefundView(c, t) \in Amounts
  BY <1>8, <1>11 DEF RefundView, Amounts
<1> QED BY <1>1, <1>7, <1>9, <1>12

-----------------------------------------------------------------------------
(* What every step has in common.                                          *)

Typed ==
    /\ facts \in FactsOfOrder
    /\ order \in OrderDoc
    /\ refunds \in [Refunds -> RefundDoc \cup {None}]
    /\ refundOrders \in [RefundOrders -> Refunds \cup {None}]
    /\ booked \in [Sources -> Nat]
    /\ manual \in [Sources -> Nat]
    /\ views \in [Sources -> ViewDoc \cup {None}]
    /\ total \in Int
    /\ gateway \in [Refunds -> {"none", "accepted", "completed", "declined"}]
    /\ failures \in 0 .. MaxFailures
    /\ repairs \in 0 .. MaxRepairs
    /\ disowned \subseteq Refunds

\* What the gateway has settled stays, and no document disappears.
Progress ==
    /\ \A r \in Refunds : gateway[r] \in {"completed", "declined"} => gateway'[r] = gateway[r]
    /\ \A r \in Refunds : refunds[r] # None => refunds'[r] # None
    /\ \A o \in RefundOrders : refundOrders[o] # None => refundOrders'[o] = refundOrders[o]

LEMMA NoneIsNoOrder == None \notin Refunds /\ None \notin RefundOrders /\ Order \notin RefundOrders
BY RefundAssumption DEF Sources

LEMMA SomePaidStays ==
    ASSUME Progress, SomePaid
    PROVE  SomePaid'
BY DEF Progress, SomePaid

LEMMA PaidBackStays ==
    ASSUME Progress, NEW o, PaidBack(o)
    PROVE  PaidBack(o)'
BY NoneIsNoOrder DEF Progress, PaidBack

\* What is true of another handler stays true.
LEMMA HandlingStays ==
    ASSUME Progress, NEW s, Handling(s), s.pc = "send" => gateway'[s.id] = "none"
    PROVE  Handling(s)'
<1>1. Creating(s)'
  BY DEF Handling, Creating, Progress
<1>2. Answering(s)'
  <2> SUFFICES ASSUME s.pc \in {"read", "store", "copy", "allow", "allowView", "link", "amount", "mark"}
               PROVE  /\ s.id \in Refunds /\ s.doc \in RefundDoc /\ s.answer # "none"
                      /\ refunds'[s.id] # None
                      /\ s.doc.created # None => refundOrders'[s.doc.created] = s.id
                      /\ s.answer \in {"completed", "declined"} => gateway'[s.id] = s.answer
    BY DEF Answering
  <2>1. /\ s.id \in Refunds /\ s.doc \in RefundDoc /\ s.answer # "none"
        /\ refunds[s.id] # None
        /\ s.doc.created # None => refundOrders[s.doc.created] = s.id
        /\ s.answer \in {"completed", "declined"} => gateway[s.id] = s.answer
    BY DEF Handling, Answering
  <2>2. s.doc.created \in RefundOrders \cup {None}
    BY <2>1 DEF RefundDoc
  <2> QED BY <2>1, <2>2, NoneIsNoOrder DEF Progress
<1>3. Ordering(s)'
  BY SomePaidStays DEF Handling, Ordering
<1>4. Deciding(s)'
  BY DEF Handling, Deciding
<1>5. Booking(s)'
  BY PaidBackStays DEF Handling, Booking
<1> QED BY <1>1, <1>2, <1>3, <1>4, <1>5 DEF Handling

\* Handler p moves on to the state new.
Moves(p, new) == new \in Worker /\ w' = [w EXCEPT ![p] = new]

LEMMA MovesTo ==
    ASSUME w \in [Workers -> Worker], NEW p \in Workers, NEW new, Moves(p, new)
    PROVE  /\ w' \in [Workers -> Worker] /\ w'[p] = new
           /\ \A q \in Workers : q # p => w'[q] = w[q]
BY DEF Moves

LEMMA StepFollows ==
    ASSUME FollowInv, NEW p \in Workers, NEW new, Moves(p, new), Handling(new)',
           Progress, Typed', StoredInv',
           \A q \in Workers : q # p /\ w[q].pc = "send" =>
              /\ gateway'[w[q].id] = "none"
              /\ new.pc = "send" => w[q].id # new.id
    PROVE  FollowInv'
<1>1. /\ w' \in [Workers -> Worker] /\ w'[p] = new
      /\ \A q \in Workers : q # p => w'[q] = w[q]
  BY MovesTo DEF FollowInv, TypeOK
<1>2. TypeOK'
  BY <1>1 DEF Typed, TypeOK
<1>3. ASSUME NEW q \in Workers PROVE Handling(w[q])'
  <2>1. CASE q = p
    BY <1>1, <2>1
  <2>2. CASE q # p
    <3>1. PICK s : s = w[q]
      OBVIOUS
    <3>2. Handling(s) /\ (s.pc = "send" => gateway'[s.id] = "none") /\ s = w'[q]
      BY <1>1, <2>2, <3>1 DEF FollowInv
    <3>3. Handling(s)'
      BY <3>2, HandlingStays
    <3> QED BY <3>2, <3>3
  <2> QED BY <2>1, <2>2
<1>4. SendersDiffer'
  BY <1>1 DEF SendersDiffer, FollowInv
<1> QED BY <1>2, <1>3, <1>4 DEF FollowInv

\* A step that changes only handlers, bounds and books, and books only what was paid back.
LEMMA QuietStepFollows ==
    ASSUME FollowInv, NEW p \in Workers, NEW new, Moves(p, new), Handling(new), Typed',
           new.pc # "send", UNCHANGED <<gateway, refunds, refundOrders, order>>,
           \A o \in RefundOrders : booked'[o] > 0 => booked[o] > 0 \/ PaidBack(o)
    PROVE  FollowInv'
<1>1. Progress
  BY DEF Progress
<1>2. Handling(new)'
  BY <1>1, HandlingStays
<1>3. StoredInv'
  BY DEF FollowInv, StoredInv, SomePaid, PaidBack
<1>4. \A q \in Workers : q # p /\ w[q].pc = "send" => gateway'[w[q].id] = "none"
  BY DEF FollowInv, Handling, Creating
<1> QED BY <1>1, <1>2, <1>3, <1>4, StepFollows

LEMMA IdleIsWorker == Idle \in Worker /\ Idle.pc = "idle" /\ Handling(Idle)
<1>1. Idle \in Worker /\ Idle.pc = "idle"
  BY DEF Idle, Worker, PCs
<1>2. Creating(Idle) /\ Answering(Idle) /\ Ordering(Idle) /\ Deciding(Idle) /\ Booking(Idle)
  BY <1>1 DEF Creating, Answering, Ordering, Deciding, Booking
<1> QED BY <1>1, <1>2 DEF Handling

\* A handler that ends and writes nothing.
LEMMA ReturnFollows ==
    ASSUME FollowInv, NEW p \in Workers, Return(p), Typed',
           UNCHANGED <<gateway, refunds, refundOrders, order>>,
           \A o \in RefundOrders : booked'[o] > 0 => booked[o] > 0 \/ PaidBack(o)
    PROVE  FollowInv'
<1>1. Moves(p, Idle) /\ Handling(Idle) /\ Idle.pc # "send"
  BY IdleIsWorker DEF Return, Moves
<1> QED BY <1>1, QuietStepFollows

-----------------------------------------------------------------------------
(* CreateRefund.                                                           *)

\* The document of a handler, with another status or with the order made for the refund.
LEMMA StatusField ==
    ASSUME NEW doc \in RefundDoc, NEW st \in Statuses, NEW d, d = [doc EXCEPT !.status = st]
    PROVE  /\ d \in RefundDoc /\ d.status = st /\ d.created = doc.created
           /\ d.chargeback = doc.chargeback
BY DEF RefundDoc

LEMMA CreatedField ==
    ASSUME NEW doc \in RefundDoc, NEW o \in RefundOrders, NEW d, d = [doc EXCEPT !.created = o]
    PROVE  /\ d \in RefundDoc /\ d.status = doc.status /\ d.created = o
           /\ d.chargeback = doc.chargeback
BY DEF RefundDoc

LEMMA GotoIs ==
    ASSUME FollowInv, NEW p \in Workers, NEW pc \in PCs, Goto(p, pc)
    PROVE  \E new : /\ Moves(p, new) /\ new.pc = pc
                    /\ new.id = w[p].id /\ new.doc = w[p].doc /\ new.ord = w[p].ord
                    /\ new.src = w[p].src /\ new.answer = w[p].answer
                    /\ new.amount = w[p].amount
<1>1. PICK s : s = w[p]
  OBVIOUS
<1>2. s \in Worker
  BY <1>1 DEF FollowInv, TypeOK
<1>3. PICK new : new = [s EXCEPT !.pc = pc]
  OBVIOUS
<1>4. /\ new \in Worker /\ new.pc = pc /\ new.id = s.id /\ new.doc = s.doc /\ new.ord = s.ord
      /\ new.src = s.src /\ new.answer = s.answer /\ new.amount = s.amount
  BY <1>2, <1>3 DEF Worker
<1>5. w' = [w EXCEPT ![p] = new]
  BY <1>1, <1>3 DEF Goto
<1> QED BY <1>1, <1>4, <1>5 DEF Moves

LEMMA HeldBy ==
    ASSUME FollowInv, NEW p \in Workers
    PROVE  w[p] \in Worker /\ Handling(w[p])
BY DEF FollowInv, TypeOK

LEMMA BoundsTyped ==
    ASSUME FollowInv
    PROVE  /\ failures \in 0 .. MaxFailures /\ repairs \in 0 .. MaxRepairs /\ disowned \subseteq Refunds
           /\ failures < MaxFailures => failures + 1 \in 0 .. MaxFailures
           /\ repairs < MaxRepairs => repairs + 1 \in 0 .. MaxRepairs
BY RefundAssumption DEF FollowInv, TypeOK

\* What CreateRefund makes of the handler.
LEMMA CreateRefundIs ==
    ASSUME FollowInv, NEW p \in Workers, NEW c \in BOOLEAN, CreateRefund(p, c)
    PROVE  \E new : /\ Moves(p, new) /\ new.pc = "sum"
                    /\ new.doc \in RefundDoc /\ new.doc.status = "created"
                    /\ new.doc.created = None
<1>1. PICK doc : doc = [status |-> "created", chargeback |-> c, created |-> None]
  OBVIOUS
<1>2. doc \in RefundDoc /\ doc.status = "created" /\ doc.created = None
  BY <1>1 DEF RefundDoc, Statuses
<1>a. PICK s : s = w[p]
  OBVIOUS
<1>b. s \in Worker
  BY <1>a, HeldBy
<1>3. PICK new : new = [s EXCEPT !.pc = "sum", !.doc = doc]
  OBVIOUS
<1>4. new \in Worker /\ new.pc = "sum" /\ new.doc = doc
  BY <1>b, <1>2, <1>3 DEF Worker, PCs
<1>5. Moves(p, new)
  BY <1>a, <1>1, <1>3, <1>4 DEF CreateRefund, Moves
<1> QED BY <1>2, <1>4, <1>5

LEMMA CreateRefundFollows ==
    ASSUME FollowInv, NEW p \in Workers, NEW c \in BOOLEAN, CreateRefund(p, c)
    PROVE  FollowInv'
<1>1. PICK new : /\ Moves(p, new) /\ new.pc = "sum"
                 /\ new.doc \in RefundDoc /\ new.doc.status = "created"
                 /\ new.doc.created = None
  BY CreateRefundIs
<1>2. Handling(new)
  BY <1>1 DEF Handling, Creating, Answering, Ordering, Deciding, Booking
<1>3. Typed'
  BY DEF CreateRefund, FollowInv, TypeOK, Typed, docs, books, bounds
<1> QED BY <1>1, <1>2, <1>3, QuietStepFollows DEF CreateRefund, docs, books

LEMMA ProcessRefundsByOrderFollows ==
    ASSUME FollowInv, NEW p \in Workers, ProcessRefundsByOrder(p)
    PROVE  FollowInv'
<1>1. Typed'
  BY DEF ProcessRefundsByOrder, FollowInv, TypeOK, Typed, docs, books, bounds
<1>2. UNCHANGED <<gateway, refunds, refundOrders, order>> /\ booked' = booked
  BY DEF ProcessRefundsByOrder, docs, books
<1>3. CASE Return(p)
  BY <1>1, <1>2, <1>3, ReturnFollows
<1>4. CASE Goto(p, "insert")
  <2>1. "insert" \in PCs
    BY DEF PCs
  <2>2. PICK new : /\ Moves(p, new) /\ new.pc = "insert" /\ new.doc = w[p].doc
    BY <1>4, <2>1, GotoIs
  <2>3. w[p].pc = "sum" /\ Handling(w[p])
    BY HeldBy DEF ProcessRefundsByOrder
  <2>4. Handling(new)
    BY <2>2, <2>3 DEF Handling, Creating, Answering, Ordering, Deciding, Booking
  <2> QED BY <1>1, <1>2, <2>2, <2>4, QuietStepFollows
<1> QED BY <1>3, <1>4 DEF ProcessRefundsByOrder

\* What ProcessCreateRefund makes of the handler and of the refunds.
LEMMA ProcessCreateRefundIs ==
    ASSUME FollowInv, NEW p \in Workers, ProcessCreateRefund(p)
    PROVE  \E new : \E r \in Refunds :
             /\ Moves(p, new) /\ new.pc = "send" /\ new.id = r /\ new.doc = w[p].doc
             /\ refunds[r] = None /\ gateway[r] = "none"
             /\ refunds' \in [Refunds -> RefundDoc \cup {None}] /\ refunds'[r] = w[p].doc
             /\ \A x \in Refunds : x # r => refunds'[x] = refunds[x]
             /\ w[p].pc = "insert" /\ w[p].doc \in RefundDoc /\ w[p].doc.created = None
             /\ w[p].doc.status = "created" /\ w[p].doc # None
<1>1. PICK s : s = w[p]
  OBVIOUS
<1>2. s \in Worker /\ Handling(s) /\ s.pc = "insert"
  BY <1>1, HeldBy DEF ProcessCreateRefund
<1>3. s.doc \in RefundDoc /\ s.doc.created = None /\ s.doc.status = "created" /\ s.doc # None
  BY <1>2, RefundAssumption DEF Handling, Creating
<1>4. PICK r \in Refunds : /\ refunds[r] = None
                           /\ refunds' = [refunds EXCEPT ![r] = s.doc]
                           /\ w' = [w EXCEPT ![p].pc = "send", ![p].id = r]
  BY <1>1 DEF ProcessCreateRefund
<1>5. PICK new : new = [s EXCEPT !.pc = "send", !.id = r]
  OBVIOUS
<1>6. new \in Worker /\ new.pc = "send" /\ new.id = r /\ new.doc = s.doc
  BY <1>2, <1>5 DEF Worker, PCs
<1>7. Moves(p, new)
  BY <1>1, <1>4, <1>5, <1>6 DEF Moves
<1>8. /\ refunds' \in [Refunds -> RefundDoc \cup {None}]
      /\ refunds'[r] = s.doc /\ \A x \in Refunds : x # r => refunds'[x] = refunds[x]
  BY <1>3, <1>4 DEF FollowInv, TypeOK
<1>9. gateway[r] = "none"
  BY <1>4 DEF FollowInv, StoredInv
<1> QED BY <1>1, <1>2, <1>3, <1>4, <1>6, <1>7, <1>8, <1>9

LEMMA ProcessCreateRefundFollows ==
    ASSUME FollowInv, NEW p \in Workers, ProcessCreateRefund(p)
    PROVE  FollowInv'
<1>a. PICK new : \E r \in Refunds :
             /\ Moves(p, new) /\ new.pc = "send" /\ new.id = r /\ new.doc = w[p].doc
             /\ refunds[r] = None /\ gateway[r] = "none"
             /\ refunds' \in [Refunds -> RefundDoc \cup {None}] /\ refunds'[r] = w[p].doc
             /\ \A x \in Refunds : x # r => refunds'[x] = refunds[x]
             /\ w[p].pc = "insert" /\ w[p].doc \in RefundDoc /\ w[p].doc.created = None
             /\ w[p].doc.status = "created" /\ w[p].doc # None
  BY ProcessCreateRefundIs
<1>1. PICK r \in Refunds :
             /\ Moves(p, new) /\ new.pc = "send" /\ new.id = r /\ new.doc = w[p].doc
             /\ refunds[r] = None /\ gateway[r] = "none"
             /\ refunds' \in [Refunds -> RefundDoc \cup {None}] /\ refunds'[r] = w[p].doc
             /\ \A x \in Refunds : x # r => refunds'[x] = refunds[x]
             /\ w[p].pc = "insert" /\ w[p].doc \in RefundDoc /\ w[p].doc.created = None
             /\ w[p].doc.status = "created" /\ w[p].doc # None
  BY <1>a
<1>2. /\ UNCHANGED <<order, refundOrders, booked, gateway>>
      /\ UNCHANGED <<facts, manual, views, total, failures, repairs, disowned>>
  BY DEF ProcessCreateRefund, books, bounds
<1>3. Progress
  BY <1>1, <1>2 DEF Progress
<1>4. Handling(new)'
  BY <1>1, <1>2 DEF Handling, Creating, Answering, Ordering, Deciding, Booking
<1>5. Typed'
  BY <1>1, <1>2 DEF FollowInv, TypeOK, Typed
<1>6. StoredInv'
  BY <1>1, <1>2 DEF FollowInv, StoredInv, SomePaid, PaidBack
<1>7. ASSUME NEW q \in Workers, q # p, w[q].pc = "send"
      PROVE  gateway'[w[q].id] = "none" /\ w[q].id # new.id
  BY <1>1, <1>2, <1>7, HeldBy DEF Handling, Creating
<1> QED BY <1>1, <1>3, <1>4, <1>5, <1>6, <1>7, StepFollows

\* What CardPayCreateRefund makes of the handler and of the gateway.
LEMMA CardPayCreateRefundIs ==
    ASSUME FollowInv, NEW p \in Workers, CardPayCreateRefund(p)
    PROVE  \E new :
             /\ Moves(p, new) /\ new.pc = "answer" /\ new.id = w[p].id
             /\ new.doc \in RefundDoc /\ new.doc.created = None
             /\ new.doc.chargeback = w[p].doc.chargeback
             /\ w[p].pc = "send" /\ w[p].id \in Refunds
             /\ refunds[w[p].id] # None /\ gateway[w[p].id] = "none"
             /\ gateway' \in [Refunds -> {"none", "accepted", "completed", "declined"}]
             /\ \A r \in Refunds : r # w[p].id => gateway'[r] = gateway[r]
             /\ \/ /\ UNCHANGED <<failures, disowned>>
                   /\ \/ gateway'[w[p].id] = "accepted" /\ new.doc.status = "inprogress"
                      \/ gateway'[w[p].id] = "none" /\ new.doc.status = "rejected"
                \/ /\ failures < MaxFailures /\ failures' = failures + 1
                   /\ disowned' = disowned \cup {w[p].id}
                   /\ gateway'[w[p].id] = "accepted" /\ new.doc.status = "rejected"
<1>1. PICK s : s = w[p]
  OBVIOUS
<1>2. s \in Worker /\ Handling(s) /\ s.pc = "send"
  BY <1>1, HeldBy DEF CardPayCreateRefund
<1>3. /\ s.doc \in RefundDoc /\ s.doc.created = None /\ s.id \in Refunds
      /\ refunds[s.id] # None /\ gateway[s.id] = "none"
  BY <1>2 DEF Handling, Creating
<1>4. PICK st \in {"inprogress", "rejected"} :
        /\ w' = [w EXCEPT ![p].pc = "answer", ![p].doc.status = st]
        /\ \/ /\ UNCHANGED <<failures, disowned>>
              /\ \/ gateway' = [gateway EXCEPT ![s.id] = "accepted"] /\ st = "inprogress"
                 \/ gateway' = gateway /\ st = "rejected"
           \/ /\ failures < MaxFailures /\ failures' = failures + 1
              /\ disowned' = disowned \cup {s.id}
              /\ gateway' = [gateway EXCEPT ![s.id] = "accepted"] /\ st = "rejected"
  BY <1>1 DEF CardPayCreateRefund
<1>5. PICK old : old = s.doc
  OBVIOUS
<1>6. PICK doc : doc = [old EXCEPT !.status = st]
  OBVIOUS
<1>7. doc \in RefundDoc /\ doc.created = None /\ doc.status = st
      /\ doc.chargeback = old.chargeback
  <2>1. old \in RefundDoc /\ old.created = None /\ st \in Statuses
    BY <1>3, <1>5 DEF Statuses
  <2> QED BY <2>1, <1>6, StatusField
<1>8. PICK new : new = [s EXCEPT !.pc = "answer", !.doc = doc]
  OBVIOUS
<1>9. new \in Worker /\ new.pc = "answer" /\ new.id = s.id /\ new.doc = doc
  BY <1>2, <1>7, <1>8 DEF Worker, PCs
<1>10. w' = [w EXCEPT ![p] = new]
  <2>1. w' = [w EXCEPT ![p].pc = "answer", ![p].doc.status = st]
    BY <1>4
  <2> QED BY <1>1, <1>5, <1>6, <1>8, <2>1
<1>11. Moves(p, new)
  BY <1>9, <1>10 DEF Moves
<1>12. /\ gateway' \in [Refunds -> {"none", "accepted", "completed", "declined"}]
       /\ \A r \in Refunds : r # s.id => gateway'[r] = gateway[r]
       /\ \/ /\ UNCHANGED <<failures, disowned>>
             /\ \/ gateway'[s.id] = "accepted" /\ st = "inprogress"
                \/ gateway'[s.id] = "none" /\ st = "rejected"
          \/ /\ failures < MaxFailures /\ failures' = failures + 1
             /\ disowned' = disowned \cup {s.id}
             /\ gateway'[s.id] = "accepted" /\ st = "rejected"
  BY <1>3, <1>4 DEF FollowInv, TypeOK
<1> QED BY <1>1, <1>2, <1>3, <1>5, <1>7, <1>9, <1>11, <1>12

LEMMA CardPayCreateRefundFollows ==
    ASSUME FollowInv, NEW p \in Workers, CardPayCreateRefund(p)
    PROVE  FollowInv'
<1>1. PICK new :
        /\ Moves(p, new) /\ new.pc = "answer" /\ new.id = w[p].id
        /\ new.doc \in RefundDoc /\ new.doc.created = None
        /\ w[p].pc = "send" /\ w[p].id \in Refunds
        /\ refunds[w[p].id] # None /\ gateway[w[p].id] = "none"
        /\ gateway' \in [Refunds -> {"none", "accepted", "completed", "declined"}]
        /\ \A r \in Refunds : r # w[p].id => gateway'[r] = gateway[r]
        /\ \/ UNCHANGED <<failures, disowned>>
           \/ /\ failures < MaxFailures /\ failures' = failures + 1
              /\ disowned' = disowned \cup {w[p].id}
  BY CardPayCreateRefundIs
<1>2. /\ UNCHANGED <<order, refunds, refundOrders, booked>>
      /\ UNCHANGED <<facts, manual, views, total, repairs>>
  BY DEF CardPayCreateRefund, docs, books
<1>a. failures' \in 0 .. MaxFailures /\ disowned' \subseteq Refunds
  BY <1>1, BoundsTyped
<1>3. Progress
  BY <1>1, <1>2 DEF Progress
<1>4. Handling(new)'
  BY <1>1, <1>2 DEF Handling, Creating, Answering, Ordering, Deciding, Booking
<1>5. Typed'
  BY <1>1, <1>2, <1>a DEF FollowInv, TypeOK, Typed
<1>6. \A o \in RefundOrders : PaidBack(o) => PaidBack(o)'
  BY <1>3, PaidBackStays
<1>7. SomePaid => SomePaid'
  BY <1>3, SomePaidStays
<1>8. StoredInv'
  BY <1>1, <1>2, <1>6, <1>7 DEF FollowInv, StoredInv
<1>9. ASSUME NEW q \in Workers, q # p, w[q].pc = "send"
      PROVE  gateway'[w[q].id] = "none"
  <2>1. w[q].id # w[p].id /\ w[q].id \in Refunds /\ gateway[w[q].id] = "none"
    BY <1>1, <1>9, HeldBy DEF FollowInv, SendersDiffer, Handling, Creating
  <2> QED BY <2>1, <1>1
<1> QED BY <1>1, <1>3, <1>4, <1>5, <1>8, <1>9, StepFollows

LEMMA StoreAnswerFollows ==
    ASSUME FollowInv, NEW p \in Workers, StoreAnswer(p)
    PROVE  FollowInv'
<1>1. PICK s : s = w[p]
  OBVIOUS
<1>2. s \in Worker /\ Handling(s) /\ s.pc = "answer"
  BY <1>1, HeldBy DEF StoreAnswer
<1>3. s.doc \in RefundDoc /\ s.doc.created = None /\ s.id \in Refunds /\ s.doc # None
  BY <1>2, RefundAssumption DEF Handling, Creating
<1>4. /\ UNCHANGED <<order, gateway, refundOrders, booked>>
      /\ UNCHANGED <<facts, manual, views, total, failures, repairs, disowned>>
      /\ refunds' = [refunds EXCEPT ![s.id] = s.doc] /\ Return(p)
  BY <1>1 DEF StoreAnswer, books, bounds
<1>5. refunds'[s.id] = s.doc /\ \A x \in Refunds : x # s.id => refunds'[x] = refunds[x]
  BY <1>3, <1>4 DEF FollowInv, TypeOK
<1>6. Progress
  BY <1>3, <1>4, <1>5 DEF Progress
<1>7. Moves(p, Idle) /\ Handling(Idle) /\ Idle.pc = "idle"
  BY <1>4, IdleIsWorker DEF Return, Moves
<1>8. Handling(Idle)'
  BY <1>6, <1>7, HandlingStays
<1>9. Typed'
  BY <1>3, <1>4 DEF FollowInv, TypeOK, Typed
<1>10. StoredInv'
  BY <1>3, <1>4, <1>5 DEF FollowInv, StoredInv, SomePaid, PaidBack
<1>11. \A q \in Workers : w[q].pc = "send" => gateway'[w[q].id] = "none"
  BY <1>4, HeldBy DEF Handling, Creating
<1> QED BY <1>6, <1>7, <1>8, <1>9, <1>10, <1>11, StepFollows

\* External: only a refund the gateway has taken is settled.
LEMMA SettleFollows ==
    ASSUME FollowInv, NEW r \in Refunds, Settle(r)
    PROVE  FollowInv'
<1>1. /\ UNCHANGED <<order, refunds, refundOrders, booked, w>>
      /\ UNCHANGED <<facts, manual, views, total, failures, repairs, disowned>>
      /\ gateway[r] = "accepted"
  BY DEF Settle, docs, books, bounds
<1>2. PICK a \in {"completed", "declined"} : gateway' = [gateway EXCEPT ![r] = a]
  BY DEF Settle
<1>3. gateway'[r] = a /\ \A x \in Refunds : x # r => gateway'[x] = gateway[x]
  BY <1>2 DEF FollowInv, TypeOK
<1>4. Progress
  BY <1>1, <1>3 DEF Progress
<1>5. Typed'
  BY <1>1, <1>2 DEF FollowInv, TypeOK, Typed
<1>6. \A o \in RefundOrders : PaidBack(o) => PaidBack(o)'
  BY <1>4, PaidBackStays
<1>7. SomePaid => SomePaid'
  BY <1>4, SomePaidStays
<1>8. StoredInv'
  BY <1>1, <1>3, <1>6, <1>7 DEF FollowInv, StoredInv
<1>9. ASSUME NEW q \in Workers PROVE Handling(w[q])'
  <2>1. PICK s : s = w[q]
    OBVIOUS
  <2>2. Handling(s) /\ s.pc = "send" => gateway'[s.id] = "none"
    BY <2>1, <1>1, <1>3, HeldBy DEF Handling, Creating
  <2>3. Handling(s)'
    BY <2>1, <2>2, <1>4, HeldBy, HandlingStays
  <2> QED BY <2>1, <2>3, <1>1
<1>10. SendersDiffer' /\ TypeOK'
  BY <1>1, <1>5 DEF FollowInv, SendersDiffer, TypeOK, Typed
<1> QED BY <1>8, <1>9, <1>10 DEF FollowInv

-----------------------------------------------------------------------------
(* ProcessRefundCallback.                                                  *)

\* What Callback makes of the handler.
CalledBack(p, r, new) ==
    /\ Moves(p, new) /\ new.pc = "read" /\ new.id = r /\ new.doc = refunds[r]
    /\ refunds[r] \in RefundDoc /\ refunds[r] # None
    /\ gateway[r] \in {"accepted", "completed", "declined"}
    /\ new.answer \in {"completed", "declined", "pending", "refused"}
    /\ new.answer \in {"completed", "declined"} => gateway[r] = new.answer
    /\ new.answer = "refused" => failures' = failures + 1 /\ disowned' = disowned \cup {r}
    /\ new.answer # "refused" => failures' = failures /\ disowned' = disowned
    /\ failures' \in 0 .. MaxFailures /\ disowned' \subseteq Refunds

LEMMA CallbackIs ==
    ASSUME FollowInv, NEW p \in Workers, NEW r \in Refunds, Callback(p, r)
    PROVE  \E new : CalledBack(p, r, new)
<1>1. PICK a \in {"refused", IF gateway[r] = "accepted" THEN "pending" ELSE gateway[r]} :
        /\ w' = [w EXCEPT ![p].pc = "read", ![p].id = r, ![p].doc = refunds[r], ![p].answer = a]
        /\ IF a = "refused"
           THEN /\ failures < MaxFailures /\ failures' = failures + 1
                /\ disowned' = disowned \cup {r}
           ELSE UNCHANGED <<failures, disowned>>
  BY DEF Callback
<1>2. gateway[r] # "none" /\ refunds[r] # None
  BY DEF Callback
<1>3. gateway[r] \in {"accepted", "completed", "declined"} /\ refunds[r] \in RefundDoc
  BY <1>2 DEF FollowInv, TypeOK
<1>4. /\ a \in {"completed", "declined", "pending", "refused"}
      /\ a \in {"completed", "declined"} => gateway[r] = a
  BY <1>1, <1>3
<1>a. PICK s, doc : s = w[p] /\ doc = refunds[r]
  OBVIOUS
<1>b. s \in Worker /\ doc \in RefundDoc
  BY <1>a, <1>3, HeldBy
<1>5. PICK new : new = [s EXCEPT !.pc = "read", !.id = r, !.doc = doc, !.answer = a]
  OBVIOUS
<1>6. /\ new \in Worker /\ new.pc = "read" /\ new.id = r /\ new.doc = doc /\ new.answer = a
  BY <1>b, <1>4, <1>5 DEF Worker, PCs
<1>7. Moves(p, new)
  BY <1>a, <1>1, <1>5, <1>6 DEF Moves
<1>8. /\ new.answer = "refused" => failures' = failures + 1 /\ disowned' = disowned \cup {r}
      /\ new.answer # "refused" => failures' = failures /\ disowned' = disowned
  BY <1>1, <1>6, Zenon
<1>9. failures' \in 0 .. MaxFailures
  BY <1>1, BoundsTyped
<1>10. disowned' \subseteq Refunds
  BY <1>1, BoundsTyped
<1> QED BY <1>a, <1>2, <1>3, <1>4, <1>6, <1>7, <1>8, <1>9, <1>10, Zenon DEF CalledBack

LEMMA CallbackFollows ==
    ASSUME FollowInv, NEW p \in Workers, NEW r \in Refunds, Callback(p, r)
    PROVE  FollowInv'
<1>a. PICK new : CalledBack(p, r, new)
  BY CallbackIs
<1>1. /\ Moves(p, new) /\ new.pc = "read" /\ new.id = r /\ new.doc = refunds[r]
      /\ refunds[r] \in RefundDoc /\ refunds[r] # None
      /\ new.answer \in {"completed", "declined", "pending", "refused"}
      /\ new.answer \in {"completed", "declined"} => gateway[r] = new.answer
      /\ failures' \in 0 .. MaxFailures /\ disowned' \subseteq Refunds
  BY <1>a, Zenon DEF CalledBack
<1>2. /\ UNCHANGED <<order, refunds, refundOrders, gateway, booked>>
      /\ UNCHANGED <<facts, manual, views, total, repairs>>
  BY DEF Callback, docs, books
<1>3. refunds[r].created # None => refundOrders[refunds[r].created] = r
  BY <1>1 DEF FollowInv, StoredInv
<1>4. Answering(new)
  BY <1>1, <1>3 DEF Answering
<1>5. Handling(new)
  BY <1>1, <1>4 DEF Handling, Creating, Ordering, Deciding, Booking
<1>8. Typed'
  BY <1>1, <1>2 DEF FollowInv, TypeOK, Typed
<1> QED BY <1>1, <1>2, <1>5, <1>8, QuietStepFollows

\* What ReadOrder makes of the handler.
LEMMA ReadOrderIs ==
    ASSUME FollowInv, NEW p \in Workers, ReadOrder(p)
    PROVE  \E new : /\ Moves(p, new) /\ new.pc = "store" /\ new.id = w[p].id
                    /\ new.answer = w[p].answer /\ new.ord = order
                    /\ new.doc \in RefundDoc
                    /\ new.doc.status = ProcessRefund(w[p].answer, w[p].doc.status)
                    /\ new.doc.created = w[p].doc.created
                    /\ new.doc.chargeback = w[p].doc.chargeback
<1>1. PICK s, st : s = w[p] /\ st = ProcessRefund(s.answer, s.doc.status)
  OBVIOUS
<1>2. s \in Worker /\ Handling(s) /\ s.pc = "read"
  BY <1>1, HeldBy DEF ReadOrder
<1>3. s.doc \in RefundDoc /\ s.answer \in {"completed", "declined", "pending", "refused"}
  BY <1>2 DEF Handling, Answering, Worker
<1>4. s.doc.status \in Statuses
  BY <1>3 DEF RefundDoc
<1>5. st \in Statuses
  BY <1>1, <1>3, <1>4 DEF ProcessRefund, Statuses
<1>a. PICK old : old = s.doc
  OBVIOUS
<1>b. PICK doc : doc = [old EXCEPT !.status = st]
  OBVIOUS
<1>6. PICK new : new = [s EXCEPT !.pc = "store", !.ord = order, !.doc = doc]
  OBVIOUS
<1>7. /\ doc \in RefundDoc /\ doc.status = st /\ doc.created = old.created
      /\ doc.chargeback = old.chargeback
  <2>1. old \in RefundDoc
    BY <1>3, <1>a
  <2> QED BY <1>5, <1>b, <2>1, StatusField
<1>8. order \in OrderDoc
  BY DEF FollowInv, TypeOK
<1>9. /\ new \in Worker /\ new.pc = "store" /\ new.id = s.id /\ new.answer = s.answer
      /\ new.ord = order /\ new.doc = doc
  BY <1>2, <1>6, <1>7, <1>8 DEF Worker, PCs
<1>10. w' = [w EXCEPT ![p] = new]
  BY <1>1, <1>a, <1>b, <1>6 DEF ReadOrder
<1>11. Moves(p, new)
  BY <1>9, <1>10 DEF Moves
<1> QED BY <1>1, <1>a, <1>7, <1>9, <1>11

LEMMA ReadOrderFollows ==
    ASSUME FollowInv, NEW p \in Workers, ReadOrder(p)
    PROVE  FollowInv'
<1>1. PICK new : /\ Moves(p, new) /\ new.pc = "store" /\ new.id = w[p].id
                 /\ new.answer = w[p].answer /\ new.ord = order
                 /\ new.doc \in RefundDoc
                 /\ new.doc.status = ProcessRefund(w[p].answer, w[p].doc.status)
                 /\ new.doc.created = w[p].doc.created
                 /\ new.doc.chargeback = w[p].doc.chargeback
  BY ReadOrderIs
<1>2. w[p] \in Worker /\ Handling(w[p]) /\ w[p].pc = "read"
  BY HeldBy DEF ReadOrder
<1>3. Answering(new)
  BY <1>1, <1>2 DEF Handling, Answering
<1>4. Ordering(new)
  BY <1>1, <1>2 DEF FollowInv, TypeOK, StoredInv, Ordering, ProcessRefund
<1>5. Handling(new)
  BY <1>1, <1>3, <1>4 DEF Handling, Creating, Deciding, Booking
<1>6. Typed' /\ UNCHANGED <<gateway, refunds, refundOrders, order>> /\ booked' = booked
  BY DEF ReadOrder, FollowInv, TypeOK, Typed, docs, books, bounds
<1> QED BY <1>1, <1>5, <1>6, QuietStepFollows

\* A refund is written back: the one that names the order made for it, or none.
LEMMA DocStored ==
    ASSUME FollowInv, NEW id \in Refunds, NEW doc \in RefundDoc,
           doc.created # None => refundOrders[doc.created] = id,
           refunds' = [refunds EXCEPT ![id] = doc],
           UNCHANGED <<gateway, refundOrders, order, booked>>
    PROVE  /\ Progress /\ StoredInv' /\ refunds' \in [Refunds -> RefundDoc \cup {None}]
           /\ refunds'[id] = doc /\ \A x \in Refunds : x # id => refunds'[x] = refunds[x]
<1>1. doc # None /\ refunds \in [Refunds -> RefundDoc \cup {None}]
  BY RefundAssumption DEF FollowInv, TypeOK
<1>2. /\ refunds' \in [Refunds -> RefundDoc \cup {None}]
      /\ refunds'[id] = doc /\ \A x \in Refunds : x # id => refunds'[x] = refunds[x]
  BY <1>1
<1>3. Progress
  BY <1>1, <1>2 DEF Progress
<1>4. StoredInv'
  BY <1>1, <1>2 DEF FollowInv, StoredInv, SomePaid, PaidBack
<1> QED BY <1>2, <1>3, <1>4

\* Nobody else's refund is about to be sent while the gateway is not asked.
LEMMA SendersWait ==
    ASSUME FollowInv, gateway' = gateway
    PROVE  \A q \in Workers : w[q].pc = "send" => gateway'[w[q].id] = "none"
BY HeldBy DEF Handling, Creating

LEMMA StoreStatusFollows ==
    ASSUME FollowInv, NEW p \in Workers, StoreStatus(p)
    PROVE  FollowInv'
<1>1. PICK s : s = w[p]
  OBVIOUS
<1>2. s \in Worker /\ Handling(s) /\ s.pc = "store"
  BY <1>1, HeldBy DEF StoreStatus
<1>3. /\ s.id \in Refunds /\ s.doc \in RefundDoc
      /\ s.doc.created # None => refundOrders[s.doc.created] = s.id
      /\ s.answer \in {"completed", "declined", "pending", "refused"}
      /\ s.answer \in {"completed", "declined"} => s.doc.status = s.answer
  BY <1>2 DEF Handling, Answering, Ordering, Worker
<1>4. /\ refunds' = [refunds EXCEPT ![s.id] = s.doc]
      /\ IF s.answer \in {"refused", "pending"} THEN Return(p) ELSE Goto(p, AfterStatus(s.doc))
      /\ UNCHANGED <<order, gateway, refundOrders, booked>>
      /\ UNCHANGED <<facts, manual, views, total, failures, repairs, disowned>>
  BY <1>1 DEF StoreStatus, books, bounds
<1>5. /\ Progress /\ StoredInv' /\ refunds' \in [Refunds -> RefundDoc \cup {None}]
  BY <1>3, <1>4, DocStored
<1>6. Typed'
  BY <1>4, <1>5 DEF FollowInv, TypeOK, Typed
<1>7. \A q \in Workers : w[q].pc = "send" => gateway'[w[q].id] = "none"
  BY <1>4, SendersWait
<1>8. CASE Return(p)
  <2>1. Moves(p, Idle) /\ Handling(Idle) /\ Idle.pc = "idle"
    BY <1>8, IdleIsWorker DEF Return, Moves
  <2>2. Handling(Idle)'
    BY <2>1, <1>5, HandlingStays
  <2> QED BY <1>5, <1>6, <1>7, <2>1, <2>2, StepFollows
<1>9. ASSUME ~Return(p) PROVE FollowInv'
  <2>1. s.answer \in {"completed", "declined"}
    BY <1>3, <1>4, <1>9
  <2>2. PICK pc : pc = AfterStatus(s.doc)
    OBVIOUS
  <2>3. /\ pc \in {"allow", "copy", "link"}
        /\ pc = "allow" => s.doc.status = "declined"
        /\ pc = "copy" => s.doc.status = "completed" /\ s.doc.created = None
        /\ pc = "link" => s.doc.created # None
    BY <1>3, <2>1, <2>2 DEF AfterStatus
  <2>a. pc \in PCs /\ Goto(p, pc)
    BY <1>4, <1>9, <2>2, <2>3 DEF PCs
  <2>4. PICK new : /\ Moves(p, new) /\ new.pc = pc /\ new.id = s.id /\ new.doc = s.doc
                   /\ new.ord = s.ord /\ new.src = s.src /\ new.answer = s.answer
    BY <1>1, <2>a, GotoIs
  <2>5. Answering(new) /\ Ordering(new)
    BY <1>2, <2>3, <2>4 DEF Handling, Answering, Ordering
  <2>6. Deciding(new)
    BY <2>1, <2>3, <2>4 DEF Deciding
  <2>7. Handling(new) /\ new.pc # "send"
    BY <2>3, <2>4, <2>5, <2>6 DEF Handling, Creating, Booking
  <2>8. Handling(new)'
    BY <1>5, <2>7, HandlingStays
  <2> QED BY <1>5, <1>6, <1>7, <2>4, <2>7, <2>8, StepFollows
<1> QED BY <1>8, <1>9

\* What CreateOrderByRefund makes of the handler and of the orders.
LEMMA CreateOrderByRefundIs ==
    ASSUME FollowInv, NEW p \in Workers, CreateOrderByRefund(p)
    PROVE  \E new : \E o \in RefundOrders :
             /\ Moves(p, new) /\ new.pc = "link" /\ new.id = w[p].id
             /\ new.ord = w[p].ord /\ new.answer = w[p].answer
             /\ new.doc \in RefundDoc /\ new.doc.status = w[p].doc.status
             /\ new.doc.created = o /\ new.doc.chargeback = w[p].doc.chargeback
             /\ w[p].pc = "copy" /\ refundOrders[o] = None
             /\ refundOrders' \in [RefundOrders -> Refunds \cup {None}]
             /\ refundOrders'[o] = w[p].id
             /\ \A x \in RefundOrders : x # o => refundOrders'[x] = refundOrders[x]
<1>1. PICK s : s = w[p]
  OBVIOUS
<1>2. s \in Worker /\ Handling(s) /\ s.pc = "copy"
  BY <1>1, HeldBy DEF CreateOrderByRefund
<1>3. s.id \in Refunds /\ s.doc \in RefundDoc
  BY <1>2 DEF Handling, Answering
<1>4. PICK o \in RefundOrders :
        /\ refundOrders[o] = None
        /\ refundOrders' = [refundOrders EXCEPT ![o] = s.id]
        /\ w' = [w EXCEPT ![p].pc = "link", ![p].doc.created = o]
  BY <1>1 DEF CreateOrderByRefund
<1>5. PICK old : old = s.doc
  OBVIOUS
<1>6. PICK doc : doc = [old EXCEPT !.created = o]
  OBVIOUS
<1>7. doc \in RefundDoc /\ doc.status = old.status /\ doc.created = o
      /\ doc.chargeback = old.chargeback
  BY <1>3, <1>5, <1>6, CreatedField
<1>8. PICK new : new = [s EXCEPT !.pc = "link", !.doc = doc]
  OBVIOUS
<1>9. /\ new \in Worker /\ new.pc = "link" /\ new.id = s.id /\ new.doc = doc
      /\ new.ord = s.ord /\ new.answer = s.answer
  BY <1>2, <1>7, <1>8 DEF Worker, PCs
<1>10. w' = [w EXCEPT ![p] = new]
  BY <1>1, <1>4, <1>5, <1>6, <1>8
<1>11. Moves(p, new)
  BY <1>9, <1>10 DEF Moves
<1>12. /\ refundOrders' \in [RefundOrders -> Refunds \cup {None}]
       /\ refundOrders'[o] = s.id
       /\ \A x \in RefundOrders : x # o => refundOrders'[x] = refundOrders[x]
  BY <1>3, <1>4 DEF FollowInv, TypeOK
<1> QED BY <1>1, <1>2, <1>4, <1>5, <1>7, <1>9, <1>11, <1>12

LEMMA CreateOrderByRefundFollows ==
    ASSUME FollowInv, NEW p \in Workers, CreateOrderByRefund(p)
    PROVE  FollowInv'
<1>1. PICK s : s = w[p]
  OBVIOUS
<1>2. s \in Worker /\ Handling(s) /\ s.pc = "copy"
  BY <1>1, HeldBy DEF CreateOrderByRefund
<1>3. /\ s.id \in Refunds /\ s.doc \in RefundDoc /\ s.answer = "completed"
      /\ s.doc.status = "completed" /\ refunds[s.id] # None /\ s.id # None
      /\ s.ord \in OrderDoc /\ gateway[s.id] = "completed"
      /\ s.ord.status # "processed" => SomePaid
  BY <1>2, NoneIsNoOrder DEF Handling, Answering, Ordering, Deciding
<1>a. PICK new : \E o \in RefundOrders :
        /\ Moves(p, new) /\ new.pc = "link" /\ new.id = w[p].id
        /\ new.ord = w[p].ord /\ new.answer = w[p].answer
        /\ new.doc \in RefundDoc /\ new.doc.status = w[p].doc.status
        /\ new.doc.created = o /\ refundOrders[o] = None
        /\ refundOrders' \in [RefundOrders -> Refunds \cup {None}]
        /\ refundOrders'[o] = w[p].id
        /\ \A x \in RefundOrders : x # o => refundOrders'[x] = refundOrders[x]
  BY CreateOrderByRefundIs
<1>4. PICK o \in RefundOrders :
        /\ Moves(p, new) /\ new.pc = "link" /\ new.id = w[p].id
        /\ new.ord = w[p].ord /\ new.answer = w[p].answer
        /\ new.doc \in RefundDoc /\ new.doc.status = w[p].doc.status
        /\ new.doc.created = o /\ refundOrders[o] = None
        /\ refundOrders' \in [RefundOrders -> Refunds \cup {None}]
        /\ refundOrders'[o] = w[p].id
        /\ \A x \in RefundOrders : x # o => refundOrders'[x] = refundOrders[x]
  BY <1>a
<1>5. /\ UNCHANGED <<order, gateway, refunds, booked>>
      /\ UNCHANGED <<facts, manual, views, total, failures, repairs, disowned>>
  BY DEF CreateOrderByRefund, books, bounds
<1>6. Progress
  BY <1>4, <1>5 DEF Progress
<1>7. Handling(new)'
  <2>1. Answering(new)'
    BY <1>1, <1>3, <1>4, <1>5 DEF Answering
  <2>2. SomePaid => SomePaid'
    BY <1>6, SomePaidStays
  <2>3. Ordering(new)'
    BY <1>1, <1>3, <1>4, <2>2 DEF Ordering
  <2>4. Deciding(new)'
    BY <1>1, <1>3, <1>4, NoneIsNoOrder DEF Deciding
  <2> QED BY <1>4, <2>1, <2>3, <2>4 DEF Handling, Creating, Booking
<1>8. Typed'
  BY <1>4, <1>5 DEF FollowInv, TypeOK, Typed
<1>9. StoredInv'
  <2>1. \A r \in Refunds : refunds[r] # None /\ refunds[r].created # None =>
          refundOrders'[refunds[r].created] = r
    <3> SUFFICES ASSUME NEW r \in Refunds, refunds[r] # None, refunds[r].created # None
                 PROVE  refundOrders'[refunds[r].created] = r
      OBVIOUS
    <3>1. refunds[r] \in RefundDoc /\ refundOrders[refunds[r].created] = r
      BY DEF FollowInv, StoredInv, TypeOK
    <3>2. refunds[r].created \in RefundOrders
      BY <3>1 DEF RefundDoc
    <3> QED BY <3>1, <3>2, <1>4, NoneIsNoOrder
  <2>2. \A x \in RefundOrders : PaidBack(x) => PaidBack(x)'
    BY <1>6, PaidBackStays
  <2>3. SomePaid => SomePaid'
    BY <1>6, SomePaidStays
  <2> QED BY <1>5, <2>1, <2>2, <2>3 DEF FollowInv, StoredInv
<1>10. \A q \in Workers : w[q].pc = "send" => gateway'[w[q].id] = "none"
  BY <1>5, SendersWait
<1> QED BY <1>4, <1>6, <1>7, <1>8, <1>9, <1>10, StepFollows

LEMMA LinkOrderFollows ==
    ASSUME FollowInv, NEW p \in Workers, LinkOrder(p)
    PROVE  FollowInv'
<1>1. PICK s : s = w[p]
  OBVIOUS
<1>2. s \in Worker /\ Handling(s) /\ s.pc = "link"
  BY <1>1, HeldBy DEF LinkOrder
<1>3. /\ s.id \in Refunds /\ s.doc \in RefundDoc
      /\ s.doc.created # None => refundOrders[s.doc.created] = s.id
      /\ s.doc.status = "completed" => s.doc.created # None
      /\ s.answer \in {"completed", "declined"}
  BY <1>2 DEF Handling, Answering, Deciding
<1>4. /\ refunds' = [refunds EXCEPT ![s.id] = s.doc]
      /\ IF s.doc.status = "completed" THEN Goto(p, "amount") ELSE Return(p)
      /\ UNCHANGED <<order, gateway, refundOrders, booked>>
      /\ UNCHANGED <<facts, manual, views, total, failures, repairs, disowned>>
  BY <1>1 DEF LinkOrder, books, bounds
<1>5. /\ Progress /\ StoredInv' /\ refunds' \in [Refunds -> RefundDoc \cup {None}]
  BY <1>3, <1>4, DocStored
<1>6. Typed'
  BY <1>4, <1>5 DEF FollowInv, TypeOK, Typed
<1>7. \A q \in Workers : w[q].pc = "send" => gateway'[w[q].id] = "none"
  BY <1>4, SendersWait
<1>8. CASE s.doc.status # "completed"
  <2>1. Moves(p, Idle) /\ Handling(Idle) /\ Idle.pc = "idle"
    BY <1>4, <1>8, IdleIsWorker DEF Return, Moves
  <2>2. Handling(Idle)'
    BY <2>1, <1>5, HandlingStays
  <2> QED BY <1>5, <1>6, <1>7, <2>1, <2>2, StepFollows
<1>9. CASE s.doc.status = "completed"
  <2>1. "amount" \in PCs
    BY DEF PCs
  <2>2. PICK new : /\ Moves(p, new) /\ new.pc = "amount" /\ new.id = s.id /\ new.doc = s.doc
                   /\ new.ord = s.ord /\ new.src = s.src /\ new.answer = s.answer
    BY <1>1, <1>4, <1>9, <2>1, GotoIs
  <2>3. Answering(new) /\ Ordering(new)
    BY <1>2, <2>2 DEF Handling, Answering, Ordering
  <2>4. Deciding(new)
    BY <1>3, <1>9, <2>2 DEF Deciding
  <2>5. Handling(new) /\ new.pc # "send"
    BY <2>2, <2>3, <2>4 DEF Handling, Creating, Booking
  <2>6. Handling(new)'
    BY <1>5, <2>5, HandlingStays
  <2> QED BY <1>5, <1>6, <1>7, <2>2, <2>5, <2>6, StepFollows
<1> QED BY <1>8, <1>9

\* A row of the view made of the entries.
LEMMA RowIsView ==
    ASSUME FollowInv, NEW s \in Sources, NEW st \in {"processed", "refunded", "chargeback"}
    PROVE  [status |-> st, pay |-> Pay(s), back |-> Back(s)] \in ViewDoc
<1>1. facts \in Facts
  BY RefundAssumption DEF FollowInv, TypeOK
<1>2. PICK f : f = facts
  OBVIOUS
<1>3. PICK p, b : /\ p = PaymentView(PaymentRevenue(f), PaymentFees(f))
                  /\ b = RefundView(RefundCosts(f, PaymentRevenue(f)),
                                    RefundTaxes(f, PaymentRevenue(f)))
  OBVIOUS
<1>4. p \in Amounts /\ b \in Amounts /\ EmptyView \in Amounts
  BY <1>1, <1>2, <1>3, PaymentViewIsInts, RefundViewIsInts DEF EmptyView, Amounts
<1>5. Pay(s) \in {p, EmptyView} /\ Back(s) \in {b, EmptyView}
  BY <1>2, <1>3 DEF Pay, Back
<1>6. Pay(s) \in Amounts /\ Back(s) \in Amounts
  BY <1>4, <1>5
<1> QED BY <1>6 DEF ViewDoc, Amounts

LEMMA AllowRefundFollows ==
    ASSUME FollowInv, NEW p \in Workers, AllowRefund(p)
    PROVE  FollowInv'
<1>1. PICK s : s = w[p]
  OBVIOUS
<1>2. s \in Worker /\ Handling(s) /\ s.pc = "allow"
  BY <1>1, HeldBy DEF AllowRefund
<1>3. s.ord \in OrderDoc /\ (s.ord.status # "processed" => SomePaid)
      /\ s.doc.status = "declined" /\ s.answer \in {"completed", "declined"}
  BY <1>2 DEF Handling, Ordering, Deciding
<1>4. /\ UNCHANGED <<gateway, refunds, refundOrders, booked>>
      /\ UNCHANGED <<facts, manual, views, total, failures, repairs, disowned>>
      /\ order' = [s.ord EXCEPT !.allowed = TRUE]
      /\ Goto(p, "allowView")
  BY <1>1 DEF AllowRefund, books, bounds
<1>5. order' \in OrderDoc /\ order'.status = s.ord.status
  <2>1. PICK ord : ord = s.ord
    OBVIOUS
  <2> QED BY <2>1, <1>3, <1>4 DEF OrderDoc
<1>6. Typed'
  BY <1>4, <1>5 DEF FollowInv, TypeOK, Typed
<1>7. Progress
  BY <1>4 DEF Progress
<1>8. StoredInv'
  BY <1>3, <1>4, <1>5 DEF FollowInv, StoredInv, SomePaid, PaidBack
<1>9. "allowView" \in PCs
  BY DEF PCs
<1>10. PICK new : /\ Moves(p, new) /\ new.pc = "allowView" /\ new.id = s.id /\ new.doc = s.doc
                  /\ new.ord = s.ord /\ new.src = s.src /\ new.answer = s.answer
  BY <1>1, <1>4, <1>9, GotoIs
<1>11. Answering(new) /\ Ordering(new)
  BY <1>2, <1>10 DEF Handling, Answering, Ordering
<1>12. Deciding(new)
  BY <1>3, <1>10 DEF Deciding
<1>13. Handling(new) /\ new.pc # "send"
  BY <1>10, <1>11, <1>12 DEF Handling, Creating, Booking
<1>14. Handling(new)'
  BY <1>7, <1>13, HandlingStays
<1>15. \A q \in Workers : w[q].pc = "send" => gateway'[w[q].id] = "none"
  BY <1>4, SendersWait
<1> QED BY <1>6, <1>7, <1>8, <1>10, <1>13, <1>14, <1>15, StepFollows

\* What CheckAmount makes of the handler.
LEMMA CheckAmountIs ==
    ASSUME FollowInv, NEW p \in Workers, CheckAmount(p)
    PROVE  \E new :
             /\ Moves(p, new) /\ new.id = w[p].id /\ new.doc = w[p].doc
             /\ new.answer = w[p].answer
             /\ \/ /\ new.pc = "mark" /\ GetAmountByOrderId = 1 /\ UNCHANGED failures
                   /\ new.ord = [status |-> IF w[p].doc.chargeback THEN "chargeback"
                                            ELSE "refunded",
                                 allowed |-> FALSE]
                \/ /\ new.pc = "notify" /\ new.src = w[p].doc.created
                   /\ GetAmountByOrderId # 1 \/ failures' = failures + 1
             /\ failures' \in 0 .. MaxFailures
<1>1. PICK s : s = w[p]
  OBVIOUS
<1>2. s \in Worker /\ Handling(s) /\ s.pc = "amount"
  BY <1>1, HeldBy DEF CheckAmount
<1>3. s.doc \in RefundDoc /\ s.doc.created # None
  BY <1>2 DEF Handling, Answering, Deciding
<1>4. PICK o : o = s.doc.created
  OBVIOUS
<1>5. o \in Sources
  BY <1>3, <1>4 DEF RefundDoc, Sources
<1>6. PICK ord : ord = [status |-> IF s.doc.chargeback THEN "chargeback" ELSE "refunded",
                        allowed |-> FALSE]
  OBVIOUS
<1>7. ord \in OrderDoc
  BY <1>6 DEF OrderDoc
<1>8. PICK marked : marked = [s EXCEPT !.pc = "mark", !.ord = ord]
  OBVIOUS
<1>9. PICK passed : passed = [s EXCEPT !.pc = "notify", !.src = o]
  OBVIOUS
<1>10. /\ marked \in Worker /\ marked.pc = "mark" /\ marked.id = s.id /\ marked.doc = s.doc
       /\ marked.answer = s.answer /\ marked.ord = ord
  BY <1>2, <1>7, <1>8 DEF Worker, PCs
<1>11. /\ passed \in Worker /\ passed.pc = "notify" /\ passed.id = s.id /\ passed.doc = s.doc
       /\ passed.answer = s.answer /\ passed.src = o
  BY <1>2, <1>5, <1>9 DEF Worker, PCs
<1>12. \/ /\ w' = IF GetAmountByOrderId = 1 THEN [w EXCEPT ![p] = marked]
                  ELSE [w EXCEPT ![p] = passed]
          /\ UNCHANGED failures
       \/ /\ failures < MaxFailures /\ failures' = failures + 1
          /\ w' = [w EXCEPT ![p] = passed]
  BY <1>1, <1>4, <1>6, <1>8, <1>9 DEF CheckAmount
<1>13. failures' \in 0 .. MaxFailures
  BY <1>12, BoundsTyped
<1>14. CASE w' = [w EXCEPT ![p] = marked] /\ GetAmountByOrderId = 1 /\ UNCHANGED failures
  <2>1. Moves(p, marked)
    BY <1>10, <1>14 DEF Moves
  <2> QED BY <1>1, <1>6, <1>10, <1>13, <1>14, <2>1
<1>15. CASE w' = [w EXCEPT ![p] = passed] /\ (GetAmountByOrderId # 1 \/ failures' = failures + 1)
  <2>1. Moves(p, passed)
    BY <1>11, <1>15 DEF Moves
  <2> QED BY <1>1, <1>4, <1>11, <1>13, <1>15, <2>1
<1> QED BY <1>12, <1>14, <1>15

LEMMA CheckAmountFollows ==
    ASSUME FollowInv, NEW p \in Workers, CheckAmount(p)
    PROVE  FollowInv'
<1>1. PICK new :
        /\ Moves(p, new) /\ new.id = w[p].id /\ new.doc = w[p].doc
        /\ new.answer = w[p].answer
        /\ \/ /\ new.pc = "mark" /\ GetAmountByOrderId = 1 /\ UNCHANGED failures
              /\ new.ord = [status |-> IF w[p].doc.chargeback THEN "chargeback" ELSE "refunded",
                            allowed |-> FALSE]
           \/ /\ new.pc = "notify" /\ new.src = w[p].doc.created
              /\ GetAmountByOrderId # 1 \/ failures' = failures + 1
        /\ failures' \in 0 .. MaxFailures
  BY CheckAmountIs
<1>2. PICK s : s = w[p]
  OBVIOUS
<1>3. s \in Worker /\ Handling(s) /\ s.pc = "amount"
  BY <1>2, HeldBy DEF CheckAmount
<1>4. /\ s.id \in Refunds /\ s.doc \in RefundDoc /\ s.doc.created # None
      /\ refundOrders[s.doc.created] = s.id /\ gateway[s.id] = "completed"
      /\ s.answer = "completed" /\ s.doc.status = "completed"
  BY <1>3 DEF Handling, Answering, Ordering, Deciding
<1>5. UNCHANGED <<gateway, refunds, refundOrders, order>> /\ booked' = booked
  BY DEF CheckAmount, docs, books
<1>6. Typed'
  BY <1>1 DEF CheckAmount, FollowInv, TypeOK, Typed, docs, books
<1>7. CASE new.pc = "mark"
  <2>1. Answering(new)
    BY <1>1, <1>2, <1>3, <1>7 DEF Handling, Answering
  <2>2. new.ord \in OrderDoc
    <3>1. PICK st : st = IF w[p].doc.chargeback THEN "chargeback" ELSE "refunded"
      OBVIOUS
    <3>2. new.ord = [status |-> st, allowed |-> FALSE] /\ st \in {"chargeback", "refunded"}
      BY <1>1, <1>7, <3>1
    <3> QED BY <3>2 DEF OrderDoc
  <2>3. Ordering(new)
    BY <1>1, <1>2, <1>4, <1>7, <2>2 DEF Ordering, SomePaid
  <2>4. Deciding(new)
    BY <1>1, <1>2, <1>4, <1>7 DEF Deciding
  <2>5. Handling(new) /\ new.pc # "send"
    BY <1>7, <2>1, <2>3, <2>4 DEF Handling, Creating, Booking
  <2> QED BY <1>1, <1>5, <1>6, <2>5, QuietStepFollows
<1>8. CASE new.pc = "notify"
  <2>1. s.doc.created \in RefundOrders
    BY <1>4 DEF RefundDoc
  <2>2. PaidBack(new.src)
    BY <1>1, <1>2, <1>4, <1>8, <2>1 DEF PaidBack
  <2>3. Handling(new) /\ new.pc # "send"
    BY <1>8, <2>2 DEF Handling, Creating, Answering, Ordering, Deciding, Booking
  <2> QED BY <1>1, <1>5, <1>6, <2>3, QuietStepFollows
<1> QED BY <1>1, <1>7, <1>8

\* What MarkOrder makes of the handler.
LEMMA MarkOrderIs ==
    ASSUME FollowInv, NEW p \in Workers, MarkOrder(p)
    PROVE  \E new : /\ Moves(p, new) /\ new.id = w[p].id /\ new.doc = w[p].doc
                    /\ new.pc = "notify" /\ new.src = w[p].doc.created
                    /\ PaidBack(new.src) /\ refundOrders[new.src] = w[p].id
<1>1. PICK s : s = w[p]
  OBVIOUS
<1>2. s \in Worker /\ Handling(s) /\ s.pc = "mark"
  BY <1>1, HeldBy DEF MarkOrder
<1>3. /\ s.id \in Refunds /\ s.doc \in RefundDoc /\ s.doc.created # None
      /\ refundOrders[s.doc.created] = s.id /\ gateway[s.id] = "completed"
  BY <1>2 DEF Handling, Answering, Ordering, Deciding
<1>4. PICK o : o = s.doc.created
  OBVIOUS
<1>5. o \in RefundOrders /\ o \in Sources
  BY <1>3, <1>4 DEF RefundDoc, Sources
<1>6. PICK new : new = [s EXCEPT !.pc = "notify", !.src = o]
  OBVIOUS
<1>7. /\ new \in Worker /\ new.pc = "notify" /\ new.id = s.id /\ new.doc = s.doc /\ new.src = o
  BY <1>2, <1>5, <1>6 DEF Worker, PCs
<1>8. Moves(p, new)
  BY <1>1, <1>4, <1>6, <1>7 DEF Moves, MarkOrder
<1>9. PaidBack(new.src) /\ refundOrders[new.src] = s.id
  BY <1>3, <1>4, <1>5, <1>7 DEF PaidBack
<1> QED BY <1>1, <1>4, <1>7, <1>8, <1>9

LEMMA MarkOrderFollows ==
    ASSUME FollowInv, NEW p \in Workers, MarkOrder(p)
    PROVE  FollowInv'
<1>1. PICK new : /\ Moves(p, new) /\ new.id = w[p].id /\ new.doc = w[p].doc
                 /\ new.pc = "notify" /\ new.src = w[p].doc.created
                 /\ PaidBack(new.src) /\ refundOrders[new.src] = w[p].id
  BY MarkOrderIs
<1>2. PICK s : s = w[p]
  OBVIOUS
<1>3. s \in Worker /\ Handling(s) /\ s.pc = "mark"
  BY <1>2, HeldBy DEF MarkOrder
<1>4. s.ord \in OrderDoc /\ (s.ord.status # "processed" => SomePaid)
  BY <1>3 DEF Handling, Ordering
<1>5. /\ UNCHANGED <<gateway, refunds, refundOrders, booked>>
      /\ UNCHANGED <<facts, manual, views, total, repairs, disowned>>
      /\ order' = s.ord \/ order' = order
      /\ failures' \in 0 .. MaxFailures
  BY <1>2, BoundsTyped DEF MarkOrder, books
<1>6. Typed'
  BY <1>4, <1>5 DEF FollowInv, TypeOK, Typed
<1>7. Progress
  BY <1>5 DEF Progress
<1>8. StoredInv'
  BY <1>4, <1>5 DEF FollowInv, StoredInv, SomePaid, PaidBack
<1>9. Handling(new)
  BY <1>1 DEF Handling, Creating, Answering, Ordering, Deciding, Booking
<1>10. Handling(new)'
  BY <1>1, <1>7, <1>9, HandlingStays
<1>11. \A q \in Workers : w[q].pc = "send" => gateway'[w[q].id] = "none"
  BY <1>5, SendersWait
<1> QED BY <1>1, <1>6, <1>7, <1>8, <1>10, <1>11, StepFollows

\* Views of entries have amounts.
LEMMA StatusIsStatus ==
    ASSUME FollowInv, NEW s \in Sources
    PROVE  StatusOf(s) \in {"processed", "refunded", "chargeback"}
BY DEF StatusOf, FollowInv, TypeOK, OrderDoc

LEMMA ViewsTyped ==
    ASSUME FollowInv, NEW ids, UpdateOrderView(ids)
    PROVE  views' \in [Sources -> ViewDoc \cup {None}]
<1> SUFFICES ASSUME NEW s \in Sources
             PROVE  [status |-> StatusOf(s), pay |-> Pay(s), back |-> Back(s)] \in ViewDoc
  BY DEF UpdateOrderView, FollowInv, TypeOK
<1> QED BY RowIsView, StatusIsStatus

LEMMA ProcessRefundEventFollows ==
    ASSUME FollowInv, NEW p \in Workers, ProcessRefundEvent(p)
    PROVE  FollowInv'
<1>1. Typed'
  BY DEF ProcessRefundEvent, FollowInv, TypeOK, Typed, docs, books, bounds
<1>2. UNCHANGED <<gateway, refunds, refundOrders, order>> /\ booked' = booked
  BY DEF ProcessRefundEvent, docs, books
<1>3. CASE Return(p)
  BY <1>1, <1>2, <1>3, ReturnFollows
<1>4. CASE Goto(p, "book")
  <2>1. "book" \in PCs
    BY DEF PCs
  <2>2. PICK new : /\ Moves(p, new) /\ new.pc = "book" /\ new.src = w[p].src
    BY <1>4, <2>1, GotoIs
  <2>3. PaidBack(w[p].src)
    BY HeldBy DEF ProcessRefundEvent, Handling, Booking
  <2>4. Handling(new)
    BY <2>2, <2>3 DEF Handling, Creating, Answering, Ordering, Deciding, Booking
  <2> QED BY <1>1, <1>2, <2>2, <2>4, QuietStepFollows
<1> QED BY <1>3, <1>4 DEF ProcessRefundEvent

LEMMA ProcessPaymentEventFollows ==
    ASSUME FollowInv, NEW p \in Workers, ProcessPaymentEvent(p)
    PROVE  FollowInv'
<1>1. Typed'
  BY DEF ProcessPaymentEvent, FollowInv, TypeOK, Typed, docs, books, bounds
<1>2. UNCHANGED <<gateway, refunds, refundOrders, order>> /\ booked' = booked
  BY DEF ProcessPaymentEvent, docs, books
<1>3. CASE Return(p)
  BY <1>1, <1>2, <1>3, ReturnFollows
<1>4. CASE Goto(p, "book")
  <2>1. "book" \in PCs
    BY DEF PCs
  <2>2. PICK new : /\ Moves(p, new) /\ new.pc = "book" /\ new.src = w[p].src
    BY <1>4, <2>1, GotoIs
  <2>3. w[p].src = Order
    BY HeldBy DEF ProcessPaymentEvent, Handling, Booking
  <2>4. Handling(new)
    BY <2>2, <2>3 DEF Handling, Creating, Answering, Ordering, Deciding, Booking
  <2> QED BY <1>1, <1>2, <2>2, <2>4, QuietStepFollows
<1> QED BY <1>3, <1>4 DEF ProcessPaymentEvent

LEMMA SaveEntriesFollows ==
    ASSUME FollowInv, NEW p \in Workers, SaveEntries(p)
    PROVE  FollowInv'
<1>1. PICK s : s = w[p]
  OBVIOUS
<1>2. s \in Worker /\ Handling(s) /\ s.pc = "book"
  BY <1>1, HeldBy DEF SaveEntries
<1>3. s.src = Order \/ PaidBack(s.src)
  BY <1>2 DEF Handling, Booking
<1>4. booked' = [booked EXCEPT ![s.src] = @ + 1] /\ booked \in [Sources -> Nat]
  BY <1>1 DEF SaveEntries, MultipleInsert, FollowInv, TypeOK
<1>5. /\ booked' \in [Sources -> Nat]
      /\ \A x \in Sources : x # s.src => booked'[x] = booked[x]
  <2>1. s.src \in Sources
    BY <1>3 DEF PaidBack, Sources
  <2>2. booked[s.src] + 1 \in Nat
    BY <1>4, <2>1
  <2> QED BY <1>4, <2>1, <2>2
<1>6. UNCHANGED <<gateway, refunds, refundOrders, order>>
  BY DEF SaveEntries, docs
<1>7. Typed'
  BY <1>5 DEF SaveEntries, FollowInv, TypeOK, Typed, docs, bounds
<1>8. \A o \in RefundOrders : booked'[o] > 0 => booked[o] > 0 \/ PaidBack(o)
  BY <1>3, <1>5, NoneIsNoOrder DEF Sources
<1>9. "view" \in PCs
  BY DEF PCs
<1>10. PICK new : Moves(p, new) /\ new.pc = "view" /\ new.src = s.src
  BY <1>1, <1>9, GotoIs DEF SaveEntries
<1>11. Handling(new)
  BY <1>3, <1>10 DEF Handling, Creating, Answering, Ordering, Deciding, Booking
<1> QED BY <1>6, <1>7, <1>8, <1>10, <1>11, QuietStepFollows

LEMMA AllowRefundViewFollows ==
    ASSUME FollowInv, NEW p \in Workers, AllowRefundView(p)
    PROVE  FollowInv'
<1>1. PICK s : s = w[p]
  OBVIOUS
<1>2. Handling(s) /\ s.pc = "allowView"
  BY <1>1, HeldBy DEF AllowRefundView
<1>3. UNCHANGED <<gateway, refunds, refundOrders, order>> /\ booked' = booked
  BY DEF AllowRefundView, docs
<1>4. views' \in [Sources -> ViewDoc \cup {None}]
  BY ViewsTyped DEF AllowRefundView
<1>5. Typed'
  BY <1>4 DEF AllowRefundView, FollowInv, TypeOK, Typed, docs, bounds
<1>6. Goto(p, "link") /\ "link" \in PCs
  BY DEF AllowRefundView, PCs
<1>7. PICK new : /\ Moves(p, new) /\ new.pc = "link" /\ new.id = s.id /\ new.doc = s.doc
                 /\ new.ord = s.ord /\ new.answer = s.answer
  BY <1>1, <1>6, GotoIs
<1>8. Answering(new) /\ Ordering(new)
  BY <1>2, <1>7 DEF Handling, Answering, Ordering
<1>9. Deciding(new)
  BY <1>2, <1>7 DEF Handling, Deciding
<1>10. Handling(new) /\ new.pc # "send"
  BY <1>7, <1>8, <1>9 DEF Handling, Creating, Booking
<1> QED BY <1>3, <1>5, <1>7, <1>10, QuietStepFollows

LEMMA SaveViewsFollows ==
    ASSUME FollowInv, NEW p \in Workers, SaveViews(p)
    PROVE  FollowInv'
<1>1. UNCHANGED <<gateway, refunds, refundOrders, order>> /\ booked' = booked
  BY DEF SaveViews, docs
<1>2. views' \in [Sources -> ViewDoc \cup {None}]
  BY ViewsTyped DEF SaveViews
<1>3. Typed'
  BY <1>2 DEF SaveViews, FollowInv, TypeOK, Typed, docs, bounds
<1>4. CASE w[p].src = Order
  <2>1. Return(p)
    BY <1>4 DEF SaveViews
  <2> QED BY <1>1, <1>3, <2>1, ReturnFollows
<1>5. CASE w[p].src # Order
  <2>1. "subscription" \in PCs
    BY DEF PCs
  <2>2. PICK new : Moves(p, new) /\ new.pc = "subscription" /\ new.src = w[p].src
    BY <1>5, <2>1, GotoIs DEF SaveViews
  <2>3. PaidBack(w[p].src)
    BY <1>5, HeldBy DEF SaveViews, Handling, Booking
  <2>4. Handling(new)
    BY <2>2, <2>3 DEF Handling, Creating, Answering, Ordering, Deciding, Booking
  <2> QED BY <1>1, <1>3, <2>2, <2>4, QuietStepFollows
<1> QED BY <1>4, <1>5

LEMMA GetSubscriptionIs ==
    ASSUME FollowInv, NEW p \in Workers, GetSubscription(p)
    PROVE  \E new : /\ Moves(p, new) /\ new.pc = "debit" /\ new.src = w[p].src
                    /\ new.amount = total /\ Handling(new)
<1>1. PICK s : s = w[p]
  OBVIOUS
<1>2. s \in Worker /\ Handling(s) /\ s.pc = "subscription"
  BY <1>1, HeldBy DEF GetSubscription
<1>3. PICK new : new = [s EXCEPT !.pc = "debit", !.amount = total]
  OBVIOUS
<1>4. total \in Int
  BY DEF FollowInv, TypeOK
<1>5. new \in Worker /\ new.pc = "debit" /\ new.src = s.src /\ new.amount = total
  BY <1>2, <1>3, <1>4 DEF Worker, PCs
<1>6. Moves(p, new)
  BY <1>1, <1>3, <1>5 DEF Moves, GetSubscription
<1>7. Handling(new)
  BY <1>2, <1>5 DEF Handling, Creating, Answering, Ordering, Deciding, Booking
<1> QED BY <1>1, <1>5, <1>6, <1>7

LEMMA SubscriptionFollows ==
    ASSUME FollowInv, NEW p \in Workers, GetSubscription(p) \/ UpdateSubscription(p)
    PROVE  FollowInv'
<1>1. CASE GetSubscription(p)
  <2>1. Typed' /\ UNCHANGED <<gateway, refunds, refundOrders, order>> /\ booked' = booked
    BY <1>1 DEF GetSubscription, FollowInv, TypeOK, Typed, docs, books, bounds
  <2> QED BY <1>1, <2>1, GetSubscriptionIs, QuietStepFollows
<1>2. CASE UpdateSubscription(p)
  <2>1. PICK s : s = w[p]
    OBVIOUS
  <2>2. s.amount \in Int
    BY <2>1, HeldBy DEF Worker
  <2>3. total' \in Int
    BY <1>2, <2>1, <2>2 DEF UpdateSubscription
  <2>4. Typed' /\ UNCHANGED <<gateway, refunds, refundOrders, order>> /\ booked' = booked
    BY <1>2, <2>3 DEF UpdateSubscription, FollowInv, TypeOK, Typed, docs, books, bounds
  <2> QED BY <1>2, <2>4, ReturnFollows DEF UpdateSubscription
<1> QED BY <1>1, <1>2

-----------------------------------------------------------------------------
(* Repairs, failures, and the whole.                                       *)

LEMMA RepairsFollow ==
    ASSUME FollowInv,
           (\E s \in Sources : CreateAccountingEntry(s)) \/ RebuildOrderView
    PROVE  FollowInv'
<1>1. UNCHANGED <<gateway, refunds, refundOrders, order, w>> /\ booked' = booked
  BY DEF CreateAccountingEntry, RebuildOrderView, docs
<1>2. repairs' \in 0 .. MaxRepairs
  BY BoundsTyped DEF CreateAccountingEntry, RebuildOrderView
<1>3. CASE \E s \in Sources : CreateAccountingEntry(s)
  <2>1. PICK s \in Sources : CreateAccountingEntry(s)
    BY <1>3
  <2>2. manual' = [manual EXCEPT ![s] = @ + 1] /\ manual \in [Sources -> Nat]
    BY <2>1 DEF CreateAccountingEntry, FollowInv, TypeOK
  <2>3. manual[s] + 1 \in Nat
    BY <2>2
  <2>4. manual' \in [Sources -> Nat]
    BY <2>2, <2>3
  <2>5. TypeOK'
    BY <1>1, <1>2, <2>1, <2>4 DEF CreateAccountingEntry, FollowInv, TypeOK
  <2> QED BY <1>1, <2>5 DEF FollowInv, StoredInv, SendersDiffer, SomePaid, PaidBack, Handling,
          Creating, Answering, Ordering, Deciding, Booking
<1>4. CASE RebuildOrderView
  <2>1. views' \in [Sources -> ViewDoc \cup {None}]
    BY <1>4, ViewsTyped DEF RebuildOrderView
  <2>2. TypeOK'
    BY <1>1, <1>2, <1>4, <2>1 DEF RebuildOrderView, FollowInv, TypeOK
  <2> QED BY <1>1, <2>2 DEF FollowInv, StoredInv, SendersDiffer, SomePaid, PaidBack, Handling,
          Creating, Answering, Ordering, Deciding, Booking
<1> QED BY <1>3, <1>4

\* What RebuildAccountingEntries makes of the handler and of the entries.
LEMMA RebuildIs ==
    ASSUME FollowInv, NEW p \in Workers, NEW s \in Sources, NEW force \in BOOLEAN,
           RebuildAccountingEntries(p, s, force)
    PROVE  /\ booked' \in [Sources -> Nat] /\ manual' \in [Sources -> Nat]
           /\ \A x \in Sources : booked'[x] > 0 => booked'[x] = booked[x]
           /\ \A x \in Sources : s = Order /\ x # Order => booked'[x] = booked[x]
           /\ \/ w' = w
              \/ \E new : Moves(p, new) /\ new.pc = "payment" /\ Handling(new)
<1>1. /\ booked \in [Sources -> Nat] /\ manual \in [Sources -> Nat]
      /\ IF force THEN DeleteBySource(s) ELSE UNCHANGED <<booked, manual>>
  BY DEF RebuildAccountingEntries, FollowInv, TypeOK
<1>2. /\ booked' \in [Sources -> Nat] /\ manual' \in [Sources -> Nat]
      /\ \A x \in Sources : booked'[x] = booked[x] \/ (x = s /\ booked'[x] = 0)
  <2>1. CASE force
    <3>1. booked' = [booked EXCEPT ![s] = 0] /\ manual' = [manual EXCEPT ![s] = 0]
      BY <1>1, <2>1 DEF DeleteBySource
    <3> QED BY <1>1, <3>1
  <2>2. CASE ~force
    BY <1>1, <2>2
  <2> QED BY <2>1, <2>2
<1>3. CASE s # Order
  BY <1>2, <1>3 DEF RebuildAccountingEntries
<1>4. CASE s = Order
  <2>1. PICK old : old = w[p]
    OBVIOUS
  <2>2. old \in Worker
    BY <2>1, HeldBy
  <2>3. PICK new : new = [old EXCEPT !.pc = "payment", !.src = s]
    OBVIOUS
  <2>4. new \in Worker /\ new.pc = "payment" /\ new.src = s
    BY <2>2, <2>3 DEF Worker, PCs
  <2>5. Moves(p, new)
    BY <1>4, <2>1, <2>3, <2>4 DEF Moves, RebuildAccountingEntries
  <2>6. Handling(new)
    BY <1>4, <2>4 DEF Handling, Creating, Answering, Ordering, Deciding, Booking
  <2> QED BY <1>2, <1>4, <2>4, <2>5, <2>6
<1> QED BY <1>3, <1>4

LEMMA RebuildFollows ==
    ASSUME FollowInv, NEW p \in Workers, NEW s \in Sources, NEW force \in BOOLEAN,
           RebuildAccountingEntries(p, s, force)
    PROVE  FollowInv'
<1>1. /\ booked' \in [Sources -> Nat] /\ manual' \in [Sources -> Nat]
      /\ \A x \in Sources : booked'[x] > 0 => booked'[x] = booked[x]
      /\ \/ w' = w
         \/ \E new : Moves(p, new) /\ new.pc = "payment" /\ Handling(new)
  BY RebuildIs
<1>2. UNCHANGED <<gateway, refunds, refundOrders, order>>
  BY DEF RebuildAccountingEntries, docs
<1>3. repairs' \in 0 .. MaxRepairs
  BY BoundsTyped DEF RebuildAccountingEntries
<1>4. Typed'
  BY <1>1, <1>3 DEF RebuildAccountingEntries, FollowInv, TypeOK, Typed, docs
<1>5. \A o \in RefundOrders : booked'[o] > 0 => booked[o] > 0
  BY <1>1 DEF Sources
<1>6. CASE w' = w
  <2>1. TypeOK'
    BY <1>4, <1>6 DEF FollowInv, TypeOK, Typed
  <2>2. StoredInv'
    BY <1>2, <1>5 DEF FollowInv, StoredInv, SomePaid, PaidBack
  <2> QED BY <1>2, <1>6, <2>1, <2>2 DEF FollowInv, SendersDiffer, SomePaid, PaidBack, Handling,
          Creating, Answering, Ordering, Deciding, Booking
<1>7. CASE \E new : Moves(p, new) /\ new.pc = "payment" /\ Handling(new)
  BY <1>2, <1>4, <1>5, <1>7, QuietStepFollows
<1> QED BY <1>1, <1>6, <1>7

LEMMA FailFollows ==
    ASSUME FollowInv, NEW p \in Workers, Fail(p)
    PROVE  FollowInv'
<1>1. failures' \in 0 .. MaxFailures
  BY BoundsTyped DEF Fail
<1>2. Typed'
  BY <1>1 DEF Fail, FollowInv, TypeOK, Typed, docs, books
<1> QED BY <1>2, ReturnFollows DEF Fail, docs, books

LEMMA StepKeepsFollow ==
    ASSUME FollowInv, NEW p \in Workers, Step(p)
    PROVE  FollowInv'
BY ProcessRefundsByOrderFollows, ProcessCreateRefundFollows, CardPayCreateRefundFollows,
   StoreAnswerFollows, ReadOrderFollows, StoreStatusFollows, CreateOrderByRefundFollows,
   AllowRefundFollows, AllowRefundViewFollows, LinkOrderFollows, CheckAmountFollows, MarkOrderFollows,
   ProcessRefundEventFollows, SaveEntriesFollows, SaveViewsFollows, SubscriptionFollows,
   ProcessPaymentEventFollows, Zenon DEF Step

LEMMA NextKeepsFollow ==
    ASSUME FollowInv, [Next]_vars
    PROVE  FollowInv'
<1>1. ASSUME NEW p \in Workers, Step(p) \/ Fail(p) PROVE FollowInv'
  BY <1>1, StepKeepsFollow, FailFollows
<1>2. ASSUME NEW p \in Workers, NEW c \in BOOLEAN, CreateRefund(p, c) PROVE FollowInv'
  BY <1>2, CreateRefundFollows
<1>3. ASSUME NEW r \in Refunds, Settle(r) \/ \E p \in Workers : Callback(p, r) PROVE FollowInv'
  BY <1>3, SettleFollows, CallbackFollows
<1>4. ASSUME NEW p \in Workers, NEW s \in Sources, NEW force \in BOOLEAN,
             RebuildAccountingEntries(p, s, force)
      PROVE  FollowInv'
  BY <1>4, RebuildFollows
<1>5. ASSUME UNCHANGED vars PROVE FollowInv'
  <2>1. UNCHANGED <<facts, order, refunds, refundOrders, booked, manual, views, total, gateway,
                    w, failures, repairs, disowned>>
    BY <1>5 DEF vars
  <2> QED BY <2>1 DEF FollowInv, TypeOK, StoredInv, SendersDiffer, SomePaid, PaidBack, Handling,
          Creating, Answering, Ordering, Deciding, Booking
<1> QED BY <1>1, <1>2, <1>3, <1>4, <1>5, RepairsFollow, Zenon DEF Next

LEMMA InitFollows ==
    ASSUME Init
    PROVE  FollowInv
<1>1. /\ facts \in FactsOfOrder /\ order = [status |-> "processed", allowed |-> TRUE]
      /\ refunds = [r \in Refunds |-> None] /\ refundOrders = [o \in RefundOrders |-> None]
      /\ booked = [s \in Sources |-> IF s = Order THEN 1 ELSE 0]
      /\ manual = [s \in Sources |-> 0]
      /\ total = 1 /\ gateway = [r \in Refunds |-> "none"] /\ w = [p \in Workers |-> Idle]
      /\ failures = 0 /\ repairs = 0 /\ disowned = {}
  BY DEF Init
<1>2. order \in OrderDoc /\ order.status = "processed"
  BY <1>1 DEF OrderDoc
<1>3. booked \in [Sources -> Nat] /\ manual \in [Sources -> Nat]
  BY <1>1
<1>4. views \in [Sources -> ViewDoc \cup {None}]
  <2>1. PICK v : v = [status |-> "processed",
                      pay |-> PaymentView(PaymentRevenue(facts), PaymentFees(facts)),
                      back |-> EmptyView]
    OBVIOUS
  <2>2. PICK pay : pay = PaymentView(PaymentRevenue(facts), PaymentFees(facts))
    OBVIOUS
  <2>3. pay \in Amounts /\ EmptyView \in Amounts
    BY <1>1, <2>2, RefundAssumption, PaymentViewIsInts DEF EmptyView, Amounts
  <2>4. v \in ViewDoc
    BY <2>1, <2>2, <2>3 DEF ViewDoc, Amounts
  <2>5. views = [s \in Sources |-> IF s = Order THEN v ELSE None]
    BY <2>1 DEF Init
  <2> QED BY <2>4, <2>5
<1>5. w \in [Workers -> Worker] /\ \A p \in Workers : Handling(w[p]) /\ w[p].pc = "idle"
  BY <1>1, IdleIsWorker
<1>6. failures \in 0 .. MaxFailures /\ repairs \in 0 .. MaxRepairs
  BY <1>1, RefundAssumption
<1>a. /\ refunds \in [Refunds -> RefundDoc \cup {None}]
      /\ refundOrders \in [RefundOrders -> Refunds \cup {None}]
      /\ gateway \in [Refunds -> {"none", "accepted", "completed", "declined"}]
      /\ total \in Int /\ disowned \subseteq Refunds
  <2>1. refunds = [r \in Refunds |-> None] /\ refundOrders = [o \in RefundOrders |-> None]
        /\ gateway = [r \in Refunds |-> "none"]
    BY <1>1
  <2>2. /\ refunds \in [Refunds -> RefundDoc \cup {None}]
        /\ refundOrders \in [RefundOrders -> Refunds \cup {None}]
        /\ gateway \in [Refunds -> {"none", "accepted", "completed", "declined"}]
    BY <2>1
  <2>3. total \in Int
    BY <1>1
  <2>4. disowned \subseteq Refunds
    BY <1>1
  <2> QED BY <2>2, <2>3, <2>4
<1>7. TypeOK
  BY <1>1, <1>2, <1>3, <1>4, <1>5, <1>6, <1>a, Zenon DEF TypeOK
<1>8. \A o \in RefundOrders : booked[o] = 0
  BY <1>1, NoneIsNoOrder DEF Sources
<1>9. StoredInv
  BY <1>1, <1>2, <1>8 DEF StoredInv
<1>10. SendersDiffer
  BY <1>5 DEF SendersDiffer
<1> QED BY <1>5, <1>7, <1>9, <1>10 DEF FollowInv

LEMMA FollowInvariant == Spec => []FollowInv
BY InitFollows, NextKeepsFollow, PTL DEF Spec

-----------------------------------------------------------------------------
\* Whatever handlers overlap and wherever they fail, every document, entry count and handler
\* has its type; the amounts of the views are integers whatever the facts of the order are.
THEOREM RefundTypeCorrect == Spec => []TypeOK
BY FollowInvariant, PTL DEF FollowInv

\* An order that says it was refunded, and entries of a refund, stand for a refund the gateway
\* has paid back: with any number of handlers that overlap, fail and are repaired by hand.
THEOREM MarksFollowGateway ==
    Spec => [](/\ order.status # "processed" => \E r \in Refunds : gateway[r] = "completed"
               /\ \A r \in Refunds : BookedOrders(r) # {} => gateway[r] = "completed")
<1>1. ASSUME FollowInv
      PROVE  /\ order.status # "processed" => \E r \in Refunds : gateway[r] = "completed"
             /\ \A r \in Refunds : BookedOrders(r) # {} => gateway[r] = "completed"
  BY <1>1 DEF FollowInv, StoredInv, SomePaid, PaidBack, BookedOrders
<1> QED BY <1>1, FollowInvariant, PTL


-----------------------------------------------------------------------------
(* One handler at a time: a refund is sent once, and booked once.          *)

LEMMA OneStep ==
    ASSUME OneHandler, FollowInv, OnceAndLive, NEW p \in Workers, NEW new, Moves(p, new),
           OnceInv', Copied(new)', Lively(w[p]) => Lively(new)'
    PROVE  OnceAndLive'
<1>1. \A q \in Workers : q = p /\ w'[q] = new
  BY MovesTo DEF FollowInv, TypeOK, OneHandler
<1>2. ASSUME NEW q \in Workers PROVE Copied(w[q])'
  BY <1>1
<1>3. ASSUME NEW q \in Workers PROVE Lively(w[q])'
  <2>1. Lively(w[p])
    BY Zenon DEF OnceAndLive
  <2> QED BY <1>1, <2>1
<1> QED BY <1>2, <1>3, Zenon DEF OnceAndLive

\* A step that writes neither refunds nor entries and does not reach the gateway.
LEMMA QuietOne ==
    ASSUME OneHandler, FollowInv, OnceAndLive, NEW p \in Workers, NEW new, Moves(p, new),
           UNCHANGED <<refunds, refundOrders, booked, gateway, disowned>>,
           Copied(new), Lively(w[p]) => Lively(new)
    PROVE  OnceAndLive'
<1>1. refunds' = refunds /\ refundOrders' = refundOrders /\ booked' = booked
      /\ gateway' = gateway
  OBVIOUS
<1>2. disowned' = disowned
  OBVIOUS
<1>3. OnceInv'
  BY <1>1 DEF OnceAndLive, OnceInv
<1>4. Copied(new)'
  BY <1>1 DEF Copied
<1>5. Lively(w[p]) => Lively(new)'
  BY <1>1, <1>2 DEF Lively, Live
<1> QED BY <1>3, <1>4, <1>5, OneStep

\* A handler in a state that holds no copy.
LEMMA HoldsNothing ==
    ASSUME NEW s, s.pc \in {"idle", "sum", "payment", "view", "subscription", "debit"}
    PROVE  Copied(s) /\ \A t : Lively(t) => Lively(s)
BY DEF Copied, Lively

LEMMA ReturnOnce ==
    ASSUME OneHandler, FollowInv, OnceAndLive, NEW p \in Workers, Return(p),
           UNCHANGED <<refunds, refundOrders, booked, gateway, disowned>>
    PROVE  OnceAndLive'
<1>1. Moves(p, Idle) /\ Idle.pc = "idle"
  BY IdleIsWorker DEF Return, Moves
<1> QED BY <1>1, HoldsNothing, QuietOne

\* No refund counts: the sum is zero.
LEMMA SumIsZero ==
    ASSUME FollowInv, ~(GetAmountByOrderId > 0)
    PROVE  \A r \in Refunds : refunds[r] # None => refunds[r].status \notin Counted
<1> DEFINE S == {r \in Refunds : refunds[r] # None
                                 /\ refunds[r].status \in {"created", "inprogress", "completed"}}
<1>1. IsFiniteSet(S)
  BY RefundAssumption, FS_Subset
<1>2. Cardinality(S) \in Nat
  BY <1>1, FS_CardinalityType
<1>3. ~(Cardinality(S) > 0)
  BY DEF GetAmountByOrderId
<1>4. Cardinality(S) = 0
  BY <1>2, <1>3
<1>5. S = {}
  BY <1>1, <1>4, FS_EmptySet
<1> QED BY <1>5 DEF Counted

LEMMA NothingLive ==
    ASSUME FollowInv, NEW s, Lively(s),
           \A r \in Refunds : refunds[r] # None => refunds[r].status \notin Counted
    PROVE  \A r \in Refunds : ~Live(r)
BY DEF FollowInv, StoredInv, Lively, Live

LEMMA ProcessRefundsByOrderOnce ==
    ASSUME OneHandler, FollowInv, OnceAndLive, NEW p \in Workers, ProcessRefundsByOrder(p)
    PROVE  OnceAndLive'
<1>1. UNCHANGED <<refunds, refundOrders, booked, gateway, disowned>>
  BY DEF ProcessRefundsByOrder, docs, books, bounds
<1>2. CASE GetAmountByOrderId > 0
  <2>1. Return(p)
    BY <1>2 DEF ProcessRefundsByOrder
  <2> QED BY <1>1, <2>1, ReturnOnce
<1>3. CASE ~(GetAmountByOrderId > 0)
  <2>1. Goto(p, "insert") /\ "insert" \in PCs
    BY <1>3 DEF ProcessRefundsByOrder, PCs
  <2>2. PICK new : Moves(p, new) /\ new.pc = "insert"
    BY <2>1, GotoIs
  <2>3. Lively(w[p]) => Lively(new)
    BY <1>3, <2>2, SumIsZero, NothingLive DEF Lively
  <2>4. Copied(new)
    BY <2>2 DEF Copied
  <2> QED BY <1>1, <2>2, <2>3, <2>4, QuietOne
<1> QED BY <1>2, <1>3

LEMMA ProcessCreateRefundOnce ==
    ASSUME OneHandler, FollowInv, OnceAndLive, NEW p \in Workers, ProcessCreateRefund(p)
    PROVE  OnceAndLive'
<1>a. PICK new : \E r \in Refunds :
        /\ Moves(p, new) /\ new.pc = "send" /\ new.id = r /\ new.doc = w[p].doc
        /\ refunds[r] = None /\ gateway[r] = "none"
        /\ refunds' \in [Refunds -> RefundDoc \cup {None}] /\ refunds'[r] = w[p].doc
        /\ \A x \in Refunds : x # r => refunds'[x] = refunds[x]
        /\ w[p].pc = "insert" /\ w[p].doc \in RefundDoc /\ w[p].doc.created = None
        /\ w[p].doc.status = "created" /\ w[p].doc # None
  BY ProcessCreateRefundIs
<1>1. PICK r \in Refunds :
        /\ Moves(p, new) /\ new.pc = "send" /\ new.id = r /\ new.doc = w[p].doc
        /\ refunds[r] = None /\ gateway[r] = "none"
        /\ refunds' \in [Refunds -> RefundDoc \cup {None}] /\ refunds'[r] = w[p].doc
        /\ \A x \in Refunds : x # r => refunds'[x] = refunds[x]
        /\ w[p].pc = "insert" /\ w[p].doc \in RefundDoc /\ w[p].doc.created = None
        /\ w[p].doc.status = "created" /\ w[p].doc # None
  BY <1>a
<1>2. refundOrders' = refundOrders /\ booked' = booked /\ gateway' = gateway
  BY DEF ProcessCreateRefund, books
<1>3. disowned' = disowned
  BY DEF ProcessCreateRefund, bounds
<1>4. Copied(new)'
  BY <1>1 DEF Copied
<1>5. Lively(w[p]) => Lively(new)'
  BY <1>1, <1>2, <1>3 DEF Lively, Live
<1>6. OnceInv'
  <2> SUFFICES ASSUME NEW o \in RefundOrders, booked[o] > 0
               PROVE  booked[o] = 1 /\ refunds'[refundOrders[o]].created = o
    BY <1>2 DEF OnceInv
  <2>1. booked[o] = 1 /\ refunds[refundOrders[o]].created = o /\ PaidBack(o)
    BY DEF OnceAndLive, OnceInv, FollowInv, StoredInv
  <2>2. refundOrders[o] \in Refunds /\ refundOrders[o] # r
    BY <1>1, <2>1 DEF PaidBack
  <2> QED BY <1>1, <2>1, <2>2
<1> QED BY <1>1, <1>4, <1>6, <1>5, OneStep

LEMMA CreateRefundOnce ==
    ASSUME OneHandler, FollowInv, OnceAndLive, NEW p \in Workers, NEW c \in BOOLEAN,
           CreateRefund(p, c)
    PROVE  OnceAndLive'
<1>1. UNCHANGED <<refunds, refundOrders, booked, gateway, disowned>>
  BY DEF CreateRefund, docs, books, bounds
<1>2. PICK new : Moves(p, new) /\ new.pc = "sum"
  BY CreateRefundIs
<1> QED BY <1>1, <1>2, HoldsNothing, QuietOne

LEMMA CardPayCreateRefundOnce ==
    ASSUME OneHandler, FollowInv, OnceAndLive, NEW p \in Workers, CardPayCreateRefund(p)
    PROVE  OnceAndLive'
<1>1. PICK new :
        /\ Moves(p, new) /\ new.pc = "answer" /\ new.id = w[p].id
        /\ new.doc \in RefundDoc /\ new.doc.created = None
        /\ new.doc.chargeback = w[p].doc.chargeback
        /\ w[p].pc = "send" /\ w[p].id \in Refunds
        /\ refunds[w[p].id] # None /\ gateway[w[p].id] = "none"
        /\ gateway' \in [Refunds -> {"none", "accepted", "completed", "declined"}]
        /\ \A r \in Refunds : r # w[p].id => gateway'[r] = gateway[r]
        /\ \/ /\ disowned' = disowned
              /\ \/ gateway'[w[p].id] = "accepted" /\ new.doc.status = "inprogress"
                 \/ gateway'[w[p].id] = "none" /\ new.doc.status = "rejected"
           \/ disowned' = disowned \cup {w[p].id}
  BY CardPayCreateRefundIs
<1>2. refundOrders' = refundOrders /\ booked' = booked /\ refunds' = refunds
  BY DEF CardPayCreateRefund, books, docs
<1>3. refunds[w[p].id] = w[p].doc /\ w[p].doc.status = "created" /\ w[p].doc.created = None
  BY <1>1, HeldBy DEF OnceAndLive, Copied, Handling, Creating
<1>4. Copied(new)'
  BY <1>1, <1>2, <1>3 DEF Copied
<1>5. Lively(w[p]) => Lively(new)'
  BY <1>1, <1>2, <1>3 DEF Lively, Live, Counted
<1>6. OnceInv'
  BY <1>2 DEF OnceAndLive, OnceInv
<1> QED BY <1>1, <1>4, <1>6, <1>5, OneStep

\* A refund is written back: its entries are still under the order it names.
LEMMA OnceStored ==
    ASSUME FollowInv, OnceAndLive, NEW id \in Refunds, NEW doc \in RefundDoc,
           refunds[id] # None, refunds[id].created # None => doc.created = refunds[id].created,
           \A x \in Refunds : x # id => refunds'[x] = refunds[x],
           refunds'[id] = doc, UNCHANGED <<refundOrders, booked>>
    PROVE  OnceInv'
<1> SUFFICES ASSUME NEW o \in RefundOrders, booked[o] > 0
             PROVE  booked[o] = 1 /\ refunds'[refundOrders[o]].created = o
  BY DEF OnceInv
<1>1. booked[o] = 1 /\ refunds[refundOrders[o]].created = o /\ refundOrders[o] \in Refunds
  BY DEF OnceAndLive, OnceInv, FollowInv, StoredInv, PaidBack
<1> QED BY <1>1, NoneIsNoOrder

LEMMA StoreAnswerOnce ==
    ASSUME OneHandler, FollowInv, OnceAndLive, NEW p \in Workers, StoreAnswer(p)
    PROVE  OnceAndLive'
<1>1. PICK s : s = w[p]
  OBVIOUS
<1>2. s \in Worker /\ Handling(s) /\ s.pc = "answer" /\ Copied(s)
  BY <1>1, HeldBy DEF StoreAnswer, OnceAndLive
<1>3. /\ s.doc \in RefundDoc /\ s.id \in Refunds /\ refunds[s.id] # None
      /\ refunds[s.id].created = None
  BY <1>2 DEF Handling, Creating, Copied
<1>4. /\ refunds' = [refunds EXCEPT ![s.id] = s.doc] /\ Return(p)
      /\ refundOrders' = refundOrders /\ booked' = booked /\ gateway' = gateway
  BY <1>1 DEF StoreAnswer, books
<1>5. refunds'[s.id] = s.doc /\ \A x \in Refunds : x # s.id => refunds'[x] = refunds[x]
  BY <1>3, <1>4 DEF FollowInv, TypeOK
<1>6. OnceInv'
  BY <1>3, <1>4, <1>5, OnceStored
<1>7. Moves(p, Idle) /\ Idle.pc = "idle"
  BY <1>4, IdleIsWorker DEF Return, Moves
<1>8. Copied(Idle)'
  BY <1>7 DEF Copied
<1>9. disowned' = disowned
  BY DEF StoreAnswer, bounds
<1>10. Lively(s) => Lively(Idle)'
  BY <1>2, <1>4, <1>5, <1>7, <1>9 DEF Lively, Live
<1> QED BY <1>1, <1>6, <1>7, <1>8, <1>10, OneStep

\* Steps of nobody's handler.
LEMMA OthersOnce ==
    ASSUME FollowInv, OnceAndLive, UNCHANGED <<refunds, refundOrders, booked, w>>,
           disowned' = disowned, \A r \in Refunds : Live(r)' => Live(r)
    PROVE  OnceAndLive'
<1>1. OnceInv' /\ \A q \in Workers : Copied(w[q])'
  BY DEF OnceAndLive, OnceInv, Copied
<1>2. ASSUME NEW q \in Workers, Lively(w[q]) PROVE Lively(w[q])'
  <2>1. PICK s : s = w[q]
    OBVIOUS
  <2>2. s.pc \in {"answer", "read", "store", "link"} => s.id \in Refunds
    BY <2>1, HeldBy DEF Handling, Creating, Answering
  <2>3. Lively(s)'
    BY <1>2, <2>1, <2>2 DEF Lively
  <2>4. w'[q] = s
    BY <2>1
  <2> QED BY <2>3, <2>4
<1>3. \A q \in Workers : Lively(w[q])'
  <2>1. \A q \in Workers : Lively(w[q])
    BY Zenon DEF OnceAndLive
  <2> QED BY <1>2, <2>1, Zenon
<1> QED BY <1>1, <1>3, Zenon DEF OnceAndLive

LEMMA SettleOnce ==
    ASSUME FollowInv, OnceAndLive, NEW r \in Refunds, Settle(r)
    PROVE  OnceAndLive'
<1>1. UNCHANGED <<refunds, refundOrders, booked, w>>
  BY DEF Settle, docs, books
<1>2. disowned' = disowned
  BY DEF Settle, bounds
<1>3. \A x \in Refunds : Live(x)' => Live(x)
  BY <1>2 DEF Settle, FollowInv, TypeOK, Live
<1> QED BY <1>1, <1>2, <1>3, OthersOnce

LEMMA CallbackOnce ==
    ASSUME OneHandler, FollowInv, OnceAndLive, NEW p \in Workers, NEW r \in Refunds,
           Callback(p, r)
    PROVE  OnceAndLive'
<1>1. PICK new : CalledBack(p, r, new)
  BY CallbackIs
<1>2. Moves(p, new) /\ new.pc = "read" /\ new.id = r /\ new.doc = refunds[r]
  BY <1>1, Zenon DEF CalledBack
<1>3. /\ new.answer = "refused" => disowned' = disowned \cup {r}
      /\ new.answer # "refused" => disowned' = disowned
  BY <1>1, Zenon DEF CalledBack
<1>4. refunds' = refunds /\ refundOrders' = refundOrders /\ booked' = booked
      /\ gateway' = gateway
  BY DEF Callback, docs, books
<1>5. OnceInv'
  BY <1>4 DEF OnceAndLive, OnceInv
<1>6. Copied(new)'
  BY <1>2, <1>4 DEF Copied
<1>7. Lively(w[p]) => Lively(new)'
  BY <1>2, <1>3, <1>4 DEF Lively, Live
<1> QED BY <1>2, <1>5, <1>6, <1>7, OneStep

LEMMA ReadOrderOnce ==
    ASSUME OneHandler, FollowInv, OnceAndLive, NEW p \in Workers, ReadOrder(p)
    PROVE  OnceAndLive'
<1>1. PICK new : /\ Moves(p, new) /\ new.pc = "store" /\ new.id = w[p].id
                 /\ new.answer = w[p].answer /\ new.ord = order
                 /\ new.doc \in RefundDoc
                 /\ new.doc.status = ProcessRefund(w[p].answer, w[p].doc.status)
                 /\ new.doc.created = w[p].doc.created
                 /\ new.doc.chargeback = w[p].doc.chargeback
  BY ReadOrderIs
<1>2. /\ w[p].pc = "read" /\ Copied(w[p])
      /\ w[p].answer \in {"completed", "declined", "pending", "refused"}
      /\ w[p].answer \in {"completed", "declined"} => gateway[w[p].id] = w[p].answer
  BY HeldBy DEF ReadOrder, OnceAndLive, Worker, Handling, Answering
<1>3. UNCHANGED <<refunds, refundOrders, booked, gateway, disowned>>
  BY DEF ReadOrder, docs, books, bounds
<1>4. Copied(new)
  BY <1>1, <1>2 DEF Copied
<1>5. Lively(w[p]) => Lively(new)
  BY <1>1, <1>2 DEF Lively, ProcessRefund, Live, Counted
<1> QED BY <1>1, <1>3, <1>4, <1>5, QuietOne

LEMMA StoreStatusOnceMore ==
    ASSUME OneHandler, FollowInv, OnceAndLive, NEW p \in Workers, StoreStatus(p)
    PROVE  OnceAndLive'
<1>1. PICK s : s = w[p]
  OBVIOUS
<1>2. s \in Worker /\ Handling(s) /\ s.pc = "store" /\ Copied(s)
  BY <1>1, HeldBy DEF StoreStatus, OnceAndLive
<1>3. /\ s.id \in Refunds /\ s.doc \in RefundDoc /\ refunds[s.id] # None
      /\ refunds[s.id].created # None => s.doc.created = refunds[s.id].created
  BY <1>2 DEF Handling, Answering, Copied
<1>4. /\ refunds' = [refunds EXCEPT ![s.id] = s.doc]
      /\ Return(p) \/ Goto(p, AfterStatus(s.doc))
      /\ gateway' = gateway /\ refundOrders' = refundOrders /\ booked' = booked
  BY <1>1 DEF StoreStatus, books
<1>5. refunds'[s.id] = s.doc /\ \A x \in Refunds : x # s.id => refunds'[x] = refunds[x]
  BY <1>3, <1>4 DEF FollowInv, TypeOK
<1>6. OnceInv'
  BY <1>3, <1>4, <1>5, OnceStored
<1>7. PICK new : /\ Moves(p, new) /\ new.pc \in {"idle", "allow", "copy", "link"}
                 /\ new.pc # "idle" => new.id = s.id /\ new.doc = s.doc
  <2>1. CASE Return(p)
    BY <2>1, IdleIsWorker DEF Return, Moves
  <2>2. CASE Goto(p, AfterStatus(s.doc))
    <3>1. PICK pc : pc = AfterStatus(s.doc)
      OBVIOUS
    <3>2. pc \in {"allow", "copy", "link"} /\ pc \in PCs
      BY <3>1 DEF AfterStatus, PCs
    <3> QED BY <1>1, <2>2, <3>1, <3>2, GotoIs
  <2> QED BY <1>4, <2>1, <2>2
<1>8. Copied(new)'
  BY <1>5, <1>7 DEF Copied
<1>9. disowned' = disowned
  BY DEF StoreStatus, bounds
<1>10. Lively(s) => Lively(new)'
  BY <1>2, <1>4, <1>5, <1>7, <1>9 DEF Lively, Live
<1> QED BY <1>1, <1>6, <1>7, <1>8, <1>10, OneStep

LEMMA CreateOrderByRefundOnce ==
    ASSUME OneHandler, FollowInv, OnceAndLive, NEW p \in Workers, CreateOrderByRefund(p)
    PROVE  OnceAndLive'
<1>1. PICK s : s = w[p]
  OBVIOUS
<1>2. s \in Worker /\ Handling(s) /\ s.pc = "copy" /\ Copied(s)
  BY <1>1, HeldBy DEF CreateOrderByRefund, OnceAndLive
<1>a. PICK new : \E o \in RefundOrders :
        /\ Moves(p, new) /\ new.pc = "link" /\ new.id = w[p].id
        /\ new.doc.status = w[p].doc.status
        /\ new.doc.created = o /\ new.doc.chargeback = w[p].doc.chargeback
        /\ refundOrders[o] = None
        /\ \A x \in RefundOrders : x # o => refundOrders'[x] = refundOrders[x]
  BY CreateOrderByRefundIs
<1>3. PICK o \in RefundOrders :
        /\ Moves(p, new) /\ new.pc = "link" /\ new.id = w[p].id
        /\ new.doc.status = w[p].doc.status
        /\ new.doc.created = o /\ new.doc.chargeback = w[p].doc.chargeback
        /\ refundOrders[o] = None
        /\ \A x \in RefundOrders : x # o => refundOrders'[x] = refundOrders[x]
  BY <1>a
<1>4. refunds' = refunds /\ booked' = booked /\ gateway' = gateway
  BY DEF CreateOrderByRefund, books
<1>5. /\ s.id \in Refunds /\ s.doc.status = "completed"
      /\ refunds[s.id].created = None
  <2>1. /\ s.id \in Refunds /\ s.doc.status = "completed" /\ s.doc.created = None
        /\ refunds[s.id].created # None => s.doc.created = refunds[s.id].created
    BY <1>2 DEF Handling, Answering, Deciding, Copied
  <2> QED BY <2>1
<1>6. OnceInv'
  <2> SUFFICES ASSUME NEW x \in RefundOrders, booked[x] > 0
               PROVE  booked[x] = 1 /\ refunds[refundOrders'[x]].created = x
    BY <1>4 DEF OnceInv
  <2>1. booked[x] = 1 /\ refunds[refundOrders[x]].created = x /\ refundOrders[x] \in Refunds
    BY DEF OnceAndLive, OnceInv, FollowInv, StoredInv, PaidBack
  <2> QED BY <1>3, <2>1, NoneIsNoOrder
<1>7. Copied(new)'
  BY <1>1, <1>2, <1>3, <1>4, <1>5 DEF Copied
<1>8. disowned' = disowned
  BY DEF CreateOrderByRefund, bounds
<1>9. Lively(s) => Lively(new)'
  BY <1>1, <1>3, <1>4, <1>5, <1>8 DEF Lively, Counted, Live
<1> QED BY <1>1, <1>3, <1>6, <1>7, <1>9, OneStep

LEMMA AllowRefundOnce ==
    ASSUME OneHandler, FollowInv, OnceAndLive, NEW p \in Workers,
           AllowRefund(p) \/ AllowRefundView(p)
    PROVE  OnceAndLive'
<1>1. UNCHANGED <<refunds, refundOrders, booked, gateway, disowned>>
  BY DEF AllowRefund, AllowRefundView, docs, books, bounds
<1>2. PICK pc \in {"allowView", "link"} : Goto(p, pc)
  <2>1. Goto(p, "allowView") \/ Goto(p, "link")
    BY DEF AllowRefund, AllowRefundView
  <2> QED BY <2>1
<1>a. pc \in PCs
  BY DEF PCs
<1>3. PICK new : /\ Moves(p, new) /\ new.pc = pc /\ new.id = w[p].id
                 /\ new.doc = w[p].doc
  BY <1>2, <1>a, GotoIs
<1>4. /\ w[p].pc \in {"allow", "allowView"} /\ Copied(w[p]) /\ w[p].id \in Refunds
      /\ gateway[w[p].id] = "declined"
  BY HeldBy DEF AllowRefund, AllowRefundView, OnceAndLive, Handling, Answering, Ordering, Deciding
<1>5. Copied(new)
  BY <1>3, <1>4 DEF Copied
<1>6. Lively(w[p]) => Lively(new)
  BY <1>3, <1>4 DEF Lively, Live
<1> QED BY <1>1, <1>3, <1>5, <1>6, QuietOne

LEMMA LinkOrderOnce ==
    ASSUME OneHandler, FollowInv, OnceAndLive, NEW p \in Workers, LinkOrder(p)
    PROVE  OnceAndLive'
<1>1. PICK s : s = w[p]
  OBVIOUS
<1>2. s \in Worker /\ Handling(s) /\ s.pc = "link" /\ Copied(s)
  BY <1>1, HeldBy DEF LinkOrder, OnceAndLive
<1>3. /\ s.id \in Refunds /\ s.doc \in RefundDoc /\ refunds[s.id] # None
      /\ refunds[s.id].created # None => s.doc.created = refunds[s.id].created
  BY <1>2 DEF Handling, Answering, Copied
<1>4. /\ refunds' = [refunds EXCEPT ![s.id] = s.doc]
      /\ Return(p) \/ Goto(p, "amount")
      /\ gateway' = gateway /\ refundOrders' = refundOrders /\ booked' = booked
  BY <1>1 DEF LinkOrder, books
<1>5. refunds'[s.id] = s.doc /\ \A x \in Refunds : x # s.id => refunds'[x] = refunds[x]
  BY <1>3, <1>4 DEF FollowInv, TypeOK
<1>6. OnceInv'
  BY <1>3, <1>4, <1>5, OnceStored
<1>7. PICK new : /\ Moves(p, new) /\ new.pc \in {"idle", "amount"}
                 /\ new.pc # "idle" => new.id = s.id /\ new.doc = s.doc
  <2>1. CASE Return(p)
    BY <2>1, IdleIsWorker DEF Return, Moves
  <2>2. CASE Goto(p, "amount")
    <3>1. "amount" \in PCs
      BY DEF PCs
    <3> QED BY <1>1, <2>2, <3>1, GotoIs
  <2> QED BY <1>4, <2>1, <2>2
<1>8. Copied(new)'
  BY <1>5, <1>7 DEF Copied
<1>9. disowned' = disowned
  BY DEF LinkOrder, bounds
<1>10. Lively(s) => Lively(new)'
  BY <1>2, <1>4, <1>5, <1>7, <1>9 DEF Lively, Live
<1> QED BY <1>1, <1>6, <1>7, <1>8, <1>10, OneStep

\* The handler knows the order its entries are for as the one the refund names.
LEMMA NotifiedIsNamed ==
    ASSUME FollowInv, OnceAndLive, NEW p \in Workers, w[p].pc \in {"amount", "mark"},
           NEW new, new.pc = "notify", new.src = w[p].doc.created
    PROVE  Copied(new)
<1>1. PICK s : s = w[p]
  OBVIOUS
<1>2. s \in Worker /\ Handling(s) /\ s.pc \in {"amount", "mark"} /\ Copied(s)
  BY <1>1, HeldBy DEF OnceAndLive
<1>3. s.doc = refunds[s.id] /\ s.doc.created # None /\ refundOrders[s.doc.created] = s.id
  BY <1>2 DEF Handling, Answering, Deciding, Copied
<1> QED BY <1>1, <1>3 DEF Copied

LEMMA CheckAmountOnce ==
    ASSUME OneHandler, FollowInv, OnceAndLive, NEW p \in Workers, CheckAmount(p)
    PROVE  OnceAndLive'
<1>1. UNCHANGED <<refunds, refundOrders, booked, gateway, disowned>>
  BY DEF CheckAmount, docs, books
<1>2. PICK new :
        /\ Moves(p, new) /\ new.id = w[p].id /\ new.doc = w[p].doc
        /\ \/ new.pc = "mark"
           \/ new.pc = "notify" /\ new.src = w[p].doc.created
  BY CheckAmountIs
<1>3. w[p].pc = "amount" /\ Copied(w[p])
  BY DEF CheckAmount, OnceAndLive
<1>4. Copied(new)
  <2>1. CASE new.pc = "mark"
    BY <1>2, <1>3, <2>1 DEF Copied
  <2>2. CASE new.pc = "notify" /\ new.src = w[p].doc.created
    BY <1>3, <2>2, NotifiedIsNamed
  <2> QED BY <1>2, <2>1, <2>2
<1>5. Lively(w[p]) => Lively(new)
  BY <1>2 DEF Lively
<1> QED BY <1>1, <1>2, <1>4, <1>5, QuietOne

LEMMA MarkOrderOnce ==
    ASSUME OneHandler, FollowInv, OnceAndLive, NEW p \in Workers, MarkOrder(p)
    PROVE  OnceAndLive'
<1>1. UNCHANGED <<refunds, refundOrders, booked, gateway, disowned>>
  BY DEF MarkOrder, books
<1>2. PICK new : Moves(p, new) /\ new.pc = "notify" /\ new.src = w[p].doc.created
  BY MarkOrderIs
<1>3. w[p].pc = "mark"
  BY DEF MarkOrder
<1>4. Copied(new)
  BY <1>2, <1>3, NotifiedIsNamed
<1>5. Lively(w[p]) => Lively(new)
  BY <1>2 DEF Lively
<1> QED BY <1>1, <1>2, <1>4, <1>5, QuietOne

LEMMA ProcessRefundEventOnce ==
    ASSUME OneHandler, FollowInv, OnceAndLive, NEW p \in Workers, ProcessRefundEvent(p)
    PROVE  OnceAndLive'
<1>1. UNCHANGED <<refunds, refundOrders, booked, gateway, disowned>>
  BY DEF ProcessRefundEvent, docs, books, bounds
<1>2. CASE Return(p)
  BY <1>1, <1>2, ReturnOnce
<1>3. CASE ~Return(p)
  <2>1. Goto(p, "book") /\ "book" \in PCs /\ ~GetByObjectSource(w[p].src)
    BY <1>3 DEF ProcessRefundEvent, PCs
  <2>2. PICK new : Moves(p, new) /\ new.pc = "book" /\ new.src = w[p].src
    BY <2>1, GotoIs
  <2>3. w[p].pc = "notify" /\ Copied(w[p]) /\ PaidBack(w[p].src)
    BY HeldBy DEF ProcessRefundEvent, OnceAndLive, Handling, Booking
  <2>4. booked[w[p].src] = 0
    BY <2>1, <2>3 DEF GetByObjectSource, FollowInv, TypeOK, PaidBack, Sources
  <2>5. Copied(new)
    BY <2>2, <2>3, <2>4 DEF Copied
  <2>6. Lively(w[p]) => Lively(new)
    BY <2>2 DEF Lively
  <2> QED BY <1>1, <2>2, <2>5, <2>6, QuietOne
<1> QED BY <1>2, <1>3

LEMMA SaveEntriesOnce ==
    ASSUME OneHandler, FollowInv, OnceAndLive, NEW p \in Workers, SaveEntries(p)
    PROVE  OnceAndLive'
<1>1. PICK s : s = w[p]
  OBVIOUS
<1>2. s \in Worker /\ Handling(s) /\ s.pc = "book" /\ Copied(s)
  BY <1>1, HeldBy DEF SaveEntries, OnceAndLive
<1>3. /\ s.src = Order \/ PaidBack(s.src)
      /\ s.src # Order => s.src = refunds[refundOrders[s.src]].created /\ booked[s.src] = 0
  BY <1>2 DEF Handling, Booking, Copied
<1>4. booked' = [booked EXCEPT ![s.src] = @ + 1] /\ booked \in [Sources -> Nat]
  BY <1>1 DEF SaveEntries, MultipleInsert, FollowInv, TypeOK
<1>5. s.src \in Sources
  BY <1>3 DEF PaidBack, Sources
<1>6. booked'[s.src] = booked[s.src] + 1 /\ \A x \in Sources : x # s.src => booked'[x] = booked[x]
  BY <1>4, <1>5
<1>7. refunds' = refunds /\ refundOrders' = refundOrders /\ gateway' = gateway
  BY DEF SaveEntries, docs
<1>8. OnceInv'
  <2> SUFFICES ASSUME NEW o \in RefundOrders, booked'[o] > 0
               PROVE  booked'[o] = 1 /\ refunds[refundOrders[o]].created = o
    BY <1>7 DEF OnceInv
  <2>1. CASE o = s.src
    BY <1>3, <1>6, <2>1, NoneIsNoOrder
  <2>2. CASE o # s.src
    BY <1>6, <2>2 DEF Sources, OnceAndLive, OnceInv
  <2> QED BY <2>1, <2>2
<1>9. Goto(p, "view") /\ "view" \in PCs
  BY DEF SaveEntries, PCs
<1>10. PICK new : Moves(p, new) /\ new.pc = "view"
  BY <1>9, GotoIs
<1>11. Copied(new)'
  BY <1>10 DEF Copied
<1>12. disowned' = disowned
  BY DEF SaveEntries, bounds
<1>13. Lively(w[p]) => Lively(new)'
  BY <1>7, <1>10, <1>12 DEF Lively, Live
<1> QED BY <1>8, <1>10, <1>11, <1>13, OneStep

LEMMA BookkeepingOnce ==
    ASSUME OneHandler, FollowInv, OnceAndLive, NEW p \in Workers,
           \/ SaveViews(p) \/ GetSubscription(p) \/ UpdateSubscription(p)
           \/ ProcessPaymentEvent(p)
    PROVE  OnceAndLive'
<1>1. UNCHANGED <<refunds, refundOrders, booked, gateway, disowned>>
  BY DEF SaveViews, GetSubscription, UpdateSubscription, ProcessPaymentEvent, docs, books, bounds
<1>2. CASE Return(p)
  BY <1>1, <1>2, ReturnOnce
<1>3. CASE \E new : Moves(p, new) /\ new.pc \in {"subscription", "debit"}
  BY <1>1, <1>3, HoldsNothing, QuietOne
<1>4. CASE Goto(p, "subscription")
  <2>1. "subscription" \in PCs
    BY DEF PCs
  <2> QED BY <1>3, <1>4, <2>1, GotoIs
<1>5. CASE GetSubscription(p)
  BY <1>3, <1>5, GetSubscriptionIs
<1>6. CASE ProcessPaymentEvent(p) /\ Goto(p, "book")
  <2>1. "book" \in PCs /\ w[p].src = Order
    BY <1>6, HeldBy DEF PCs, ProcessPaymentEvent, Handling, Booking
  <2>2. PICK new : Moves(p, new) /\ new.pc = "book" /\ new.src = Order
    BY <1>6, <2>1, GotoIs
  <2>3. Copied(new) /\ (Lively(w[p]) => Lively(new))
    BY <2>2 DEF Copied, Lively
  <2> QED BY <1>1, <2>2, <2>3, QuietOne
<1> QED BY <1>2, <1>4, <1>5, <1>6 DEF SaveViews, UpdateSubscription, ProcessPaymentEvent

LEMMA FailOnce ==
    ASSUME OneHandler, FollowInv, OnceAndLive, NEW p \in Workers, Fail(p)
    PROVE  OnceAndLive'
BY ReturnOnce DEF Fail, docs, books

LEMMA RepairsOnce ==
    ASSUME FollowInv, OnceAndLive,
           (\E s \in Sources : CreateAccountingEntry(s)) \/ RebuildOrderView
    PROVE  OnceAndLive'
<1>1. UNCHANGED <<refunds, refundOrders, booked, w>> /\ gateway' = gateway
  BY DEF CreateAccountingEntry, RebuildOrderView, docs
<1>2. disowned' = disowned
  BY DEF CreateAccountingEntry, RebuildOrderView
<1>3. \A x \in Refunds : Live(x)' => Live(x)
  BY <1>1, <1>2 DEF Live
<1> QED BY <1>1, <1>2, <1>3, OthersOnce

LEMMA RebuildOnce ==
    ASSUME OneHandler, FollowInv, OnceAndLive, NEW p \in Workers, NEW s \in Sources,
           NEW force \in BOOLEAN, RebuildAccountingEntries(p, s, force)
    PROVE  OnceAndLive'
<1>1. /\ \A x \in Sources : booked'[x] > 0 => booked'[x] = booked[x]
      /\ w' = w \/ \E new : Moves(p, new) /\ new.pc = "payment"
  BY RebuildIs
<1>2. refunds' = refunds /\ refundOrders' = refundOrders /\ gateway' = gateway
  BY DEF RebuildAccountingEntries, docs
<1>3. PICK new : Moves(p, new) /\ new.pc \in {"idle", "payment"}
  <2>1. CASE w' = w
    <3>1. w' = [w EXCEPT ![p] = w[p]] /\ w[p] \in Worker /\ w[p].pc = "idle"
      BY <2>1, HeldBy DEF FollowInv, TypeOK, RebuildAccountingEntries
    <3> QED BY <3>1 DEF Moves
  <2> QED BY <1>1, <2>1
<1>4. OnceInv'
  BY <1>1, <1>2 DEF OnceAndLive, OnceInv, Sources
<1>5. Copied(new)'
  BY <1>3 DEF Copied
<1>6. disowned' = disowned
  BY DEF RebuildAccountingEntries
<1>7. Lively(w[p]) => Lively(new)'
  BY <1>2, <1>3, <1>6 DEF Lively, Live
<1> QED BY <1>3, <1>4, <1>5, <1>7, OneStep

LEMMA NextKeepsOnce ==
    ASSUME OneHandler, FollowInv, OnceAndLive, [Next]_vars
    PROVE  OnceAndLive'
<1>1. ASSUME NEW p \in Workers, Step(p) \/ Fail(p) PROVE OnceAndLive'
  BY <1>1, ProcessRefundsByOrderOnce, ProcessCreateRefundOnce, CardPayCreateRefundOnce,
     StoreAnswerOnce, ReadOrderOnce, StoreStatusOnceMore, CreateOrderByRefundOnce,
     AllowRefundOnce, LinkOrderOnce, CheckAmountOnce, MarkOrderOnce, ProcessRefundEventOnce,
     SaveEntriesOnce, BookkeepingOnce, FailOnce, Zenon DEF Step
<1>2. ASSUME NEW p \in Workers, NEW c \in BOOLEAN, CreateRefund(p, c) PROVE OnceAndLive'
  BY <1>2, CreateRefundOnce
<1>3. ASSUME NEW r \in Refunds, Settle(r) \/ \E p \in Workers : Callback(p, r)
      PROVE  OnceAndLive'
  BY <1>3, SettleOnce, CallbackOnce
<1>4. ASSUME NEW p \in Workers, NEW s \in Sources, NEW force \in BOOLEAN,
             RebuildAccountingEntries(p, s, force)
      PROVE  OnceAndLive'
  BY <1>4, RebuildOnce
<1>5. ASSUME UNCHANGED vars PROVE OnceAndLive'
  <2>1. UNCHANGED <<refunds, refundOrders, booked, w>> /\ gateway' = gateway
    BY <1>5 DEF vars
  <2>2. disowned' = disowned
    BY <1>5 DEF vars
  <2>3. \A x \in Refunds : Live(x)' => Live(x)
    BY <2>1, <2>2 DEF Live
  <2> QED BY <2>1, <2>2, <2>3, OthersOnce
<1> QED BY <1>1, <1>2, <1>3, <1>4, <1>5, RepairsOnce, Zenon DEF Next

LEMMA InitOnce ==
    ASSUME Init
    PROVE  OnceAndLive
<1>1. /\ booked = [s \in Sources |-> IF s = Order THEN 1 ELSE 0]
      /\ gateway = [r \in Refunds |-> "none"] /\ w = [p \in Workers |-> Idle]
  BY DEF Init
<1>2. OnceInv
  BY <1>1, NoneIsNoOrder DEF OnceInv, Sources
<1>3. \A p \in Workers : w[p].pc = "idle"
  BY <1>1, IdleIsWorker
<1>4. \A p \in Workers : Copied(w[p])
  BY <1>3 DEF Copied
<1>5. \A p \in Workers : Lively(w[p])
  BY <1>1, <1>3 DEF Lively, Live
<1> QED BY <1>2, <1>4, <1>5, Zenon DEF OnceAndLive

LEMMA OnceInvariant ==
    ASSUME OneHandler
    PROVE  Spec => []OnceAndLive
<1>1. Init => OnceAndLive
  BY InitOnce
<1>2. FollowInv /\ OnceAndLive /\ [Next]_vars => OnceAndLive'
  BY NextKeepsOnce
<1> QED BY <1>1, <1>2, FollowInvariant, PTL DEF Spec

-----------------------------------------------------------------------------
\* With one handler at a time, the gateway is asked to pay the order back once, but for refunds
\* it has and the server stored as rejected: wherever the handlers before it failed, any other
\* refund that may still be paid counts, and processRefundsByOrder finds it before another one
\* is sent.
THEOREM PaysBackOnce ==
    ASSUME OneHandler
    PROVE  Spec => []PaidBackOnce
<1>1. ASSUME Workers # {}, OnceAndLive PROVE PaidBackOnce
  <2> DEFINE S == {r \in Refunds : gateway[r] \in {"accepted", "completed"}} \ disowned
  <2>1. \A r1, r2 \in S : r1 = r2
    BY <1>1 DEF OnceAndLive, Lively, Live
  <2> HIDE DEF S
  <2>2. CASE S = {}
    BY <2>2, FS_EmptySet DEF PaidBackOnce, S
  <2>3. CASE S # {}
    <3>1. PICK r : S = {r}
      BY <2>1, <2>3
    <3> QED BY <3>1, FS_Singleton DEF PaidBackOnce, S
  <2> QED BY <2>2, <2>3
<1>2. Workers # {}
  BY DEF OneHandler
<1>3. OnceAndLive => PaidBackOnce
  BY <1>1, <1>2, Zenon
<1> QED BY <1>3, OnceInvariant, PTL

\* With one handler at a time, a refund is booked under the one order it names and with one set
\* of entries, however often its callback comes and wherever a handler of it failed: what
\* ProcessRefundCallback has written is found again by the next handler.
THEOREM BooksOnce ==
    ASSUME OneHandler
    PROVE  Spec => []RefundBookedOnce
<1>1. ASSUME OnceAndLive PROVE RefundBookedOnce
  <2> SUFFICES ASSUME NEW r \in Refunds
               PROVE  /\ Cardinality(BookedOrders(r)) <= 1
                      /\ \A o \in BookedOrders(r) : booked[o] = 1
    BY DEF RefundBookedOnce
  <2>1. \A o \in BookedOrders(r) : booked[o] = 1 /\ refunds[r].created = o
    BY <1>1 DEF OnceAndLive, OnceInv, BookedOrders
  <2>2. BookedOrders(r) = {} \/ BookedOrders(r) = {refunds[r].created}
    BY <2>1
  <2>3. Cardinality(BookedOrders(r)) <= 1
    <3>1. Cardinality({}) = 0 /\ Cardinality({refunds[r].created}) = 1
      BY FS_EmptySet, FS_Singleton
    <3> QED BY <2>2, <3>1
  <2> QED BY <2>1, <2>3
<1> QED BY <1>1, OnceInvariant, PTL

-----------------------------------------------------------------------------
(* One handler at a time: the subscription follows the entries.            *)

LEMMA BookedIsFinite == IsFiniteSet(BookedRefunds) /\ Cardinality(BookedRefunds) \in Nat
<1>1. IsFiniteSet(BookedRefunds)
  BY RefundAssumption, FS_Subset DEF BookedRefunds
<1> QED BY <1>1, FS_CardinalityType

LEMMA BookedSame ==
    ASSUME \A o \in RefundOrders : booked'[o] = booked[o],
           \A o \in RefundOrders : booked[o] > 0 => refundOrders'[o] = refundOrders[o],
           \A o \in RefundOrders : refundOrders'[o] # refundOrders[o] => booked[o] = 0
    PROVE  BookedRefunds' = BookedRefunds
<1>1. ASSUME NEW r PROVE BookedOrders(r)' = BookedOrders(r)
  BY DEF BookedOrders
<1> QED BY <1>1 DEF BookedRefunds

LEMMA TotalStep ==
    ASSUME OneHandler, FollowInv, NEW p \in Workers, NEW new, Moves(p, new), TotalInv(new)'
    PROVE  TotalsInv'
<1>1. \A q \in Workers : w'[q] = new
  BY MovesTo DEF FollowInv, TypeOK, OneHandler
<1> QED BY <1>1 DEF TotalsInv

\* A step that writes neither the subscription nor the entries of refunds.
LEMMA QuietTotal ==
    ASSUME OneHandler, FollowInv, TotalsInv, NEW p \in Workers, NEW new, Moves(p, new),
           total' = total, BookedRefunds' = BookedRefunds,
           Owes(new) => Owes(w[p]), new.pc = "debit" => new.amount = total
    PROVE  TotalsInv'
<1>1. TotalInv(w[p])
  BY DEF TotalsInv
<1>2. PICK n : n = Cardinality(BookedRefunds)
  OBVIOUS
<1>3. n = Cardinality(BookedRefunds')
  BY <1>2
<1>4. Owes(new)' = Owes(new)
  BY DEF Owes
<1>5. TotalInv(new)'
  BY <1>1, <1>2, <1>3, <1>4 DEF TotalInv
<1> QED BY <1>5, TotalStep

\* A handler that has booked nothing.
LEMMA RestingTotal ==
    ASSUME OneHandler, FollowInv, TotalsInv, NEW p \in Workers, NEW new, Moves(p, new),
           total' = total, BookedRefunds' = BookedRefunds,
           new.pc \notin {"view", "subscription", "debit"}
    PROVE  TotalsInv'
<1>1. ~Owes(new) /\ new.pc # "debit"
  BY DEF Owes
<1> QED BY <1>1, QuietTotal

LEMMA CreatingTotal ==
    ASSUME OneHandler, FollowInv, TotalsInv, NEW p \in Workers,
           \/ \E c \in BOOLEAN : CreateRefund(p, c)
           \/ ProcessRefundsByOrder(p) \/ ProcessCreateRefund(p) \/ CardPayCreateRefund(p)
           \/ StoreAnswer(p)
    PROVE  TotalsInv'
<1>1. total' = total
  BY DEF CreateRefund, ProcessRefundsByOrder, ProcessCreateRefund, CardPayCreateRefund,
         StoreAnswer
<1>2. refundOrders' = refundOrders /\ booked' = booked
  BY DEF CreateRefund, ProcessRefundsByOrder, ProcessCreateRefund, CardPayCreateRefund,
         StoreAnswer, docs, books
<1>3. BookedRefunds' = BookedRefunds
  BY <1>2, BookedSame
<1>4. ASSUME Return(p) PROVE TotalsInv'
  <2>1. Moves(p, Idle) /\ Idle.pc = "idle"
    BY <1>4, IdleIsWorker DEF Return, Moves
  <2> QED BY <1>1, <1>3, <2>1, RestingTotal
<1>5. ASSUME Goto(p, "insert") PROVE TotalsInv'
  <2>1. "insert" \in PCs
    BY DEF PCs
  <2>2. PICK new : Moves(p, new) /\ new.pc = "insert"
    BY <1>5, <2>1, GotoIs
  <2> QED BY <1>1, <1>3, <2>2, RestingTotal
<1>6. CASE \E c \in BOOLEAN : CreateRefund(p, c)
  BY <1>1, <1>3, <1>6, CreateRefundIs, RestingTotal
<1>7. CASE ProcessCreateRefund(p)
  <2>1. PICK new : Moves(p, new) /\ new.pc = "send"
    BY <1>7, ProcessCreateRefundIs
  <2> QED BY <1>1, <1>3, <2>1, RestingTotal
<1>8. CASE CardPayCreateRefund(p)
  <2>1. PICK new : Moves(p, new) /\ new.pc = "answer"
    BY <1>8, CardPayCreateRefundIs
  <2> QED BY <1>1, <1>3, <2>1, RestingTotal
<1> QED BY <1>4, <1>5, <1>6, <1>7, <1>8 DEF ProcessRefundsByOrder, StoreAnswer

LEMMA AnsweringTotal ==
    ASSUME OneHandler, FollowInv, TotalsInv, NEW p \in Workers,
           \/ \E r \in Refunds : Callback(p, r)
           \/ ReadOrder(p) \/ StoreStatus(p) \/ CreateOrderByRefund(p) \/ AllowRefund(p)
           \/ AllowRefundView(p) \/ LinkOrder(p) \/ CheckAmount(p) \/ MarkOrder(p) \/ ProcessRefundEvent(p)
    PROVE  TotalsInv'
<1>1. total' = total /\ booked' = booked
  BY DEF Callback, ReadOrder, StoreStatus, CreateOrderByRefund, AllowRefund, AllowRefundView,
         LinkOrder, CheckAmount, MarkOrder, ProcessRefundEvent, books
<1>2. BookedRefunds' = BookedRefunds
  <2>1. CASE CreateOrderByRefund(p)
    <3>1. PICK new : \E o \in RefundOrders :
            /\ Moves(p, new) /\ refundOrders[o] = None
            /\ \A x \in RefundOrders : x # o => refundOrders'[x] = refundOrders[x]
      BY <2>1, CreateOrderByRefundIs
    <3>2. PICK o \in RefundOrders :
            /\ refundOrders[o] = None
            /\ \A x \in RefundOrders : x # o => refundOrders'[x] = refundOrders[x]
      BY <3>1
    <3>3. booked[o] = 0 /\ \A x \in RefundOrders : x # o => refundOrders'[x] = refundOrders[x]
      BY <3>2, NoneIsNoOrder DEF FollowInv, StoredInv, PaidBack, TypeOK, Sources
    <3> QED BY <1>1, <3>3, BookedSame
  <2>2. CASE refundOrders' = refundOrders
    BY <1>1, <2>2, BookedSame
  <2> QED BY <2>1, <2>2 DEF Callback, ReadOrder, StoreStatus, AllowRefund,
             AllowRefundView, LinkOrder, CheckAmount, MarkOrder, ProcessRefundEvent, docs
<1>3. ASSUME Return(p) PROVE TotalsInv'
  <2>1. Moves(p, Idle) /\ Idle.pc = "idle"
    BY <1>3, IdleIsWorker DEF Return, Moves
  <2> QED BY <1>1, <1>2, <2>1, RestingTotal
<1>4. ASSUME NEW pc \in {"allow", "allowView", "copy", "link", "amount", "book"}, Goto(p, pc)
      PROVE  TotalsInv'
  <2>1. pc \in PCs
    BY DEF PCs
  <2>2. PICK new : Moves(p, new) /\ new.pc = pc
    BY <1>4, <2>1, GotoIs
  <2> QED BY <1>1, <1>2, <2>2, RestingTotal
<1>5. ASSUME NEW new, Moves(p, new), new.pc \in {"read", "store", "link", "mark", "notify"}
      PROVE  TotalsInv'
  BY <1>1, <1>2, <1>5, RestingTotal
<1>6. CASE \E r \in Refunds : Callback(p, r)
  <2>1. PICK r \in Refunds : Callback(p, r)
    BY <1>6
  <2>2. PICK new : CalledBack(p, r, new)
    BY <2>1, CallbackIs
  <2>3. Moves(p, new) /\ new.pc = "read"
    BY <2>2, Zenon DEF CalledBack
  <2> QED BY <1>5, <2>3
<1>7. CASE ReadOrder(p)
  <2>1. PICK new : Moves(p, new) /\ new.pc = "store"
    BY <1>7, ReadOrderIs
  <2> QED BY <1>5, <2>1
<1>8. CASE StoreStatus(p)
  <2>1. AfterStatus(w[p].doc) \in {"allow", "copy", "link"}
    BY DEF AfterStatus
  <2> QED BY <1>3, <1>4, <1>8, <2>1 DEF StoreStatus
<1>9. CASE CreateOrderByRefund(p)
  <2>1. PICK new : Moves(p, new) /\ new.pc = "link"
    BY <1>9, CreateOrderByRefundIs
  <2> QED BY <1>5, <2>1
<1>10. CASE CheckAmount(p)
  <2>1. PICK new : Moves(p, new) /\ new.pc \in {"mark", "notify"}
    BY <1>10, CheckAmountIs
  <2> QED BY <1>5, <2>1
<1>11. CASE MarkOrder(p)
  <2>1. PICK new : Moves(p, new) /\ new.pc = "notify"
    BY <1>11, MarkOrderIs
  <2> QED BY <1>5, <2>1
<1>12. CASE AllowRefund(p) \/ AllowRefundView(p) \/ LinkOrder(p) \/ ProcessRefundEvent(p)
  BY <1>3, <1>4, <1>12 DEF AllowRefund, AllowRefundView, LinkOrder, ProcessRefundEvent
<1> QED BY <1>6, <1>7, <1>8, <1>9, <1>10, <1>11, <1>12

LEMMA SaveEntriesTotal ==
    ASSUME OneHandler, FollowInv, OnceAndLive, TotalsInv, NEW p \in Workers, SaveEntries(p)
    PROVE  TotalsInv'
<1>1. PICK s : s = w[p]
  OBVIOUS
<1>2. s \in Worker /\ Handling(s) /\ s.pc = "book" /\ Copied(s) /\ TotalInv(s)
  BY <1>1, HeldBy DEF SaveEntries, OnceAndLive, TotalsInv
<1>3. /\ s.src = Order \/ PaidBack(s.src)
      /\ s.src # Order => s.src = refunds[refundOrders[s.src]].created /\ booked[s.src] = 0
  BY <1>2 DEF Handling, Booking, Copied
<1>4. booked' = [booked EXCEPT ![s.src] = @ + 1] /\ booked \in [Sources -> Nat]
  BY <1>1 DEF SaveEntries, MultipleInsert, FollowInv, TypeOK
<1>5. s.src \in Sources
  BY <1>3 DEF PaidBack, Sources
<1>6. booked'[s.src] = booked[s.src] + 1 /\ \A x \in Sources : x # s.src => booked'[x] = booked[x]
  BY <1>4, <1>5
<1>7. refundOrders' = refundOrders /\ total' = total
  BY DEF SaveEntries, docs
<1>8. Goto(p, "view") /\ "view" \in PCs
  BY DEF SaveEntries, PCs
<1>9. PICK new : Moves(p, new) /\ new.pc = "view" /\ new.src = s.src
  BY <1>1, <1>8, GotoIs
<1>10. CASE s.src = Order
  <2>1. \A o \in RefundOrders : booked'[o] = booked[o]
    BY <1>6, <1>10, NoneIsNoOrder DEF Sources
  <2>2. BookedRefunds' = BookedRefunds
    BY <1>7, <2>1, BookedSame
  <2>3. Owes(new) => Owes(w[p])
    BY <1>9, <1>10 DEF Owes
  <2> QED BY <1>7, <1>9, <2>2, <2>3, QuietTotal
<1>11. CASE s.src # Order
  <2>1. PICK o, r : o = s.src /\ r = refundOrders[o]
    OBVIOUS
  <2>2. /\ o \in RefundOrders /\ r \in Refunds /\ booked[o] = 0 /\ refunds[r].created = o
        /\ booked'[o] = 1
    BY <1>3, <1>6, <1>11, <2>1 DEF PaidBack
  <2>3. \A x \in RefundOrders : x # o => booked'[x] = booked[x]
    BY <1>6, <2>1 DEF Sources
  <2>4. r \notin BookedRefunds
    BY <2>2 DEF BookedRefunds, BookedOrders, OnceAndLive, OnceInv
  <2>5. BookedRefunds' = BookedRefunds \cup {r}
    <3>1. \A x \in Refunds : x # r => BookedOrders(x)' = BookedOrders(x)
      BY <1>7, <2>1, <2>3 DEF BookedOrders
    <3>2. o \in BookedOrders(r)'
      BY <1>7, <2>1, <2>2 DEF BookedOrders
    <3> QED BY <2>2, <3>1, <3>2 DEF BookedRefunds
  <2>6. Cardinality(BookedRefunds)' = Cardinality(BookedRefunds) + 1
    BY <2>4, <2>5, BookedIsFinite, FS_AddElement
  <2>7. TotalInv(new)'
    <3>1. PICK n : n = Cardinality(BookedRefunds)
      OBVIOUS
    <3>2. n \in Nat /\ total \in Int /\ total >= 1 - n /\ Cardinality(BookedRefunds)' = n + 1
      BY <1>2, <2>6, <3>1, BookedIsFinite DEF FollowInv, TypeOK, TotalInv
    <3>3. total' >= 1 - (n + 1) /\ total' >= 2 - (n + 1)
      BY <1>7, <3>2
    <3> QED BY <1>9, <3>2, <3>3 DEF TotalInv
  <2> QED BY <1>9, <2>7, TotalStep
<1> QED BY <1>10, <1>11

LEMMA BookkeepingTotal ==
    ASSUME OneHandler, FollowInv, TotalsInv, NEW p \in Workers,
           \/ SaveViews(p) \/ GetSubscription(p) \/ UpdateSubscription(p)
           \/ ProcessPaymentEvent(p) \/ Fail(p)
    PROVE  TotalsInv'
<1>1. refundOrders' = refundOrders /\ booked' = booked
  BY DEF SaveViews, GetSubscription, UpdateSubscription, ProcessPaymentEvent, Fail, docs, books
<1>2. BookedRefunds' = BookedRefunds
  BY <1>1, BookedSame
<1>3. CASE Return(p) /\ total' = total
  <2>1. Moves(p, Idle) /\ Idle.pc = "idle"
    BY <1>3, IdleIsWorker DEF Return, Moves
  <2> QED BY <1>2, <1>3, <2>1, RestingTotal
<1>4. CASE SaveViews(p) /\ ~Return(p)
  <2>1. /\ Goto(p, "subscription") /\ "subscription" \in PCs /\ w[p].pc = "view"
        /\ w[p].src # Order /\ total' = total
    BY <1>4 DEF SaveViews, PCs
  <2>2. PICK new : Moves(p, new) /\ new.pc = "subscription"
    BY <2>1, GotoIs
  <2>3. Owes(w[p])
    BY <2>1 DEF Owes
  <2> QED BY <1>2, <2>1, <2>2, <2>3, QuietTotal
<1>5. CASE GetSubscription(p)
  <2>1. PICK new : Moves(p, new) /\ new.pc = "debit" /\ new.amount = total
    BY <1>5, GetSubscriptionIs
  <2>2. Owes(w[p]) /\ total' = total
    BY <1>5 DEF Owes, GetSubscription
  <2> QED BY <1>2, <2>1, <2>2, QuietTotal
<1>6. CASE UpdateSubscription(p)
  <2>1. PICK s, n : s = w[p] /\ n = Cardinality(BookedRefunds)
    OBVIOUS
  <2>2. s.pc = "debit" /\ TotalInv(s) /\ total' = s.amount - 1
    BY <1>6, <2>1 DEF UpdateSubscription, TotalsInv
  <2>3. n \in Nat /\ total \in Int /\ total >= 2 - n /\ s.amount = total
    BY <2>1, <2>2, BookedIsFinite DEF TotalInv, Owes, FollowInv, TypeOK
  <2>4. total' >= 1 - n
    BY <2>2, <2>3
  <2>5. Moves(p, Idle) /\ Idle.pc = "idle"
    BY <1>6, IdleIsWorker DEF UpdateSubscription, Return, Moves
  <2>6. Cardinality(BookedRefunds)' = n
    BY <1>2, <2>1
  <2>7. TotalInv(Idle)'
    BY <2>4, <2>5, <2>6 DEF TotalInv, Owes
  <2> QED BY <2>5, <2>7, TotalStep
<1>7. CASE ProcessPaymentEvent(p) /\ ~Return(p)
  <2>1. Goto(p, "book") /\ "book" \in PCs /\ total' = total
    BY <1>7 DEF ProcessPaymentEvent, PCs
  <2>2. PICK new : Moves(p, new) /\ new.pc = "book"
    BY <2>1, GotoIs
  <2> QED BY <1>2, <2>1, <2>2, RestingTotal
<1> QED BY <1>3, <1>4, <1>5, <1>6, <1>7 DEF SaveViews, ProcessPaymentEvent, Fail

\* Entries of a refund are not deleted: RebuildAccountingEntries is run for orders alone.
LEMMA RebuildTotal ==
    ASSUME OneHandler, FollowInv, TotalsInv, "refund" \notin Rebuilds, NEW p \in Workers,
           NEW s \in Sources, NEW force \in BOOLEAN, RebuildAccountingEntries(p, s, force)
    PROVE  TotalsInv'
<1>1. s = Order /\ refundOrders' = refundOrders /\ total' = total /\ w[p].pc = "idle"
  BY DEF RebuildAccountingEntries, docs
<1>2. /\ \A x \in Sources : s = Order /\ x # Order => booked'[x] = booked[x]
      /\ w' = w \/ \E new : Moves(p, new) /\ new.pc = "payment"
  BY RebuildIs
<1>3. \A o \in RefundOrders : booked'[o] = booked[o]
  BY <1>1, <1>2, NoneIsNoOrder DEF Sources
<1>4. BookedRefunds' = BookedRefunds
  BY <1>1, <1>3, BookedSame
<1>5. PICK new : Moves(p, new) /\ new.pc \in {"idle", "payment"}
  <2>1. CASE w' = w
    <3>1. w' = [w EXCEPT ![p] = w[p]] /\ w[p] \in Worker
      BY <2>1, HeldBy DEF FollowInv, TypeOK
    <3> QED BY <1>1, <3>1 DEF Moves
  <2> QED BY <1>2, <2>1
<1> QED BY <1>1, <1>4, <1>5, RestingTotal

LEMMA OthersTotal ==
    ASSUME TotalsInv, UNCHANGED <<refundOrders, booked, w, total>>
    PROVE  TotalsInv'
<1>1. BookedRefunds' = BookedRefunds
  BY BookedSame
<1> QED BY <1>1 DEF TotalsInv, TotalInv, Owes

LEMMA NextKeepsTotals ==
    ASSUME OneHandler, "refund" \notin Rebuilds, FollowInv, OnceAndLive, TotalsInv, [Next]_vars
    PROVE  TotalsInv'
<1>1. ASSUME NEW p \in Workers, Step(p) \/ Fail(p) PROVE TotalsInv'
  BY <1>1, CreatingTotal, AnsweringTotal, SaveEntriesTotal, BookkeepingTotal, Zenon DEF Step
<1>2. ASSUME NEW p \in Workers, NEW c \in BOOLEAN, CreateRefund(p, c) PROVE TotalsInv'
  BY <1>2, CreatingTotal, Zenon
<1>3. ASSUME NEW r \in Refunds, NEW p \in Workers, Callback(p, r) PROVE TotalsInv'
  BY <1>3, AnsweringTotal, Zenon
<1>4. ASSUME NEW p \in Workers, NEW s \in Sources, NEW force \in BOOLEAN,
             RebuildAccountingEntries(p, s, force)
      PROVE  TotalsInv'
  BY <1>4, RebuildTotal
<1>5. ASSUME NEW r \in Refunds, Settle(r) PROVE TotalsInv'
  BY <1>5, OthersTotal DEF Settle, docs, books
<1>6. ASSUME (\E s \in Sources : CreateAccountingEntry(s)) \/ RebuildOrderView PROVE TotalsInv'
  BY <1>6, OthersTotal DEF CreateAccountingEntry, RebuildOrderView, docs
<1>7. ASSUME UNCHANGED vars PROVE TotalsInv'
  BY <1>7, OthersTotal DEF vars
<1> QED BY <1>1, <1>2, <1>3, <1>4, <1>5, <1>6, <1>7, Zenon DEF Next

LEMMA InitTotals ==
    ASSUME Init
    PROVE  TotalsInv
<1>1. total = 1 /\ w = [p \in Workers |-> Idle]
  BY DEF Init
<1>2. \A p \in Workers : w[p].pc = "idle"
  BY <1>1, IdleIsWorker
<1> QED BY <1>1, <1>2, BookedIsFinite DEF TotalsInv, TotalInv, Owes

LEMMA TotalsInvariant ==
    ASSUME OneHandler, "refund" \notin Rebuilds
    PROVE  Spec => []TotalsInv
<1>1. Init => TotalsInv
  BY InitTotals
<1>2. FollowInv /\ OnceAndLive /\ TotalsInv /\ [Next]_vars => TotalsInv'
  BY NextKeepsTotals
<1> QED BY <1>1, <1>2, FollowInvariant, OnceInvariant, PTL DEF Spec

\* A refunded order and entries stand for a refund the gateway has paid back, and with one
\* handler at a time the payments counted in the subscription fall by no more than the number of
\* paid refunds that have entries, as long as the entries of refunds are not deleted by
\* RebuildAccountingEntries.
THEOREM BooksFollow ==
    ASSUME OneHandler, "refund" \notin Rebuilds
    PROVE  Spec => []BooksFollowGateway
<1>1. Workers # {}
  BY DEF OneHandler
<1>2. ASSUME FollowInv, TotalsInv PROVE BooksFollowGateway
  <2> DEFINE paidBack == {r \in Refunds : gateway[r] = "completed"}
  <2>1. /\ order.status # "processed" => paidBack # {}
        /\ \A r \in Refunds : BookedOrders(r) # {} => r \in paidBack
    BY <1>2 DEF FollowInv, StoredInv, SomePaid, PaidBack, BookedOrders
  <2>2. BookedRefunds = {r \in paidBack : BookedOrders(r) # {}}
    BY <2>1 DEF BookedRefunds
  <2>3. total >= 1 - Cardinality({r \in paidBack : BookedOrders(r) # {}})
    <3>1. total >= 1 - Cardinality(BookedRefunds)
      BY <1>1, <1>2 DEF TotalsInv, TotalInv
    <3> QED BY <2>2, <3>1
  <2> QED BY <2>1, <2>3 DEF BooksFollowGateway
<1> QED BY <1>2, FollowInvariant, TotalsInvariant, PTL

-----------------------------------------------------------------------------
(* A merchant never gains from a refund.                                   *)

LEMMA ProductGrows ==
    ASSUME NEW a \in Nat, NEW x \in Int, NEW y \in Int, x <= y
    PROVE  a * x <= a * y
<1>1. PICK d \in Nat : d = y - x
  OBVIOUS
<1>2. a * d \in Nat
  OBVIOUS
<1>3. a * y = a * (x + d) /\ a * (x + d) = a * x + a * d
  BY <1>1
<1>4. a * x \in Int
  OBVIOUS
<1> QED BY <1>2, <1>3, <1>4

LEMMA ExchangeOfNat ==
    ASSUME NEW a \in Nat, NEW rate \in Nat
    PROVE  Exchange(a, rate) = (a * rate) \div 100 /\ Exchange(a, rate) \in Nat
<1>1. a * rate \in Nat
  OBVIOUS
<1>2. (a * rate) \div 100 \in Nat
  BY <1>1
<1>3. rate = 100 => (a * rate) \div 100 = a
  OBVIOUS
<1> QED BY <1>2, <1>3 DEF Exchange

LEMMA ExchangeGrows ==
    ASSUME NEW a \in Nat, NEW x \in Nat, NEW y \in Nat, x <= y
    PROVE  Exchange(a, x) <= Exchange(a, y)
<1>1. PICK m, n : m = a * x /\ n = a * y
  OBVIOUS
<1>2. m \in Nat /\ n \in Nat /\ m <= n
  BY <1>1, ProductGrows
<1>3. m \div 100 <= n \div 100
  BY <1>2
<1> QED BY <1>1, <1>3, ExchangeOfNat

\* A fee of at most the whole amount: never below zero, or not below a negative amount.
LEMMA FeeIsPart ==
    ASSUME NEW amount \in Int, NEW percent \in Nat, percent <= 100
    PROVE  Percent(amount, percent) >= 0 \/ Percent(amount, percent) >= amount
<1>1. PICK x : x = amount * percent
  OBVIOUS
<1>2. CASE amount >= 0
  <2>1. x \in Nat
    BY <1>1, <1>2
  <2>2. x \div 100 >= 0
    BY <2>1
  <2> QED BY <1>1, <2>2 DEF Percent
<1>3. CASE amount < 0
  <2>1. PICK a \in Nat : amount = -a
    BY <1>3
  <2>2. a * percent <= a * 100
    BY ProductGrows
  <2>3. x = -(a * percent)
    BY <1>1, <2>1
  <2>4. x \in Int /\ x >= 100 * amount
    BY <2>1, <2>2, <2>3
  <2>5. x \div 100 >= amount
    BY <2>4
  <2> QED BY <1>1, <2>5 DEF Percent
<1> QED BY <1>2, <1>3

LEMMA PercentOfNat ==
    ASSUME NEW amount \in Nat, NEW percent \in Nat
    PROVE  Percent(amount, percent) \in Nat
<1>1. amount * percent \in Nat
  OBVIOUS
<1> QED BY <1>1 DEF Percent

LEMMA NetOfRefund ==
    ASSUME NEW f \in Facts, f.psPercent <= 100, f.merchant >= f.common,
           ~f.vatEnabled => f.taxRate = 0
    PROVE  PaymentView(PaymentRevenue(f), PaymentFees(f)).net
             <= RefundView(RefundCosts(f, PaymentRevenue(f)),
                           RefundTaxes(f, PaymentRevenue(f))).net
<1>1. /\ f.charge \in Nat /\ f.common \in Nat /\ f.merchant \in Nat /\ f.taxRate \in Nat
      /\ f.psPercent \in Nat /\ f.psFixedFee \in Nat /\ f.backPercent \in Nat
      /\ f.backFixAmount \in Nat
  BY FactsHaveNumbers
<1>2. PICK gross, m, fixed, backFixed :
        /\ gross = GetExchangePsByDateCommon(f, f.charge)
        /\ m = GetExchangePsByDateMerchant(f, f.charge)
        /\ fixed = GetExchangePsByDateMerchant(f, f.psFixedFee)
        /\ backFixed = GetExchangePsByDateMerchant(f, f.backFixAmount)
  OBVIOUS
<1>3. gross \in Nat /\ m \in Nat /\ gross <= m /\ fixed \in Nat /\ backFixed \in Nat
  BY <1>1, <1>2, ExchangeOfNat, ExchangeGrows
     DEF GetExchangePsByDateCommon, GetExchangePsByDateMerchant
<1>4. PICK part, back : part = Percent(2 * gross - m, f.psPercent)
                        /\ back = Percent(m, f.backPercent)
  OBVIOUS
<1>5. part \in Int /\ (part >= 0 \/ part >= 2 * gross - m) /\ back \in Nat
  <2>1. 2 * gross - m \in Int
    BY <1>3
  <2> QED BY <1>1, <1>3, <1>4, <2>1, FeeIsPart, PercentIsInt, PercentOfNat
<1>6. PICK e, g, c, t : /\ e = PaymentRevenue(f) /\ g = PaymentFees(f)
                        /\ c = RefundCosts(f, e) /\ t = RefundTaxes(f, e)
  OBVIOUS
<1>7. e \in Revenue
  BY <1>6, RevenueIsInts
<1>8. /\ e.realGrossRevenue = gross /\ e.psGrossRevenueFx = m - gross
      /\ e.merchantTaxFeeCostValue \in Int /\ e.merchantTaxFeeCentralBankFx \in Int
  BY <1>2, <1>6, <1>7 DEF PaymentRevenue, Revenue
<1>9. ~f.vatEnabled => e.merchantTaxFeeCostValue = 0 /\ e.merchantTaxFeeCentralBankFx = 0
  <2> SUFFICES ASSUME ~f.vatEnabled
               PROVE  e.merchantTaxFeeCostValue = 0 /\ e.merchantTaxFeeCentralBankFx = 0
    OBVIOUS
  <2>1. PICK rest : rest = gross - (m - gross)
    OBVIOUS
  <2>2. rest \in Int
    BY <1>3, <2>1
  <2>3. GetPercentPartFromAmount(rest, 0) = 0
    BY <2>2 DEF GetPercentPartFromAmount
  <2>4. e.merchantTaxFeeCostValue = GetPercentPartFromAmount(rest, f.taxRate)
    BY <1>2, <1>6, <2>1 DEF PaymentRevenue
  <2>5. e.merchantTaxFeeCentralBankFx = 0
    BY <1>6 DEF PaymentRevenue
  <2> QED BY <2>3, <2>4, <2>5
<1>10. /\ t.reverseTaxFee = e.merchantTaxFeeCostValue + e.merchantTaxFeeCentralBankFx
       /\ t.reverseTaxFeeDelta \in Nat
  <2>1. CASE f.vatEnabled
    <3>1. t.reverseTaxFee = e.merchantTaxFeeCostValue + e.merchantTaxFeeCentralBankFx
      BY <1>6, <2>1 DEF RefundTaxes
    <3>2. PICK bank : bank = CentralBankFx(f, GetPercentPartFromAmount(m, f.taxRate))
      OBVIOUS
    <3>3. bank \in Int
      BY <1>3, <3>2, RatesGiveInts
    <3>4. t.reverseTaxFeeDelta \in Nat
      BY <1>2, <1>6, <1>8, <2>1, <3>2, <3>3 DEF RefundTaxes
    <3> QED BY <3>1, <3>4
  <2>2. CASE ~f.vatEnabled
    <3>1. t.reverseTaxFee = 0 /\ t.reverseTaxFeeDelta = 0
      BY <1>6, <2>2 DEF RefundTaxes
    <3> QED BY <1>9, <2>2, <3>1
  <2> QED BY <2>1, <2>2
<1>11. g.psMethodFee = part /\ g.merchantPsFixedFee = fixed
  BY <1>2, <1>4, <1>6 DEF PaymentFees
<1>12. /\ c.merchantRefund = m
       /\ c.merchantRefundFee \in {0, back} /\ c.merchantRefundFixedFee \in {0, backFixed}
  BY <1>2, <1>4, <1>6 DEF RefundCosts
<1>13. PaymentView(e, g).net = gross - (m - gross) - fixed - e.merchantTaxFeeCentralBankFx
                                 - part - e.merchantTaxFeeCostValue
  BY <1>8, <1>11 DEF PaymentView
<1>14. RefundView(c, t).net = m + c.merchantRefundFee + c.merchantRefundFixedFee
                                + t.reverseTaxFeeDelta
                                - (e.merchantTaxFeeCostValue + e.merchantTaxFeeCentralBankFx)
  BY <1>10, <1>12 DEF RefundView
<1>15. PaymentView(e, g).net <= RefundView(c, t).net
  BY <1>3, <1>5, <1>8, <1>10, <1>12, <1>13, <1>14
<1> QED BY <1>6, <1>15

\* What a step makes of a view: nothing, or the amounts of the entries.
Refreshed(s) ==
    \/ views'[s] = views[s]
    \/ views'[s] # None /\ views'[s].pay = Pay(s) /\ views'[s].back = Back(s)

LEMMA UpdateRefreshes ==
    ASSUME FollowInv, NEW ids, UpdateOrderView(ids), NEW s \in Sources
    PROVE  Refreshed(s)
<1>1. PICK v : v = [status |-> StatusOf(s), pay |-> Pay(s), back |-> Back(s)]
  OBVIOUS
<1>2. v.pay = Pay(s) /\ v.back = Back(s)
  BY <1>1
<1>a. v # None
  BY <1>1, RowIsView, StatusIsStatus, RefundAssumption
<1>3. views'[s] = v \/ views'[s] = views[s]
  BY <1>1 DEF UpdateOrderView
<1> QED BY <1>2, <1>a, <1>3 DEF Refreshed

LEMMA NextRefreshes ==
    ASSUME FollowInv, [Next]_vars
    PROVE  facts' = facts /\ \A s \in Sources : Refreshed(s)
<1> DEFINE Goal == facts' = facts /\ \A s \in Sources : Refreshed(s)
<1>1. ASSUME facts' = facts /\ views' = views PROVE Goal
  BY <1>1 DEF Refreshed
<1> SUFFICES Goal
  OBVIOUS
<1>2. ASSUME NEW p \in Workers, Step(p) \/ Fail(p) PROVE Goal
  <2>1. CASE SaveViews(p)
    BY <2>1, UpdateRefreshes DEF SaveViews
  <2>2. CASE AllowRefundView(p)
    BY <2>2, UpdateRefreshes DEF AllowRefundView
  <2>3. CASE facts' = facts /\ views' = views
    BY <1>1, <2>3
  <2> HIDE DEF Goal
  <2>4. ASSUME ~SaveViews(p), ~AllowRefundView(p) PROVE facts' = facts /\ views' = views
    BY <1>2, <2>4
       DEF Step, Fail, ProcessRefundsByOrder, ProcessCreateRefund, CardPayCreateRefund,
           StoreAnswer, ReadOrder, StoreStatus, CreateOrderByRefund, AllowRefund, LinkOrder,
           CheckAmount, MarkOrder, ProcessRefundEvent, SaveEntries, GetSubscription, UpdateSubscription,
           ProcessPaymentEvent, books
  <2> QED BY <2>1, <2>2, <2>3, <2>4
<1>3. ASSUME NEW p \in Workers, NEW c \in BOOLEAN, CreateRefund(p, c) PROVE Goal
  BY <1>1, <1>3 DEF CreateRefund, books
<1>4. ASSUME NEW r \in Refunds, Settle(r) \/ \E p \in Workers : Callback(p, r) PROVE Goal
  BY <1>1, <1>4 DEF Settle, Callback, books
<1>5. ASSUME NEW p \in Workers, NEW s \in Sources, NEW force \in BOOLEAN,
             RebuildAccountingEntries(p, s, force)
      PROVE  Goal
  BY <1>1, <1>5 DEF RebuildAccountingEntries
<1>6. ASSUME \E s \in Sources : CreateAccountingEntry(s) PROVE Goal
  BY <1>1, <1>6 DEF CreateAccountingEntry
<1>7. ASSUME RebuildOrderView PROVE Goal
  BY <1>7, UpdateRefreshes DEF RebuildOrderView
<1>8. ASSUME UNCHANGED vars PROVE Goal
  BY <1>1, <1>8 DEF vars
<1> HIDE DEF Goal
<1> QED BY <1>2, <1>3, <1>4, <1>5, <1>6, <1>7, <1>8, Zenon DEF Next

LEMMA ViewsInvariant == Spec => []ViewsInv
<1>1. Init => ViewsInv
  <2> SUFFICES ASSUME Init PROVE ViewsInv
    OBVIOUS
  <2>1. PICK v : v = [status |-> "processed",
                      pay |-> PaymentView(PaymentRevenue(facts), PaymentFees(facts)),
                      back |-> EmptyView]
    OBVIOUS
  <2>2. /\ v.pay = PaymentView(PaymentRevenue(facts), PaymentFees(facts))
        /\ v.back = EmptyView
    BY <2>1
  <2>3. views = [x \in Sources |-> IF x = Order THEN v ELSE None]
    BY <2>1 DEF Init
  <2>4. v # None
    <3>1. PICK pay : pay = PaymentView(PaymentRevenue(facts), PaymentFees(facts))
      OBVIOUS
    <3>2. pay \in Amounts /\ EmptyView \in Amounts
      BY <3>1, RefundAssumption, PaymentViewIsInts DEF EmptyView, Amounts, Init
    <3> QED BY <2>1, <3>1, <3>2, RefundAssumption DEF ViewDoc, Amounts
  <2> QED BY <2>2, <2>3, <2>4 DEF ViewsInv, Sources
<1>2. ASSUME FollowInv, ViewsInv, [Next]_vars PROVE ViewsInv'
  <2>1. facts' = facts /\ \A s \in Sources : Refreshed(s)
    BY <1>2, NextRefreshes
  <2>2. PICK p, b : /\ p = PaymentView(PaymentRevenue(facts), PaymentFees(facts))
                    /\ b = RefundView(RefundCosts(facts, PaymentRevenue(facts)),
                                      RefundTaxes(facts, PaymentRevenue(facts)))
    OBVIOUS
  <2>3. ASSUME NEW s \in Sources, views'[s] # None
        PROVE  views'[s].pay \in {EmptyView, p} /\ views'[s].back \in {EmptyView, b}
    <3>1. Pay(s) \in {EmptyView, p} /\ Back(s) \in {EmptyView, b}
      BY <2>2 DEF Pay, Back
    <3>2. views[s] # None => views[s].pay \in {EmptyView, p} /\ views[s].back \in {EmptyView, b}
      BY <1>2, <2>2 DEF ViewsInv
    <3> QED BY <2>1, <2>3, <3>1, <3>2 DEF Refreshed
  <2>4. /\ p = PaymentView(PaymentRevenue(facts'), PaymentFees(facts'))
        /\ b = RefundView(RefundCosts(facts', PaymentRevenue(facts')),
                          RefundTaxes(facts', PaymentRevenue(facts')))
    BY <2>1, <2>2
  <2>5. views'[Order] # None
    BY <1>2, <2>1 DEF Refreshed, ViewsInv, Sources
  <2> QED BY <2>3, <2>4, <2>5 DEF ViewsInv
<1> QED BY <1>1, <1>2, FollowInvariant, PTL DEF Spec

\* Whatever the charge, the rates and the costs are, and whatever handlers and repairs made of
\* the entries, a merchant whose view has the payment and a refund of it has gained nothing from
\* the sale, as long as PaySuper's fee is a part of the amount.
THEOREM NoGain ==
    ASSUME \A f \in FactsOfOrder : f.psPercent <= 100
    PROVE  Spec => []NoGainFromRefund
<1>1. ASSUME FollowInv, ViewsInv PROVE NoGainFromRefund
  <2> SUFFICES ASSUME NEW o \in RefundOrders, views[o] # None, views[o].back # EmptyView,
                      views[Order].pay # EmptyView, facts.merchant >= facts.common,
                      ~facts.vatEnabled => facts.taxRate = 0
               PROVE  ReportSummary(views[Order].pay, views[o].back).revenue <= 0
    BY DEF NoGainFromRefund
  <2>1. PICK f : f = facts
    OBVIOUS
  <2>2. PICK p, b : /\ p = PaymentView(PaymentRevenue(f), PaymentFees(f))
                    /\ b = RefundView(RefundCosts(f, PaymentRevenue(f)),
                                      RefundTaxes(f, PaymentRevenue(f)))
    OBVIOUS
  <2>3. f \in Facts /\ f.psPercent <= 100
    BY <1>1, <2>1, RefundAssumption DEF FollowInv, TypeOK
  <2>4. p.net <= b.net /\ p \in Amounts /\ b \in Amounts
    BY <2>1, <2>2, <2>3, NetOfRefund, PaymentViewIsInts, RefundViewIsInts
  <2>5. views[o].back = b
    BY <1>1, <2>1, <2>2 DEF ViewsInv, Sources
  <2>6. views[Order].pay = p
    BY <1>1, <2>1, <2>2 DEF ViewsInv, Sources
  <2>7. ReportSummary(p, b).revenue = p.net - b.net
    BY DEF ReportSummary
  <2>8. p.net - b.net <= 0
    BY <2>4 DEF Amounts
  <2> QED BY <2>5, <2>6, <2>7, <2>8
<1> QED BY <1>1, FollowInvariant, ViewsInvariant, PTL

-----------------------------------------------------------------------------
(* One handler at a time, no failure and no repair: the views are right.   *)

AllRight == \A x \in Sources : booked[x] > 0 => RightView(x)

LEMMA NothingExcused ==
    ASSUME NEW s, ViewHeld(s), s.pc \notin {"notify", "book", "view"}
    PROVE  AllRight
BY DEF ViewHeld, AllRight

LEMMA RightIsHeld ==
    ASSUME AllRight, NEW s
    PROVE  ViewHeld(s)
BY DEF ViewHeld, AllRight

LEMMA SameBooks ==
    ASSUME UNCHANGED <<facts, order, refunds, refundOrders, booked, manual, views, gateway>>,
           NEW new, CountsStored, MarkStored, CountsHeld(new), MarkHeld(new), ViewHeld(new)
    PROVE  Quietly(new)'
<1>1. CountsStored' /\ CountsHeld(new)'
  BY DEF CountsStored, CountsHeld, Counts
<1>2. MarkStored' /\ MarkHeld(new)'
  BY DEF MarkStored, MarkHeld, StatusOf
<1>3. ASSUME NEW x, RightView(x) PROVE RightView(x)'
  BY <1>3 DEF RightView, StatusOf, Pay, Back
<1>4. ViewHeld(new)'
  BY <1>3 DEF ViewHeld
<1> QED BY <1>1, <1>2, <1>4 DEF Quietly

\* The view of x is still right if neither its entries nor its status are touched.
LEMMA RightStays ==
    ASSUME NEW x, RightView(x), facts' = facts, booked'[x] > 0 <=> booked[x] > 0,
           views'[x] = views[x], StatusOf(x)' = StatusOf(x)
    PROVE  RightView(x)'
<1>1. Pay(x)' = Pay(x) /\ Back(x)' = Back(x)
  BY DEF Pay, Back
<1> QED BY <1>1 DEF RightView

\* A refund is written back: what has entries keeps its mark.
LEMMA MarksStay ==
    ASSUME FollowInv, MarkStored, NEW id \in Refunds, NEW doc, refunds'[id] = doc,
           \A x \in Refunds : x # id => refunds'[x] = refunds[x],
           UNCHANGED <<facts, order, refundOrders, booked, manual, views>>,
           \A o \in RefundOrders : booked[o] > 0 /\ refundOrders[o] = id =>
              doc.status = "completed" /\ doc.chargeback = refunds[id].chargeback
    PROVE  MarkStored' /\ (AllRight => AllRight')
<1>1. ASSUME NEW o \in RefundOrders, booked[o] > 0
      PROVE  refundOrders[o] \in Refunds /\ refunds'[refundOrders[o]].status = "completed"
             /\ StatusOf(o)' = StatusOf(o)
  BY <1>1 DEF FollowInv, StoredInv, PaidBack, MarkStored, StatusOf
<1>2. MarkStored'
  BY <1>1 DEF MarkStored
<1>3. StatusOf(Order)' = StatusOf(Order)
  BY DEF StatusOf
<1>4. ASSUME AllRight, NEW x \in Sources, booked[x] > 0 PROVE RightView(x)'
  <2>1. StatusOf(x)' = StatusOf(x)
    BY <1>1, <1>3, <1>4 DEF Sources
  <2> QED BY <1>4, <2>1, RightStays DEF AllRight
<1> QED BY <1>2, <1>4 DEF AllRight

\* A refund is written back: still one counts.
LEMMA CountsStay ==
    ASSUME FollowInv, CountsStored, NEW id \in Refunds, NEW doc \in RefundDoc,
           refunds'[id] = doc, \A x \in Refunds : x # id => refunds'[x] = refunds[x],
           gateway' = gateway,
           doc.status \in Counted => Counts(id) \/ \A r \in Refunds : ~Counts(r),
           doc.status = "rejected" => gateway[id] = "none",
           doc.status = "declined" => gateway[id] = "declined"
    PROVE  CountsStored'
<1>1. \A r1, r2 \in Refunds : Counts(r1)' /\ Counts(r2)' => r1 = r2
  <2>1. \A x \in Refunds : x # id => (Counts(x)' <=> Counts(x))
    BY DEF Counts
  <2>2. Counts(id)' => Counts(id) \/ \A r \in Refunds : ~Counts(r)
    BY DEF Counts
  <2> QED BY <2>1, <2>2 DEF CountsStored
<1>2. \A r \in Refunds : refunds'[r] # None =>
        /\ refunds'[r].status = "rejected" => gateway[r] = "none"
        /\ refunds'[r].status = "declined" => gateway[r] = "declined"
  BY DEF CountsStored
<1> QED BY <1>1, <1>2 DEF CountsStored

\* The handler of p is the only one.
LEMMA MovedIs ==
    ASSUME FollowInv, NEW p \in Workers, NEW new, Moves(p, new), Quietly(new)'
    PROVE  Quietly(w[p])'
<1>1. w'[p] = new
  BY MovesTo DEF FollowInv, TypeOK
<1> QED BY <1>1

LEMMA CreateRefundQuietly ==
    ASSUME FollowInv, NEW p \in Workers, NEW c \in BOOLEAN, CreateRefund(p, c), Quietly(w[p])
    PROVE  Quietly(w[p])'
<1>1. PICK new : Moves(p, new) /\ new.pc = "sum"
  BY CreateRefundIs
<1>2. UNCHANGED <<facts, order, refunds, refundOrders, booked, manual, views, gateway>>
  BY DEF CreateRefund, docs, books
<1>3. CountsHeld(new) /\ MarkHeld(new)
  BY <1>1 DEF CountsHeld, MarkHeld
<1>4. ViewHeld(new)
  BY NothingExcused, RightIsHeld DEF CreateRefund, Quietly
<1> QED BY <1>1, <1>2, <1>3, <1>4, SameBooks, MovedIs DEF Quietly

LEMMA ReturnQuietly ==
    ASSUME FollowInv, NEW p \in Workers, Return(p), CountsStored, MarkStored, AllRight,
           UNCHANGED <<facts, order, refunds, refundOrders, booked, manual, views, gateway>>
    PROVE  Quietly(w[p])'
<1>1. Moves(p, Idle) /\ Idle.pc = "idle"
  BY IdleIsWorker DEF Return, Moves
<1>2. CountsHeld(Idle) /\ MarkHeld(Idle) /\ ViewHeld(Idle)
  BY <1>1, RightIsHeld DEF CountsHeld, MarkHeld
<1> QED BY <1>1, <1>2, SameBooks, MovedIs

LEMMA ProcessRefundsByOrderQuietly ==
    ASSUME FollowInv, NEW p \in Workers, ProcessRefundsByOrder(p), Quietly(w[p])
    PROVE  Quietly(w[p])'
<1>1. UNCHANGED <<facts, order, refunds, refundOrders, booked, manual, views, gateway>>
  BY DEF ProcessRefundsByOrder, docs, books
<1>2. CountsStored /\ MarkStored /\ AllRight
  BY NothingExcused DEF ProcessRefundsByOrder, Quietly
<1>3. CASE Return(p)
  BY <1>1, <1>2, <1>3, ReturnQuietly
<1>4. CASE ~Return(p)
  <2>1. Goto(p, "insert") /\ "insert" \in PCs /\ ~(GetAmountByOrderId > 0)
    BY <1>4 DEF ProcessRefundsByOrder, PCs
  <2>2. PICK new : Moves(p, new) /\ new.pc = "insert"
    BY <2>1, GotoIs
  <2>3. \A r \in Refunds : ~Counts(r)
    BY <2>1, SumIsZero DEF Counts
  <2>4. CountsHeld(new) /\ MarkHeld(new)
    BY <2>2, <2>3 DEF CountsHeld, MarkHeld
  <2> QED BY <1>1, <1>2, <2>2, <2>4, RightIsHeld, SameBooks, MovedIs
<1> QED BY <1>3, <1>4

LEMMA ProcessCreateRefundQuietly ==
    ASSUME FollowInv, NEW p \in Workers, ProcessCreateRefund(p), Quietly(w[p])
    PROVE  Quietly(w[p])'
<1>a. PICK new : \E r \in Refunds :
        /\ Moves(p, new) /\ new.pc = "send"
        /\ refunds[r] = None /\ gateway[r] = "none" /\ refunds'[r] = w[p].doc
        /\ \A x \in Refunds : x # r => refunds'[x] = refunds[x]
        /\ w[p].pc = "insert" /\ w[p].doc \in RefundDoc /\ w[p].doc.status = "created"
  BY ProcessCreateRefundIs
<1>1. PICK r \in Refunds :
        /\ Moves(p, new) /\ new.pc = "send"
        /\ refunds[r] = None /\ gateway[r] = "none" /\ refunds'[r] = w[p].doc
        /\ \A x \in Refunds : x # r => refunds'[x] = refunds[x]
        /\ w[p].pc = "insert" /\ w[p].doc \in RefundDoc /\ w[p].doc.status = "created"
  BY <1>a
<1>2. UNCHANGED <<facts, order, refundOrders, booked, manual, views>> /\ gateway' = gateway
  BY DEF ProcessCreateRefund, books
<1>3. CountsStored /\ MarkStored /\ AllRight /\ \A x \in Refunds : ~Counts(x)
  BY <1>1, NothingExcused DEF Quietly, CountsHeld
<1>4. CountsStored'
  BY <1>1, <1>2, <1>3, CountsStay
<1>5. \A o \in RefundOrders : booked[o] > 0 => refundOrders[o] # r
  BY <1>1 DEF FollowInv, StoredInv, PaidBack
<1>6. MarkStored' /\ AllRight'
  BY <1>1, <1>2, <1>3, <1>5, MarksStay
<1>7. CountsHeld(new)' /\ MarkHeld(new)'
  BY <1>1 DEF CountsHeld, MarkHeld
<1>8. ViewHeld(new)'
  BY <1>6 DEF ViewHeld, AllRight
<1> QED BY <1>1, <1>4, <1>6, <1>7, <1>8, MovedIs DEF Quietly

LEMMA CardPayCreateRefundQuietly ==
    ASSUME FollowInv, OnceAndLive, NEW p \in Workers, CardPayCreateRefund(p), Quietly(w[p]),
           failures' = failures
    PROVE  Quietly(w[p])'
<1>1. PICK new :
        /\ Moves(p, new) /\ new.pc = "answer" /\ new.id = w[p].id
        /\ w[p].pc = "send" /\ w[p].id \in Refunds /\ gateway[w[p].id] = "none"
        /\ \A r \in Refunds : r # w[p].id => gateway'[r] = gateway[r]
        /\ \/ gateway'[w[p].id] = "accepted" /\ new.doc.status = "inprogress"
           \/ gateway'[w[p].id] = "none" /\ new.doc.status = "rejected"
  <2>1. failures \in Int
    BY BoundsTyped
  <2>2. failures' # failures + 1
    BY <2>1
  <2> QED BY <2>2, CardPayCreateRefundIs
<1>2. UNCHANGED <<facts, order, refunds, refundOrders, booked, manual, views>>
  BY DEF CardPayCreateRefund, docs, books
<1>3. CountsStored /\ MarkStored /\ AllRight
  BY <1>1, NothingExcused DEF Quietly
<1>4. refunds[w[p].id].status = "created"
  BY <1>1 DEF OnceAndLive, Copied
<1>5. CountsStored'
  BY <1>1, <1>2, <1>3, <1>4 DEF CountsStored, Counts
<1>6. MarkStored'
  BY <1>2, <1>3 DEF MarkStored, StatusOf
<1>7. AllRight'
  BY <1>2, <1>3 DEF AllRight, RightView, StatusOf, Pay, Back
<1>8. CountsHeld(new)' /\ MarkHeld(new)'
  BY <1>1, <1>2, <1>4 DEF CountsHeld, MarkHeld
<1>9. ViewHeld(new)'
  BY <1>7 DEF ViewHeld, AllRight
<1> QED BY <1>1, <1>5, <1>6, <1>8, <1>9, MovedIs DEF Quietly

LEMMA StoreAnswerQuietly ==
    ASSUME FollowInv, NEW p \in Workers, StoreAnswer(p), Quietly(w[p])
    PROVE  Quietly(w[p])'
<1>1. PICK s : s = w[p]
  OBVIOUS
<1>2. s \in Worker /\ Handling(s) /\ s.pc = "answer" /\ Quietly(s)
  BY <1>1, HeldBy DEF StoreAnswer
<1>3. /\ s.doc \in RefundDoc /\ s.id \in Refunds /\ refunds[s.id] # None
      /\ refunds[s.id].status = "created" /\ s.doc.status \in {"rejected", "inprogress"}
      /\ s.doc.status = "rejected" => gateway[s.id] = "none"
  BY <1>2 DEF Handling, Creating, Quietly, CountsHeld
<1>4. /\ refunds' = [refunds EXCEPT ![s.id] = s.doc] /\ Return(p)
      /\ UNCHANGED <<facts, order, refundOrders, booked, manual, views>> /\ gateway' = gateway
  BY <1>1 DEF StoreAnswer, books
<1>5. refunds'[s.id] = s.doc /\ \A x \in Refunds : x # s.id => refunds'[x] = refunds[x]
  BY <1>3, <1>4 DEF FollowInv, TypeOK
<1>6. CountsStored /\ MarkStored /\ AllRight /\ Counts(s.id)
  BY <1>2, <1>3, NothingExcused DEF Quietly, Counts, Counted
<1>7. CountsStored'
  BY <1>3, <1>4, <1>5, <1>6, CountsStay
<1>8. \A o \in RefundOrders : booked[o] > 0 => refundOrders[o] # s.id
  BY <1>3, <1>6 DEF MarkStored
<1>9. MarkStored' /\ AllRight'
  BY <1>3, <1>4, <1>5, <1>6, <1>8, MarksStay
<1>10. Moves(p, Idle) /\ Idle.pc = "idle"
  BY <1>4, IdleIsWorker DEF Return, Moves
<1>11. CountsHeld(Idle)' /\ MarkHeld(Idle)'
  BY <1>10 DEF CountsHeld, MarkHeld
<1>12. ViewHeld(Idle)'
  BY <1>9 DEF ViewHeld, AllRight
<1> QED BY <1>7, <1>9, <1>10, <1>11, <1>12, MovedIs DEF Quietly

LEMMA CallbackQuietly ==
    ASSUME FollowInv, NEW p \in Workers, NEW r \in Refunds, Callback(p, r), Quietly(w[p]),
           failures' = failures
    PROVE  Quietly(w[p])'
<1>1. PICK new : CalledBack(p, r, new)
  BY CallbackIs
<1>2. /\ Moves(p, new) /\ new.pc = "read" /\ new.id = r /\ new.doc = refunds[r]
      /\ gateway[r] \in {"accepted", "completed", "declined"}
      /\ new.answer = "refused" => failures' = failures + 1
  BY <1>1, Zenon DEF CalledBack
<1>3. failures \in Int
  BY BoundsTyped
<1>4. new.answer # "refused"
  BY <1>2, <1>3
<1>5. UNCHANGED <<facts, order, refunds, refundOrders, booked, manual, views, gateway>>
  BY DEF Callback, docs, books
<1>6. CountsStored /\ MarkStored /\ AllRight
  BY NothingExcused DEF Callback, Quietly
<1>7. CountsHeld(new) /\ MarkHeld(new)
  BY <1>2, <1>4 DEF CountsHeld, MarkHeld
<1> QED BY <1>2, <1>5, <1>6, <1>7, RightIsHeld, SameBooks, MovedIs

LEMMA ReadOrderQuietly ==
    ASSUME FollowInv, NEW p \in Workers, ReadOrder(p), Quietly(w[p])
    PROVE  Quietly(w[p])'
<1>1. PICK new : /\ Moves(p, new) /\ new.pc = "store" /\ new.id = w[p].id
                 /\ new.answer = w[p].answer /\ new.ord = order
                 /\ new.doc.status = ProcessRefund(w[p].answer, w[p].doc.status)
  BY ReadOrderIs
<1>2. w[p].pc = "read"
  BY DEF ReadOrder
<1>3. UNCHANGED <<facts, order, refunds, refundOrders, booked, manual, views, gateway>>
  BY DEF ReadOrder, docs, books
<1>4. CountsStored /\ MarkStored /\ AllRight
  BY <1>2, NothingExcused DEF Quietly
<1>5. CountsHeld(new) /\ MarkHeld(new)
  BY <1>1, <1>2 DEF CountsHeld, MarkHeld, Quietly, ProcessRefund
<1> QED BY <1>1, <1>3, <1>4, <1>5, RightIsHeld, SameBooks, MovedIs

\* A refund with entries is written back as it was.
LEMMA EntriesHaveAnswer ==
    ASSUME FollowInv, MarkStored, NEW s \in Worker, Handling(s), CountsHeld(s), s.pc = "store",
           NEW o \in RefundOrders, booked[o] > 0, refundOrders[o] = s.id
    PROVE  s.doc.status = "completed"
<1>1. gateway[s.id] = "completed" /\ refunds[s.id].status = "completed"
  BY DEF FollowInv, StoredInv, PaidBack, MarkStored
<1>2. /\ s.answer # "refused" /\ (s.answer = "pending" => s.doc.status = refunds[s.id].status)
      /\ s.answer \in {"completed", "declined"} =>
           gateway[s.id] = s.answer /\ s.doc.status = s.answer
      /\ s.answer \in {"completed", "declined", "pending", "refused"}
  BY DEF CountsHeld, Handling, Answering, Ordering, Worker
<1> QED BY <1>1, <1>2

LEMMA StoreStatusQuietly ==
    ASSUME FollowInv, OnceAndLive, NEW p \in Workers, StoreStatus(p), Quietly(w[p])
    PROVE  Quietly(w[p])'
<1>1. PICK s : s = w[p]
  OBVIOUS
<1>2. s \in Worker /\ Handling(s) /\ s.pc = "store" /\ Copied(s) /\ Quietly(s)
  BY <1>1, HeldBy DEF StoreStatus, OnceAndLive
<1>3. /\ s.doc \in RefundDoc /\ s.id \in Refunds /\ refunds[s.id] # None
      /\ s.doc.chargeback = refunds[s.id].chargeback /\ s.ord = order
      /\ s.answer \in {"completed", "declined", "pending"} /\ gateway[s.id] # "none"
      /\ s.answer \in {"completed", "declined"} =>
           gateway[s.id] = s.answer /\ s.doc.status = s.answer
      /\ s.answer = "pending" => s.doc.status = refunds[s.id].status
  BY <1>2 DEF Handling, Answering, Ordering, Copied, Quietly, CountsHeld, MarkHeld, Worker
<1>4. /\ refunds' = [refunds EXCEPT ![s.id] = s.doc]
      /\ Return(p) \/ Goto(p, AfterStatus(s.doc))
      /\ UNCHANGED <<facts, order, refundOrders, booked, manual, views>> /\ gateway' = gateway
  BY <1>1 DEF StoreStatus, books
<1>5. refunds'[s.id] = s.doc /\ \A x \in Refunds : x # s.id => refunds'[x] = refunds[x]
  BY <1>3, <1>4 DEF FollowInv, TypeOK
<1>6. CountsStored /\ MarkStored /\ AllRight
  BY <1>2, NothingExcused DEF Quietly
<1>7. CountsStored'
  <2>1. refunds[s.id].status \in Statuses
    BY <1>3 DEF FollowInv, TypeOK, RefundDoc
  <2>2. s.doc.status \in Counted => Counts(s.id)
    BY <1>3, <1>6, <2>1 DEF CountsStored, Counts, Counted, Statuses
  <2>3. s.doc.status = "rejected" => gateway[s.id] = "none"
    BY <1>3, <1>6 DEF CountsStored
  <2>4. s.doc.status = "declined" => gateway[s.id] = "declined"
    BY <1>3, <1>6 DEF CountsStored
  <2> QED BY <1>3, <1>4, <1>5, <1>6, <2>2, <2>3, <2>4, CountsStay
<1>8. \A o \in RefundOrders : booked[o] > 0 /\ refundOrders[o] = s.id =>
        s.doc.status = "completed" /\ s.doc.chargeback = refunds[s.id].chargeback
  BY <1>2, <1>3, <1>6, EntriesHaveAnswer DEF Quietly
<1>9. MarkStored' /\ AllRight'
  BY <1>3, <1>4, <1>5, <1>6, <1>8, MarksStay
<1>10. PICK new : /\ Moves(p, new) /\ new.pc \in {"idle", "allow", "copy", "link"}
                  /\ new.pc # "idle" => new.id = s.id /\ new.doc = s.doc /\ new.ord = s.ord
  <2>1. CASE Return(p)
    BY <2>1, IdleIsWorker DEF Return, Moves
  <2>2. CASE Goto(p, AfterStatus(s.doc))
    <3>1. PICK pc : pc = AfterStatus(s.doc)
      OBVIOUS
    <3>2. pc \in {"allow", "copy", "link"} /\ pc \in PCs
      BY <3>1 DEF AfterStatus, PCs
    <3> QED BY <1>1, <2>2, <3>1, <3>2, GotoIs
  <2> QED BY <1>4, <2>1, <2>2
<1>11. CountsHeld(new)' /\ MarkHeld(new)'
  BY <1>3, <1>4, <1>5, <1>10 DEF CountsHeld, MarkHeld
<1>12. ViewHeld(new)'
  BY <1>9 DEF ViewHeld, AllRight
<1> QED BY <1>7, <1>9, <1>10, <1>11, <1>12, MovedIs DEF Quietly

LEMMA CreateOrderByRefundQuietly ==
    ASSUME FollowInv, NEW p \in Workers, CreateOrderByRefund(p), Quietly(w[p])
    PROVE  Quietly(w[p])'
<1>a. PICK new : \E o \in RefundOrders :
        /\ Moves(p, new) /\ new.pc = "link" /\ new.id = w[p].id
        /\ new.doc.status = w[p].doc.status /\ w[p].pc = "copy" /\ refundOrders[o] = None
        /\ \A x \in RefundOrders : x # o => refundOrders'[x] = refundOrders[x]
  BY CreateOrderByRefundIs
<1>1. PICK o \in RefundOrders :
        /\ Moves(p, new) /\ new.pc = "link" /\ new.id = w[p].id
        /\ new.doc.status = w[p].doc.status /\ w[p].pc = "copy" /\ refundOrders[o] = None
        /\ \A x \in RefundOrders : x # o => refundOrders'[x] = refundOrders[x]
  BY <1>a
<1>2. UNCHANGED <<facts, order, refunds, booked, manual, views>> /\ gateway' = gateway
  BY DEF CreateOrderByRefund, books
<1>3. CountsStored /\ MarkStored /\ AllRight
  BY <1>1, NothingExcused DEF Quietly
<1>4. \A x \in RefundOrders : booked[x] > 0 => refundOrders'[x] = refundOrders[x]
  BY <1>1, NoneIsNoOrder DEF FollowInv, StoredInv, PaidBack
<1>5. \A x \in Sources : booked[x] > 0 => StatusOf(x)' = StatusOf(x)
  BY <1>2, <1>4 DEF StatusOf, Sources
<1>6. MarkStored'
  BY <1>2, <1>3, <1>4, <1>5 DEF MarkStored, Sources
<1>7. AllRight'
  BY <1>2, <1>3, <1>5, RightStays DEF AllRight
<1>8. CountsStored'
  BY <1>2, <1>3 DEF CountsStored, Counts
<1>9. CountsHeld(new)' /\ MarkHeld(new)'
  BY <1>1, <1>2 DEF CountsHeld, MarkHeld, Quietly
<1>10. ViewHeld(new)'
  BY <1>7 DEF ViewHeld, AllRight
<1> QED BY <1>1, <1>6, <1>8, <1>9, <1>10, MovedIs DEF Quietly

LEMMA AllowRefundQuietly ==
    ASSUME FollowInv, NEW p \in Workers, AllowRefund(p), Quietly(w[p])
    PROVE  Quietly(w[p])'
<1>1. PICK s : s = w[p]
  OBVIOUS
<1>2. s.pc = "allow" /\ Quietly(s)
  BY <1>1 DEF AllowRefund
<1>3. s.ord = order /\ s.doc.status = refunds[s.id].status
  BY <1>2 DEF Quietly, MarkHeld, CountsHeld
<1>4. /\ UNCHANGED <<facts, refunds, refundOrders, booked, manual, views>> /\ gateway' = gateway
      /\ order' = [order EXCEPT !.allowed = TRUE]
      /\ Goto(p, "allowView") /\ "allowView" \in PCs
  BY <1>1, <1>3 DEF AllowRefund, books, PCs
<1>5. order'.status = order.status
  BY <1>4 DEF FollowInv, TypeOK, OrderDoc
<1>6. CountsStored /\ MarkStored /\ AllRight
  BY <1>2, NothingExcused DEF Quietly
<1>7. \A x : StatusOf(x)' = StatusOf(x)
  BY <1>4, <1>5 DEF StatusOf
<1>8. MarkStored'
  BY <1>4, <1>5, <1>6, <1>7 DEF MarkStored
<1>9. AllRight'
  BY <1>4, <1>6, <1>7, RightStays DEF AllRight
<1>10. CountsStored'
  BY <1>4, <1>6 DEF CountsStored, Counts
<1>11. PICK new : Moves(p, new) /\ new.pc = "allowView" /\ new.id = s.id /\ new.doc = s.doc
  BY <1>1, <1>4, GotoIs
<1>12. CountsHeld(new)' /\ MarkHeld(new)'
  BY <1>3, <1>4, <1>11 DEF CountsHeld, MarkHeld
<1>13. ViewHeld(new)'
  BY <1>9 DEF ViewHeld, AllRight
<1> QED BY <1>8, <1>10, <1>11, <1>12, <1>13, MovedIs DEF Quietly

LEMMA AllowRefundViewQuietly ==
    ASSUME FollowInv, NEW p \in Workers, AllowRefundView(p), Quietly(w[p])
    PROVE  Quietly(w[p])'
<1>1. PICK s : s = w[p]
  OBVIOUS
<1>2. s.pc = "allowView" /\ Quietly(s)
  BY <1>1 DEF AllowRefundView
<1>3. /\ UpdateOrderView({Order}) /\ Goto(p, "link") /\ "link" \in PCs
      /\ UNCHANGED <<facts, order, refunds, refundOrders, booked, manual, gateway>>
  BY DEF AllowRefundView, docs, PCs
<1>4. \A x : StatusOf(x)' = StatusOf(x) /\ Pay(x)' = Pay(x) /\ Back(x)' = Back(x)
  BY <1>3 DEF StatusOf, Pay, Back
<1>5. CountsStored /\ MarkStored /\ AllRight /\ s.doc.status = refunds[s.id].status
  BY <1>2, NothingExcused DEF Quietly, CountsHeld
<1>6. AllRight'
  <2> SUFFICES ASSUME NEW x \in Sources, booked[x] > 0
               PROVE  RightView(x)'
    BY <1>3 DEF AllRight
  <2>1. CASE x = Order
    <3>1. views'[x] = [status |-> StatusOf(x), pay |-> Pay(x), back |-> Back(x)]
      BY <1>3, <2>1 DEF UpdateOrderView, Sources
    <3> QED BY <1>4, <3>1 DEF RightView
  <2>2. CASE x # Order
    <3>1. views'[x] = views[x]
      BY <1>3, <2>2 DEF UpdateOrderView
    <3>2. RightView(x)
      BY <1>5 DEF AllRight
    <3> QED BY <1>4, <3>1, <3>2 DEF RightView
  <2> QED BY <2>1, <2>2
<1>7. CountsStored' /\ MarkStored'
  BY <1>3, <1>4, <1>5 DEF CountsStored, Counts, MarkStored
<1>8. PICK new : Moves(p, new) /\ new.pc = "link" /\ new.id = s.id /\ new.doc = s.doc
  BY <1>1, <1>3, GotoIs
<1>9. CountsHeld(new)' /\ MarkHeld(new)'
  BY <1>3, <1>5, <1>8 DEF CountsHeld, MarkHeld
<1>10. ViewHeld(new)'
  BY <1>6 DEF ViewHeld, AllRight
<1> QED BY <1>7, <1>8, <1>9, <1>10, MovedIs DEF Quietly

LEMMA LinkOrderQuietly ==
    ASSUME FollowInv, OnceAndLive, NEW p \in Workers, LinkOrder(p), Quietly(w[p])
    PROVE  Quietly(w[p])'
<1>1. PICK s : s = w[p]
  OBVIOUS
<1>2. s \in Worker /\ Handling(s) /\ s.pc = "link" /\ Copied(s) /\ Quietly(s)
  BY <1>1, HeldBy DEF LinkOrder, OnceAndLive
<1>3. /\ s.doc \in RefundDoc /\ s.id \in Refunds /\ refunds[s.id] # None
      /\ s.doc.chargeback = refunds[s.id].chargeback /\ s.doc.status = refunds[s.id].status
  BY <1>2 DEF Handling, Answering, Copied, Quietly, CountsHeld
<1>4. /\ refunds' = [refunds EXCEPT ![s.id] = s.doc]
      /\ Return(p) \/ Goto(p, "amount")
      /\ UNCHANGED <<facts, order, refundOrders, booked, manual, views>> /\ gateway' = gateway
  BY <1>1 DEF LinkOrder, books
<1>5. refunds'[s.id] = s.doc /\ \A x \in Refunds : x # s.id => refunds'[x] = refunds[x]
  BY <1>3, <1>4 DEF FollowInv, TypeOK
<1>6. CountsStored /\ MarkStored /\ AllRight
  BY <1>2, NothingExcused DEF Quietly
<1>7. CountsStored'
  <2>1. /\ s.doc.status \in Counted => Counts(s.id)
        /\ s.doc.status = "rejected" => gateway[s.id] = "none"
        /\ s.doc.status = "declined" => gateway[s.id] = "declined"
    BY <1>3, <1>6 DEF CountsStored, Counts
  <2> QED BY <1>3, <1>4, <1>5, <1>6, <2>1, CountsStay
<1>8. \A o \in RefundOrders : booked[o] > 0 /\ refundOrders[o] = s.id =>
        s.doc.status = "completed" /\ s.doc.chargeback = refunds[s.id].chargeback
  BY <1>3, <1>6 DEF MarkStored
<1>9. MarkStored' /\ AllRight'
  BY <1>3, <1>4, <1>5, <1>6, <1>8, MarksStay
<1>10. PICK new : /\ Moves(p, new) /\ new.pc \in {"idle", "amount"}
                  /\ new.pc # "idle" => new.id = s.id /\ new.doc = s.doc
  <2>1. CASE Return(p)
    BY <2>1, IdleIsWorker DEF Return, Moves
  <2>2. CASE Goto(p, "amount")
    <3>1. "amount" \in PCs
      BY DEF PCs
    <3> QED BY <1>1, <2>2, <3>1, GotoIs
  <2> QED BY <1>4, <2>1, <2>2
<1>11. CountsHeld(new)' /\ MarkHeld(new)'
  BY <1>5, <1>10 DEF CountsHeld, MarkHeld
<1>12. ViewHeld(new)'
  BY <1>9 DEF ViewHeld, AllRight
<1> QED BY <1>7, <1>9, <1>10, <1>11, <1>12, MovedIs DEF Quietly

LEMMA CheckAmountQuietly ==
    ASSUME FollowInv, NEW p \in Workers, CheckAmount(p), Quietly(w[p]), failures' = failures
    PROVE  Quietly(w[p])'
<1>1. PICK new :
        /\ Moves(p, new) /\ new.id = w[p].id /\ new.doc = w[p].doc
        /\ new.answer = w[p].answer
        /\ \/ /\ new.pc = "mark" /\ GetAmountByOrderId = 1 /\ UNCHANGED failures
              /\ new.ord = [status |-> IF w[p].doc.chargeback THEN "chargeback" ELSE "refunded",
                            allowed |-> FALSE]
           \/ /\ new.pc = "notify" /\ new.src = w[p].doc.created
              /\ GetAmountByOrderId # 1 \/ failures' = failures + 1
        /\ failures' \in 0 .. MaxFailures
  BY CheckAmountIs
<1>2. UNCHANGED <<facts, order, refunds, refundOrders, booked, manual, views, gateway>>
  BY DEF CheckAmount, docs, books
<1>3. PICK s : s = w[p]
  OBVIOUS
<1>4. s \in Worker /\ Handling(s) /\ s.pc = "amount" /\ Quietly(s)
  BY <1>3, HeldBy DEF CheckAmount
<1>5. /\ s.id \in Refunds /\ refunds[s.id] # None /\ s.doc.status = "completed"
      /\ refunds[s.id].status = "completed"
  BY <1>4 DEF Handling, Answering, Deciding, Quietly, CountsHeld
<1>6. CountsStored /\ MarkStored /\ AllRight
  BY <1>4, NothingExcused DEF Quietly
<1>7. GetAmountByOrderId = 1
  <2>1. \A r \in Refunds : Counts(r) <=> r = s.id
    BY <1>5, <1>6 DEF CountsStored, Counts, Counted
  <2>2. {r \in Refunds : refunds[r] # None
                         /\ refunds[r].status \in {"created", "inprogress", "completed"}} = {s.id}
    BY <1>5, <2>1 DEF Counts, Counted
  <2> QED BY <2>2, FS_Singleton DEF GetAmountByOrderId
<1>8. failures \in Int
  BY BoundsTyped
<1>9. new.pc = "mark" /\ new.ord.status = IF s.doc.chargeback THEN "chargeback" ELSE "refunded"
  BY <1>1, <1>3, <1>7, <1>8
<1>10. CountsHeld(new) /\ MarkHeld(new)
  BY <1>1, <1>3, <1>5, <1>9 DEF CountsHeld, MarkHeld
<1> QED BY <1>1, <1>2, <1>6, <1>10, RightIsHeld, SameBooks, MovedIs

LEMMA MarkOrderQuietly ==
    ASSUME FollowInv, OnceAndLive, NEW p \in Workers, MarkOrder(p), Quietly(w[p]),
           failures' = failures
    PROVE  Quietly(w[p])'
<1>1. PICK new : /\ Moves(p, new) /\ new.id = w[p].id /\ new.doc = w[p].doc
                 /\ new.pc = "notify" /\ new.src = w[p].doc.created
                 /\ PaidBack(new.src) /\ refundOrders[new.src] = w[p].id
  BY MarkOrderIs
<1>2. PICK s : s = w[p]
  OBVIOUS
<1>3. s \in Worker /\ Handling(s) /\ s.pc = "mark" /\ Copied(s) /\ Quietly(s)
  BY <1>2, HeldBy DEF MarkOrder, OnceAndLive
<1>4. PICK o : o = new.src
  OBVIOUS
<1>5. /\ s.id \in Refunds /\ refunds[s.id] # None /\ s.doc.status = "completed"
      /\ refunds[s.id].status = "completed" /\ s.doc = refunds[s.id]
      /\ o \in RefundOrders /\ refundOrders[o] = s.id /\ PaidBack(o)
      /\ s.ord.status = IF s.doc.chargeback THEN "chargeback" ELSE "refunded"
  BY <1>1, <1>2, <1>3, <1>4
     DEF Handling, Answering, Deciding, Quietly, CountsHeld, MarkHeld, Copied, PaidBack
<1>6. failures \in Int
  BY BoundsTyped
<1>7. order' = s.ord
  BY <1>2, <1>6 DEF MarkOrder
<1>8. /\ UNCHANGED <<facts, refunds, refundOrders, booked, manual, views>> /\ gateway' = gateway
      /\ booked' = booked
  BY DEF MarkOrder, books
<1>9. CountsStored /\ MarkStored /\ AllRight
  BY <1>3, NothingExcused DEF Quietly
<1>10. \A x \in RefundOrders : StatusOf(x)' = StatusOf(x)
  BY <1>8, NoneIsNoOrder DEF StatusOf
<1>11. \A x \in RefundOrders : refundOrders[x] = s.id => StatusOf(x) = s.ord.status
  BY <1>5, NoneIsNoOrder DEF StatusOf
<1>12. \A x \in RefundOrders : booked[x] > 0 =>
         refundOrders[x] = s.id /\ refunds[refundOrders[x]].status = "completed"
  <2> SUFFICES ASSUME NEW x \in RefundOrders, booked[x] > 0
               PROVE  refundOrders[x] = s.id /\ refunds[refundOrders[x]].status = "completed"
    OBVIOUS
  <2>1. refundOrders[x] \in Refunds /\ gateway[refundOrders[x]] = "completed"
    BY DEF FollowInv, StoredInv, PaidBack
  <2>2. refunds[refundOrders[x]] # None /\ refunds[refundOrders[x]].status = "completed"
    BY <1>9, <2>1 DEF FollowInv, StoredInv, MarkStored
  <2> QED BY <1>5, <1>9, <2>1, <2>2 DEF CountsStored, Counts, Counted
<1>13. MarkStored'
  BY <1>7, <1>8, <1>9, <1>10, <1>11, <1>12 DEF MarkStored
<1>14. CountsStored'
  BY <1>8, <1>9 DEF CountsStored, Counts
<1>15. CountsHeld(new)'
  BY <1>1 DEF CountsHeld
<1>16. MarkHeld(new)'
  BY <1>1, <1>4, <1>5, <1>7, <1>8, <1>10, <1>11 DEF MarkHeld
<1>17. ViewHeld(new)'
  <2> SUFFICES ASSUME NEW x \in Sources, booked[x] > 0, ~(booked[o] = 0 /\ x = Order)
               PROVE  RightView(x)'
    BY <1>1, <1>4, <1>8 DEF ViewHeld
  <2>1. StatusOf(x)' = StatusOf(x)
    <3>1. CASE x \in RefundOrders
      BY <1>10, <3>1
    <3>2. CASE x = Order
      <4>1. booked[o] > 0
        BY <1>5, <3>2 DEF FollowInv, TypeOK, Sources
      <4>2. order.status = order'.status
        BY <1>5, <1>7, <1>9, <1>11, <4>1 DEF MarkStored
      <4> QED BY <3>2, <4>2 DEF StatusOf
    <3> QED BY <3>1, <3>2 DEF Sources
  <2> QED BY <1>8, <1>9, <2>1, RightStays DEF AllRight
<1> QED BY <1>1, <1>13, <1>14, <1>15, <1>16, <1>17, MovedIs DEF Quietly

LEMMA ProcessRefundEventQuietly ==
    ASSUME FollowInv, NEW p \in Workers, ProcessRefundEvent(p), Quietly(w[p])
    PROVE  Quietly(w[p])'
<1>1. PICK s : s = w[p]
  OBVIOUS
<1>2. s \in Worker /\ Handling(s) /\ s.pc = "notify" /\ Quietly(s)
  BY <1>1, HeldBy DEF ProcessRefundEvent
<1>3. PaidBack(s.src) /\ s.src \in Sources /\ s.src # Order
  BY <1>2, NoneIsNoOrder DEF Handling, Booking, PaidBack, Sources
<1>4. UNCHANGED <<facts, order, refunds, refundOrders, booked, manual, views, gateway>>
  BY DEF ProcessRefundEvent, docs, books
<1>5. GetByObjectSource(s.src) <=> booked[s.src] > 0
  BY <1>2, <1>3 DEF GetByObjectSource, Quietly, MarkStored, FollowInv, TypeOK
<1>6. ApplyObjectSource(Order)
  BY <1>2 DEF ApplyObjectSource, Quietly, MarkStored
<1>7. CASE booked[s.src] > 0
  <2>1. AllRight
    BY <1>2, <1>7 DEF AllRight, Quietly, ViewHeld
  <2>2. Return(p)
    BY <1>1, <1>5, <1>7 DEF ProcessRefundEvent
  <2> QED BY <1>2, <1>4, <2>1, <2>2, ReturnQuietly DEF Quietly
<1>8. CASE ~(booked[s.src] > 0)
  <2>1. Goto(p, "book") /\ "book" \in PCs
    BY <1>1, <1>5, <1>6, <1>8 DEF ProcessRefundEvent, PCs
  <2>2. PICK new : Moves(p, new) /\ new.pc = "book" /\ new.src = s.src
    BY <1>1, <2>1, GotoIs
  <2>3. CountsHeld(new) /\ MarkHeld(new)
    BY <1>2, <1>3, <2>2 DEF CountsHeld, MarkHeld, Quietly
  <2>4. ViewHeld(new)
    BY <1>2, <2>2 DEF ViewHeld, Quietly
  <2> QED BY <1>2, <1>4, <2>2, <2>3, <2>4, SameBooks, MovedIs DEF Quietly
<1> QED BY <1>7, <1>8

LEMMA SaveEntriesQuietly ==
    ASSUME FollowInv, NEW p \in Workers, SaveEntries(p), Quietly(w[p])
    PROVE  Quietly(w[p])'
<1>1. PICK s : s = w[p]
  OBVIOUS
<1>2. s \in Worker /\ Handling(s) /\ s.pc = "book" /\ Quietly(s)
  BY <1>1, HeldBy DEF SaveEntries
<1>3. PaidBack(s.src) /\ s.src \in Sources /\ s.src # Order
  BY <1>2, NoneIsNoOrder DEF Handling, Booking, PaidBack, Sources, Quietly, MarkHeld
<1>4. booked' = [booked EXCEPT ![s.src] = @ + 1] /\ booked \in [Sources -> Nat]
  BY <1>1 DEF SaveEntries, MultipleInsert, FollowInv, TypeOK
<1>5. booked'[s.src] = booked[s.src] + 1 /\ \A x \in Sources : x # s.src => booked'[x] = booked[x]
  BY <1>3, <1>4
<1>6. UNCHANGED <<facts, order, refunds, refundOrders, manual, views>> /\ gateway' = gateway
  BY DEF SaveEntries, docs
<1>7. \A x : StatusOf(x)' = StatusOf(x)
  BY <1>6 DEF StatusOf
<1>8. "view" \in PCs /\ Goto(p, "view")
  BY DEF SaveEntries, PCs
<1>9. PICK new : Moves(p, new) /\ new.pc = "view" /\ new.src = s.src
  BY <1>1, <1>8, GotoIs
<1>10. CountsStored'
  BY <1>2, <1>6 DEF Quietly, CountsStored, Counts
<1>11. MarkStored'
  <2>1. booked'[Order] = 1
    BY <1>2, <1>3, <1>5 DEF Quietly, MarkStored, Sources
  <2>2. ASSUME NEW o \in RefundOrders, booked'[o] > 0
        PROVE  refunds[refundOrders[o]].status = "completed" /\ order.status = StatusOf(o)
    <3>1. CASE o = s.src
      BY <1>2, <3>1 DEF Quietly, MarkHeld
    <3>2. CASE o # s.src
      BY <1>2, <1>5, <2>2, <3>2 DEF Quietly, MarkStored, Sources
    <3> QED BY <3>1, <3>2
  <2> QED BY <1>2, <1>6, <1>7, <2>1, <2>2 DEF Quietly, MarkStored
<1>12. CountsHeld(new)' /\ MarkHeld(new)'
  BY <1>3, <1>9 DEF CountsHeld, MarkHeld
<1>13. ViewHeld(new)'
  <2> SUFFICES ASSUME NEW x \in Sources, booked'[x] > 0, x \notin {Order, s.src}
               PROVE  RightView(x)'
    BY <1>9 DEF ViewHeld
  <2>1. booked'[x] = booked[x] /\ RightView(x)
    BY <1>2, <1>5 DEF Quietly, ViewHeld
  <2> QED BY <1>6, <1>7, <2>1, RightStays
<1> QED BY <1>9, <1>10, <1>11, <1>12, <1>13, MovedIs DEF Quietly

LEMMA SaveViewsQuietly ==
    ASSUME FollowInv, NEW p \in Workers, SaveViews(p), Quietly(w[p])
    PROVE  Quietly(w[p])'
<1>1. PICK s : s = w[p]
  OBVIOUS
<1>2. s \in Worker /\ Handling(s) /\ s.pc = "view" /\ Quietly(s) /\ s.src # Order
  BY <1>1, HeldBy DEF SaveViews, Quietly, MarkHeld
<1>3. /\ UpdateOrderView({Order, s.src}) /\ Goto(p, "subscription") /\ "subscription" \in PCs
      /\ UNCHANGED <<facts, order, refunds, refundOrders, booked, manual, gateway>>
  BY <1>1, <1>2 DEF SaveViews, docs, PCs
<1>4. \A x : StatusOf(x)' = StatusOf(x) /\ Pay(x)' = Pay(x) /\ Back(x)' = Back(x)
  BY <1>3 DEF StatusOf, Pay, Back
<1>5. PICK new : Moves(p, new) /\ new.pc = "subscription"
  BY <1>3, GotoIs
<1>6. ASSUME NEW x \in Sources, booked[x] > 0 PROVE RightView(x)'
  <2>1. CASE x \in {Order, s.src}
    <3>1. views'[x] = [status |-> StatusOf(x), pay |-> Pay(x), back |-> Back(x)]
      BY <1>3, <2>1 DEF UpdateOrderView
    <3> QED BY <1>4, <3>1 DEF RightView
  <2>2. CASE x \notin {Order, s.src}
    <3>1. views'[x] = views[x]
      BY <1>3, <2>2 DEF UpdateOrderView
    <3>2. RightView(x)
      BY <1>2, <1>6, <2>2 DEF Quietly, ViewHeld
    <3> QED BY <1>4, <3>1, <3>2 DEF RightView
  <2> QED BY <2>1, <2>2
<1>7. ViewHeld(new)'
  BY <1>3, <1>6 DEF ViewHeld
<1>8. CountsStored' /\ MarkStored'
  BY <1>2, <1>3, <1>4 DEF Quietly, CountsStored, Counts, MarkStored
<1>9. CountsHeld(new)' /\ MarkHeld(new)'
  BY <1>5 DEF CountsHeld, MarkHeld
<1> QED BY <1>5, <1>7, <1>8, <1>9, MovedIs DEF Quietly

LEMMA SubscriptionQuietly ==
    ASSUME FollowInv, NEW p \in Workers, GetSubscription(p) \/ UpdateSubscription(p),
           Quietly(w[p])
    PROVE  Quietly(w[p])'
<1>1. UNCHANGED <<facts, order, refunds, refundOrders, booked, manual, views, gateway>>
  BY DEF GetSubscription, UpdateSubscription, docs, books
<1>2. CountsStored /\ MarkStored /\ AllRight
  BY NothingExcused DEF GetSubscription, UpdateSubscription, Quietly
<1>3. CASE GetSubscription(p)
  <2>1. PICK new : Moves(p, new) /\ new.pc = "debit"
    BY <1>3, GetSubscriptionIs
  <2>2. CountsHeld(new) /\ MarkHeld(new)
    BY <2>1 DEF CountsHeld, MarkHeld
  <2> QED BY <1>1, <1>2, <2>1, <2>2, RightIsHeld, SameBooks, MovedIs
<1>4. CASE UpdateSubscription(p)
  BY <1>1, <1>2, <1>4, ReturnQuietly DEF UpdateSubscription
<1> QED BY <1>3, <1>4

LEMMA SettleQuietly ==
    ASSUME FollowInv, NEW p \in Workers, NEW r \in Refunds, Settle(r), Quietly(w[p])
    PROVE  Quietly(w[p])'
<1>1. PICK s : s = w[p]
  OBVIOUS
<1>2. Handling(s) /\ Quietly(s) /\ w'[p] = s
  BY <1>1, HeldBy DEF Settle
<1>3. UNCHANGED <<facts, order, refunds, refundOrders, booked, manual, views>>
  BY DEF Settle, docs, books
<1>4. /\ gateway[r] = "accepted" /\ gateway'[r] # "none"
      /\ \A x \in Refunds : x # r => gateway'[x] = gateway[x]
  BY DEF Settle, FollowInv, TypeOK
<1>5. CountsStored'
  BY <1>2, <1>3, <1>4 DEF Quietly, CountsStored, Counts
<1>6. MarkStored' /\ MarkHeld(s)'
  BY <1>2, <1>3 DEF Quietly, MarkStored, MarkHeld, StatusOf
<1>7. ViewHeld(s)'
  BY <1>2, <1>3 DEF Quietly, ViewHeld, RightView, StatusOf, Pay, Back
<1>8. CountsHeld(s)'
  BY <1>2, <1>3, <1>4 DEF Quietly, CountsHeld, Counts, Handling, Creating, Answering
<1> QED BY <1>2, <1>5, <1>6, <1>7, <1>8 DEF Quietly

\* A call that fails is counted, and so is a repair.
LEMMA NextKeepsQuiet ==
    ASSUME OneHandler, FollowInv, OnceAndLive, QuietInv, [Next]_vars
    PROVE  QuietInv'
<1>1. failures \in Nat /\ repairs \in Nat
  BY BoundsTyped, RefundAssumption
<1> SUFFICES ASSUME failures' = 0, repairs' = 0, NEW p \in Workers
             PROVE  Quietly(w[p])'
  BY DEF QuietInv
<1>2. ASSUME failures' = failures, repairs' = repairs PROVE Quietly(w[p]) /\ failures' = failures
  BY <1>2 DEF QuietInv
<1>3. Workers = {p}
  BY DEF OneHandler
<1>4. ASSUME Step(p) PROVE Quietly(w[p])'
  <2>1. failures' = failures \/ failures' = failures + 1
    BY <1>4, Zenon
       DEF Step, ProcessRefundsByOrder, ProcessCreateRefund, CardPayCreateRefund,
           StoreAnswer, ReadOrder, StoreStatus, CreateOrderByRefund, AllowRefund, AllowRefundView,
           LinkOrder, CheckAmount, MarkOrder, ProcessRefundEvent, SaveEntries, SaveViews,
           GetSubscription, UpdateSubscription, ProcessPaymentEvent, bounds
  <2>2. repairs' = repairs
    BY <1>4, Zenon
       DEF Step, ProcessRefundsByOrder, ProcessCreateRefund, CardPayCreateRefund,
           StoreAnswer, ReadOrder, StoreStatus, CreateOrderByRefund, AllowRefund, AllowRefundView,
           LinkOrder, CheckAmount, MarkOrder, ProcessRefundEvent, SaveEntries, SaveViews,
           GetSubscription, UpdateSubscription, ProcessPaymentEvent, bounds
  <2>3. failures' = failures
    BY <1>1, <2>1
  <2>4. Quietly(w[p]) /\ failures' = failures
    BY <1>2, <2>2, <2>3
  <2>5. ~ProcessPaymentEvent(p)
    BY <2>4 DEF ProcessPaymentEvent, Quietly, MarkHeld
  <2> QED BY <1>4, <2>4, <2>5, ProcessRefundsByOrderQuietly, ProcessCreateRefundQuietly,
             CardPayCreateRefundQuietly, StoreAnswerQuietly, ReadOrderQuietly,
             StoreStatusQuietly, CreateOrderByRefundQuietly, AllowRefundQuietly,
             AllowRefundViewQuietly,
             LinkOrderQuietly, CheckAmountQuietly, MarkOrderQuietly, ProcessRefundEventQuietly,
             SaveEntriesQuietly, SaveViewsQuietly, SubscriptionQuietly, Zenon DEF Step
<1>5. ASSUME Fail(p) PROVE FALSE
  BY <1>1, <1>5 DEF Fail
<1>6. ASSUME NEW c \in BOOLEAN, CreateRefund(p, c) PROVE Quietly(w[p])'
  <2>1. failures' = failures /\ repairs' = repairs
    BY <1>6 DEF CreateRefund, bounds
  <2> QED BY <1>2, <1>6, <2>1, CreateRefundQuietly
<1>7. ASSUME NEW r \in Refunds, Settle(r) PROVE Quietly(w[p])'
  <2>1. failures' = failures /\ repairs' = repairs
    BY <1>7 DEF Settle, bounds
  <2> QED BY <1>2, <1>7, <2>1, SettleQuietly
<1>8. ASSUME NEW r \in Refunds, Callback(p, r) PROVE Quietly(w[p])'
  <2>1. failures' = failures + 1 \/ failures' = failures
    BY <1>8 DEF Callback
  <2>2. repairs' = repairs
    BY <1>8 DEF Callback
  <2>3. failures' = failures
    BY <1>1, <2>1
  <2> QED BY <1>2, <1>8, <2>2, <2>3, CallbackQuietly
<1>9. ASSUME repairs' = repairs + 1 PROVE FALSE
  BY <1>1, <1>9
<1>10. ASSUME UNCHANGED vars PROVE Quietly(w[p])'
  <2>1. failures' = failures /\ repairs' = repairs
    BY <1>10 DEF vars
  <2>2. Quietly(w[p])
    BY <1>2, <2>1
  <2>3. PICK s : s = w[p]
    OBVIOUS
  <2>4. w'[p] = s
    BY <1>10, <2>3 DEF vars
  <2>5. Quietly(s)'
    <3>1. UNCHANGED <<facts, order, refunds, refundOrders, booked, manual, views, gateway>>
      BY <1>10 DEF vars
    <3> QED BY <2>2, <2>3, <3>1, SameBooks DEF Quietly
  <2> QED BY <2>4, <2>5
<1>11. ASSUME \/ \E s \in Sources : CreateAccountingEntry(s)
              \/ \E q \in Workers, s \in Sources, force \in BOOLEAN :
                    RebuildAccountingEntries(q, s, force)
              \/ RebuildOrderView
       PROVE  repairs' = repairs + 1
  BY <1>11 DEF CreateAccountingEntry, RebuildAccountingEntries, RebuildOrderView
<1>12. ASSUME NEW q \in Workers PROVE q = p
  BY <1>3
<1> QED BY <1>4, <1>5, <1>6, <1>7, <1>8, <1>9, <1>10, <1>11, <1>12, Zenon DEF Next

LEMMA InitQuiet ==
    ASSUME Init
    PROVE  QuietInv
<1>1. /\ booked = [s \in Sources |-> IF s = Order THEN 1 ELSE 0]
      /\ manual = [s \in Sources |-> 0] /\ refunds = [r \in Refunds |-> None]
      /\ w = [p \in Workers |-> Idle] /\ order.status = "processed"
  BY DEF Init
<1>2. \A o \in RefundOrders : booked[o] = 0
  BY <1>1, NoneIsNoOrder DEF Sources
<1>3. CountsStored
  BY <1>1 DEF CountsStored, Counts
<1>4. MarkStored
  BY <1>1, <1>2 DEF MarkStored, Sources
<1>5. AllRight
  <2>1. PICK v : v = [status |-> "processed",
                      pay |-> PaymentView(PaymentRevenue(facts), PaymentFees(facts)),
                      back |-> EmptyView]
    OBVIOUS
  <2>2. views = [s \in Sources |-> IF s = Order THEN v ELSE None]
    BY <2>1 DEF Init
  <2>3. booked[Order] > 0 /\ Order \in Sources
    BY <1>1 DEF Sources
  <2>4. RightView(Order)
    BY <1>1, <2>1, <2>2, <2>3 DEF RightView, StatusOf, Pay, Back
  <2> QED BY <1>2, <2>4 DEF AllRight, Sources
<1>6. ASSUME NEW p \in Workers PROVE CountsHeld(w[p]) /\ MarkHeld(w[p]) /\ ViewHeld(w[p])
  <2>1. PICK s : s = w[p]
    OBVIOUS
  <2>2. s.pc = "idle"
    BY <1>1, <2>1, IdleIsWorker
  <2>3. CountsHeld(s) /\ MarkHeld(s)
    BY <2>2 DEF CountsHeld, MarkHeld
  <2> QED BY <1>5, <2>1, <2>3, RightIsHeld
<1> QED BY <1>3, <1>4, <1>6 DEF QuietInv, Quietly

LEMMA QuietInvariant ==
    ASSUME OneHandler
    PROVE  Spec => []QuietInv
<1>1. Init => QuietInv
  BY InitQuiet
<1>2. FollowInv /\ OnceAndLive /\ QuietInv /\ [Next]_vars => QuietInv'
  BY NextKeepsQuiet
<1> QED BY <1>1, <1>2, FollowInvariant, OnceInvariant, PTL DEF Spec

\* With one handler at a time, and while no call has failed and nothing was repaired, the views
\* between two requests say what the order and the entries say: every handler that makes
\* entries or marks the order ends with the views, and one that does neither finds them right.
THEOREM ViewsFollow ==
    ASSUME OneHandler
    PROVE  Spec => []ViewsFollowBooks
<1>1. ASSUME QuietInv PROVE ViewsFollowBooks
  <2> SUFFICES ASSUME failures = 0, repairs = 0, \A p \in Workers : w[p].pc = "idle",
                      NEW s \in Sources, booked[s] > 0
               PROVE  RightView(s)
    BY DEF ViewsFollowBooks, RightView
  <2>1. PICK p : p \in Workers
    BY DEF OneHandler
  <2>2. ViewHeld(w[p]) /\ w[p].pc = "idle"
    BY <1>1, <2>1 DEF QuietInv, Quietly
  <2> QED BY <2>2, NothingExcused DEF AllRight
<1> QED BY <1>1, QuietInvariant, PTL
=============================================================================
