----------------------------- MODULE OrderFlow -----------------------------
(***************************************************************************)
(* The life of an order (internal/service/order.go) together with the key  *)
(* stock it is sold from and the payment gateway that pays for it: order   *)
(* creation and re-creation, the payment form handlers, the creation of    *)
(* the payment, the gateway's callback with the accounting entries, and    *)
(* updateOrder with the notifications every one of them ends in.           *)
(*                                                                         *)
(* A handler is a worker with a program counter. It loads the whole order, *)
(* works on its copy and writes the whole copy back (orderRepository.      *)
(* Update is a ReplaceOne), so every database call is a step of its own    *)
(* and the steps of two workers interleave.                                *)
(***************************************************************************)
EXTENDS KeyPool, Sequences, OrderStatus

CONSTANTS
    Workers,              \* concurrent request handlers
    Products, Platforms,  \* a stock is a <<product, platform>> pair
    Basket,               \* [Orders -> Seq(Products)], <<>> for a simple order
    NoDoc,                \* the order has not been inserted
    CompleteIsEnded,      \* whether HasEndedStatus holds for "Complete"
    CallbackStatuses,     \* statuses for which NeedCallbackNotification holds
    ConcurrentCallbacks,  \* whether two callbacks of one order may overlap
    Recreation,           \* whether OrderReCreateProcess is called
    MaxPayments,          \* bound on the payments made at the gateway per order
    MaxEntries            \* bound on the accounting inserts per order

ASSUME FlowAssumption ==
    /\ Stocks = Products \X Platforms
    /\ Basket \in [Orders -> Seq(Products)]
    /\ CompleteIsEnded \in BOOLEAN
    /\ ConcurrentCallbacks \in BOOLEAN
    /\ Recreation \in BOOLEAN
    /\ CallbackStatuses \subseteq PrivateStatuses
    /\ MaxPayments \in Nat
    /\ MaxEntries \in Nat

VARIABLES
    orders,     \* the orders collection: id -> document or NoDoc
    w,          \* worker -> the state of the handler it runs
    gateway,    \* order -> payments made and open, verdicts reached on them
    entries,    \* order -> number of times its accounting entries were inserted
    delivered   \* history: <<o, k>> such that the code of k was mailed for o

flowVars == <<orders, w, gateway, entries, delivered>>
vars == <<keys, batch, released, orders, w, gateway, entries, delivered>>

OrderDoc == [status : PrivateStatuses, keys : SUBSET Keys,
             notified : BOOLEAN, platform : Platforms]

ASSUME NoDocAssumption == NoDoc \notin OrderDoc

Verdicts == {"completed", "declined", "cancelled"}

PCs == {"idle", "reserve", "undo", "compare", "replace", "keys", "merchant",
        "gateway", "ledger", "entries", "card"}

Worker == [pc : PCs, callback : BOOLEAN, id : Orders \cup {NoOrder},
           doc : OrderDoc \cup {NoDoc}, index : Nat, got : SUBSET Keys,
           todo : SUBSET Keys, changed : BOOLEAN, next : PCs]

Idle == [pc |-> "idle", callback |-> FALSE, id |-> NoOrder, doc |-> NoDoc,
         index |-> 0, got |-> {}, todo |-> {}, changed |-> FALSE, next |-> "idle"]

TypeOK ==
    /\ PoolTypeOK
    /\ orders \in [Orders -> OrderDoc \cup {NoDoc}]
    /\ w \in [Workers -> Worker]
    /\ gateway \in [Orders -> [made : 0 .. MaxPayments, open : Nat,
                              verdicts : SUBSET Verdicts]]
    /\ entries \in [Orders -> 0 .. MaxEntries]
    /\ delivered \subseteq Orders \X Keys

Init ==
    /\ PoolInit
    /\ orders = [o \in Orders |-> NoDoc]
    /\ w = [p \in Workers |-> Idle]
    /\ gateway = [o \in Orders |-> [made |-> 0, open |-> 0, verdicts |-> {}]]
    /\ entries = [o \in Orders |-> 0]
    /\ delivered = {}

-----------------------------------------------------------------------------
(* Helpers.                                                                *)

Exists(o) == orders[o] # NoDoc

HasEndedStatus(status) ==
    \/ status \in {"Reject", "Refund", "Chargeback"}
    \/ CompleteIsEnded /\ status = "Complete"

\* The worker continues at pc, or the handler returns.
Goto(r, pc) == IF pc = "idle" THEN Idle ELSE [r EXCEPT !.pc = pc]

\* The handler of order o calls updateOrder with its copy doc, then goes on at next.
CallUpdateOrder(o, doc, callback, next) ==
    [pc |-> "compare", callback |-> callback, id |-> o, doc |-> doc,
     index |-> 0, got |-> {}, todo |-> {}, changed |-> FALSE, next |-> next]

Set(p, r) == w' = [w EXCEPT ![p] = r]

\* getOrderByUuidToForm: the order may still be changed through the form.
OpenToForm(o) == Exists(o) /\ ~HasEndedStatus(orders[o].status)

-----------------------------------------------------------------------------
(* Creating orders.                                                        *)

\* Mistake: prepareOrder leaves the private status at its zero value.
NewOrderWithoutStatus(platform) ==
    [status |-> "", keys |-> {}, notified |-> FALSE, platform |-> platform]

NewOrder(platform) ==
    [status |-> "New", keys |-> {}, notified |-> FALSE, platform |-> platform]

OrderCreateProcess(o, platform) ==
    /\ ~Exists(o)
    /\ orders' = [orders EXCEPT ![o] = NewOrder(platform)]
    /\ UNCHANGED <<poolVars, w, gateway, entries, delivered>>

\* The copy OrderReCreateProcess inserts: the keys and the notified flag of the
\* old order are copied with everything else.
Recreated(doc) == [doc EXCEPT !.status = "New"]

OrderReCreateProcess(o, n) ==
    /\ Recreation
    /\ Exists(o) /\ ~Exists(n) /\ Basket[n] = Basket[o]
    /\ CanBeRecreated(orders[o].status)
    /\ orders' = [orders EXCEPT ![n] = Recreated(orders[o])]
    /\ UNCHANGED <<poolVars, w, gateway, entries, delivered>>

-----------------------------------------------------------------------------
(* The payment form: every handler loads the order, changes its copy and   *)
(* calls updateOrder.                                                      *)

FormHandler(p, o, doc) ==
    /\ w[p].pc = "idle"
    /\ Set(p, CallUpdateOrder(o, doc, FALSE, "idle"))
    /\ UNCHANGED <<poolVars, orders, gateway, entries, delivered>>

PaymentFormLanguageChanged(p, o) ==
    OpenToForm(o) /\ FormHandler(p, o, orders[o])

\* The platform changes, the keys already reserved do not.
PaymentFormPlatformChanged(p, o, platform) ==
    OpenToForm(o) /\ FormHandler(p, o, [orders[o] EXCEPT !.platform = platform])

PaymentFormPaymentAccountChanged(p, o) ==
    OpenToForm(o) /\ FormHandler(p, o, orders[o])

\* applyCountryRestriction: an order of a restricted country is declined at once.
CountryApplied(doc) == {doc, [doc EXCEPT !.status = "Declined"]}

ProcessBillingAddress(p, o) ==
    OpenToForm(o) /\ \E doc \in CountryApplied(orders[o]) : FormHandler(p, o, doc)

\* The form is prepared for an order that is not paid yet, or already is.
PaymentFormJsonDataProcess(p, o) ==
    /\ OpenToForm(o)
    /\ orders[o].status \in {"New", "Complete"}
    /\ \E doc \in CountryApplied(orders[o]) : FormHandler(p, o, doc)

\* SetUserNotifySales and SetUserNotifyNewRegion load the order whatever its status.
SetUserNotify(p, o) ==
    Exists(o) /\ FormHandler(p, o, orders[o])

-----------------------------------------------------------------------------
(* PaymentCreateProcess.                                                   *)

PaymentCreateProcess(p, o) ==
    /\ w[p].pc = "idle"
    /\ OpenToForm(o)
    /\ orders[o].status \in {"New", "Complete"}
    /\ LET doc == orders[o] IN
       \/ Set(p, CallUpdateOrder(o, [doc EXCEPT !.status = "Declined"], FALSE, "idle"))
       \/ /\ doc.keys = {} /\ Basket[o] # <<>>
          /\ Set(p, [Idle EXCEPT !.pc = "reserve", !.id = o, !.doc = doc, !.index = 1])
       \/ /\ doc.keys # {} \/ Basket[o] = <<>>
          /\ Set(p, CallUpdateOrder(o, doc, FALSE, "gateway"))
    /\ UNCHANGED <<poolVars, orders, gateway, entries, delivered>>

\* reserveKeysForOrder: one key per product of the basket.
ReserveNext(p) ==
    LET r == w[p]
        stock == <<Basket[r.id][r.index], r.doc.platform>>
    IN
    /\ r.pc = "reserve"
    /\ \E k \in Available(stock) :
          /\ ReserveFor(r.id, k)
          /\ IF r.index < Len(Basket[r.id])
             THEN Set(p, [r EXCEPT !.got = @ \cup {k}, !.index = @ + 1])
             ELSE Set(p, CallUpdateOrder(r.id, [r.doc EXCEPT !.keys = r.got \cup {k}],
                                         FALSE, "gateway"))
    /\ UNCHANGED <<batch, orders, gateway, entries, delivered>>

\* No key is left (or the call fails): the keys reserved so far are cancelled.
ReserveFails(p) ==
    /\ w[p].pc = "reserve"
    /\ Set(p, IF w[p].got = {} THEN Idle
              ELSE [w[p] EXCEPT !.pc = "undo", !.todo = w[p].got])
    /\ UNCHANGED <<poolVars, orders, gateway, entries, delivered>>

UndoNext(p) ==
    /\ w[p].pc = "undo"
    /\ \E k \in w[p].todo :
          /\ Cancel(k) \/ UNCHANGED <<keys, released>>
          /\ Set(p, IF w[p].todo = {k} THEN Idle ELSE [w[p] EXCEPT !.todo = @ \ {k}])
    /\ UNCHANGED <<batch, orders, gateway, entries, delivered>>

\* The gateway accepts the payment and the order becomes pending.
CreatePayment(p) ==
    LET o == w[p].id IN
    /\ w[p].pc = "gateway"
    /\ gateway[o].made < MaxPayments
    /\ gateway' = [gateway EXCEPT ![o].made = @ + 1, ![o].open = @ + 1]
    /\ Set(p, CallUpdateOrder(o, [w[p].doc EXCEPT !.status = "InProgress"], FALSE, "idle"))
    /\ UNCHANGED <<poolVars, orders, entries, delivered>>

-----------------------------------------------------------------------------
(* updateOrder.                                                            *)

\* The stored order is read again to see whether the public status changes.
Compare(p) ==
    LET r == w[p] IN
    /\ r.pc = "compare"
    /\ Set(p, [r EXCEPT !.pc = "replace",
                        !.changed = PublicStatus(orders[r.id].status)
                                        # PublicStatus(r.doc.status)])
    /\ UNCHANGED <<poolVars, orders, gateway, entries, delivered>>

NeedsKeyNotification(o, doc) ==
    /\ Basket[o] # <<>>
    /\ ~doc.notified
    /\ PublicStatus(doc.status) \in {"canceled", "rejected", "processed"}

AfterKeys(r) ==
    Goto(r, IF r.changed /\ r.doc.status \in CallbackStatuses THEN "merchant" ELSE r.next)

\* orderRepository.Update writes the whole copy over whatever is stored.
Replace(p) ==
    LET r == w[p] IN
    /\ r.pc = "replace"
    /\ orders' = [orders EXCEPT ![r.id] = r.doc]
    /\ Set(p, IF NeedsKeyNotification(r.id, r.doc)
              THEN [r EXCEPT !.pc = "keys", !.todo = r.doc.keys]
              ELSE AfterKeys(r))
    /\ UNCHANGED <<poolVars, gateway, entries, delivered>>

\* orderNotifyKeyProducts, the next key: redeemed and mailed when the order is
\* paid, cancelled when it failed; a failed call goes on with the next key.
NotifyKey(p) ==
    LET r == w[p] IN
    /\ r.pc = "keys"
    /\ \E k \in r.todo :
          /\ Set(p, [r EXCEPT !.todo = @ \ {k}])
          /\ \/ UNCHANGED <<keys, released, delivered>>
             \/ /\ PublicStatus(r.doc.status) = "processed"
                /\ Finish(k)
                /\ delivered' = delivered \cup {<<r.id, k>>}
             \/ /\ PublicStatus(r.doc.status) # "processed"
                /\ Cancel(k)
                /\ UNCHANGED delivered
    /\ UNCHANGED <<batch, orders, gateway, entries>>

\* The flag is set on the copy only.
KeysNotified(p) ==
    LET r == [w[p] EXCEPT !.doc.notified = TRUE] IN
    /\ w[p].pc = "keys" /\ w[p].todo = {}
    /\ Set(p, AfterKeys(r))
    /\ UNCHANGED <<poolVars, orders, gateway, entries, delivered>>

\* orderNotifyMerchant publishes the order and writes the copy once more.
NotifyMerchant(p) ==
    LET r == w[p] IN
    /\ r.pc = "merchant"
    /\ orders' = [orders EXCEPT ![r.id] = r.doc] \/ UNCHANGED orders
    /\ Set(p, Goto(r, r.next))
    /\ UNCHANGED <<poolVars, gateway, entries, delivered>>

-----------------------------------------------------------------------------
(* The gateway and PaymentCallbackProcess.                                 *)

\* External: the gateway decides an open payment, once.
Settle(o, v) ==
    /\ gateway[o].open > 0
    /\ gateway' = [gateway EXCEPT ![o].open = @ - 1, ![o].verdicts = @ \cup {v}]
    /\ UNCHANGED <<poolVars, orders, w, entries, delivered>>

\* Mistake: ProcessPayment takes a cancelled payment for a completed one.
StatusAfterLenient(v) ==
    CASE v \in {"completed", "cancelled"} -> "Complete"
      [] v = "declined"                   -> "Declined"
      [] OTHER                            -> "Reject"

\* ProcessPayment: the status it leaves on the order.
StatusAfter(v) ==
    CASE v = "completed" -> "Complete"
      [] v = "declined"  -> "Declined"
      [] v = "cancelled" -> "Canceled"
      [] OTHER           -> "Reject"

\* A callback carries a verdict the gateway reached (possibly not for the first
\* time) or does not pass the checks of ProcessPayment ("invalid"). A callback
\* without a final verdict changes nothing.
PaymentCallbackProcess(p, o, v) ==
    /\ w[p].pc = "idle"
    /\ Exists(o)
    /\ orders[o].status = "InProgress"
    /\ v \in gateway[o].verdicts \cup {"invalid"}
    /\ ConcurrentCallbacks \/ \A q \in Workers : ~(w[q].callback /\ w[q].id = o)
    /\ Set(p, CallUpdateOrder(o, [orders[o] EXCEPT !.status = StatusAfter(v)], TRUE,
                              CASE v = "completed" -> "ledger"
                                [] v = "invalid"   -> "idle"
                                [] OTHER           -> "card"))
    /\ UNCHANGED <<poolVars, orders, gateway, entries, delivered>>

\* Mistake: processPaymentEvent does not look for existing entries.
LedgerUnchecked(p) ==
    /\ w[p].pc = "ledger"
    /\ Set(p, [w[p] EXCEPT !.pc = "entries"])
    /\ UNCHANGED <<poolVars, orders, gateway, entries, delivered>>

\* processPaymentEvent looks for entries of this order first ...
LedgerLookup(p) ==
    /\ w[p].pc = "ledger"
    /\ Set(p, IF entries[w[p].id] > 0 THEN Idle ELSE [w[p] EXCEPT !.pc = "entries"])
    /\ UNCHANGED <<poolVars, orders, gateway, entries, delivered>>

\* ... and saveAccountingEntries inserts them when it found none.
InsertEntries(p) ==
    LET o == w[p].id IN
    /\ w[p].pc = "entries"
    /\ entries[o] < MaxEntries
    /\ entries' = [entries EXCEPT ![o] = @ + 1]
    /\ Set(p, [w[p] EXCEPT !.pc = "card"])
    /\ UNCHANGED <<poolVars, orders, gateway, delivered>>

\* saveRecurringCard loads the order again and updates it; not every callback
\* carries a card to save.
SaveRecurringCard(p) ==
    LET o == w[p].id IN
    /\ w[p].pc = "card"
    /\ \/ Set(p, Idle)
       \/ Set(p, CallUpdateOrder(o, orders[o], TRUE, "idle"))
    /\ UNCHANGED <<poolVars, orders, gateway, entries, delivered>>

\* The handler returns an error between two calls, or its process dies.
Abort(p) ==
    /\ w[p].pc # "idle"
    /\ Set(p, Idle)
    /\ UNCHANGED <<poolVars, orders, gateway, entries, delivered>>

-----------------------------------------------------------------------------

Upload == \E k \in Keys : UploadKeysFile(k)

Pool == (Upload \/ Daemon \/ Clock) /\ UNCHANGED flowVars

Request(p, o) ==
    \/ PaymentFormLanguageChanged(p, o)
    \/ \E platform \in Platforms : PaymentFormPlatformChanged(p, o, platform)
    \/ PaymentFormPaymentAccountChanged(p, o)
    \/ ProcessBillingAddress(p, o)
    \/ PaymentFormJsonDataProcess(p, o)
    \/ SetUserNotify(p, o)
    \/ PaymentCreateProcess(p, o)
    \/ \E v \in Verdicts \cup {"invalid"} : PaymentCallbackProcess(p, o, v)

Step(p) ==
    \/ ReserveNext(p) \/ ReserveFails(p) \/ UndoNext(p)
    \/ CreatePayment(p)
    \/ Compare(p) \/ Replace(p) \/ NotifyKey(p) \/ KeysNotified(p) \/ NotifyMerchant(p)
    \/ LedgerLookup(p) \/ InsertEntries(p) \/ SaveRecurringCard(p)
    \/ Abort(p)

Next ==
    \/ Pool
    \/ \E o \in Orders : \/ \E platform \in Platforms : OrderCreateProcess(o, platform)
                         \/ \E n \in Orders : OrderReCreateProcess(o, n)
                         \/ \E v \in Verdicts : Settle(o, v)
                         \/ \E p \in Workers : Request(p, o)
    \/ \E p \in Workers : Step(p)

Spec == Init /\ [][Next]_vars

-----------------------------------------------------------------------------
(* Properties.                                                             *)

Processed(o) == Exists(o) /\ orders[o].status = "Complete"

\* Nothing of a sale happens before the gateway reported the payment completed:
\* not the status, not the accounting entries, not the mail with the key code,
\* in whatever order the handlers overwrite each other's copies
\* (PaymentCallbackProcess, updateOrder, orderNotifyKeyProducts).
PaidFirst ==
    \A o \in Orders :
        \/ Processed(o)
        \/ entries[o] > 0
        \/ \E k \in Keys : <<o, k>> \in delivered
        => "completed" \in gateway[o].verdicts

\* A key an order lists is reserved for that order, or was taken away from it by
\* a CancelById (reserveKeysForOrder, updateOrder, KeyDaemonProcess). It does not
\* hold for re-created orders, which list the keys of the order they copy.
ListedKeyIsHeld ==
    \A o \in Orders : Exists(o) =>
        \A k \in orders[o].keys : keys[k].order = o \/ <<o, k>> \in released

\* The code of one key goes out for two orders only if the key was taken away
\* from one of them first: ReserveKey itself never gives a key to two orders.
SoldTwiceOnlyIfReleased ==
    \A k \in Keys, o1, o2 \in Orders :
        /\ o1 # o2
        /\ <<o1, k>> \in delivered
        /\ <<o2, k>> \in delivered
        => <<o1, k>> \in released \/ <<o2, k>> \in released

\* The accounting entries of a payment are created once, even when a form
\* handler writes an old copy of the order back and a repeated callback finds
\* it pending again (processPaymentEvent). It needs callbacks that do not overlap.
AccountedOnce == \A o \in Orders : entries[o] <= 1

\* "order with specified identifier paid early": a paid order is out of reach of
\* the form and does not become payable again.
PaidStaysPaid ==
    [][\A o \in Orders : Processed(o) => orders'[o].status \notin {"New", "InProgress"}]_vars

=============================================================================
