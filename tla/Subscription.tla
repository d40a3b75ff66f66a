---------------------------- MODULE Subscription ----------------------------
(***************************************************************************)
(* Recurring payments: internal/service/recurring.go, the parts of         *)
(* internal/service/order.go that create a subscription and handle the     *)
(* callbacks of its payments, and the subscription half of                 *)
(* internal/payment_system/cardpay.go. Subscriptions and saved cards are   *)
(* kept by the recurring service, which is external.                       *)
(*                                                                         *)
(* Every call of a service is a step of the handler that makes it; any of  *)
(* them may fail and end the handler. The gateway charges an active        *)
(* subscription again and again, and repeats the callback of a charge.     *)
(***************************************************************************)
EXTENDS Integers, Sequences, FiniteSets

CONSTANTS
    Handlers,        \* requests handled at the same time
    Subs,            \* subscriptions, each made for an order of its own
    Customers, Merchants,
    Nobody,          \* an empty id
    OwnerOf(_),      \* the customer of a subscription
    MerchantOf(_),   \* the merchant of a subscription
    Cards,           \* saved cards
    CardOwner(_),    \* the customer, known or virtual, who saved a card
    EarlyDelete,     \* whether a subscription may be deleted while it is being created
    MaxCharges,      \* bound on the charges of a subscription
    MaxSubFailures   \* bound on failed calls

ASSUME SubscriptionAssumption ==
    /\ Nobody \notin Subs \cup Customers \cup Merchants
    /\ \A s \in Subs : OwnerOf(s) \in Customers /\ MerchantOf(s) \in Merchants
    /\ EarlyDelete \in BOOLEAN
    /\ MaxCharges \in Nat /\ MaxSubFailures \in Nat

VARIABLES
    subs,         \* recurring service: subscription -> document
    remote,       \* gateway: subscription -> "none", "active" or "cancelled"
    charges,      \* gateway: subscription -> verdicts of its charges
    parent,       \* order of a subscription: its status and whether it has RecurringId
    copies,       \* subscription -> orders made for further payments
    savedCards,
    h,            \* handler -> its state
    subFailures

subVars == <<subs, remote, charges, parent, copies, savedCards, h, subFailures>>

\* A subscription is stored, with or without the ids of the gateway, or deleted.
SubDoc == [stored : {"no", "yes", "deleted"}, linked : BOOLEAN, active : BOOLEAN,
           paidBefore : BOOLEAN, total : Int]

ParentDoc == [status : {"New", "InProgress", "Complete", "Declined"}, recurring : BOOLEAN]

Verdicts == {"Complete", "Declined"}

HandlerDoc == [pc : {"idle", "plan", "subscribe", "store", "order", "get", "copy", "replace",
                     "count", "stop", "cancel", "delete"},
               id : Subs \cup {Nobody}, doc : SubDoc, verdict : Verdicts, copied : BOOLEAN]

NoDoc == [stored |-> "no", linked |-> FALSE, active |-> FALSE, paidBefore |-> FALSE,
          total |-> 0]

NoRequest == [pc |-> "idle", id |-> Nobody, doc |-> NoDoc, verdict |-> "Complete",
              copied |-> FALSE]

SubTypeOK ==
    /\ subs \in [Subs -> SubDoc]
    /\ remote \in [Subs -> {"none", "active", "cancelled"}]
    /\ \A s \in Subs : Len(charges[s]) <= MaxCharges
    /\ parent \in [Subs -> ParentDoc]
    /\ copies \in [Subs -> Nat]
    /\ savedCards \subseteq Cards
    /\ h \in [Handlers -> HandlerDoc]
    /\ subFailures \in 0 .. MaxSubFailures

SubInit ==
    /\ subs = [s \in Subs |-> NoDoc]
    /\ remote = [s \in Subs |-> "none"]
    /\ charges = [s \in Subs |-> <<>>]
    /\ parent = [s \in Subs |-> [status |-> "New", recurring |-> FALSE]]
    /\ copies = [s \in Subs |-> 0]
    /\ savedCards = Cards
    /\ h = [p \in Handlers |-> NoRequest]
    /\ subFailures = 0

Answer(p) == h' = [h EXCEPT ![p] = NoRequest]

-----------------------------------------------------------------------------
(* A payment of an order with RecurringSettings, addRecurringSubscription.  *)

AddSubscription(p, s) ==
    /\ h[p].pc = "idle" /\ subs[s].stored = "no"
    /\ subs' = [subs EXCEPT ![s].stored = "yes"]
    /\ h' = [h EXCEPT ![p] = [NoRequest EXCEPT !.pc = "plan", !.id = s, !.doc = subs'[s]]]
    /\ UNCHANGED <<remote, charges, parent, copies, savedCards, subFailures>>

\* createRecurringPlan; a plan nobody subscribes to stays at the gateway.
CreateRecurringPlan(p) ==
    /\ h[p].pc = "plan"
    /\ h' = [h EXCEPT ![p].pc = "subscribe"]
    /\ UNCHANGED <<subs, remote, charges, parent, copies, savedCards, subFailures>>

CreateRecurringSubscription(p) ==
    /\ h[p].pc = "subscribe"
    /\ remote' = [remote EXCEPT ![h[p].id] = "active"]
    /\ h' = [h EXCEPT ![p].pc = "store", ![p].doc.linked = TRUE]
    /\ UNCHANGED <<subs, charges, parent, copies, savedCards, subFailures>>

\* The ids the gateway gave are stored, in the document as it was added; it is an error
\* if that is gone.
StoreSubscription(p) ==
    /\ h[p].pc = "store"
    /\ IF subs[h[p].id].stored = "yes"
       THEN /\ subs' = [subs EXCEPT ![h[p].id] = h[p].doc]
            /\ h' = [h EXCEPT ![p].pc = "order"]
       ELSE Answer(p) /\ UNCHANGED subs
    /\ UNCHANGED <<remote, charges, parent, copies, savedCards, subFailures>>

\* Mistake: the status is the gateway's word for it.
StoreOrderUntranslated(p) ==
    /\ h[p].pc = "order"
    /\ parent' = [parent EXCEPT ![h[p].id] = [status |-> "IN_PROGRESS", recurring |-> TRUE]]
    /\ Answer(p)
    /\ UNCHANGED <<subs, remote, charges, copies, savedCards, subFailures>>

\* PaymentCreateProcess ends: the order knows its subscription and is in progress.
StoreOrder(p) ==
    /\ h[p].pc = "order"
    /\ parent' = [parent EXCEPT ![h[p].id] = [status |-> "InProgress", recurring |-> TRUE]]
    /\ Answer(p)
    /\ UNCHANGED <<subs, remote, charges, copies, savedCards, subFailures>>

\* External: the gateway charges the card, once the customer was sent there, again after
\* each period, which is longer than a callback takes, and no more after a failure.
Charge(s, v) ==
    /\ remote[s] = "active" /\ parent[s].recurring
    /\ Len(charges[s]) < MaxCharges
    /\ charges[s] # <<>> =>
          /\ \A i \in DOMAIN charges[s] : charges[s][i] = "Complete"
          /\ parent[s].status # "InProgress" /\ \A p \in Handlers : h[p].id # s
    /\ charges' = [charges EXCEPT ![s] = Append(@, v)]
    /\ UNCHANGED <<subs, remote, parent, copies, savedCards, h, subFailures>>

-----------------------------------------------------------------------------
(* PaymentCallbackProcess for a subscription.                              *)

\* A callback is taken only while the order waits for its payment.
AcceptsCallback(s) == parent[s].status = "InProgress"

PaymentCallback(p, s, v) ==
    /\ h[p].pc = "idle"
    /\ \E i \in DOMAIN charges[s] : charges[s][i] = v
    /\ AcceptsCallback(s)
    /\ h' = [h EXCEPT ![p] = [NoRequest EXCEPT !.pc = "get", !.id = s, !.verdict = v]]
    /\ UNCHANGED <<subs, remote, charges, parent, copies, savedCards, subFailures>>

\* The subscription is read; if it was paid before, the payment gets an order of its own.
GetSubscription(p) ==
    LET doc == subs[h[p].id]
    IN  /\ h[p].pc = "get"
        /\ IF doc.stored # "yes" THEN Answer(p)
           ELSE h' = [h EXCEPT ![p].doc = doc,
                               ![p].pc = IF doc.paidBefore THEN "copy" ELSE "replace"]
        /\ UNCHANGED <<subs, remote, charges, parent, copies, savedCards, subFailures>>

CopyOrder(p) ==
    /\ h[p].pc = "copy"
    /\ h' = [h EXCEPT ![p].pc = "replace", ![p].copied = TRUE]
    /\ UNCHANGED <<subs, remote, charges, parent, copies, savedCards, subFailures>>

\* updateOrder of the order, or of its copy.
ReplaceOrder(p) ==
    LET s == h[p]
    IN  /\ s.pc = "replace"
        /\ IF s.copied
           THEN /\ copies' = [copies EXCEPT ![s.id] =
                                IF s.verdict = "Complete" THEN @ + 1 ELSE @]
                /\ UNCHANGED parent
           ELSE parent' = [parent EXCEPT ![s.id].status = s.verdict] /\ UNCHANGED copies
        /\ h' = [h EXCEPT ![p].pc = IF s.verdict = "Complete" THEN "count" ELSE "stop"]
        /\ UNCHANGED <<subs, remote, charges, savedCards, subFailures>>

\* Mistake: the payment is added to what the subscription says by now.
CountTwice(p) ==
    LET s == h[p]
    IN  /\ s.pc = "count"
        /\ subs' = [subs EXCEPT ![s.id].active = TRUE, ![s.id].paidBefore = TRUE,
                                ![s.id].total = @ + 1]
        /\ Answer(p)
        /\ UNCHANGED <<remote, charges, parent, copies, savedCards, subFailures>>

\* UpdateSubscription: the subscription as it was read, with one payment more.
CountPayment(p) ==
    LET s == h[p]
    IN  /\ s.pc = "count"
        /\ subs' = [subs EXCEPT ![s.id] =
                      IF @.stored = "yes"
                      THEN [s.doc EXCEPT !.active = TRUE, !.paidBefore = TRUE, !.total = @ + 1]
                      ELSE @]
        /\ Answer(p)
        /\ UNCHANGED <<remote, charges, parent, copies, savedCards, subFailures>>

\* updateRecurringSubscription: canceled at the gateway, which answers "not found", and
\* that is no error, if the document has no id of the gateway.
UpdateRecurringSubscription(s, doc) ==
    remote' = IF doc.linked /\ remote[s] = "active"
              THEN [remote EXCEPT ![s] = "cancelled"] ELSE remote

\* Mistake: nothing is canceled after a charge that failed.
KeepAfterFailedCharge(p) ==
    /\ h[p].pc = "stop"
    /\ Answer(p)
    /\ UNCHANGED <<subs, remote, charges, parent, copies, savedCards, subFailures>>

\* A charge that failed ends the subscription at the gateway.
StopAfterFailedCharge(p) ==
    /\ h[p].pc = "stop"
    /\ UpdateRecurringSubscription(h[p].id, h[p].doc)
    /\ Answer(p)
    /\ UNCHANGED <<subs, charges, parent, copies, savedCards, subFailures>>

-----------------------------------------------------------------------------
(* What customers and merchants may do.                                    *)

\* findAndParseBrowserCookie: whom the cookie names; one without a customer counts as no
\* cookie, and one that cannot be decrypted as an error.
FindAndParseBrowserCookie(cookie) == IF cookie = "empty" THEN Nobody ELSE cookie

\* checkSubscriptionPermission.
CheckSubscriptionPermission(customer, merchant, s) ==
    /\ customer # Nobody \/ merchant # Nobody
    /\ customer # Nobody => customer = OwnerOf(s)
    /\ merchant # Nobody => merchant = MerchantOf(s)

Creating == {"plan", "subscribe", "store", "order"}

\* DeleteRecurringSubscription, by the customer of a cookie, a merchant or both.
DeleteRecurringSubscription(p, s, cookie, merchant) ==
    /\ h[p].pc = "idle" /\ subs[s].stored = "yes"
    /\ EarlyDelete \/ \A q \in Handlers : ~(h[q].id = s /\ h[q].pc \in Creating)
    /\ CheckSubscriptionPermission(FindAndParseBrowserCookie(cookie), merchant, s)
    /\ h' = [h EXCEPT ![p] = [NoRequest EXCEPT !.pc = "cancel", !.id = s, !.doc = subs[s]]]
    /\ UNCHANGED <<subs, remote, charges, parent, copies, savedCards, subFailures>>

\* Mistake: the subscription is deleted before it is canceled at the gateway.
CancelLater(p) ==
    /\ h[p].pc = "cancel"
    /\ h' = [h EXCEPT ![p].pc = "delete"]
    /\ UNCHANGED <<subs, remote, charges, parent, copies, savedCards, subFailures>>

CancelAtGateway(p) ==
    /\ h[p].pc = "cancel"
    /\ UpdateRecurringSubscription(h[p].id, h[p].doc)
    /\ h' = [h EXCEPT ![p].pc = "delete"]
    /\ UNCHANGED <<subs, charges, parent, copies, savedCards, subFailures>>

DeleteSubscription(p) ==
    /\ h[p].pc = "delete"
    /\ subs' = [subs EXCEPT ![h[p].id].stored = "deleted"]
    /\ Answer(p)
    /\ UNCHANGED <<remote, charges, parent, copies, savedCards, subFailures>>

\* DeleteSavedCard: a card of the customer of the cookie or, without one, of the virtual
\* customer.
DeleteSavedCard(card, customer, virtual) ==
    LET token == IF customer # Nobody THEN customer ELSE virtual
    IN  /\ token # Nobody /\ card \in savedCards /\ CardOwner(card) = token
        /\ savedCards' = savedCards \ {card}
        /\ UNCHANGED <<subs, remote, charges, parent, copies, h, subFailures>>

\* The orders of a subscription that GetSubscriptionOrders lists.
GetSubscriptionOrders(s) == copies[s] + (IF parent[s].status = "Complete" THEN 1 ELSE 0)

\* The subscriptions FindSubscriptions lists.
FindSubscriptions(customer, merchant) ==
    {s \in Subs : /\ subs[s].stored = "yes"
                  /\ customer # Nobody \/ merchant # Nobody
                  /\ customer \in {Nobody, OwnerOf(s)} /\ merchant \in {Nobody, MerchantOf(s)}}

-----------------------------------------------------------------------------
\* A call fails and the handler returns, or the process dies.
FailRequest(p) ==
    /\ h[p].pc # "idle"
    /\ subFailures < MaxSubFailures /\ subFailures' = subFailures + 1
    /\ Answer(p)
    /\ UNCHANGED <<subs, remote, charges, parent, copies, savedCards>>

HandlerStep(p) ==
    \/ CreateRecurringPlan(p)
    \/ CreateRecurringSubscription(p)
    \/ StoreSubscription(p)
    \/ StoreOrder(p)
    \/ GetSubscription(p)
    \/ CopyOrder(p)
    \/ ReplaceOrder(p)
    \/ CountPayment(p)
    \/ StopAfterFailedCharge(p)
    \/ CancelAtGateway(p)
    \/ DeleteSubscription(p)

SubNext ==
    \/ \E p \in Handlers : HandlerStep(p) \/ FailRequest(p)
    \/ \E p \in Handlers, s \in Subs : AddSubscription(p, s)
    \/ \E s \in Subs, v \in Verdicts :
          Charge(s, v) \/ \E p \in Handlers : PaymentCallback(p, s, v)
    \/ \E p \in Handlers, s \in Subs, cookie \in Customers \cup {Nobody, "empty"},
          merchant \in Merchants \cup {Nobody} :
             DeleteRecurringSubscription(p, s, cookie, merchant)
    \/ \E card \in Cards, customer, virtual \in Customers \cup {Nobody} :
          DeleteSavedCard(card, customer, virtual)

\* A handler that runs goes on, and the gateway repeats callbacks until they are taken.
SubFairness ==
    /\ \A p \in Handlers : WF_subVars(HandlerStep(p))
    /\ \A s \in Subs, v \in Verdicts :
          SF_subVars(\E p \in Handlers : PaymentCallback(p, s, v))

SubSpec == SubInit /\ [][SubNext]_subVars /\ SubFairness

-----------------------------------------------------------------------------
(* Properties.                                                             *)

\* A subscription the gateway charges is one its customer and its merchant find, and can
\* end: it is canceled at the gateway before it is deleted, and a deletion that fails
\* half way can be asked for again (DeleteRecurringSubscription).
ChargedIsListed ==
    \A s \in Subs : remote[s] = "active" /\ parent[s].recurring
        => s \in FindSubscriptions(OwnerOf(s), MerchantOf(s))

\* When everything is quiet and nothing failed, TotalAmount of a subscription is the sum
\* of the orders that were paid for it, also if a callback came twice at the same time.
\* Three callbacks at the same time are too many: two of them may read the same total.
TotalCountsPaidOrders ==
    (subFailures = 0 /\ \A p \in Handlers : h[p].pc = "idle") =>
        \A s \in Subs : subs[s].stored = "yes" => subs[s].total = GetSubscriptionOrders(s)

\* A first charge that failed ends the subscription at the gateway, unless a call failed:
\* the callback is then refused because the order has been declined.
FailedChargeStops ==
    \A s \in Subs :
        (charges[s] # <<>> /\ charges[s][1] = "Declined")
            ~> (remote[s] = "cancelled" \/ subFailures > 0 \/ subs[s].stored # "yes")
=============================================================================
