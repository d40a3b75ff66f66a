# TLA+ models of the PaySuper billing server

The billing server is one Go service (`internal/`) behind an RPC interface. It
keeps the catalogue of merchants, creates orders and takes them through a payment
gateway, sells activation keys from a stock, books every payment and refund in a
ledger, and pays merchants from royalty reports through payout documents. State is in MongoDB, some documents have a
copy in Redis, and several instances of the service and its scheduled tasks
(`main.go`, `internal/app.go`) run at the same time. No request holds a
lock or a transaction across two database calls: a handler loads a document,
works on its copy and replaces the stored document. That is where the difficult
behaviour of this system is, and what these models are about.

Paths below are relative to the repository.

## 1. Inventory

| Component | State it keeps | Operations | Talks to | What is hard | What makes it correct |
|---|---|---|---|---|---|
| Key stock (`repository/key.go`, `service/key.go`, `KeyDaemonStart` in `app.go`) | key documents: order, reserved_to, redeemed_at | upload, reserve, redeem, cancel, the daemon | called by the order flow | calls select by `_id` alone; the daemon acts on an old query; time-outs race with payments | a key has one holder; a reservation ends; only reserved keys are redeemed |
| Order flow (`service/order.go`) | orders: private status, keys, notified flag, platform | create, re-create, form handlers, create payment, callback, `updateOrder` and its notifications | key stock, gateway, accounting, mail and message broker | whole-document replace; overlapping and repeated callbacks; failure in the middle of a callback | nothing of a sale precedes the payment; a paid order stays paid; the right keys are delivered |
| CardPay client (`payment_system/cardpay.go`) | access tokens of the terminals | create payment, process payment, recurring, refund | the gateway | a token cache with a mutex and a time-out | a request has a valid token of its terminal, and ends |
| Accounting entries (`service/accounting_entry.go`) | ledger entries per order, refund or merchant | payment, refund, correction events; rebuild | callback, refunds, reports | look-up before insert; delete before rebuild | each event is booked once |
| Refunds (`service/refund.go`) | refunds and refund orders | create, callback | order flow, gateway, accounting | sum checked before insert; lost answers, duplicate callbacks, failure half way | an order is paid back once, and the books follow the gateway |
| Royalty reports (`service/royalty_report.go`, `repository/royalty_report.go`) | report per merchant and period | create, review, auto-accept, change with correction, finance files | accounting, payouts, balance | stale copies in Redis; tasks racing with users | one report a period; paid only through a payout |
| Payouts (`service/payouts.go`, `repository/payout.go`) | payout documents | create, automatic creation, change of status | reports, balance | several documents changed one by one | a royalty is accepted before, and paid, once |
| Merchant balance (`service/merchant_balance.go`) | latest balance | recompute, read | reports, payouts | two queries and an insert, only after some changes | what is stored is what the collections add up to |
| VAT reports, turnovers (`vat_reports.go`, `turnovers.go`) | report per country and period, annual totals with a copy in Redis | daily task, change of status | order views, accounting, currency service | a task of many steps that may stop in the middle; refunds of an earlier period | a decided report is complete; no finished period stays undecided |
| Recurring payments (`recurring.go`, `order.go`) | subscriptions and saved cards at the recurring service, plans at the gateway | create, callbacks of renewals, cancel, delete | gateway, recurring service | three stores changed one by one; repeated callbacks | what is charged is listed; the total counts the paid orders; a failed charge ends |
| Projects, products, key products, payment links (`project.go`, `product.go`, `key_product.go`, `paylink.go`) | documents with copies in Redis | create, change, publish, delete, order through a link | order flow | copies without expiry, write-back of old copies, checks made long before the order | an order holds what belongs to its merchant; what is deleted stays deleted |
| Merchant onboarding (`onboarding.go`, `merchants_tariff_rates.go`) | merchant: status, signatures, tariff, with a copy in Redis; its costs | change data, status, tariff, operating company, accept, sign, documents | documents signer, mail, costs | whole-document replace; several stores | signed by both sides; nothing stored is forgotten |
| Users and roles (`users.go`, `user_profile.go`) | roles, profiles, permissions at casbin, invitations | invite, accept, change, delete, confirm address, migrate | casbin, mail | role and permission are changed by separate calls | permissions follow roles; no permission without an invitation |
| Costs (`payment_channel_cost_*.go`, `money_back_cost_*.go`) | four tables, with cached lookups without expiry | look up, list, set, delete, replace for a tariff | accounting, onboarding | which cached lookups an edit must clear | a cost that was set is the one charged |
| Tokens, customers, prices, payment methods, limits | reference documents, tokens in Redis | CRUD and look-ups | read by the order flow | - | - |
| Dashboards, views, report files, webhooks, mails | none the server decides on | aggregations, requests to other services | - | - | - |

`PROJECT.json` lists every component with the files that belong to it, whether
it is modelled, and the hazards, each at the line where it bites.

## 2. Modules

| Module | What it is |
|---|---|
| `KeyLease` | abstract specification of the key stock: who holds each key, and which holders lost one |
| `KeyPool` | the key collection, its service methods, the daemon and the clock; implements `KeyLease` |
| `OrderStatus` | order statuses and their predicates (methods of the protocol package, external) |
| `OrderFlow` | extends `KeyPool`: orders, request handlers, gateway, accounting entries |
| `Accounting` | pure: the amounts booked for a payment and for its refund, and the order view made of them |
| `Refund` | extends `Accounting`: the refunds of one order, the gateway, entries, views, repairs by hand |
| `Gateway` | the token cache of the CardPay client and the requests that use it |
| `Subscription` | recurring payments |
| `RoyaltyAccount` | abstract specification of settlement: which reports are due to a merchant, which payout promises which of them, and what became of it |
| `Settlement` | royalty reports, payouts and the balance of one merchant in one currency; implements `RoyaltyAccount` if requests do not overlap |
| `VatReport` | VAT reports and annual turnovers of one country |
| `Catalogue` | projects, products, key products and payment links |
| `Costs` | the four tables of costs and their caches |
| `Merchant` | the onboarding of a merchant |
| `Users` | users, roles, permissions, profiles |
| `MCOrderFlow`, `MCSettlement`, `MCRefund`, `MCGateway` | instances for TLC |
| `MCEndings`, `MCMerchant`, `MCBackOffice`, `MCShop` | instances of two components each (`KeyPool` and `Subscription`, `Settlement` and `Merchant`, `Users` and `VatReport`, `Catalogue` and `Costs`) that share no state; the variable `subject` says which of them takes the steps of a behaviour |
| `SumProofs` | sums over finite sets: what `MapThenSumSet` computes does not depend on the order of the elements |
| `OrderFlowProofs` | theorems about `OrderFlow`: types, who holds a key, what a callback may cause |
| `CardPayProofs` | theorems about `Gateway` and `Subscription` |
| `SettlementProofs` | theorems about `Settlement` |
| `AccountProofs` | theorems about `Merchant` and the account (`MCMerchant`) |
| `RefundProofs` | theorems about `Refund` and the amounts of `Accounting` |
| `ShopProofs` | theorems about `Catalogue`, `Costs` and the shop (`MCShop`) |
| `BackOfficeProofs` | theorems about `Users`, `VatReport` and the back office (`MCBackOffice`) |

### KeyPool

`keys` is the collection. A document is what the queries look at: whether it is
stored, `order_id`, `redeemed_at` as a Boolean, and `reserved_to` reduced to the
only comparisons the code makes (zero, in the future, in the past). Each
repository call is one atomic MongoDB operation and is one operator on a
document: `ReserveKey`, `CancelById`, `FinishRedeemById`, with the filters
`Available` and `FindUnfinished`. `KeyDaemonProcess` is three actions because it
makes one query and then one call per key: `DaemonScan` fills `batch`,
`DaemonCancel` and `DaemonSkip` empty it. `Expire` is the clock. `released` is a
history variable: the pairs (order, key) such that a cancel took the key from
the order.

`KeyLease` keeps the holder of each key and the pairs that lost one. Its steps
give a free key to an order or take a key from its holder; no step hands a key
over. The mapping is `holder <- [k |-> keys[k].order]`, `lost <- released`.

### OrderFlow

A worker is one running handler: its program counter, the order it works on and
its own copy of the document. The copy is what matters, because
`orderRepository.Update` replaces the whole document with it.

| Action | Code |
|---|---|
| `OrderCreateProcess`, `OrderReCreateProcess` | the insert of a new or copied order |
| `PaymentForm...`, `ProcessBillingAddress`, `SetUserNotify` | form handlers: load, change the copy, `updateOrder` |
| `PaymentCreateProcess`, `ReserveNext`, `ReserveFails`, `UndoNext` | checks and `reserveKeysForOrder`, one key per call, undone on failure |
| `CreatePayment` | the gateway call and the second `updateOrder` |
| `Compare`, `Replace`, `NotifyKey`, `KeysNotified`, `NotifyMerchant` | `updateOrder` in the order of its calls |
| `PaymentCallbackProcess`, `LedgerLookup`, `InsertEntries`, `SaveRecurringCard` | the callback: `ProcessPayment`, `updateOrder`, `processPaymentEvent`, the card |
| `Settle` | external: the gateway decides an open payment once; callbacks with its verdict may be repeated and late |
| `Abort` | an error between two calls, or the end of the process |

What the checks of the handlers compare (amounts, currencies, limits, tax,
customer data) is abstracted to whether they pass. Constants stand for what the
repository does not fix or for the case being studied: `CompleteIsEnded`
(`HasEndedStatus` is in the protocol package; runs use both values),
`CallbackStatuses`, `ConcurrentCallbacks`, `Recreation`. `MaxPayments` and
`MaxEntries` bound the payments per order and the inserts of entries.

### Settlement

Reports and payouts exist twice, in MongoDB (`reports`, `payouts`) and in Redis
without expiry (`reportCache`, `payoutCache`). `GetById` prefers Redis; queries
by status always come from MongoDB; `Update` replaces the document, records the
change and then sets the copy. Every one of these calls is a step of the handler
that makes it, and with `Failures` each may be the handler's last (`Fail`); an
error of Redis when a report is copied is only logged, so the handler goes on.

| Action | Code |
|---|---|
| `CreateRoyaltyReport`, `BuildReport` | `createMerchantRoyaltyReport` for one period |
| `AutoAcceptRoyaltyReports`, `AutoAccept` | the task: one query, then each document written back |
| `MerchantReviewRoyaltyReport`, `Review` | the merchant accepts or disputes |
| `ChangeRoyaltyReport`, `Change`, `Correct`, `Recount` | the administrator; a correction goes to the ledger and is summed again |
| `CreatePayoutDocument`, `CheckFunds` | sources, amount, balance check, minimum |
| `UpdatePayoutDocument`, `Decide` | change of a payout's status |
| `NextSource`, `MarkSource` | the loops that bind, pay or free the reports of a payout |
| `DebitQuery`, `CreditQuery`, `StoreBalance` | `updateMerchantBalance` |
| `Fill...`, `Write...`, `Cache...` | the repositories |

Abstractions: one merchant and one currency (the code filters by both); every
report has the royalty `Royalty` and the VAT `B2BVatAmount`, so a payout's total
without corrections (`fees`) is `Royalty` times the number of its reports; new ids are
fresh. A correction may go either way, as in the code, which refuses only one of zero:
`CorrectionAmounts` are the amounts tried, `corrections` is their sum per period and
`MaxCorrections` bounds it.

The rolling reserve is entered in the ledger by an administrator
(`CreateAccountingEntry`, `ReserveAmounts`, `reserves`, `MaxReserve`). A report takes the
sum for its period when it is built (`BuildReport`) and keeps it when it is recounted. It
counts three times: in the balance, where a report is worth its royalty and correction
without the reserve (`Worth`, in `DebitAmount`); in what is paid for it (`Payable`, which
takes the VAT off as well, in `PayoutAmount`); and so in the comparisons of
`createPayoutDocument` with the tariff's minimum (`MinimalPayout`), with zero, with the
stored balance and with the merchant's own minimum (`CheckFunds`). The document of the
balance also has a `RollingReserve` and a `Total` of its own, which no decision reads.

`GetReportExists` answers nil when its query or the mapping of the document fails, as if
there were no report: `CreateRoyaltyReport` may then build a second one, with or without
`Failures`. `blind` is a history variable, the periods for which this happened, and so are
`accepted` and `settled`.

`RoyaltyAccount` says what all this is for. A report that was accepted stays due; a
payout promises reports that are due and that no open or paid payout lists; an open
payout is paid or given up, once. The mapping reads the documents in MongoDB only:
`due` is the set of reports that are accepted, waiting or paid, `state` is the status of a
payout (pending is open; paid is paid; failed, canceled and skip are void) and `lists` are its sources.
`WriteReport` is `Accept` or a stutter, `WritePayout` is `Promise`, `Settle` or a
stutter, and every other step is a stutter.

### Refund and Accounting

`Accounting` translates the entries of `processPaymentEvent` and
`processRefundEvent` and the sums of `UpdateOrderView` in integers: percentages
and rates in hundredths, one date, a refund of the whole charge. `Refund` has one
order that was paid. A handler is a worker with its copy of the refund and of the
order; one action per call, in the order of the code:

| Action | Code |
|---|---|
| `CreateRefund`, `ProcessRefundsByOrder`, `ProcessCreateRefund`, `CardPayCreateRefund`, `StoreAnswer` | `CreateRefund`: checks, sum of the refunds, insert, gateway, update |
| `Settle`, `Callback` | external: the gateway decides once, and calls back any number of times |
| `ReadOrder`, `StoreStatus`, `CreateOrderByRefund`, `AllowRefund`, `AllowRefundView`, `LinkOrder`, `CheckAmount`, `MarkOrder` | `ProcessRefundCallback` up to the order |
| `ProcessRefundEvent`, `SaveEntries`, `SaveViews`, `GetSubscription`, `UpdateSubscription` | the rest of it |
| `CreateAccountingEntry`, `RebuildAccountingEntries`, `ProcessPaymentEvent`, `RebuildOrderView` | repairs by hand |
| `Fail` | a call fails, or the process ends |

What the gateway does and what its client learns of it are two things
(`CardPayCreateRefund`): the gateway may have taken a refund whose answer is lost, late,
unreadable or not `201 Created`. The client then leaves the refund rejected, the service
stores it so, and `GetAmountByOrderId` no longer counts it. `disowned` is a history variable:
the refunds the server stored as rejected although the gateway has them, for this reason or
because `ProcessRefund` refused a callback.

### Gateway

A caller goes through `getToken`, `refresh` or `auth`, `setToken` and `getToken`
again before it sends. `LockTokens` and `SetToken` are the two halves of
`setToken`; an answer that is not JSON returns between them with the mutex held.
A token is stored whatever its lifetimes are: 0 in `Lifetimes` stands for one that is zero,
negative or missing, which `getToken` never accepts (`Usable`, `Refreshable`), so that the
second call of `getToken` has nothing to return. After a refresh it returns what was stored
without looking at it. `held` is a history, the time at which the handler found or stored a
token, and `late` says whether the clock had moved by the second call or the token found
then had no lifetime. `Tick` is the clock, `MapRace` the death of the process when the map is read while
it is written.

### Subscription

A subscription exists at the recurring service (`subs`), at the gateway (`remote`)
and as the order it was made for (`parent`); `copies` counts the orders of its
further payments. `AddSubscription` to `StoreOrder` create one, `PaymentCallback`
to `CountPayment` or `StopAfterFailedCharge` handle a charge,
`DeleteRecurringSubscription` to `DeleteSubscription` end one.

### VatReport

Days are numbers; the task runs at the end of a day and is one action per document
it writes: entries, turnovers (`CalcAnnualTurnovers`, MongoDB and Redis
separately), reports (`ProcessVatReportForPeriod`), statuses (`ReadVatReports`,
`ChangeVatReport`). An administrator changes a status at any time
(`UpdateVatReportStatus`). Every payment has the same gross amount and tax, and payments are
closed and paid back at any time, also while the task runs and between its end and
midnight; nothing in the service stops them. `late` is a history that marks those that came
after the task of that day had summed the period of their company (`Summed`). That
the task ends within its day is the one thing assumed of it (`NextDay`).

### Catalogue and Costs

In both a request reads through a Redis cache, writes MongoDB and then the cache,
each a step of its own. In `Catalogue` every document keeps its owner, its project,
whether it is deleted, on sale or expired; a request that would be refused for its
data alone ends after the read. The insert of a link may store nothing and still fill
the caches, since the repository swallows its error (`InsertLink`); updates of such a link
match no document.

In `Costs` a behaviour is about one of the four
tables: their lookups, the fallback to the region, the keys `updateCaches` clears
and the way an edit finds the document to replace differ, and have operators of
their own. Setting a cost by its id asks `GetById`, which prefers Redis, where
`DeleteAndInsertMany` leaves what it deletes from MongoDB: `ReplaceCost` then matches no
document, which is no error, and the request is told that the cost was set.
`SetAllPaymentChannelCostMerchant` looks for no document at all. A duplicate is refused by
the unique index, and three of the services lose the error (`LoseRefusal`). `lastSet` is
a history, what a request was told last was set, and `NotSet` names the cases in which that
is not true.

### Merchant and Users

Requests in these two read everything first and then make a fixed list of calls
(`todo`): a request is one action that reads, checks and makes the list, and one
action per kind of call takes the next one off. A call that fails ends the request.
`CanChangeStatusTo` is a method of the protocol package: `StatusChanges` stands for
it, and the run uses a generous one.

## 3. Runs

Passing runs (distinct states in brackets):

| Run | Instance | Shows |
|---|---|---|
| `endings` (12 000) | `KeyPool`: 2 keys of one stock, 2 orders. `Subscription`: 1 subscription, 2 handlers, 2 charges, 1 failing call | under fairness `ReservationEnds`, `FailedChargeStops`; `ChargedIsListed`, `TotalCountsPaidOrders` |
| `order_flow` (360 000) | 1 order, 1 key, 2 handlers | `PaidFirst`, and `AccountedOnce` when callbacks of one order do not overlap |
| `two_orders` (1.6 million) | 2 orders for the same bundle of two games, 1 key per game, 1 handler, daemon | `ListedKeyIsHeld`, `SoldTwiceOnlyIfReleased`; reservations fail half way and are undone |
| `recreated_order` (420 000) | 2 orders, one may be a copy of the other, 1 key, 1 handler, daemon | the lease (`ImplementsLease`) inside the whole flow |
| `settlement` (760 000) | 2 handlers, 1 report, 2 payouts, every call may fail, 5 requests | `BoundToItsPayout`, `PaidAfterItsPayout` |
| `merchant` (1.8 million) | `Settlement`: 1 handler, 2 periods, 3 report ids, 2 payouts, corrections and reserves of 1 up or down, 8 requests. `Merchant`: 2 requests, 1 overlap or failure | `ImplementsAccount`, `PaidOutOnce`, `OneReportPerPeriod`, `BalanceIsCovered` for requests that do not overlap; `SignedByBoth`, and `NothingIsForgotten` without trouble |
| `refund` (210 000) | 1 handler, 2 refunds and 2 refund orders, 3 sets of rates and fees, 1 failing call or lost answer, 1 repair | `PaidBackOnce`, `RefundBookedOnce`, `BooksFollowGateway`, `NoGainFromRefund`, `ViewsFollowBooks`, and under fairness `PaidBackIsBooked` |
| `gateway` (120 000) | 2 handlers, 2 terminals, 3 instants, tokens with and without a lifetime, 1 answer that is not JSON or race | `RequestHasItsToken`, `PanicNeedsExpiry`, and under fairness `RequestsEnd` |
| `back_office` (780 000) | `Users`: 2 requests, 2 users, 3 roles, 1 overlap or failure. `VatReport`: 1 company, 3 countries, 2 payments at any time, or 1 and a failure, 4 days | `PermissionsFollowRoles`, `GrantNeedsInvitation`; `DecidedReportIsComplete`, `PastPeriodsAreDecided` |
| `shop` (890 000) | `Catalogue`: 2 requests at a time, 4 in all, 2 merchants, 2 projects, 1 product of each kind, 1 link. `Costs`: all four tables, 2 costs, 3 edits, or 2 and a failure | `SoldByOwner`, `DeletedLinkStaysDeleted`; `SetTakesEffect` |

Why these bounds are enough. Each hazard is a conflict over one document between two
handlers, or one handler and the daemon, so two handlers and one contested document
exhibit it; a third handler is a repetition. Two orders for one key is the smallest
case in which a key changes hands; a bundle of two games is the smallest reservation
that fails half way. One payment per order suffices since its verdict can be delivered
any number of times. The run `two_orders` has `CallbackStatuses = {"Complete"}` to
keep it small; notifying the merchant of other statuses is in the other runs.
`MaxEntries` is 2 so that a second insert, the violation, is reachable. In
`Settlement` five requests are create, accept, pay out, decide, and one that
interferes; eight sequential ones allow two reports to be accepted, paid out together,
given up and paid out again, or one of them to be cut by a reserve. `MinPayoutAmounts
= {0, 2}` makes both a pending and a skipped payout possible, and with a royalty of 2,
a VAT of 1 and a tariff's minimum of 1 a reserve of 1 is what makes a payout too
small. A lifetime of 1 in 3 instants is a token that ends between two reads. The third
report id is the spare a second report of a period would get. Two refunds are what it
takes to pay an order back twice, two refund orders to book a refund twice. Four days
of months of one day are two closed periods of two months, or one of three, and one
that is open, and a last day on which payments come after the sum. Three edits of a
cost are a cost that is set and cached, one that hides, moves or deletes it, and one
that sets it again by its id. With a failed call the runs `back_office` and `shop`
allow one payment or one edit less (`FailedSmall`, `FailedEarly`): the properties
about the amounts of a report and about a cost that was set assume none. Four requests
for the catalogue are a product, a link, an order and one that interferes; projects
are there from the start. `MaxTroubles`, `MaxMerchantTroubles` and `MaxCostTroubles`
bound overlaps and failures together: the properties that need neither are checked for
any number of sequential requests. Permutations of handlers, orders, payouts, projects
or roles are used as symmetry where no definition tells them apart, and never with a
liveness property. Where the theorems apply, these bounds do not matter.

`CHECK_DEADLOCK FALSE` appears where the server may be idle for ever: when the
requests, days or charges a run is bounded to have been used up.

Runs that find a disagreement between the code and what a comment, document,
error message or test of the repository says. The quotations are in
`PROJECT.json` under `findings`.

| Run | Property that fails | Course of events |
|---|---|---|
| `lost_update` | `PaidStaysPaid` | a form handler writes the copy it loaded before the callback |
| `two_payouts` | `PaidOutOnce` | two requests read the same reports and balance |

Behaviours of these models that bound what the properties above can say, for which
there is no run of their own:

* Two callbacks of one order that overlap both insert its entries
  (`ConcurrentCallbacks`); a callback that comes after the reservation ended redeems
  a key of nobody or of another order; an order whose platform changed after the
  keys were reserved gets the keys of the old one; the daemon cancels by id a key
  redeemed since its query; a re-created order lists the keys of its original.
* Two overlapping runs of the royalty task store two reports for one period, and so does
  one run for which `GetReportExists` fails (`blind`); if the
  record of a change fails after a payout was stored as paid, the pending copy stays
  in Redis and the paid payout can be failed; the task that accepts reports
  overwrites a dispute opened since its query; a failed payout stays subtracted from
  the stored balance.
* A payout has to be covered with the corrections and reserves of its reports, but is booked
  (`TotalFees`) without them. Once a report that was cut to less than its royalty
  is paid out, the balance shows more credit than debit; `BalanceIsCovered` is about the
  other states (`Uncut`). The entry that releases a reserve is added to the reserve of a
  report like the one that creates it (`getRoyaltyReportRollingReserves`,
  `royalty_report.go:564`), while the balance subtracts it
  (`getRollingReserveForBalance`, `merchant_balance.go:150`); so a release gives something
  back to the report only if it is entered with a negative amount.
* Two refunds that overlap, or one that follows a refund the server stored as rejected and
  the gateway has (its answer was lost, or `ProcessRefund` refused a callback), pay an
  order back twice (`disowned`, one worker in the run). With two workers a refund
  gets two refund orders.
* An answer that is not JSON leaves the mutex of the token cache locked for ever. The
  answer `null` is JSON but makes `setToken` itself panic with the mutex locked; the model
  counts it among those that are not JSON.
* A token without a lifetime makes every handler that asks for it panic at once
  (`PanicNeedsExpiry` says when).
* A subscription that is deleted while it is being created is charged and listed
  nowhere (`EarlyDelete`).
* A role changed while its invitation is accepted, or a call of casbin that fails,
  leaves permissions that differ from the role.
* A payment or a refund of the last day of a period that comes after that day's task has
  summed the period enters no report: the next day the report is decided as it is
  (`DecidedReportIsComplete` leaves out these and no others).
* A VAT task run for a past date opens a period again (`PastDays`); a country with
  the policy avg-month gets no reports at all.
* A cost set by the id of a document that was deleted with the merchant's old tariff, but is
  still in Redis, is never charged, although the request is answered OK; the same is
  said of a duplicate that was refused (`NotSet`).
* A link whose insert failed exists in Redis only.
* A lookup of a cost that overlaps an edit leaves the old cost in the cache without
  expiry.
* A deleted link or product can come back in the cache, and be ordered.

Every property of a passing run has a mutant in `PROJECT.json`: an operator that
changes one definition as a plausible mistake in that code would (marked
"Mistake:" in the modules) and under which TLC finds the property violated.

### Fairness

Safety needs none.

* `WF(DaemonScan)`, `WF(DaemonCancel(k) \/ DaemonSkip(k))`: the daemon is an
  endless loop with a sleep (`KeyDaemonStart`) that goes through every key it
  found.
* `SF(DaemonCancel(k))`: a single `CancelById` may fail and is then skipped, but
  a key that is found again and again is cancelled in the end.
* `WF(Expire(k))`: time passes.
* `WF` of a handler's next step in `Refund`, `Subscription` and `Gateway`: a request
  that is being handled goes on, or fails.
* `SF` of a callback in `Refund` and `Subscription`: the gateway repeats a callback
  until it is answered with success, which the code relies on (an error is returned so
  that the callback comes again).
* `SF(LockTokens(c))`: a Go mutex is given to every goroutine that waits for it.

Nothing is assumed of customers or merchants.

## 4. Theorems

Every safety property and every action property that a passing run checks is a
theorem here, for every value of the constants that satisfies the named assumptions
of the modules: any number of orders, keys, handlers, reports, merchants, days and so
on, and no bound on failures, overlaps or requests. The assumptions say that
constants have their types, that null values (`NoDoc`, `NoMerchant`, `Nobody`,
`None`...) are not ids or documents, that ids of different collections differ, and
that `Reports`, `Refunds` and `Payments` are finite because the models count or add
over them. TLC evaluates them in the runs. What a theorem needs beyond them is in
the column "if" and is explained below the table.

| Theorem | States | If |
|---|---|---|
| *OrderFlowProofs* | | |
| `TypeCorrect` | `[]TypeOK` | |
| `FlowImplementsLease` | `ImplementsLease` | |
| `KeysAreHeld` | `[]ListedKeyIsHeld` | `~Recreation` |
| `SoldTwiceReleased` | `[]SoldTwiceOnlyIfReleased` | `~Recreation` |
| `NothingBeforePayment` | `[]PaidFirst` | |
| `EntriesOnce` | `[]AccountedOnce` | `~ConcurrentCallbacks` |
| *CardPayProofs* | | |
| `GatewayTypeCorrect` | `[]GatewayTypeOK` | |
| `TokensAreTheirOwn` | `[]RequestHasItsToken` | |
| `PanicsAreLate` | `[]PanicNeedsExpiry` | |
| `SubTypeCorrect` | `[]SubTypeOK` | |
| `ChargedAreListed` | `[]ChargedIsListed` | `EarlyDelete = FALSE` |
| `TotalsCountPaidOrders` | `[]TotalCountsPaidOrders` | `TwoHandlers` |
| *SettlementProofs* | | |
| `InvariantHolds` | `[]SettlementInv` | |
| `ReportsAreBound` | `[]BoundToItsPayout` | |
| `ReportsPaidAfterPayout` | `[]PaidAfterItsPayout` | |
| `PayoutsOfAcceptedReports` | `[]PaidOutOnlyIfAccepted` | |
| `PeriodsReportedOnce` | `[]OneReportPerPeriod` | `OneHandler` |
| `ReportsPaidOutOnce` | `[]PaidOutOnce` | `OneHandler`, `Failures = FALSE` |
| `PaidPayoutsStay` | `PaidPayoutIsFinal` | `OneHandler`, `Failures = FALSE` |
| `SettlementTypeCorrect` | `[]TypeOK` | |
| `PayoutsAreCovered` | `[]BalanceIsCovered` | `OneHandler`, `Failures = FALSE` |
| `SettlementIsAccount` | `ImplementsAccount` | `OneHandler`, `Failures = FALSE` |
| *RefundProofs* | | |
| `RefundTypeCorrect` | `[]TypeOK` | |
| `MarksFollowGateway` | the part of `BooksFollowGateway` about the order and the entries | |
| `NoGain` | `[]NoGainFromRefund` | `psPercent <= 100` |
| `PaysBackOnce` | `[]PaidBackOnce` | `OneHandler` |
| `BooksOnce` | `[]RefundBookedOnce` | `OneHandler` |
| `BooksFollow` | `[]BooksFollowGateway` | `OneHandler`, `"refund" \notin Rebuilds` |
| `ViewsFollow` | `[]ViewsFollowBooks` | `OneHandler` |
| *AccountProofs* | | |
| `MerchantTypeCorrect` | `[]MerchantTypeOK` | |
| `SignedOnlyByBoth` | `[]SignedByBoth` | `SignedBySignatures` |
| `NothingForgotten` | `NothingIsForgotten` | |
| `AccountTypesCorrect` | `[]AccountTypesOK` | |
| *ShopProofs* | | |
| `CatalogueTypeCorrect`, `CostTypeCorrect` | `[]CatalogueTypeOK`, `[]CostTypeOK` | |
| `ShopTypesCorrect` | `[]ShopTypesOK` | |
| `ItemsAreTheSellers` | `[]SoldByOwner` | |
| `DeletedForGood` | `DeletedLinkStaysDeleted` | |
| `SettingTakesEffect` | `[]SetTakesEffect` | |
| *BackOfficeProofs* | | |
| `UsersTypeCorrect`, `VatTypeCorrect` | `[]UsersTypeOK`, `[]VatTypeOK` | |
| `BackOfficeTypesCorrect` | `[]BackOfficeTypesOK` | |
| `GrantsAreInvited` | `[]GrantNeedsInvitation` | |
| `PermissionsFollow` | `[]PermissionsFollowRoles` | |
| `DecidedReportsAreComplete` | `[]DecidedReportIsComplete` | `PastDays = {0}` |
| `PastReportsAreDecided` | `[]PastPeriodsAreDecided` | `PastDays = {0}` |
| `TurnoverIsOfTheYear` | the sum over the periods of a year is the sum over its payments | days are numbers |

`PaidOutOnlyIfAccepted` and `PaidPayoutIsFinal` are theorems but in no run:
`ImplementsAccount` has them as conditions of `Promise` and `Settle`. The first is proved
for requests that overlap and calls that fail as well, where the account is not kept.

### The hypotheses

They are the cases the runs are about. Without them most of the properties are false, by
the behaviours listed in section 3.

* `OneHandler`: the set of workers has one member, so requests do not overlap. It does
  not say that requests end: with failures a handler may stop between any two calls,
  and the next one finds what it left.
* `TwoHandlers`: at most two requests about recurring payments at a time. With three,
  two callbacks may read a total that a third has already raised, each pays a copy of
  the order, and one payment is not counted; TLC finds this with three handlers.
* `~Recreation`, `~ConcurrentCallbacks`, `Failures = FALSE`, `EarlyDelete = FALSE`,
  `PastDays = {0}`: the switches of the models. The last one says that the VAT task is
  run for its own day; a task run for an older date reopens a period, and one call
  that fails is then enough to leave it undecided.
* `SignedBySignatures`: the table of status changes, which is in the protocol package,
  does not let an administrator set "agreement signed" by hand. The table of the run
  satisfies it.
* `"refund" \notin Rebuilds`: nobody writes the entries of a refund by hand before the
  gateway paid it back. `psPercent <= 100`: PaySuper's share is a share.

### The invariants

A property of stored documents is hardly ever inductive here, since what is written
next is a copy that was read long ago, from MongoDB, from Redis or in a query of
many. The inductive invariants therefore speak of every copy of a document, wherever
it is, and of what each handler knows at each of its program counters. Those that
are not obvious were checked by TLC before they were proved.

* `OrderFlowProofs`. `TypeInv` adds to `TypeOK` that a busy worker has an order and a
  copy of it. `HeldInv` says of the copies of workers, the keys they have just
  reserved and the codes delivered what `ListedKeyIsHeld` says of documents. Each of
  two buyers of a code then holds the key or lost it, and a key has one holder. For
  the refinement, every step of the flow makes at most one call on one key, and each
  call is a step of `KeyLease` or a stutter.
* The callback, in the second half of `OrderFlowProofs`. `PaidInv`: a document, a copy, an entry or a delivery that claims
  the payment has the verdict behind it, and verdicts are never withdrawn.
  `LedgerInv`: at most one worker runs a callback of an order, only callbacks reach
  the ledger, and one past the look-up found no entries.
* `Gateway`. Handlers that overlap replace each other's tokens. What makes the token a
  handler takes good enough is that the cache keeps one that ends no earlier than the
  instant up to which the first it found or stored was good (`held`), and that none is
  taken out (`OwnToken`, `Kept`). If it has ended when the handler asks again, time has
  passed since, or it had no lifetime to begin with.
* `Subscription`. A handler that deletes knows the subscription the gateway has, in
  whatever order the three stores are changed. For the total, `Counted` lists the
  stages of the first charge: paid and not counted, counted once with at most one
  other callback left, its copy of the order paid, counted twice.
* `Settlement`. `SettlementInv` says of every copy of a report that if it names a
  payout, that payout is stored and lists it, and that it is marked paid only with a
  payout in `settled`; and of every copy of a payout that its sources are in
  `accepted` and are those of the stored one (`CopyInv`, `MarkInv`, `AcceptedInv`).
  A stored payout is never deleted, its sources never change and the histories only
  grow, so this survives any delay. `PeriodInv` adds that a period in a handler's
  hands has no other report. `AloneInv`, for one handler and no failures, says that
  each copy in Redis is the stored document except in the middle of the request that
  changes it, that open payouts are disjoint, and which reports of the payout at hand
  still have to be bound, paid or freed.
* The account of `Settlement`. `OwedInv`, for one handler and no failures: an accepted
  report stays owed for, and every copy of it that can still be written has its
  correction and no earlier status (`Current`). An old copy lives in Redis only while
  the handler that accepts the report has not yet replaced it, and the reports
  that `AutoAcceptRoyaltyReports` found are still as it found them. With it the reports that are due are exactly those
  in the history `accepted`, and each step maps as described in section 2.
* The balance. `AmountsInv` says that a payout is booked as `Royalty` times the number of
  its reports (`Priced`) and that all amounts, corrections and reserves are integers. The sources of the open
  payouts are disjoint and accepted, so the credit is the royalty of the reports they
  list, the debit adds up at least those (`CreditIs`, `DebitCovers`), and `CoverInv`
  carries this over the two queries to what is stored. All this is for owed reports
  of which nothing was cut (`Uncut`). One that was cut stays so: what is written in place
  of a report that is owed for has its correction and reserve (`UncutStays`).
* Sums. `MapThenSumSet` is a `CHOOSE` over recursive functions. That there is exactly one
  such function on the subsets of a finite set, and that its value grows with the set,
  adds up over disjoint sets and so on, is shown in `SumProofs` without the induction
  theorems: if it failed for some subset there would be a smallest such subset,
  for strict inclusion is well-founded there (`SmallestSubset`).
* `Refund`. `FollowInv` holds of any number of handlers: what a refund, an order, the
  entries or a handler says the gateway did, it did. `OnceAndLive`, for one handler:
  of the refunds the gateway has taken, those left aside that the server stored as rejected
  without having been refused (`disowned`), at most one is live and it counts, and a
  refund has at most one order, which the handler at work or the stored refund names.
  The views need more: which of entries and views a handler has still to write.
* `Accounting`. That a refund is never a gain is integer arithmetic on the sums of the
  views; it rests on a lemma about rounding, on one about each entry, and on the
  view being made from the entries of both (`ViewsInv`).
* `Merchant`. `SignedInv` says of the stored merchant, the copy in Redis and the
  copies of requests that signed means signed by both. `FreshEditInv`, without
  trouble, says that what a request holds and what Redis has is what is stored.
* `Users`. `EntitledInv` says of roles, of permissions and of the calls that requests
  still have to make that an invitation is behind them. `FollowInv`: carrying out the
  calls that are left leads from the present documents and permissions to ones that
  agree (`Leads`).
* `Catalogue`. All copies of a document have its owner and its project in common, for no
  operation changes these once it exists, and nothing is taken out of MongoDB; so
  what the checks of a link found out from old copies is true and stays so
  (`CopiesInv`).
* `Costs`. The unique index leaves one active cost for a country and a start
  (`OneActive`), so a lookup in MongoDB finds what was set last (`LastStored`); the
  cache says the same, has nothing, or is about to be cleared by the request that set
  it (`LastKnown`). This is for a cost that was stored (`Stored`); one that was answered OK
  and not stored satisfies `NotSet`, and which of the two it is stays so until the next
  edit. Each of the four tables is a case.
* `VatReport`. `ReportInv` says of every copy of a report, stored or in the list of the
  task, that it is complete once its period has been summed, `DecidedInv` which
  reports the task has still to decide, `LateInv` that a payment or refund of today is
  late only if today's task has summed its company. They rest on lemmas about periods as blocks of
  days (`PeriodIs`, `ReportPeriod`): division by the length of a month, which may
  be any number. For the types, `VatShape` adds the day of the task; the turnover of a
  company is added up period by period, and `TurnoverIsOfTheYear` joins the periods, blocks
  of days that meet, into one.

### Checked by TLC only

* `ReservationEnds`, `FailedChargeStops`, `PaidBackIsBooked`, `RequestsEnd`: liveness
  under fairness is not in the prover's reach.
* The violated properties `PaidStaysPaid` and, with two handlers, `PaidOutOnce`.

## 5. What is not modelled

* Amounts, taxes, rates and currencies of orders: floating-point computations and
  look-ups whose results decide only whether a check passes. The amounts of the
  ledger are in `Accounting`, with one rounding.
* Aggregation pipelines (dashboards, lists of orders): they are evaluated by the
  database and change nothing.
* Prices, countries, zip codes, payment methods, limits, tokens, customers: single
  documents that are looked up; what the order flow does with them is whether its
  checks pass.
* `ChangeCodeInOrder`, the mails about a low stock and `RoyaltyReportFinanceDone`:
  they send or repeat a mail.
* Mails, message broker, webhooks, report files: requests to other services
  whose results decide nothing, except for errors that end a handler (`Abort`,
  `Fail`).
* Mappers between stored and RPC documents, generated mocks, fixtures, migrations,
  translations.

## 6. Plan

Done: every component of section 2, theorems about every safety property that is
checked of them, and two refinements (`KeyLease`, `RoyaltyAccount`). Left, in this order:

1. For any number of callbacks at a time, that the total of a subscription never
   exceeds what was paid.
2. The refund and the order flow each keep the books of one order; a specification
   of an order's ledger that both implement.
3. What a VAT task run for a past date leaves true.
4. Tokens and customers, and the check of payment limits, as modules of their own.
