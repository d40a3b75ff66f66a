-------------------------- MODULE OrderFlowProofs --------------------------
(***************************************************************************)
(* Theorems about OrderFlow, for every set of orders, keys and workers:    *)
(* its types, who holds a key, that nothing of a sale happens before the   *)
(* gateway reported the payment completed, and that the accounting entries *)
(* of an order are inserted once if its callbacks do not overlap.          *)
(***************************************************************************)
EXTENDS OrderFlow, TLAPS

\* A worker that is not idle handles an order that exists, with a copy of it.
WorkerBusy ==
    \A p \in Workers : w[p].pc # "idle" =>
        /\ w[p].id \in Orders
        /\ Exists(w[p].id)
        /\ w[p].doc \in OrderDoc

TypeInv == TypeOK /\ WorkerBusy

-----------------------------------------------------------------------------
(* What the helpers return.                                                *)

\* The worker record of a handler that returned is well typed.
LEMMA IdleType == Idle \in Worker
  BY DEF Idle, Worker, PCs

\* Goto, the way a worker goes on, keeps the record well typed.
LEMMA GotoType ==
  ASSUME NEW r \in Worker, NEW pc \in PCs
  PROVE  /\ Goto(r, pc) \in Worker
         /\ Goto(r, pc).pc # "idle" => /\ Goto(r, pc).id = r.id
                                       /\ Goto(r, pc).doc = r.doc
  BY IdleType DEF Goto, Worker, Idle

\* CallUpdateOrder, the way every handler enters updateOrder.
LEMMA CallType ==
  ASSUME NEW o \in Orders, NEW doc \in OrderDoc, NEW c \in BOOLEAN, NEW n \in PCs
  PROVE  CallUpdateOrder(o, doc, c, n) \in Worker
  BY DEF CallUpdateOrder, Worker, PCs

\* ProcessPayment leaves a private status.
LEMMA StatusAfterType ==
  ASSUME NEW v \in Verdicts \cup {"invalid"}
  PROVE  StatusAfter(v) \in PrivateStatuses
  BY DEF StatusAfter, Verdicts, PrivateStatuses

\* The three calls of the key repository keep the collection well typed.
LEMMA PoolCallType ==
  ASSUME PoolTypeOK, NEW k \in Keys
  PROVE  /\ \A o \in Orders : ReserveFor(o, k) =>
              keys' \in [Keys -> KeyDoc] /\ released' \subseteq Orders \X Keys
         /\ Finish(k) => keys' \in [Keys -> KeyDoc] /\ released' \subseteq Orders \X Keys
         /\ Cancel(k) => keys' \in [Keys -> KeyDoc] /\ released' \subseteq Orders \X Keys
<1> keys[k] \in KeyDoc
  BY DEF PoolTypeOK
<1>1. ASSUME NEW o \in Orders, ReserveFor(o, k)
      PROVE  keys' \in [Keys -> KeyDoc] /\ released' \subseteq Orders \X Keys
  <2>1. ReserveKey(keys[k], o) \in KeyDoc
    BY DEF ReserveKey, KeyDoc, Locks
  <2> QED
    BY <1>1, <2>1 DEF ReserveFor, PoolTypeOK
<1>2. ASSUME Finish(k)
      PROVE  keys' \in [Keys -> KeyDoc] /\ released' \subseteq Orders \X Keys
  <2>1. FinishRedeemById(keys[k]) \in KeyDoc
    BY DEF FinishRedeemById, KeyDoc, Locks
  <2> QED
    BY <1>2, <2>1 DEF Finish, PoolTypeOK
<1>3. ASSUME Cancel(k)
      PROVE  keys' \in [Keys -> KeyDoc] /\ released' \subseteq Orders \X Keys
  <2>1. CancelById(keys[k]) \in KeyDoc
    BY DEF CancelById, KeyDoc, Locks
  <2>2. keys[k].order \in Orders \cup {NoOrder}
    BY DEF KeyDoc
  <2> QED
    BY <1>3, <2>1, <2>2 DEF Cancel, PoolTypeOK
<1> QED
  BY <1>1, <1>2, <1>3

\* A worker copy that satisfies what WorkerBusy asks of it.
Proper(r) == r.pc # "idle" => /\ r.id \in Orders
                              /\ Exists(r.id)
                              /\ r.doc \in OrderDoc

\* A step that only moves one worker on keeps TypeInv if the worker stays proper.
LEMMA WorkerStep ==
  ASSUME TypeInv, NEW p \in Workers, NEW r \in Worker, Set(p, r), Proper(r),
         UNCHANGED <<poolVars, orders, gateway, entries, delivered>>
  PROVE  TypeInv'
<1>1. TypeOK'
  BY DEF TypeInv, TypeOK, PoolTypeOK, poolVars, Set
<1>2. WorkerBusy'
  BY DEF TypeInv, TypeOK, WorkerBusy, Set, Proper, Exists
<1> QED
  BY <1>1, <1>2 DEF TypeInv

\* The same for a step that also changes the key collection.
LEMMA WorkerPoolStep ==
  ASSUME TypeInv, NEW p \in Workers, NEW r \in Worker, Set(p, r), Proper(r),
         keys' \in [Keys -> KeyDoc], released' \subseteq Orders \X Keys,
         delivered' \subseteq Orders \X Keys,
         UNCHANGED <<batch, orders, gateway, entries>>
  PROVE  TypeInv'
<1>1. TypeOK'
  BY DEF TypeInv, TypeOK, PoolTypeOK, Set
<1>2. WorkerBusy'
  BY DEF TypeInv, TypeOK, WorkerBusy, Set, Proper, Exists
<1> QED
  BY <1>1, <1>2 DEF TypeInv

\* Facts about a busy worker that the steps below use.
LEMMA BusyWorker ==
  ASSUME TypeInv, NEW p \in Workers, w[p].pc # "idle"
  PROVE  /\ w[p] \in Worker
         /\ w[p].id \in Orders
         /\ Exists(w[p].id)
         /\ w[p].doc \in OrderDoc
         /\ orders[w[p].id] \in OrderDoc
  BY DEF TypeInv, TypeOK, WorkerBusy, Exists

\* The form handlers, PaymentCreateProcess and the callback start a worker.
LEMMA RequestTyped ==
  ASSUME TypeInv, NEW p \in Workers, NEW o \in Orders, Request(p, o)
  PROVE  TypeInv'
<1>0. ASSUME NEW doc \in OrderDoc, NEW c \in BOOLEAN, NEW n \in PCs, Exists(o)
      PROVE  /\ CallUpdateOrder(o, doc, c, n) \in Worker
             /\ Proper(CallUpdateOrder(o, doc, c, n))
  BY <1>0, CallType DEF Proper, CallUpdateOrder
<1>1. Exists(o) => orders[o] \in OrderDoc
  BY DEF TypeInv, TypeOK, Exists
<1>2. ASSUME NEW doc \in OrderDoc, Exists(o), FormHandler(p, o, doc) PROVE TypeInv'
  <2>1. "idle" \in PCs
    BY DEF PCs
  <2> QED
    BY <1>0, <1>2, <2>1, WorkerStep DEF FormHandler
<1>3. ASSUME NEW s \in PrivateStatuses, Exists(o)
      PROVE  [orders[o] EXCEPT !.status = s] \in OrderDoc
  BY <1>1, <1>3 DEF OrderDoc
<1>4. CASE PaymentFormLanguageChanged(p, o)
  BY <1>1, <1>2, <1>4 DEF PaymentFormLanguageChanged, OpenToForm
<1>5. ASSUME NEW pl \in Platforms, PaymentFormPlatformChanged(p, o, pl) PROVE TypeInv'
  <2>1. Exists(o) => [orders[o] EXCEPT !.platform = pl] \in OrderDoc
    BY <1>1 DEF OrderDoc
  <2> QED
    BY <1>2, <1>5, <2>1 DEF PaymentFormPlatformChanged, OpenToForm
<1>6. CASE PaymentFormPaymentAccountChanged(p, o)
  BY <1>1, <1>2, <1>6 DEF PaymentFormPaymentAccountChanged, OpenToForm
<1>7. Exists(o) => CountryApplied(orders[o]) \subseteq OrderDoc
  BY <1>1, <1>3 DEF CountryApplied, PrivateStatuses
<1>8. CASE ProcessBillingAddress(p, o)
  BY <1>2, <1>7, <1>8 DEF ProcessBillingAddress, OpenToForm
<1>9. CASE PaymentFormJsonDataProcess(p, o)
  BY <1>2, <1>7, <1>9 DEF PaymentFormJsonDataProcess, OpenToForm
<1>10. CASE SetUserNotify(p, o)
  BY <1>1, <1>2, <1>10 DEF SetUserNotify
<1>11. CASE PaymentCreateProcess(p, o)
  <2>1. Exists(o)
    BY <1>11 DEF PaymentCreateProcess, OpenToForm
  <2>2. [orders[o] EXCEPT !.status = "Declined"] \in OrderDoc
    BY <1>3, <2>1 DEF PrivateStatuses
  <2>3. LET r == [Idle EXCEPT !.pc = "reserve", !.id = o, !.doc = orders[o], !.index = 1]
        IN  r \in Worker /\ Proper(r)
    BY <1>1, <2>1 DEF Idle, Worker, PCs, Proper
  <2>4. "idle" \in PCs /\ "gateway" \in PCs /\ FALSE \in BOOLEAN
    BY DEF PCs
  <2> QED
    BY <1>0, <1>1, <1>11, <2>1, <2>2, <2>3, <2>4, WorkerStep DEF PaymentCreateProcess
<1>12. ASSUME NEW v \in Verdicts \cup {"invalid"}, PaymentCallbackProcess(p, o, v)
       PROVE  TypeInv'
  <2>1. [orders[o] EXCEPT !.status = StatusAfter(v)] \in OrderDoc
    BY <1>3, <1>12, StatusAfterType DEF PaymentCallbackProcess
  <2> DEFINE n == CASE v = "completed" -> "ledger"
                    [] v = "invalid"   -> "idle"
                    [] OTHER           -> "card"
  <2>2. n \in PCs /\ TRUE \in BOOLEAN
    BY DEF PCs
  <2> HIDE DEF n
  <2>3. /\ CallUpdateOrder(o, [orders[o] EXCEPT !.status = StatusAfter(v)], TRUE, n) \in Worker
        /\ Proper(CallUpdateOrder(o, [orders[o] EXCEPT !.status = StatusAfter(v)], TRUE, n))
    BY <1>0, <1>12, <2>1, <2>2 DEF PaymentCallbackProcess
  <2>4. Set(p, CallUpdateOrder(o, [orders[o] EXCEPT !.status = StatusAfter(v)], TRUE, n))
    BY <1>12 DEF PaymentCallbackProcess, n
  <2> QED
    BY <1>12, <2>3, <2>4, WorkerStep DEF PaymentCallbackProcess
<1> QED
  BY <1>4, <1>5, <1>6, <1>8, <1>9, <1>10, <1>11, <1>12 DEF Request

\* What a worker inside updateOrder goes on with is well typed.
LEMMA AfterKeysType ==
  ASSUME NEW r \in Worker, r.pc # "idle", Proper(r)
  PROVE  AfterKeys(r) \in Worker /\ Proper(AfterKeys(r))
<1>1. r.next \in PCs /\ "merchant" \in PCs
  BY DEF Worker, PCs
<1>2. ASSUME NEW pc \in PCs
      PROVE  Goto(r, pc) \in Worker /\ Proper(Goto(r, pc))
  BY GotoType DEF Proper
<1> QED
  BY <1>1, <1>2 DEF AfterKeys

\* Every step of a busy worker keeps TypeInv.
LEMMA StepTyped ==
  ASSUME TypeInv, NEW p \in Workers, Step(p)
  PROVE  TypeInv'
<1> DEFINE r == w[p]
<1>0. r.pc # "idle"
  BY DEF Step, ReserveNext, ReserveFails, UndoNext, CreatePayment, Compare, Replace,
         NotifyKey, KeysNotified, NotifyMerchant, LedgerLookup, InsertEntries,
         SaveRecurringCard, Abort
<1>1. /\ r \in Worker /\ r.id \in Orders /\ Exists(r.id)
      /\ r.doc \in OrderDoc /\ orders[r.id] \in OrderDoc
  BY <1>0, BusyWorker
<1>2. Idle \in Worker /\ Proper(Idle)
  BY IdleType DEF Proper, Idle
<1>3. ASSUME NEW doc \in OrderDoc, NEW c \in BOOLEAN, NEW n \in PCs
      PROVE  /\ CallUpdateOrder(r.id, doc, c, n) \in Worker
             /\ Proper(CallUpdateOrder(r.id, doc, c, n))
  BY <1>1, CallType DEF Proper, CallUpdateOrder
<1>4. PoolTypeOK /\ delivered \subseteq Orders \X Keys
  BY DEF TypeInv, TypeOK
<1>5. "idle" \in PCs /\ "gateway" \in PCs /\ TRUE \in BOOLEAN /\ FALSE \in BOOLEAN
  BY DEF PCs
<1>6. CASE ReserveNext(p)
  <2> DEFINE stock == <<Basket[r.id][r.index], r.doc.platform>>
  <2>1. PICK k \in Available(stock) :
          /\ ReserveFor(r.id, k)
          /\ IF r.index < Len(Basket[r.id])
             THEN Set(p, [r EXCEPT !.got = @ \cup {k}, !.index = @ + 1])
             ELSE Set(p, CallUpdateOrder(r.id, [r.doc EXCEPT !.keys = r.got \cup {k}],
                                         FALSE, "gateway"))
    BY <1>6 DEF ReserveNext
  <2>2. k \in Keys
    BY DEF Available
  <2>3. LET s == [r EXCEPT !.got = @ \cup {k}, !.index = @ + 1]
        IN  s \in Worker /\ Proper(s)
    <3>1. r.index + 1 \in Nat /\ r.got \cup {k} \in SUBSET Keys
      BY <1>1, <2>2 DEF Worker
    <3> QED
      BY <1>1, <3>1 DEF Worker, Proper
  <2>4. [r.doc EXCEPT !.keys = r.got \cup {k}] \in OrderDoc
    BY <1>1, <2>2 DEF OrderDoc, Worker
  <2>5. keys' \in [Keys -> KeyDoc] /\ released' \subseteq Orders \X Keys
    BY <1>1, <1>4, <2>1, <2>2, PoolCallType
  <2>6. UNCHANGED <<batch, orders, gateway, entries, delivered>>
    BY <1>6 DEF ReserveNext
  <2>7. \E s \in Worker : Set(p, s) /\ Proper(s)
    <3>1. LET s == CallUpdateOrder(r.id, [r.doc EXCEPT !.keys = r.got \cup {k}],
                                   FALSE, "gateway")
          IN  s \in Worker /\ Proper(s)
      BY <1>3, <1>5, <2>4
    <3> QED
      BY <2>1, <2>3, <3>1
  <2> QED
    BY <1>4, <2>5, <2>6, <2>7, WorkerPoolStep
<1>7. CASE ReserveFails(p)
  <2>1. LET s == [r EXCEPT !.pc = "undo", !.todo = r.got] IN s \in Worker /\ Proper(s)
    BY <1>1 DEF Worker, Proper, PCs
  <2> QED
    BY <1>2, <1>7, <2>1, WorkerStep DEF ReserveFails
<1>8. CASE UndoNext(p)
  <2>1. PICK k \in r.todo :
          /\ Cancel(k) \/ UNCHANGED <<keys, released>>
          /\ Set(p, IF r.todo = {k} THEN Idle ELSE [r EXCEPT !.todo = @ \ {k}])
    BY <1>8 DEF UndoNext
  <2>2. k \in Keys
    BY <1>1 DEF Worker
  <2>3. LET s == [r EXCEPT !.todo = @ \ {k}] IN s \in Worker /\ Proper(s)
    BY <1>1 DEF Worker, Proper
  <2>4. keys' \in [Keys -> KeyDoc] /\ released' \subseteq Orders \X Keys
    BY <1>4, <2>1, <2>2, PoolCallType DEF PoolTypeOK
  <2>5. \E s \in Worker : Set(p, s) /\ Proper(s)
    BY <1>2, <2>1, <2>3
  <2>6. UNCHANGED <<batch, orders, gateway, entries, delivered>>
    BY <1>8 DEF UndoNext
  <2> QED
    BY <1>4, <2>4, <2>5, <2>6, WorkerPoolStep
<1>9. CASE CreatePayment(p)
  <2>1. [r.doc EXCEPT !.status = "InProgress"] \in OrderDoc
    BY <1>1 DEF OrderDoc, PrivateStatuses
  <2>2. PICK s \in Worker : Set(p, s) /\ Proper(s)
    <3>1. LET s == CallUpdateOrder(r.id, [r.doc EXCEPT !.status = "InProgress"], FALSE, "idle")
          IN  s \in Worker /\ Proper(s)
      BY <1>3, <1>5, <2>1
    <3> QED
      BY <1>9, <3>1 DEF CreatePayment
  <2> DEFINE g == gateway[r.id]
             h == [g EXCEPT !.made = @ + 1, !.open = @ + 1]
  <2>5. h \in [made : 0 .. MaxPayments, open : Nat, verdicts : SUBSET Verdicts]
    <3>1. g \in [made : 0 .. MaxPayments, open : Nat, verdicts : SUBSET Verdicts]
      BY <1>1 DEF TypeInv, TypeOK
    <3>2. g.made < MaxPayments
      BY <1>9 DEF CreatePayment
    <3>3. g.made + 1 \in 0 .. MaxPayments /\ g.open + 1 \in Nat
      BY <3>1, <3>2, FlowAssumption
    <3> QED
      BY <3>1, <3>3
  <2>6. gateway' = [gateway EXCEPT ![r.id] = h]
    BY <1>9 DEF CreatePayment
  <2> HIDE DEF g, h
  <2>3. TypeOK'
    BY <1>1, <1>9, <2>2, <2>5, <2>6
       DEF CreatePayment, Set, TypeInv, TypeOK, PoolTypeOK, poolVars
  <2>4. WorkerBusy'
    BY <1>9, <2>2 DEF CreatePayment, Set, TypeInv, TypeOK, WorkerBusy, Proper, Exists
  <2> QED
    BY <2>3, <2>4 DEF TypeInv
<1>10. CASE Compare(p)
  <2>1. LET s == [r EXCEPT !.pc = "replace",
                           !.changed = PublicStatus(orders[r.id].status)
                                           # PublicStatus(r.doc.status)]
        IN  s \in Worker /\ Proper(s)
    BY <1>1 DEF Worker, Proper, PCs
  <2> QED
    BY <1>10, <2>1, WorkerStep DEF Compare
<1>11. CASE Replace(p)
  <2>1. Proper(r)
    BY <1>1 DEF Proper
  <2>2. LET s == [r EXCEPT !.pc = "keys", !.todo = r.doc.keys] IN s \in Worker /\ Proper(s)
    BY <1>1 DEF Worker, Proper, PCs, OrderDoc
  <2>3. PICK s \in Worker : Set(p, s) /\ Proper(s)
    BY <1>1, <1>11, <2>1, <2>2, AfterKeysType DEF Replace
  <2>4. TypeOK'
    BY <1>1, <1>11, <2>3 DEF Replace, Set, TypeInv, TypeOK, PoolTypeOK, poolVars
  <2>5. orders' = [orders EXCEPT ![r.id] = r.doc] /\ r.doc # NoDoc
    BY <1>1, <1>11, NoDocAssumption DEF Replace
  <2>6. WorkerBusy'
    BY <2>3, <2>5 DEF Set, TypeInv, TypeOK, WorkerBusy, Proper, Exists
  <2> QED
    BY <2>4, <2>6 DEF TypeInv
<1>12. CASE NotifyKey(p)
  <2>1. PICK k \in r.todo :
          /\ Set(p, [r EXCEPT !.todo = @ \ {k}])
          /\ \/ UNCHANGED <<keys, released, delivered>>
             \/ Finish(k) /\ delivered' = delivered \cup {<<r.id, k>>}
             \/ Cancel(k) /\ UNCHANGED delivered
    BY <1>12 DEF NotifyKey
  <2>2. k \in Keys
    BY <1>1 DEF Worker
  <2>3. LET s == [r EXCEPT !.todo = @ \ {k}] IN s \in Worker /\ Proper(s)
    BY <1>1 DEF Worker, Proper
  <2>4. keys' \in [Keys -> KeyDoc] /\ released' \subseteq Orders \X Keys
    BY <1>4, <2>1, <2>2, PoolCallType DEF PoolTypeOK
  <2>5. delivered' \subseteq Orders \X Keys
    BY <1>1, <1>4, <2>1, <2>2
  <2>6. UNCHANGED <<batch, orders, gateway, entries>>
    BY <1>12 DEF NotifyKey
  <2> QED
    BY <2>1, <2>3, <2>4, <2>5, <2>6, WorkerPoolStep
<1>13. CASE KeysNotified(p)
  <2> DEFINE s == [r EXCEPT !.doc.notified = TRUE]
  <2>1. s \in Worker /\ Proper(s) /\ s.pc # "idle"
    BY <1>0, <1>1 DEF Worker, Proper, OrderDoc
  <2> HIDE DEF s
  <2>2. AfterKeys(s) \in Worker /\ Proper(AfterKeys(s))
    BY <2>1, AfterKeysType
  <2>3. /\ Set(p, AfterKeys(s))
        /\ UNCHANGED <<poolVars, orders, gateway, entries, delivered>>
    BY <1>13 DEF KeysNotified, s
  <2> QED
    BY <2>2, <2>3, WorkerStep
<1>14. CASE NotifyMerchant(p)
  <2>1. r.next \in PCs
    BY <1>1 DEF Worker
  <2>2. Goto(r, r.next) \in Worker /\ Proper(Goto(r, r.next))
    BY <1>1, <2>1, GotoType DEF Proper
  <2>3. PICK s \in Worker : Set(p, s) /\ Proper(s)
    BY <1>14, <2>2 DEF NotifyMerchant
  <2>4. TypeOK'
    BY <1>1, <1>14, <2>3 DEF NotifyMerchant, Set, TypeInv, TypeOK, PoolTypeOK, poolVars
  <2>5. \A o \in Orders : Exists(o) => Exists(o)'
    BY <1>1, <1>14, NoDocAssumption DEF NotifyMerchant, Exists, TypeInv, TypeOK
  <2>6. WorkerBusy'
    BY <2>3, <2>5 DEF Set, TypeInv, TypeOK, WorkerBusy, Proper
  <2> QED
    BY <2>4, <2>6 DEF TypeInv
<1>15. CASE LedgerLookup(p)
  <2>1. LET s == [r EXCEPT !.pc = "entries"] IN s \in Worker /\ Proper(s)
    BY <1>1 DEF Worker, Proper, PCs
  <2> QED
    BY <1>2, <1>15, <2>1, WorkerStep DEF LedgerLookup
<1>16. CASE InsertEntries(p)
  <2>1. LET s == [r EXCEPT !.pc = "card"] IN s \in Worker /\ Proper(s)
    BY <1>1 DEF Worker, Proper, PCs
  <2>2. TypeOK'
    BY <1>1, <1>16, <2>1, FlowAssumption
       DEF InsertEntries, Set, TypeInv, TypeOK, PoolTypeOK, poolVars
  <2>3. WorkerBusy'
    BY <1>16, <2>1 DEF InsertEntries, Set, TypeInv, TypeOK, WorkerBusy, Proper, Exists
  <2> QED
    BY <2>2, <2>3 DEF TypeInv
<1>17. CASE SaveRecurringCard(p)
  BY <1>1, <1>2, <1>3, <1>5, <1>17, WorkerStep DEF SaveRecurringCard
<1>18. CASE Abort(p)
  BY <1>2, <1>18, WorkerStep DEF Abort
<1> QED
  BY <1>6, <1>7, <1>8, <1>9, <1>10, <1>11, <1>12, <1>13, <1>14, <1>15, <1>16, <1>17, <1>18
     DEF Step

\* The key upload, the daemon and the clock keep TypeInv.
LEMMA PoolTyped ==
  ASSUME TypeInv, Pool
  PROVE  TypeInv'
<1>0. PoolTypeOK
  BY DEF TypeInv, TypeOK
<1>1. PoolTypeOK'
  <2>1. ASSUME NEW k \in Keys, UploadKeysFile(k) PROVE PoolTypeOK'
    <3>1. keys[k] \in KeyDoc
      BY <1>0 DEF PoolTypeOK
    <3>2. Insert(keys[k]) \in KeyDoc
      BY <3>1 DEF Insert, KeyDoc
    <3> QED
      BY <1>0, <2>1, <3>2 DEF UploadKeysFile, PoolTypeOK
  <2>2. CASE DaemonScan
    BY <1>0, <2>2 DEF DaemonScan, FindUnfinished, PoolTypeOK
  <2>3. ASSUME NEW k \in Keys, DaemonCancel(k) PROVE PoolTypeOK'
    <3>1. Cancel(k) /\ batch' = batch \ {k}
      BY <2>3 DEF DaemonCancel
    <3>2. keys' \in [Keys -> KeyDoc] /\ released' \subseteq Orders \X Keys
      BY <1>0, <3>1, PoolCallType
    <3> QED
      BY <1>0, <3>1, <3>2 DEF PoolTypeOK
  <2>4. ASSUME NEW k \in Keys, DaemonSkip(k) PROVE PoolTypeOK'
    BY <1>0, <2>4 DEF DaemonSkip, PoolTypeOK
  <2>5. ASSUME NEW k \in Keys, Expire(k) PROVE PoolTypeOK'
    <3>1. keys[k] \in KeyDoc
      BY <1>0 DEF PoolTypeOK
    <3>2. [keys[k] EXCEPT !.reserved = "expired"] \in KeyDoc
      BY <3>1 DEF KeyDoc, Locks
    <3> QED
      BY <1>0, <2>5, <3>2 DEF Expire, PoolTypeOK
  <2> QED
    BY <2>1, <2>2, <2>3, <2>4, <2>5 DEF Pool, Upload, Daemon, Clock
<1> QED
  BY <1>1 DEF Pool, flowVars, TypeInv, TypeOK, WorkerBusy, Exists

\* So do the creation of orders and the verdicts of the gateway.
LEMMA OrderTyped ==
  ASSUME TypeInv, NEW o \in Orders,
         \/ \E platform \in Platforms : OrderCreateProcess(o, platform)
         \/ \E n \in Orders : OrderReCreateProcess(o, n)
         \/ \E v \in Verdicts : Settle(o, v)
  PROVE  TypeInv'
<1>1. ASSUME NEW n \in Orders, NEW doc \in OrderDoc,
             orders' = [orders EXCEPT ![n] = doc],
             UNCHANGED <<poolVars, w, gateway, entries, delivered>>
      PROVE  TypeInv'
  <2>1. TypeOK'
    BY <1>1 DEF TypeInv, TypeOK, PoolTypeOK, poolVars
  <2>2. WorkerBusy'
    BY <1>1, NoDocAssumption DEF TypeInv, TypeOK, WorkerBusy, Exists
  <2> QED
    BY <2>1, <2>2 DEF TypeInv
<1>2. ASSUME NEW platform \in Platforms, OrderCreateProcess(o, platform)
      PROVE  TypeInv'
  <2>1. NewOrder(platform) \in OrderDoc
    BY DEF NewOrder, OrderDoc, PrivateStatuses
  <2> QED
    BY <1>1, <1>2, <2>1 DEF OrderCreateProcess
<1>3. ASSUME NEW n \in Orders, OrderReCreateProcess(o, n)
      PROVE  TypeInv'
  <2>1. orders[o] \in OrderDoc
    BY <1>3 DEF OrderReCreateProcess, Exists, TypeInv, TypeOK
  <2>2. Recreated(orders[o]) \in OrderDoc
    BY <2>1 DEF Recreated, OrderDoc, PrivateStatuses
  <2> QED
    BY <1>1, <1>3, <2>2 DEF OrderReCreateProcess
<1>4. ASSUME NEW v \in Verdicts, Settle(o, v)
      PROVE  TypeInv'
  <2> DEFINE g == gateway[o]
             h == [g EXCEPT !.open = @ - 1, !.verdicts = @ \cup {v}]
  <2>1. h \in [made : 0 .. MaxPayments, open : Nat, verdicts : SUBSET Verdicts]
    <3>1. g \in [made : 0 .. MaxPayments, open : Nat, verdicts : SUBSET Verdicts]
      BY DEF TypeInv, TypeOK
    <3>2. g.open > 0
      BY <1>4 DEF Settle
    <3>3. g.open - 1 \in Nat /\ g.verdicts \cup {v} \in SUBSET Verdicts
      BY <3>1, <3>2
    <3> QED
      BY <3>1, <3>3
  <2>2. gateway' = [gateway EXCEPT ![o] = h]
    BY <1>4 DEF Settle
  <2> HIDE DEF g, h
  <2>3. UNCHANGED <<poolVars, orders, w, entries, delivered>>
    BY <1>4 DEF Settle
  <2>4. TypeOK'
    BY <2>1, <2>2, <2>3 DEF TypeInv, TypeOK, PoolTypeOK, poolVars
  <2>5. WorkerBusy'
    BY <2>3 DEF TypeInv, WorkerBusy, Exists
  <2> QED
    BY <2>4, <2>5 DEF TypeInv
<1> QED
  BY <1>2, <1>3, <1>4

\* Every step of the system keeps TypeInv.
LEMMA NextTyped == TypeInv /\ [Next]_vars => TypeInv'
<1> SUFFICES ASSUME TypeInv, [Next]_vars
             PROVE  TypeInv'
  OBVIOUS
<1>1. CASE Next
  BY <1>1, PoolTyped, OrderTyped, RequestTyped, StepTyped DEF Next
<1>2. CASE UNCHANGED vars
  BY <1>2 DEF vars, TypeInv, TypeOK, PoolTypeOK, WorkerBusy, Exists
<1> QED
  BY <1>1, <1>2

\* The initial state satisfies TypeInv.
LEMMA InitTyped == Init => TypeInv
<1> SUFFICES ASSUME Init
             PROVE  TypeInv
  OBVIOUS
<1>1. PoolTypeOK
  BY DEF Init, PoolInit, PoolTypeOK, NotUploaded, KeyDoc, Locks
<1>2. TypeOK
  BY <1>1, IdleType, FlowAssumption DEF Init, TypeOK
<1>3. WorkerBusy
  BY DEF Init, WorkerBusy, Idle
<1> QED
  BY <1>2, <1>3 DEF TypeInv

\* TypeInv is an inductive invariant of the order flow.
LEMMA TypeInvariant == Spec => []TypeInv
  BY InitTyped, NextTyped, PTL DEF Spec

\* Whatever the handlers, the daemon and the gateway do, and in whatever order
\* they overwrite each other's copies, every stored order, every key and every
\* worker's copy keeps its shape (orderRepository.Update, updateOrder).
THEOREM TypeCorrect == Spec => []TypeOK
<1>1. TypeInv => TypeOK
  BY DEF TypeInv
<1> QED
  BY <1>1, TypeInvariant, PTL

-----------------------------------------------------------------------------
(* Who holds a key: the key collection implements KeyLease in the whole    *)
(* order flow, and without re-created orders a key that an order lists or  *)
(* delivers was reserved for that order.                                   *)

\* The key is reserved for the order, or was taken away from it.
HeldOrLost(o, k) == keys[k].order = o \/ <<o, k>> \in released

\* The keys a worker's record refers to.
Mentions(r) == r.doc.keys \cup r.got \cup r.todo

StoredHeld ==
    \A o \in Orders : Exists(o) => \A k \in orders[o].keys : HeldOrLost(o, k)

WorkersHeld ==
    \A p \in Workers : w[p].pc # "idle" =>
        \A k \in Mentions(w[p]) : HeldOrLost(w[p].id, k)

DeliveredHeld ==
    \A o \in Orders, k \in Keys : <<o, k>> \in delivered => HeldOrLost(o, k)

HeldInv == StoredHeld /\ WorkersHeld /\ DeliveredHeld

\* What a step may do to the holders of the keys.
KeepsHolders ==
    /\ released \subseteq released'
    /\ \A k \in Keys : \/ keys'[k].order = keys[k].order
                       \/ keys[k].order = NoOrder
                       \/ <<keys[k].order, k>> \in released'

-----------------------------------------------------------------------------
(* The calls of the key repository.                                        *)

\* ReserveKey takes a key without an owner, FinishRedeemById keeps the owner and
\* CancelById is recorded, so no call of the repository changes a holder unseen.
LEMMA PoolCallKeeps ==
  ASSUME PoolTypeOK, NEW k \in Keys
  PROVE  /\ \A o \in Orders : ReserveFor(o, k) /\ keys[k].order = NoOrder =>
              KeepsHolders /\ keys'[k].order = o
         /\ Finish(k) => KeepsHolders
         /\ Cancel(k) => KeepsHolders
         /\ UNCHANGED <<keys, released>> => KeepsHolders
<1>0. keys[k] \in KeyDoc /\ keys \in [Keys -> KeyDoc]
  BY DEF PoolTypeOK
<1>1. ASSUME NEW o \in Orders, ReserveFor(o, k), keys[k].order = NoOrder
      PROVE  KeepsHolders /\ keys'[k].order = o
  <2>1. ReserveKey(keys[k], o).order = o
    BY <1>0 DEF ReserveKey, KeyDoc
  <2> QED
    BY <1>0, <1>1, <2>1 DEF ReserveFor, KeepsHolders
<1>2. ASSUME Finish(k) PROVE KeepsHolders
  <2>1. FinishRedeemById(keys[k]).order = keys[k].order
    BY <1>0 DEF FinishRedeemById, KeyDoc
  <2> QED
    BY <1>0, <1>2, <2>1 DEF Finish, KeepsHolders
<1>3. ASSUME Cancel(k) PROVE KeepsHolders
  BY <1>0, <1>3 DEF Cancel, KeepsHolders
<1>4. ASSUME UNCHANGED <<keys, released>> PROVE KeepsHolders
  BY <1>4 DEF KeepsHolders
<1> QED
  BY <1>1, <1>2, <1>3, <1>4

\* An order that holds a key keeps it or is known to have lost it.
LEMMA HeldStays ==
  ASSUME KeepsHolders, NEW o \in Orders, NEW k \in Keys, HeldOrLost(o, k)
  PROVE  HeldOrLost(o, k)'
  BY NoOrderAssumption DEF KeepsHolders, HeldOrLost

\* A step of one worker keeps HeldInv if what it mentions afterwards is held, it
\* stores only its own copy and it delivers only keys it still had to notify.
LEMMA HeldWorkerStep ==
  ASSUME TypeInv, HeldInv, KeepsHolders, NEW p \in Workers, NEW r, Set(p, r),
         r.pc # "idle" => \A k \in Mentions(r) : HeldOrLost(r.id, k)',
         \/ UNCHANGED orders
         \/ w[p].pc # "idle" /\ orders' = [orders EXCEPT ![w[p].id] = w[p].doc],
         \/ UNCHANGED delivered
         \/ w[p].pc # "idle" /\ \E k \in w[p].todo : delivered' = delivered \cup {<<w[p].id, k>>}
  PROVE  HeldInv'
<1>1. w[p].pc # "idle" =>
        /\ w[p] \in Worker /\ w[p].id \in Orders /\ w[p].doc \in OrderDoc
        /\ w[p].doc.keys \subseteq Keys /\ w[p].todo \subseteq Keys
  BY BusyWorker DEF Worker, OrderDoc
<1>2. StoredHeld'
  <2> SUFFICES ASSUME NEW o \in Orders, Exists(o)', NEW k \in orders'[o].keys
               PROVE  HeldOrLost(o, k)'
    BY DEF StoredHeld
  <2>1. CASE orders'[o] = orders[o]
    <3>1. orders[o] \in OrderDoc
      BY <2>1 DEF Exists, TypeInv, TypeOK
    <3>2. k \in Keys
      BY <2>1, <3>1 DEF OrderDoc
    <3> QED
      BY <2>1, <3>2, HeldStays DEF HeldInv, StoredHeld, Exists
  <2>2. CASE w[p].pc # "idle" /\ o = w[p].id /\ orders'[o] = w[p].doc
    BY <1>1, <2>2, HeldStays DEF HeldInv, WorkersHeld, Mentions
  <2> QED
    BY <1>1, <2>1, <2>2 DEF TypeInv, TypeOK
<1>3. WorkersHeld'
  <2> SUFFICES ASSUME NEW q \in Workers, w'[q].pc # "idle", NEW k \in Mentions(w[q])'
               PROVE  HeldOrLost(w[q].id, k)'
    BY DEF WorkersHeld
  <2>1. CASE q = p
    <3>1. w'[q] = r
      BY <2>1 DEF Set, TypeInv, TypeOK
    <3> QED
      BY <3>1 DEF Mentions, HeldOrLost
  <2>2. CASE q # p
    <3>1. w'[q] = w[q]
      BY <2>2 DEF Set, TypeInv, TypeOK
    <3>2. w[q] \in Worker /\ w[q].id \in Orders /\ w[q].doc \in OrderDoc
      BY <3>1, BusyWorker
    <3>3. k \in Keys
      BY <3>1, <3>2 DEF Mentions, Worker, OrderDoc
    <3>4. HeldOrLost(w[q].id, k)
      BY <3>1 DEF HeldInv, WorkersHeld, Mentions
    <3>5. \A o \in Orders : HeldOrLost(o, k) => HeldOrLost(o, k)'
      BY <3>3, HeldStays
    <3> QED
      BY <3>1, <3>2, <3>4, <3>5 DEF HeldOrLost
  <2> QED
    BY <2>1, <2>2
<1>4. DeliveredHeld'
  <2> SUFFICES ASSUME NEW o \in Orders, NEW k \in Keys, <<o, k>> \in delivered'
               PROVE  HeldOrLost(o, k)'
    BY DEF DeliveredHeld
  <2>1. HeldOrLost(o, k)
    BY <1>1 DEF HeldInv, DeliveredHeld, WorkersHeld, Mentions
  <2> QED
    BY <2>1, HeldStays
<1> QED
  BY <1>2, <1>3, <1>4 DEF HeldInv

\* A worker that mentions no new key afterwards mentions only held keys.
LEMMA HeldSameKeys ==
  ASSUME TypeInv, HeldInv, KeepsHolders, NEW p \in Workers, w[p].pc # "idle", NEW r,
         r.pc # "idle" => r.id = w[p].id /\ Mentions(r) \subseteq Mentions(w[p])
  PROVE  r.pc # "idle" => \A k \in Mentions(r) : HeldOrLost(r.id, k)'
<1>1. Mentions(w[p]) \subseteq Keys /\ w[p].id \in Orders
  BY BusyWorker DEF Mentions, Worker, OrderDoc
<1>2. \A k \in Mentions(w[p]) : HeldOrLost(w[p].id, k)
  BY DEF HeldInv, WorkersHeld
<1>3. ASSUME NEW o \in Orders, NEW k \in Keys, HeldOrLost(o, k) PROVE HeldOrLost(o, k)'
  BY <1>3, HeldStays
<1> SUFFICES ASSUME r.pc # "idle", NEW k \in Mentions(r)
             PROVE  HeldOrLost(r.id, k)'
  OBVIOUS
<1>4. r.id = w[p].id /\ k \in Mentions(w[p])
  OBVIOUS
<1> QED
  BY <1>1, <1>2, <1>3, <1>4

\* A handler starts with the keys of the stored order.
LEMMA RequestHeld ==
  ASSUME TypeInv, HeldInv, NEW p \in Workers, NEW o \in Orders, Request(p, o)
  PROVE  HeldInv'
<1>0. KeepsHolders /\ UNCHANGED <<keys, released, orders, delivered>> /\ Exists(o)
  BY DEF Request, PaymentFormLanguageChanged, PaymentFormPlatformChanged,
         PaymentFormPaymentAccountChanged, ProcessBillingAddress,
         PaymentFormJsonDataProcess, SetUserNotify, PaymentCreateProcess,
         PaymentCallbackProcess, FormHandler, OpenToForm, KeepsHolders, poolVars
<1>1. orders[o] \in OrderDoc
  BY <1>0 DEF Exists, TypeInv, TypeOK
<1>2. ASSUME NEW doc, doc.keys = orders[o].keys, NEW c, NEW n
      PROVE  LET r == CallUpdateOrder(o, doc, c, n) IN
             r.id = o /\ Mentions(r) = orders[o].keys
  BY <1>2 DEF CallUpdateOrder, Mentions
<1>3. ASSUME NEW s
      PROVE  /\ [orders[o] EXCEPT !.status = s].keys = orders[o].keys
             /\ [orders[o] EXCEPT !.platform = s].keys = orders[o].keys
  BY <1>1 DEF OrderDoc
<1>4. PICK r : Set(p, r) /\ r.id = o /\ Mentions(r) = orders[o].keys
  <2>1. ASSUME NEW doc, doc.keys = orders[o].keys, FormHandler(p, o, doc)
        PROVE  \E r : Set(p, r) /\ r.id = o /\ Mentions(r) = orders[o].keys
    BY <1>2, <2>1 DEF FormHandler
  <2>2. CASE PaymentFormLanguageChanged(p, o) \/ PaymentFormPaymentAccountChanged(p, o)
             \/ SetUserNotify(p, o)
    BY <2>1, <2>2 DEF PaymentFormLanguageChanged, PaymentFormPaymentAccountChanged,
                      SetUserNotify
  <2>3. CASE \E pl \in Platforms : PaymentFormPlatformChanged(p, o, pl)
    BY <1>3, <2>1, <2>3 DEF PaymentFormPlatformChanged
  <2>4. CASE ProcessBillingAddress(p, o) \/ PaymentFormJsonDataProcess(p, o)
    BY <1>3, <2>1, <2>4 DEF ProcessBillingAddress, PaymentFormJsonDataProcess, CountryApplied
  <2>5. CASE PaymentCreateProcess(p, o)
    <3>1. LET r == [Idle EXCEPT !.pc = "reserve", !.id = o, !.doc = orders[o], !.index = 1]
          IN  r.id = o /\ Mentions(r) = orders[o].keys
      BY DEF Idle, Mentions
    <3>2. LET r == CallUpdateOrder(o, [orders[o] EXCEPT !.status = "Declined"], FALSE, "idle")
          IN  r.id = o /\ Mentions(r) = orders[o].keys
      BY <1>2, <1>3
    <3>3. LET r == CallUpdateOrder(o, orders[o], FALSE, "gateway")
          IN  r.id = o /\ Mentions(r) = orders[o].keys
      BY <1>2
    <3> QED
      BY <2>5, <3>1, <3>2, <3>3 DEF PaymentCreateProcess
  <2>6. ASSUME NEW v \in Verdicts \cup {"invalid"}, PaymentCallbackProcess(p, o, v)
        PROVE  \E r : Set(p, r) /\ r.id = o /\ Mentions(r) = orders[o].keys
    <3>1. [orders[o] EXCEPT !.status = StatusAfter(v)].keys = orders[o].keys
      BY <1>3
    <3>2. \E n : Set(p, CallUpdateOrder(o, [orders[o] EXCEPT !.status = StatusAfter(v)], TRUE, n))
      BY <2>6 DEF PaymentCallbackProcess
    <3> QED
      BY <1>2, <3>1, <3>2
  <2> QED
    BY <2>2, <2>3, <2>4, <2>5, <2>6 DEF Request
<1>5. \A k \in orders[o].keys : HeldOrLost(o, k)'
  BY <1>0 DEF HeldInv, StoredHeld, HeldOrLost
<1>6. \A k \in Mentions(r) : HeldOrLost(r.id, k)'
  BY <1>4, <1>5
<1> QED
  BY <1>0, <1>4, <1>6, HeldWorkerStep

\* A worker without keys to undo or to notify: the record Goto and AfterKeys leave.
LEMMA GotoMentions ==
  ASSUME NEW r \in Worker, NEW pc \in PCs
  PROVE  Goto(r, pc).pc # "idle" => /\ Goto(r, pc).id = r.id
                                    /\ Mentions(Goto(r, pc)) = Mentions(r)
  BY DEF Goto, Idle, Mentions, Worker

\* No step of a busy worker loses track of a key.
LEMMA StepHeld ==
  ASSUME TypeInv, HeldInv, NEW p \in Workers, Step(p)
  PROVE  HeldInv'
<1> DEFINE r == w[p]
<1>0. r.pc # "idle"
  BY DEF Step, ReserveNext, ReserveFails, UndoNext, CreatePayment, Compare, Replace,
         NotifyKey, KeysNotified, NotifyMerchant, LedgerLookup, InsertEntries,
         SaveRecurringCard, Abort
<1>1. /\ r \in Worker /\ r.id \in Orders /\ Exists(r.id)
      /\ r.doc \in OrderDoc /\ orders[r.id] \in OrderDoc
      /\ PoolTypeOK
  BY <1>0, BusyWorker DEF TypeInv, TypeOK
<1>2. ASSUME KeepsHolders, NEW s, Set(p, s),
             s.pc # "idle" => s.id = r.id /\ Mentions(s) \subseteq Mentions(r),
             UNCHANGED orders \/ orders' = [orders EXCEPT ![r.id] = r.doc],
             \/ UNCHANGED delivered
             \/ \E k \in r.todo : delivered' = delivered \cup {<<r.id, k>>}
      PROVE  HeldInv'
  <2>1. s.pc # "idle" => \A k \in Mentions(s) : HeldOrLost(s.id, k)'
    BY <1>0, <1>2, HeldSameKeys
  <2> QED
    BY <1>0, <1>2, <2>1, HeldWorkerStep
<1>3. ASSUME UNCHANGED poolVars PROVE KeepsHolders
  BY <1>3 DEF poolVars, KeepsHolders
<1>4. ASSUME NEW pc \in PCs
      PROVE  Goto(r, pc).pc # "idle" => /\ Goto(r, pc).id = r.id
                                        /\ Mentions(Goto(r, pc)) \subseteq Mentions(r)
  BY <1>1, GotoMentions
<1>5. Idle.pc = "idle"
  BY DEF Idle
<1>6. CASE ReserveNext(p)
  <2> DEFINE stock == <<Basket[r.id][r.index], r.doc.platform>>
             s1(k) == [r EXCEPT !.got = @ \cup {k}, !.index = @ + 1]
             s2(k) == CallUpdateOrder(r.id, [r.doc EXCEPT !.keys = r.got \cup {k}],
                                      FALSE, "gateway")
  <2>1. PICK k \in Available(stock) : ReserveFor(r.id, k) /\ (Set(p, s1(k)) \/ Set(p, s2(k)))
    BY <1>6 DEF ReserveNext
  <2>2. k \in Keys /\ keys[k].order = NoOrder
    BY DEF Available
  <2>0. PICK o \in Orders : o = r.id
    BY <1>1
  <2>3. KeepsHolders /\ HeldOrLost(o, k)'
    BY <1>1, <2>0, <2>1, <2>2, PoolCallKeeps DEF HeldOrLost
  <2>4. s1(k).id = r.id /\ Mentions(s1(k)) \subseteq Mentions(r) \cup {k}
    BY <1>1 DEF Worker, Mentions
  <2>5. s2(k).id = r.id /\ Mentions(s2(k)) \subseteq Mentions(r) \cup {k}
    BY <1>1 DEF CallUpdateOrder, OrderDoc, Mentions
  <2> HIDE DEF s1, s2
  <2>6. PICK s : Set(p, s) /\ s.id = r.id /\ Mentions(s) \subseteq Mentions(r) \cup {k}
    BY <2>1, <2>4, <2>5
  <2>7. \A j \in Mentions(r) : HeldOrLost(o, j)'
    <3>1. PICK q : q = r
      OBVIOUS
    <3> QED
      BY <1>0, <2>0, <2>3, <3>1, HeldSameKeys
  <2>8. \A j \in Mentions(s) : HeldOrLost(s.id, j)'
    BY <2>0, <2>3, <2>6, <2>7
  <2>9. UNCHANGED <<orders, delivered>>
    BY <1>6 DEF ReserveNext
  <2> QED
    BY <2>3, <2>6, <2>8, <2>9, HeldWorkerStep
<1>7. CASE ReserveFails(p)
  <2> DEFINE s == [r EXCEPT !.pc = "undo", !.todo = r.got]
  <2>1. s.id = r.id /\ Mentions(s) \subseteq Mentions(r)
    BY <1>1 DEF Worker, Mentions
  <2> HIDE DEF s
  <2>2. Set(p, Idle) \/ Set(p, s)
    BY <1>7 DEF ReserveFails, s
  <2> QED
    BY <1>2, <1>3, <1>5, <1>7, <2>1, <2>2 DEF ReserveFails
<1>8. CASE UndoNext(p)
  <2>1. PICK k \in r.todo :
          /\ Cancel(k) \/ UNCHANGED <<keys, released>>
          /\ Set(p, Idle) \/ Set(p, [r EXCEPT !.todo = @ \ {k}])
    BY <1>8 DEF UndoNext
  <2>2. LET s == [r EXCEPT !.todo = @ \ {k}] IN s.id = r.id /\ Mentions(s) \subseteq Mentions(r)
    BY <1>1 DEF Worker, Mentions
  <2>3. KeepsHolders
    <3>1. k \in Keys
      BY <1>1 DEF Worker
    <3> QED
      BY <1>1, <2>1, <3>1, PoolCallKeeps
  <2>4. UNCHANGED <<orders, delivered>>
    BY <1>8 DEF UndoNext
  <2> QED
    BY <1>2, <1>5, <2>1, <2>2, <2>3, <2>4
<1>9. CASE CreatePayment(p)
  <2> DEFINE s == CallUpdateOrder(r.id, [r.doc EXCEPT !.status = "InProgress"], FALSE, "idle")
  <2>1. s.id = r.id /\ Mentions(s) \subseteq Mentions(r)
    BY <1>1 DEF CallUpdateOrder, OrderDoc, Mentions
  <2> HIDE DEF s
  <2>2. Set(p, s) /\ UNCHANGED <<poolVars, orders, delivered>>
    BY <1>9 DEF CreatePayment, s
  <2> QED
    BY <1>2, <1>3, <2>1, <2>2
<1>10. CASE Compare(p)
  <2>1. \E c : Set(p, [r EXCEPT !.pc = "replace", !.changed = c])
    BY <1>10 DEF Compare
  <2>2. ASSUME NEW c
        PROVE  LET s == [r EXCEPT !.pc = "replace", !.changed = c]
               IN  s.id = r.id /\ Mentions(s) \subseteq Mentions(r)
    BY <1>1 DEF Worker, Mentions
  <2> QED
    BY <1>2, <1>3, <1>10, <2>1, <2>2 DEF Compare
<1>11. CASE Replace(p)
  <2> DEFINE s == [r EXCEPT !.pc = "keys", !.todo = r.doc.keys]
  <2>1. s.id = r.id /\ Mentions(s) \subseteq Mentions(r)
    BY <1>1 DEF Worker, Mentions
  <2>2. AfterKeys(r).pc # "idle" =>
          AfterKeys(r).id = r.id /\ Mentions(AfterKeys(r)) \subseteq Mentions(r)
    BY <1>1, <1>4 DEF AfterKeys, Worker, PCs
  <2> HIDE DEF s
  <2>3. Set(p, s) \/ Set(p, AfterKeys(r))
    BY <1>11 DEF Replace, s
  <2>4. /\ UNCHANGED <<poolVars, delivered>>
        /\ orders' = [orders EXCEPT ![r.id] = r.doc]
    BY <1>11 DEF Replace
  <2> QED
    BY <1>2, <1>3, <2>1, <2>2, <2>3, <2>4
<1>12. CASE NotifyKey(p)
  <2>1. PICK k \in r.todo :
          /\ Set(p, [r EXCEPT !.todo = @ \ {k}])
          /\ \/ UNCHANGED <<keys, released, delivered>>
             \/ Finish(k) /\ delivered' = delivered \cup {<<r.id, k>>}
             \/ Cancel(k) /\ UNCHANGED delivered
    BY <1>12 DEF NotifyKey
  <2>2. LET s == [r EXCEPT !.todo = @ \ {k}] IN s.id = r.id /\ Mentions(s) \subseteq Mentions(r)
    BY <1>1 DEF Worker, Mentions
  <2>3. KeepsHolders
    <3>1. k \in Keys
      BY <1>1 DEF Worker
    <3> QED
      BY <1>1, <2>1, <3>1, PoolCallKeeps
  <2>4. UNCHANGED orders
    BY <1>12 DEF NotifyKey
  <2> QED
    BY <1>2, <2>1, <2>2, <2>3, <2>4
<1>13. CASE KeysNotified(p)
  <2> DEFINE s == [r EXCEPT !.doc.notified = TRUE]
  <2>1. s \in Worker /\ s.id = r.id /\ Mentions(s) = Mentions(r)
    BY <1>1 DEF Worker, OrderDoc, Mentions
  <2> HIDE DEF s
  <2>2. s.next \in PCs /\ "merchant" \in PCs
    BY <2>1 DEF Worker, PCs
  <2>3. AfterKeys(s).pc # "idle" =>
          AfterKeys(s).id = r.id /\ Mentions(AfterKeys(s)) \subseteq Mentions(r)
    BY <2>1, <2>2, GotoMentions DEF AfterKeys
  <2>4. Set(p, AfterKeys(s)) /\ UNCHANGED <<poolVars, orders, delivered>>
    BY <1>13 DEF KeysNotified, s
  <2> QED
    BY <1>2, <1>3, <2>3, <2>4
<1>14. CASE NotifyMerchant(p)
  <2>1. r.next \in PCs
    BY <1>1 DEF Worker
  <2> QED
    BY <1>2, <1>3, <1>4, <1>14, <2>1 DEF NotifyMerchant
<1>15. CASE LedgerLookup(p) \/ InsertEntries(p)
  <2>1. ASSUME NEW pc
        PROVE  LET s == [r EXCEPT !.pc = pc] IN s.id = r.id /\ Mentions(s) \subseteq Mentions(r)
    BY <1>1 DEF Worker, Mentions
  <2>2. UNCHANGED <<poolVars, orders, delivered>>
    BY <1>15 DEF LedgerLookup, InsertEntries
  <2>3. \/ Set(p, Idle)
        \/ Set(p, [r EXCEPT !.pc = "entries"])
        \/ Set(p, [r EXCEPT !.pc = "card"])
    BY <1>15 DEF LedgerLookup, InsertEntries
  <2> QED
    BY <1>2, <1>3, <1>5, <2>1, <2>2, <2>3
<1>16. CASE SaveRecurringCard(p)
  <2>0. PICK s : s = CallUpdateOrder(r.id, orders[r.id], TRUE, "idle")
    OBVIOUS
  <2>1. UNCHANGED <<poolVars, orders, delivered>> /\ (Set(p, Idle) \/ Set(p, s))
    BY <1>16, <2>0 DEF SaveRecurringCard
  <2>2. s.id = r.id /\ Mentions(s) = orders[r.id].keys
    BY <2>0 DEF CallUpdateOrder, Mentions
  <2>3. \A k \in Mentions(s) : HeldOrLost(s.id, k)'
    BY <1>1, <2>1, <2>2 DEF HeldInv, StoredHeld, HeldOrLost, poolVars
  <2>4. CASE Set(p, Idle)
    BY <1>2, <1>3, <1>5, <2>1, <2>4
  <2>5. CASE Set(p, s)
    BY <1>3, <2>1, <2>3, <2>5, HeldWorkerStep
  <2> QED
    BY <2>1, <2>4, <2>5
<1>17. CASE Abort(p)
  BY <1>2, <1>3, <1>5, <1>17 DEF Abort
<1> QED
  BY <1>6, <1>7, <1>8, <1>9, <1>10, <1>11, <1>12, <1>13, <1>14, <1>15, <1>16, <1>17
     DEF Step

-----------------------------------------------------------------------------
(* The lease.                                                              *)

\* All that a step of the order flow can do to the key collection.
PoolCall(k) ==
    \/ \E o \in Orders : ReserveFor(o, k) /\ keys[k].order = NoOrder
    \/ Finish(k) \/ Cancel(k) \/ UploadKeysFile(k) \/ Expire(k)

\* A step calls the key repository once, or not at all.
LEMMA OneCall ==
  ASSUME TypeInv, [Next]_vars
  PROVE  UNCHANGED <<keys, released>> \/ \E k \in Keys : PoolCall(k)
<1>1. CASE Pool
  BY <1>1 DEF Pool, Upload, Daemon, Clock, DaemonScan, DaemonCancel, DaemonSkip, PoolCall
<1>2. ASSUME NEW o \in Orders,
             \/ \E platform \in Platforms : OrderCreateProcess(o, platform)
             \/ \E n \in Orders : OrderReCreateProcess(o, n)
             \/ \E v \in Verdicts : Settle(o, v)
      PROVE  UNCHANGED <<keys, released>>
  BY <1>2 DEF OrderCreateProcess, OrderReCreateProcess, Settle, poolVars
<1>3. ASSUME NEW o \in Orders, NEW p \in Workers, Request(p, o)
      PROVE  UNCHANGED <<keys, released>>
  BY <1>3 DEF Request, PaymentFormLanguageChanged, PaymentFormPlatformChanged,
         PaymentFormPaymentAccountChanged, ProcessBillingAddress,
         PaymentFormJsonDataProcess, SetUserNotify, PaymentCreateProcess,
         PaymentCallbackProcess, FormHandler, poolVars
<1>4. ASSUME NEW p \in Workers, Step(p)
      PROVE  UNCHANGED <<keys, released>> \/ \E k \in Keys : PoolCall(k)
  <2>1. w[p].pc # "idle" => w[p].id \in Orders /\ w[p].todo \subseteq Keys
    BY BusyWorker DEF Worker
  <2>2. CASE ReserveNext(p)
    BY <2>1, <2>2 DEF ReserveNext, Available, PoolCall
  <2>3. CASE UndoNext(p)
    BY <2>1, <2>3 DEF UndoNext, PoolCall
  <2>4. CASE NotifyKey(p)
    BY <2>1, <2>4 DEF NotifyKey, PoolCall
  <2>5. CASE \/ ReserveFails(p) \/ CreatePayment(p) \/ Compare(p) \/ Replace(p)
             \/ KeysNotified(p) \/ NotifyMerchant(p) \/ LedgerLookup(p)
             \/ InsertEntries(p) \/ SaveRecurringCard(p) \/ Abort(p)
    BY <2>5 DEF ReserveFails, CreatePayment, Compare, Replace, KeysNotified, NotifyMerchant,
                LedgerLookup, InsertEntries, SaveRecurringCard, Abort, poolVars
  <2> QED
    BY <1>4, <2>2, <2>3, <2>4, <2>5 DEF Step
<1>5. CASE UNCHANGED vars
  BY <1>5 DEF vars
<1> QED
  BY <1>1, <1>2, <1>3, <1>4, <1>5 DEF Next

\* One call of the repository is one step of the lease, or none.
LEMMA CallIsLeaseStep ==
  ASSUME PoolTypeOK, NEW k \in Keys, PoolCall(k)
  PROVE  [Lease!Next]_(Lease!leaseVars)
<1> DEFINE holder == [j \in Keys |-> keys[j].order]
<1>0. keys[k] \in KeyDoc /\ keys \in [Keys -> KeyDoc]
  BY DEF PoolTypeOK
<1>1. ASSUME NEW o \in Orders, ReserveFor(o, k), keys[k].order = NoOrder
      PROVE  Lease!Grant(o, k)
  <2>1. ReserveKey(keys[k], o).order = o
    BY <1>0 DEF ReserveKey, KeyDoc
  <2>2. holder' = [holder EXCEPT ![k] = o]
    BY <1>0, <1>1, <2>1 DEF ReserveFor
  <2> QED
    BY <1>1, <2>2 DEF ReserveFor, Lease!Grant
<1>2. CASE Finish(k) \/ UploadKeysFile(k) \/ Expire(k)
  <2>1. /\ FinishRedeemById(keys[k]).order = keys[k].order
        /\ Insert(keys[k]).order = keys[k].order
        /\ [keys[k] EXCEPT !.reserved = "expired"].order = keys[k].order
    BY <1>0 DEF FinishRedeemById, Insert, KeyDoc
  <2>2. holder' = holder
    BY <1>0, <1>2, <2>1 DEF Finish, UploadKeysFile, Expire
  <2> QED
    BY <1>2, <2>2 DEF Finish, UploadKeysFile, Expire, Lease!leaseVars
<1>3. CASE Cancel(k)
  <2>1. CancelById(keys[k]).order = NoOrder
    BY <1>0 DEF CancelById, KeyDoc
  <2>2. holder' = [holder EXCEPT ![k] = NoOrder]
    BY <1>0, <1>3, <2>1 DEF Cancel
  <2>3. CASE keys[k].order # NoOrder
    BY <1>3, <2>2, <2>3 DEF Cancel, Lease!TakeBack, Lease!Next
  <2>4. CASE keys[k].order = NoOrder
    BY <1>3, <2>2, <2>4 DEF Cancel, Lease!leaseVars
  <2> QED
    BY <2>3, <2>4
<1> QED
  BY <1>1, <1>2, <1>3 DEF PoolCall, Lease!Next

\* In the whole order flow the key collection implements the lease: ReserveKey
\* never takes a key from the order that holds it, whatever the handlers, the
\* daemon and the callbacks do to the orders (repository/key.go).
THEOREM FlowImplementsLease == Spec => ImplementsLease
<1>1. Init => Lease!Init
  BY DEF Init, PoolInit, NotUploaded, Lease!Init
<1>2. TypeInv /\ [Next]_vars => [Lease!Next]_(Lease!leaseVars)
  <2> SUFFICES ASSUME TypeInv, [Next]_vars
               PROVE  [Lease!Next]_(Lease!leaseVars)
    OBVIOUS
  <2>1. CASE UNCHANGED <<keys, released>>
    BY <2>1 DEF Lease!leaseVars
  <2>2. ASSUME NEW k \in Keys, PoolCall(k) PROVE [Lease!Next]_(Lease!leaseVars)
    BY <2>2, CallIsLeaseStep DEF TypeInv, TypeOK
  <2> QED
    BY <2>1, <2>2, OneCall
<1> QED
  BY <1>1, <1>2, TypeInvariant, PTL DEF Spec, ImplementsLease, Lease!Spec

-----------------------------------------------------------------------------
(* Listed and delivered keys, without re-created orders.                   *)

\* The key upload, the daemon and the clock keep HeldInv.
LEMMA PoolHeld ==
  ASSUME TypeInv, HeldInv, Pool
  PROVE  HeldInv'
<1>0. PoolTypeOK
  BY DEF TypeInv, TypeOK
<1>1. KeepsHolders
  <2>1. ASSUME NEW k \in Keys, UploadKeysFile(k) \/ Expire(k) PROVE KeepsHolders
    <3>1. keys[k] \in KeyDoc /\ keys \in [Keys -> KeyDoc]
      BY <1>0 DEF PoolTypeOK
    <3>2. /\ Insert(keys[k]).order = keys[k].order
          /\ [keys[k] EXCEPT !.reserved = "expired"].order = keys[k].order
      BY <3>1 DEF Insert, KeyDoc
    <3> QED
      BY <2>1, <3>1, <3>2 DEF UploadKeysFile, Expire, KeepsHolders
  <2>2. ASSUME NEW k \in Keys, DaemonCancel(k) PROVE KeepsHolders
    BY <1>0, <2>2, PoolCallKeeps DEF DaemonCancel
  <2>3. CASE UNCHANGED <<keys, released>>
    BY <2>3 DEF KeepsHolders
  <2> QED
    BY <2>1, <2>2, <2>3 DEF Pool, Upload, Daemon, Clock, DaemonScan, DaemonSkip
<1>2. UNCHANGED flowVars
  BY DEF Pool
<1>3. StoredHeld'
  <2> SUFFICES ASSUME NEW o \in Orders, Exists(o), NEW k \in orders[o].keys
               PROVE  HeldOrLost(o, k)'
    BY <1>2 DEF StoredHeld, flowVars, Exists
  <2>1. k \in Keys
    BY DEF TypeInv, TypeOK, Exists, OrderDoc
  <2> QED
    BY <1>1, <2>1, HeldStays DEF HeldInv, StoredHeld
<1>4. WorkersHeld'
  <2> SUFFICES ASSUME NEW q \in Workers, w[q].pc # "idle", NEW k \in Mentions(w[q])
               PROVE  (keys[k].order = w[q].id \/ <<w[q].id, k>> \in released)'
    BY <1>2 DEF WorkersHeld, flowVars, Mentions, HeldOrLost
  <2>1. PICK o \in Orders : o = w[q].id
    BY BusyWorker
  <2>2. k \in Keys
    BY BusyWorker DEF Mentions, Worker, OrderDoc
  <2>3. HeldOrLost(o, k)'
    BY <1>1, <2>1, <2>2, HeldStays DEF HeldInv, WorkersHeld
  <2> QED
    BY <1>2, <2>1, <2>3 DEF HeldOrLost, flowVars
<1>5. DeliveredHeld'
  BY <1>1, <1>2, HeldStays DEF HeldInv, DeliveredHeld, flowVars
<1> QED
  BY <1>3, <1>4, <1>5 DEF HeldInv

\* A new order lists no key, and the gateway's verdicts touch none.
LEMMA OrderHeld ==
  ASSUME TypeInv, HeldInv, NEW o \in Orders,
         \/ \E platform \in Platforms : OrderCreateProcess(o, platform)
         \/ \E v \in Verdicts : Settle(o, v)
  PROVE  HeldInv'
<1>1. UNCHANGED <<keys, released, w, delivered>>
  BY DEF OrderCreateProcess, Settle, poolVars
<1>2. WorkersHeld' /\ DeliveredHeld'
  BY <1>1 DEF HeldInv, WorkersHeld, DeliveredHeld, HeldOrLost, Mentions
<1>3. \A n \in Orders : orders'[n] = orders[n] \/ orders'[n].keys = {}
  BY DEF OrderCreateProcess, Settle, NewOrder, TypeInv, TypeOK
<1>4. StoredHeld'
  BY <1>1, <1>3 DEF HeldInv, StoredHeld, HeldOrLost, Exists
<1> QED
  BY <1>2, <1>4 DEF HeldInv

\* Without re-creation HeldInv is an inductive invariant.
LEMMA HeldInvariant ==
  ASSUME ~Recreation
  PROVE  Spec => []HeldInv
<1>1. Init => HeldInv
  BY DEF Init, HeldInv, StoredHeld, WorkersHeld, DeliveredHeld, Exists, Idle
<1>2. TypeInv /\ HeldInv /\ [Next]_vars => HeldInv'
  <2> SUFFICES ASSUME TypeInv, HeldInv, [Next]_vars
               PROVE  HeldInv'
    OBVIOUS
  <2>1. CASE Next
    BY <2>1, PoolHeld, OrderHeld, RequestHeld, StepHeld DEF Next, OrderReCreateProcess
  <2>2. CASE UNCHANGED vars
    BY <2>2 DEF vars, HeldInv, StoredHeld, WorkersHeld, DeliveredHeld, HeldOrLost,
                Exists, Mentions
  <2> QED
    BY <2>1, <2>2
<1> QED
  BY <1>1, <1>2, TypeInvariant, PTL DEF Spec

\* A key an order lists is reserved for it or was taken away from it, for any
\* number of orders, keys and handlers, as long as no order is re-created from
\* another one (reserveKeysForOrder, updateOrder, KeyDaemonProcess).
THEOREM KeysAreHeld ==
  ASSUME ~Recreation
  PROVE  Spec => []ListedKeyIsHeld
<1>1. HeldInv => ListedKeyIsHeld
  BY DEF HeldInv, StoredHeld, ListedKeyIsHeld, HeldOrLost
<1> QED
  BY <1>1, HeldInvariant, PTL

\* The code of one key is mailed for two orders only if the key was taken away
\* from one of them (orderNotifyKeyProducts after CancelById).
THEOREM SoldTwiceReleased ==
  ASSUME ~Recreation
  PROVE  Spec => []SoldTwiceOnlyIfReleased
<1>1. HeldInv => SoldTwiceOnlyIfReleased
  BY DEF HeldInv, DeliveredHeld, SoldTwiceOnlyIfReleased, HeldOrLost
<1> QED
  BY <1>1, HeldInvariant, PTL

-----------------------------------------------------------------------------
(* What a callback may cause.                                              *)

Paid(o) == "completed" \in gateway[o].verdicts

\* The worker's copy says the order is paid, or it is on its way to the ledger.
Claims(r) == r.doc.status = "Complete" \/ r.pc \in {"ledger", "entries"}
                                       \/ r.next \in {"ledger", "entries"}

StoredPaid == \A o \in Orders : Processed(o) => Paid(o)

EntriesPaid == \A o \in Orders : entries[o] > 0 => Paid(o)

DeliveredPaid == \A o \in Orders, k \in Keys : <<o, k>> \in delivered => Paid(o)

WorkersPaid ==
    \A p \in Workers : w[p].pc # "idle" /\ Claims(w[p]) => Paid(w[p].id)

PaidInv == StoredPaid /\ EntriesPaid /\ DeliveredPaid /\ WorkersPaid

VerdictsStay == \A o \in Orders : gateway[o].verdicts \subseteq gateway'[o].verdicts

\* Only a completed order counts as processed towards the outside.
LEMMA ProcessedIsComplete ==
  ASSUME NEW s \in PrivateStatuses, PublicStatus(s) = "processed"
  PROVE  s = "Complete"
  BY DEF PublicStatus, PrivateStatuses

\* A verdict of the gateway is never taken back.
LEMMA PaidStays ==
  ASSUME VerdictsStay, NEW o \in Orders, Paid(o)
  PROVE  Paid(o)'
  BY DEF VerdictsStay, Paid

\* A step of one worker keeps PaidInv if the worker claims a payment afterwards
\* only when it is completed, stores only its own copy, and mails codes and
\* inserts entries only for a completed payment.
LEMMA PaidWorkerStep ==
  ASSUME TypeInv, PaidInv, VerdictsStay, NEW p \in Workers, NEW r, Set(p, r),
         r.pc # "idle" /\ Claims(r) => r.id \in Orders /\ Paid(r.id),
         \/ UNCHANGED orders
         \/ w[p].pc # "idle" /\ orders' = [orders EXCEPT ![w[p].id] = w[p].doc],
         \/ UNCHANGED entries
         \/ Paid(w[p].id) /\ \E n : entries' = [entries EXCEPT ![w[p].id] = n],
         \/ UNCHANGED delivered
         \/ Paid(w[p].id) /\ \E k : delivered' = delivered \cup {<<w[p].id, k>>}
  PROVE  PaidInv'
<1>0. w[p].pc # "idle" => w[p].id \in Orders /\ w[p].doc \in OrderDoc
  BY BusyWorker
<1>1. StoredPaid'
  <2> SUFFICES ASSUME NEW o \in Orders, Processed(o)'
               PROVE  Paid(o)'
    BY DEF StoredPaid
  <2>1. CASE orders'[o] = orders[o]
    BY <2>1, PaidStays DEF PaidInv, StoredPaid, Processed, Exists
  <2>2. CASE w[p].pc # "idle" /\ o = w[p].id /\ orders'[o] = w[p].doc
    BY <2>2, PaidStays DEF PaidInv, WorkersPaid, Claims, Processed
  <2> QED
    BY <1>0, <2>1, <2>2 DEF TypeInv, TypeOK
<1>2. EntriesPaid'
  <2> SUFFICES ASSUME NEW o \in Orders, entries'[o] > 0
               PROVE  Paid(o)'
    BY DEF EntriesPaid
  <2>1. Paid(o)
    BY DEF PaidInv, EntriesPaid, TypeInv, TypeOK
  <2> QED
    BY <2>1, PaidStays
<1>3. DeliveredPaid'
  <2> SUFFICES ASSUME NEW o \in Orders, NEW k \in Keys, <<o, k>> \in delivered'
               PROVE  Paid(o)'
    BY DEF DeliveredPaid
  <2>1. Paid(o)
    BY DEF PaidInv, DeliveredPaid
  <2> QED
    BY <2>1, PaidStays
<1>4. WorkersPaid'
  <2> SUFFICES ASSUME NEW q \in Workers, w'[q].pc # "idle", Claims(w[q])'
               PROVE  Paid(w[q].id)'
    BY DEF WorkersPaid
  <2>1. CASE q = p
    <3>1. w'[q] = r
      BY <2>1 DEF Set, TypeInv, TypeOK
    <3>2. Claims(r)
      BY <3>1 DEF Claims
    <3>3. Paid(r.id)'
      BY <3>1, <3>2, PaidStays
    <3> QED
      BY <3>1, <3>3 DEF Paid
  <2>2. CASE q # p
    <3>1. w'[q] = w[q]
      BY <2>2 DEF Set, TypeInv, TypeOK
    <3>2. PICK o \in Orders : o = w[q].id
      BY <3>1, BusyWorker
    <3>3. Paid(o)
      BY <3>1, <3>2 DEF PaidInv, WorkersPaid, Claims
    <3>4. Paid(o)'
      BY <3>3, PaidStays
    <3> QED
      BY <3>1, <3>2, <3>4 DEF Paid
  <2> QED
    BY <2>1, <2>2
<1> QED
  BY <1>1, <1>2, <1>3, <1>4 DEF PaidInv

\* A handler starts with the status of the stored order, or with the verdict of
\* the callback.
LEMMA RequestPaid ==
  ASSUME TypeInv, PaidInv, NEW p \in Workers, NEW o \in Orders, Request(p, o)
  PROVE  PaidInv'
<1>0. UNCHANGED <<orders, gateway, entries, delivered>> /\ Exists(o)
  BY DEF Request, PaymentFormLanguageChanged, PaymentFormPlatformChanged,
         PaymentFormPaymentAccountChanged, ProcessBillingAddress,
         PaymentFormJsonDataProcess, SetUserNotify, PaymentCreateProcess,
         PaymentCallbackProcess, FormHandler, OpenToForm
<1>1. orders[o] \in OrderDoc /\ VerdictsStay
  BY <1>0 DEF Exists, TypeInv, TypeOK, VerdictsStay
<1>2. orders[o].status = "Complete" => Paid(o)
  BY <1>0 DEF PaidInv, StoredPaid, Processed
<1>3. ASSUME NEW doc, doc.status = "Complete" => Paid(o), NEW c,
             NEW n, n \in {"idle", "gateway", "card"} \/ Paid(o)
      PROVE  LET r == CallUpdateOrder(o, doc, c, n) IN r.id = o /\ (Claims(r) => Paid(o))
  BY <1>3 DEF CallUpdateOrder, Claims
<1>4. [orders[o] EXCEPT !.status = "Declined"].status = "Declined"
  BY <1>1 DEF OrderDoc
<1>5. PICK r : Set(p, r) /\ r.id = o /\ (Claims(r) => Paid(o))
  <2>1. ASSUME NEW doc, doc.status = "Complete" => Paid(o), FormHandler(p, o, doc)
        PROVE  \E r : Set(p, r) /\ r.id = o /\ (Claims(r) => Paid(o))
    BY <1>3, <2>1 DEF FormHandler
  <2>2. CASE PaymentFormLanguageChanged(p, o) \/ PaymentFormPaymentAccountChanged(p, o)
             \/ SetUserNotify(p, o)
    BY <1>2, <2>1, <2>2 DEF PaymentFormLanguageChanged, PaymentFormPaymentAccountChanged,
                            SetUserNotify
  <2>3. ASSUME NEW pl \in Platforms, PaymentFormPlatformChanged(p, o, pl)
        PROVE  \E r : Set(p, r) /\ r.id = o /\ (Claims(r) => Paid(o))
    <3>1. [orders[o] EXCEPT !.platform = pl].status = orders[o].status
      BY <1>1 DEF OrderDoc
    <3> QED
      BY <1>2, <2>1, <2>3, <3>1 DEF PaymentFormPlatformChanged
  <2>4. CASE ProcessBillingAddress(p, o) \/ PaymentFormJsonDataProcess(p, o)
    BY <1>2, <1>4, <2>1, <2>4
       DEF ProcessBillingAddress, PaymentFormJsonDataProcess, CountryApplied
  <2>5. CASE PaymentCreateProcess(p, o)
    <3>1. LET r == [Idle EXCEPT !.pc = "reserve", !.id = o, !.doc = orders[o], !.index = 1]
          IN  r.id = o /\ (Claims(r) => Paid(o))
      BY <1>2 DEF Idle, Claims
    <3>2. LET r == CallUpdateOrder(o, [orders[o] EXCEPT !.status = "Declined"], FALSE, "idle")
          IN  r.id = o /\ (Claims(r) => Paid(o))
      BY <1>3, <1>4
    <3>3. LET r == CallUpdateOrder(o, orders[o], FALSE, "gateway")
          IN  r.id = o /\ (Claims(r) => Paid(o))
      BY <1>2, <1>3
    <3> QED
      BY <2>5, <3>1, <3>2, <3>3 DEF PaymentCreateProcess
  <2>6. ASSUME NEW v \in Verdicts \cup {"invalid"}, PaymentCallbackProcess(p, o, v)
        PROVE  \E r : Set(p, r) /\ r.id = o /\ (Claims(r) => Paid(o))
    <3> DEFINE doc == [orders[o] EXCEPT !.status = StatusAfter(v)]
               n == CASE v = "completed" -> "ledger"
                      [] v = "invalid"   -> "idle"
                      [] OTHER           -> "card"
    <3>1. Set(p, CallUpdateOrder(o, doc, TRUE, n))
      BY <2>6 DEF PaymentCallbackProcess
    <3>2. v = "completed" => Paid(o)
      BY <2>6 DEF PaymentCallbackProcess, Paid
    <3>3. doc.status = "Complete" => v = "completed"
      BY <1>1 DEF StatusAfter, OrderDoc, Verdicts
    <3>4. n \in {"idle", "gateway", "card"} \/ v = "completed"
      OBVIOUS
    <3> HIDE DEF doc, n
    <3> QED
      BY <1>3, <3>1, <3>2, <3>3, <3>4
  <2> QED
    BY <2>2, <2>3, <2>4, <2>5, <2>6 DEF Request
<1>6. r.pc # "idle" /\ Claims(r) => r.id \in Orders /\ Paid(r.id)
  BY <1>5
<1>7. UNCHANGED orders /\ UNCHANGED entries /\ UNCHANGED delivered
  BY <1>0
<1> QED
  BY <1>1, <1>5, <1>6, <1>7, PaidWorkerStep

\* Goto claims no more than the record it starts from, except by where it goes.
LEMMA GotoClaims ==
  ASSUME NEW r \in Worker, NEW pc \in PCs
  PROVE  Goto(r, pc).pc # "idle" =>
           /\ Goto(r, pc).id = r.id
           /\ Claims(Goto(r, pc)) => Claims(r) \/ pc \in {"ledger", "entries"}
  BY DEF Goto, Idle, Claims, Worker

\* The same for the way out of updateOrder: it leads where the caller said.
LEMMA AfterKeysClaims ==
  ASSUME NEW r \in Worker
  PROVE  AfterKeys(r).pc # "idle" =>
           AfterKeys(r).id = r.id /\ (Claims(AfterKeys(r)) => Claims(r))
<1>1. r.next \in PCs /\ "merchant" \in PCs
  BY DEF Worker, PCs
<1>2. r.next \in {"ledger", "entries"} => Claims(r)
  BY DEF Claims
<1> QED
  BY <1>1, <1>2, GotoClaims DEF AfterKeys

\* No step of a busy worker gets ahead of the payment.
LEMMA StepPaid ==
  ASSUME TypeInv, PaidInv, NEW p \in Workers, Step(p)
  PROVE  PaidInv'
<1> DEFINE r == w[p]
<1>0. r.pc # "idle"
  BY DEF Step, ReserveNext, ReserveFails, UndoNext, CreatePayment, Compare, Replace,
         NotifyKey, KeysNotified, NotifyMerchant, LedgerLookup, InsertEntries,
         SaveRecurringCard, Abort
<1>1. /\ r \in Worker /\ r.id \in Orders /\ Exists(r.id)
      /\ r.doc \in OrderDoc /\ orders[r.id] \in OrderDoc
      /\ r.next \in PCs
  BY <1>0, BusyWorker DEF Worker
<1>2. Claims(r) => Paid(r.id)
  BY <1>0 DEF PaidInv, WorkersPaid
<1>3. ASSUME UNCHANGED gateway PROVE VerdictsStay
  BY <1>3 DEF VerdictsStay
<1>4. ASSUME VerdictsStay, NEW s, Set(p, s),
             s.pc # "idle" => s.id = r.id /\ (Claims(s) => Paid(r.id)),
             UNCHANGED orders \/ orders' = [orders EXCEPT ![r.id] = r.doc],
             UNCHANGED entries, UNCHANGED delivered
      PROVE  PaidInv'
  BY <1>0, <1>1, <1>4, PaidWorkerStep
<1>5. Idle.pc = "idle"
  BY DEF Idle
<1>6. CASE ReserveNext(p)
  <2> DEFINE s1(k) == [r EXCEPT !.got = @ \cup {k}, !.index = @ + 1]
             s2(k) == CallUpdateOrder(r.id, [r.doc EXCEPT !.keys = r.got \cup {k}],
                                      FALSE, "gateway")
  <2>1. \E k : Set(p, s1(k)) \/ Set(p, s2(k))
    BY <1>6 DEF ReserveNext
  <2>2. ASSUME NEW k
        PROVE  /\ s1(k).id = r.id /\ (Claims(s1(k)) => Claims(r))
               /\ s2(k).id = r.id /\ (Claims(s2(k)) => Claims(r))
    BY <1>1 DEF Worker, Claims, CallUpdateOrder, OrderDoc
  <2> HIDE DEF s1, s2
  <2>3. UNCHANGED orders /\ UNCHANGED gateway /\ UNCHANGED entries /\ UNCHANGED delivered
    BY <1>6 DEF ReserveNext
  <2> QED
    BY <1>2, <1>3, <1>4, <2>1, <2>2, <2>3
<1>7. CASE ReserveFails(p) \/ UndoNext(p) \/ Compare(p) \/ LedgerLookup(p)
  <2>1. UNCHANGED orders /\ UNCHANGED gateway /\ UNCHANGED entries /\ UNCHANGED delivered
    BY <1>7 DEF ReserveFails, UndoNext, Compare, LedgerLookup
  <2>2. PICK s : Set(p, s) /\ (s.pc # "idle" => s.id = r.id /\ (Claims(s) => Claims(r)))
    <3>1. CASE ReserveFails(p)
      <4>1. LET s == [r EXCEPT !.pc = "undo", !.todo = r.got]
            IN  s.id = r.id /\ (Claims(s) => Claims(r))
        BY <1>1 DEF Worker, Claims
      <4> QED
        BY <1>5, <3>1, <4>1 DEF ReserveFails
    <3>2. CASE UndoNext(p)
      <4>1. ASSUME NEW k
            PROVE  LET s == [r EXCEPT !.todo = @ \ {k}]
                   IN  s.id = r.id /\ (Claims(s) => Claims(r))
        BY <1>1 DEF Worker, Claims
      <4> QED
        BY <1>5, <3>2, <4>1 DEF UndoNext
    <3>3. CASE Compare(p)
      <4>1. ASSUME NEW c
            PROVE  LET s == [r EXCEPT !.pc = "replace", !.changed = c]
                   IN  s.id = r.id /\ (Claims(s) => Claims(r))
        BY <1>1 DEF Worker, Claims
      <4>2. \E c : Set(p, [r EXCEPT !.pc = "replace", !.changed = c])
        BY <3>3 DEF Compare
      <4> QED
        BY <4>1, <4>2
    <3>4. CASE LedgerLookup(p)
      <4>1. LET s == [r EXCEPT !.pc = "entries"]
            IN  s.id = r.id /\ Claims(r)
        BY <1>1, <3>4 DEF Worker, Claims, LedgerLookup
      <4> QED
        BY <1>5, <3>4, <4>1 DEF LedgerLookup
    <3> QED
      BY <1>7, <3>1, <3>2, <3>3, <3>4
  <2> QED
    BY <1>2, <1>3, <1>4, <2>1, <2>2
<1>8. CASE CreatePayment(p)
  <2> DEFINE s == CallUpdateOrder(r.id, [r.doc EXCEPT !.status = "InProgress"], FALSE, "idle")
  <2>1. s.id = r.id /\ ~Claims(s)
    BY <1>1 DEF CallUpdateOrder, OrderDoc, Claims
  <2> HIDE DEF s
  <2>2. Set(p, s) /\ UNCHANGED orders /\ UNCHANGED entries /\ UNCHANGED delivered
    BY <1>8 DEF CreatePayment, s
  <2>3. VerdictsStay
    BY <1>8 DEF CreatePayment, VerdictsStay, TypeInv, TypeOK
  <2> QED
    BY <1>4, <2>1, <2>2, <2>3
<1>9. CASE Replace(p)
  <2> DEFINE s == [r EXCEPT !.pc = "keys", !.todo = r.doc.keys]
  <2>1. s.id = r.id /\ (Claims(s) => Claims(r))
    BY <1>1 DEF Worker, Claims
  <2> HIDE DEF s
  <2>2. Set(p, s) \/ Set(p, AfterKeys(r))
    BY <1>9 DEF Replace, s
  <2>3. /\ UNCHANGED gateway /\ UNCHANGED entries /\ UNCHANGED delivered
        /\ orders' = [orders EXCEPT ![r.id] = r.doc]
    BY <1>9 DEF Replace
  <2> QED
    BY <1>1, <1>2, <1>3, <1>4, <2>1, <2>2, <2>3, AfterKeysClaims
<1>10. CASE NotifyKey(p)
  <2>1. PICK k : /\ Set(p, [r EXCEPT !.todo = @ \ {k}])
                 /\ \/ UNCHANGED delivered
                    \/ /\ PublicStatus(r.doc.status) = "processed"
                       /\ delivered' = delivered \cup {<<r.id, k>>}
    BY <1>10 DEF NotifyKey
  <2>2. LET s == [r EXCEPT !.todo = @ \ {k}] IN s.id = r.id /\ (Claims(s) => Claims(r))
    BY <1>1 DEF Worker, Claims
  <2>3. PublicStatus(r.doc.status) = "processed" => Claims(r)
    BY <1>1, ProcessedIsComplete DEF Claims, OrderDoc
  <2>4. UNCHANGED orders /\ UNCHANGED gateway /\ UNCHANGED entries
    BY <1>10 DEF NotifyKey
  <2>5. \/ UNCHANGED delivered
        \/ Paid(r.id) /\ delivered' = delivered \cup {<<r.id, k>>}
    BY <1>2, <2>1, <2>3
  <2> QED
    BY <1>1, <1>2, <1>3, <2>1, <2>2, <2>4, <2>5, PaidWorkerStep
<1>11. CASE KeysNotified(p)
  <2> DEFINE s == [r EXCEPT !.doc.notified = TRUE]
  <2>1. s \in Worker /\ s.id = r.id /\ (Claims(s) => Claims(r))
    BY <1>1 DEF Worker, OrderDoc, Claims
  <2> HIDE DEF s
  <2>2. /\ Set(p, AfterKeys(s)) /\ UNCHANGED orders
        /\ UNCHANGED gateway /\ UNCHANGED entries /\ UNCHANGED delivered
    BY <1>11 DEF KeysNotified, s
  <2> QED
    BY <1>2, <1>3, <1>4, <2>1, <2>2, AfterKeysClaims
<1>12. CASE NotifyMerchant(p)
  <2>1. r.next \in {"ledger", "entries"} => Claims(r)
    BY DEF Claims
  <2>2. Goto(r, r.next).pc # "idle" =>
          Goto(r, r.next).id = r.id /\ (Claims(Goto(r, r.next)) => Claims(r))
    BY <1>1, <2>1, GotoClaims
  <2>3. /\ Set(p, Goto(r, r.next))
        /\ UNCHANGED gateway /\ UNCHANGED entries /\ UNCHANGED delivered
        /\ UNCHANGED orders \/ orders' = [orders EXCEPT ![r.id] = r.doc]
    BY <1>12 DEF NotifyMerchant
  <2> QED
    BY <1>2, <1>3, <1>4, <2>2, <2>3
<1>13. CASE InsertEntries(p)
  <2>1. Paid(r.id)
    BY <1>2, <1>13 DEF InsertEntries, Claims
  <2>2. [r EXCEPT !.pc = "card"].id = r.id
    BY <1>1 DEF Worker
  <2>3. /\ Set(p, [r EXCEPT !.pc = "card"]) /\ UNCHANGED gateway
        /\ UNCHANGED orders /\ UNCHANGED delivered
        /\ \E n : entries' = [entries EXCEPT ![r.id] = n]
    BY <1>13 DEF InsertEntries
  <2> QED
    BY <1>1, <1>3, <2>1, <2>2, <2>3, PaidWorkerStep
<1>14. CASE SaveRecurringCard(p)
  <2> DEFINE s == CallUpdateOrder(r.id, orders[r.id], TRUE, "idle")
  <2>1. s.id = r.id /\ (Claims(s) => Paid(r.id))
    BY <1>1 DEF CallUpdateOrder, Claims, PaidInv, StoredPaid, Processed
  <2> HIDE DEF s
  <2>2. /\ Set(p, Idle) \/ Set(p, s)
        /\ UNCHANGED orders /\ UNCHANGED gateway /\ UNCHANGED entries /\ UNCHANGED delivered
    BY <1>14 DEF SaveRecurringCard, s
  <2> QED
    BY <1>3, <1>4, <1>5, <2>1, <2>2
<1>15. CASE Abort(p)
  BY <1>3, <1>4, <1>5, <1>15 DEF Abort
<1> QED
  BY <1>6, <1>7, <1>8, <1>9, <1>10, <1>11, <1>12, <1>13, <1>14, <1>15 DEF Step

\* PaidInv is an inductive invariant of the order flow.
LEMMA PaidInvariant == Spec => []PaidInv
<1>1. Init => PaidInv
  BY DEF Init, PaidInv, StoredPaid, EntriesPaid, DeliveredPaid, WorkersPaid, Processed,
         Exists, Idle
<1>2. TypeInv /\ PaidInv /\ [Next]_vars => PaidInv'
  <2> SUFFICES ASSUME TypeInv, PaidInv, [Next]_vars
               PROVE  PaidInv'
    OBVIOUS
  <2>1. CASE Pool \/ UNCHANGED vars
    BY <2>1 DEF Pool, flowVars, vars, PaidInv, StoredPaid, EntriesPaid, DeliveredPaid,
                WorkersPaid, Processed, Exists, Paid, Claims
  <2>2. ASSUME NEW o \in Orders,
               \/ \E platform \in Platforms : OrderCreateProcess(o, platform)
               \/ \E n \in Orders : OrderReCreateProcess(o, n)
        PROVE  PaidInv'
    <3>1. \A n \in Orders : orders'[n] = orders[n] \/ orders'[n].status = "New"
      BY <2>2 DEF OrderCreateProcess, OrderReCreateProcess, NewOrder, Recreated, TypeInv,
                  TypeOK, OrderDoc, Exists
    <3>2. UNCHANGED <<w, gateway, entries, delivered>>
      BY <2>2 DEF OrderCreateProcess, OrderReCreateProcess
    <3> QED
      BY <3>1, <3>2 DEF PaidInv, StoredPaid, EntriesPaid, DeliveredPaid, WorkersPaid,
                        Processed, Exists, Paid, Claims
  <2>3. ASSUME NEW o \in Orders, NEW v \in Verdicts, Settle(o, v)
        PROVE  PaidInv'
    <3>1. VerdictsStay
      BY <2>3 DEF Settle, VerdictsStay, TypeInv, TypeOK
    <3>2. UNCHANGED <<w, orders, entries, delivered>>
      BY <2>3 DEF Settle
    <3>3. StoredPaid' /\ EntriesPaid' /\ DeliveredPaid'
      BY <3>1, <3>2, PaidStays DEF PaidInv, StoredPaid, EntriesPaid, DeliveredPaid,
                                   Processed, Exists
    <3>4. WorkersPaid'
      BY <3>1, <3>2, BusyWorker DEF PaidInv, WorkersPaid, Claims, Paid, VerdictsStay
    <3> QED
      BY <3>3, <3>4 DEF PaidInv
  <2> QED
    BY <2>1, <2>2, <2>3, RequestPaid, StepPaid DEF Next
<1> QED
  BY <1>1, <1>2, TypeInvariant, PTL DEF Spec

\* No status, accounting entry or key code of a sale precedes the gateway's
\* report of a completed payment, for any number of orders and handlers and with
\* every lost update the handlers cause (PaymentCallbackProcess, updateOrder).
THEOREM NothingBeforePayment == Spec => []PaidFirst
<1>1. PaidInv => PaidFirst
  BY DEF PaidInv, StoredPaid, EntriesPaid, DeliveredPaid, PaidFirst, Paid
<1> QED
  BY <1>1, PaidInvariant, PTL

-----------------------------------------------------------------------------
(* The ledger. The look-up of processPaymentEvent and the insert of        *)
(* saveAccountingEntries are two steps; what keeps them together is that   *)
(* no other worker of the same order can be between them.                  *)

\* The part of PaymentCallbackProcess that follows its updateOrder.
CallbackPCs == {"ledger", "entries", "card"}

Apart == \A p, q \in Workers :
    p # q /\ w[p].callback /\ w[q].callback => w[p].id # w[q].id

OnlyCallbacks == \A p \in Workers :
    /\ w[p].pc \in CallbackPCs \/ w[p].next \in CallbackPCs => w[p].callback
    /\ w[p].next # "entries"

NothingYet == \A p \in Workers : w[p].pc = "entries" => entries[w[p].id] = 0

LedgerInv == Apart /\ OnlyCallbacks /\ NothingYet /\ AccountedOnce

\* What a worker's new record has to satisfy.
InOrder(r) ==
    /\ r.pc \in CallbackPCs \/ r.next \in CallbackPCs => r.callback
    /\ r.next # "entries"

\* A step of one worker keeps LedgerInv if the worker is alone with its order
\* when it is in a callback and inserts entries only where it looked for them.
LEMMA LedgerWorkerStep ==
  ASSUME TypeInv, LedgerInv, NEW p \in Workers, NEW r, Set(p, r), InOrder(r),
         r.callback => \A q \in Workers \ {p} : ~(w[q].callback /\ w[q].id = r.id),
         r.pc = "entries" => entries'[r.id] = 0,
         \/ UNCHANGED entries
         \/ w[p].pc = "entries" /\ entries' = [entries EXCEPT ![w[p].id] = @ + 1]
  PROVE  LedgerInv'
<1>1. \A q \in Workers : w'[q] = IF q = p THEN r ELSE w[q]
  BY DEF Set, TypeInv, TypeOK
<1>2. w[p].pc = "entries" => w[p].id \in Orders /\ w[p].callback /\ entries[w[p].id] = 0
  BY BusyWorker DEF LedgerInv, OnlyCallbacks, NothingYet, CallbackPCs
<1>3. Apart'
  BY <1>1 DEF LedgerInv, Apart
<1>4. OnlyCallbacks'
  BY <1>1 DEF LedgerInv, OnlyCallbacks, InOrder
<1>5. NothingYet'
  <2> SUFFICES ASSUME NEW q \in Workers, w'[q].pc = "entries"
               PROVE  entries'[w'[q].id] = 0
    BY DEF NothingYet
  <2>1. CASE q = p
    BY <1>1, <2>1
  <2>2. CASE q # p
    <3>1. w'[q] = w[q]
      BY <1>1, <2>2
    <3>2. w[q].id \in Orders /\ w[q].callback /\ entries[w[q].id] = 0
      BY <3>1, BusyWorker DEF LedgerInv, OnlyCallbacks, NothingYet, CallbackPCs
    <3>3. w[p].pc = "entries" => w[p].id # w[q].id
      BY <1>2, <2>2, <3>2 DEF LedgerInv, Apart
    <3> QED
      BY <3>1, <3>2, <3>3 DEF TypeInv, TypeOK
  <2> QED
    BY <2>1, <2>2
<1>6. AccountedOnce'
  <2> SUFFICES ASSUME NEW o \in Orders
               PROVE  entries'[o] <= 1
    BY DEF AccountedOnce
  <2>1. entries[o] <= 1
    BY DEF LedgerInv, AccountedOnce
  <2> QED
    BY <1>2, <2>1 DEF TypeInv, TypeOK
<1> QED
  BY <1>3, <1>4, <1>5, <1>6 DEF LedgerInv

\* Where updateOrder returns to depends on its caller only.
LEMMA GotoInOrder ==
  ASSUME NEW r \in Worker, InOrder(r), NEW pc \in PCs, pc \in {"merchant", r.next}
  PROVE  /\ InOrder(Goto(r, pc)) /\ Goto(r, pc).pc # "entries"
         /\ Goto(r, pc).callback => r.callback /\ Goto(r, pc).id = r.id
  BY DEF Goto, Idle, InOrder, CallbackPCs, Worker

\* The same for the way out of updateOrder.
LEMMA AfterKeysInOrder ==
  ASSUME NEW r \in Worker, InOrder(r)
  PROVE  /\ InOrder(AfterKeys(r)) /\ AfterKeys(r).pc # "entries"
         /\ AfterKeys(r).callback => r.callback /\ AfterKeys(r).id = r.id
<1>1. r.next \in PCs /\ "merchant" \in PCs
  BY DEF Worker, PCs
<1> QED
  BY <1>1, GotoInOrder DEF AfterKeys

\* A form handler is no callback, and a callback starts only when no other one of
\* its order is running.
LEMMA RequestLedger ==
  ASSUME TypeInv, LedgerInv, ~ConcurrentCallbacks,
         NEW p \in Workers, NEW o \in Orders, Request(p, o)
  PROVE  LedgerInv'
<1>0. UNCHANGED entries
  BY DEF Request, PaymentFormLanguageChanged, PaymentFormPlatformChanged,
         PaymentFormPaymentAccountChanged, ProcessBillingAddress,
         PaymentFormJsonDataProcess, SetUserNotify, PaymentCreateProcess,
         PaymentCallbackProcess, FormHandler
<1>1. ASSUME NEW doc, NEW n \in {"idle", "gateway"}
      PROVE  LET r == CallUpdateOrder(o, doc, FALSE, n) IN
             InOrder(r) /\ ~r.callback /\ r.pc # "entries"
  BY DEF CallUpdateOrder, InOrder, CallbackPCs
<1>2. PICK r : /\ Set(p, r) /\ InOrder(r) /\ r.pc # "entries"
               /\ r.callback => \A q \in Workers \ {p} : ~(w[q].callback /\ w[q].id = r.id)
  <2>1. ASSUME NEW doc, FormHandler(p, o, doc)
        PROVE  \E r : Set(p, r) /\ InOrder(r) /\ ~r.callback /\ r.pc # "entries"
    BY <1>1, <2>1 DEF FormHandler
  <2>2. CASE \/ PaymentFormLanguageChanged(p, o)
             \/ \E platform \in Platforms : PaymentFormPlatformChanged(p, o, platform)
             \/ PaymentFormPaymentAccountChanged(p, o)
             \/ ProcessBillingAddress(p, o)
             \/ PaymentFormJsonDataProcess(p, o)
             \/ SetUserNotify(p, o)
    <3>1. \E doc : FormHandler(p, o, doc)
      BY <2>2 DEF PaymentFormLanguageChanged, PaymentFormPlatformChanged,
                  PaymentFormPaymentAccountChanged, ProcessBillingAddress,
                  PaymentFormJsonDataProcess, SetUserNotify
    <3> QED
      BY <2>1, <3>1
  <2>3. CASE PaymentCreateProcess(p, o)
    <3>1. LET r == [Idle EXCEPT !.pc = "reserve", !.id = o, !.doc = orders[o], !.index = 1]
          IN  InOrder(r) /\ ~r.callback /\ r.pc # "entries"
      BY DEF Idle, InOrder, CallbackPCs
    <3> QED
      BY <1>1, <2>3, <3>1 DEF PaymentCreateProcess
  <2>4. ASSUME NEW v \in Verdicts \cup {"invalid"}, PaymentCallbackProcess(p, o, v)
        PROVE  \E r : /\ Set(p, r) /\ InOrder(r) /\ r.pc # "entries" /\ r.id = o
    <3> DEFINE doc == [orders[o] EXCEPT !.status = StatusAfter(v)]
               n == CASE v = "completed" -> "ledger"
                      [] v = "invalid"   -> "idle"
                      [] OTHER           -> "card"
    <3>1. Set(p, CallUpdateOrder(o, doc, TRUE, n))
      BY <2>4 DEF PaymentCallbackProcess
    <3>2. n # "entries"
      OBVIOUS
    <3> HIDE DEF doc, n
    <3>3. LET r == CallUpdateOrder(o, doc, TRUE, n) IN
          InOrder(r) /\ r.pc # "entries" /\ r.id = o
      BY <3>2 DEF CallUpdateOrder, InOrder
    <3> QED
      BY <3>1, <3>3
  <2>5. ASSUME NEW v, PaymentCallbackProcess(p, o, v)
        PROVE  \A q \in Workers : ~(w[q].callback /\ w[q].id = o)
    BY <2>5 DEF PaymentCallbackProcess
  <2> QED
    BY <2>2, <2>3, <2>4, <2>5, <2>1 DEF Request
<1> QED
  BY <1>0, <1>2, LedgerWorkerStep

\* No step of a busy worker comes between another one's look-up and insert.
LEMMA StepLedger ==
  ASSUME TypeInv, LedgerInv, NEW p \in Workers, Step(p)
  PROVE  LedgerInv'
<1> DEFINE r == w[p]
<1>0. r.pc # "idle"
  BY DEF Step, ReserveNext, ReserveFails, UndoNext, CreatePayment, Compare, Replace,
         NotifyKey, KeysNotified, NotifyMerchant, LedgerLookup, InsertEntries,
         SaveRecurringCard, Abort
<1>1. r \in Worker /\ r.id \in Orders /\ r.doc \in OrderDoc /\ InOrder(r) /\ r.next \in PCs
  BY <1>0, BusyWorker DEF LedgerInv, OnlyCallbacks, InOrder, Worker
<1>2. r.callback => \A q \in Workers \ {p} : ~(w[q].callback /\ w[q].id = r.id)
  BY DEF LedgerInv, Apart
<1>3. ASSUME NEW s, Set(p, s), InOrder(s), s.pc # "entries",
             s.callback => r.callback /\ s.id = r.id,
             UNCHANGED entries
      PROVE  LedgerInv'
  BY <1>2, <1>3, LedgerWorkerStep
<1>4. InOrder(Idle) /\ Idle.pc # "entries" /\ ~Idle.callback
  BY DEF Idle, InOrder, CallbackPCs
<1>5. ASSUME NEW doc, NEW n \in {"idle", "gateway"}
      PROVE  LET s == CallUpdateOrder(r.id, doc, FALSE, n) IN
             InOrder(s) /\ ~s.callback /\ s.pc # "entries"
  BY DEF CallUpdateOrder, InOrder, CallbackPCs
<1>6. CASE ReserveNext(p)
  <2> DEFINE s1(k) == [r EXCEPT !.got = @ \cup {k}, !.index = @ + 1]
             s2(k) == CallUpdateOrder(r.id, [r.doc EXCEPT !.keys = r.got \cup {k}],
                                      FALSE, "gateway")
  <2>1. \E k : Set(p, s1(k)) \/ Set(p, s2(k))
    BY <1>6 DEF ReserveNext
  <2>2. ASSUME NEW k
        PROVE  /\ InOrder(s1(k)) /\ s1(k).pc # "entries"
               /\ s1(k).callback = r.callback /\ s1(k).id = r.id
    BY <1>1, <1>6 DEF Worker, InOrder, ReserveNext
  <2>3. ASSUME NEW k PROVE InOrder(s2(k)) /\ ~s2(k).callback /\ s2(k).pc # "entries"
    BY <1>5
  <2> HIDE DEF s1, s2
  <2>4. UNCHANGED entries
    BY <1>6 DEF ReserveNext
  <2> QED
    BY <1>3, <2>1, <2>2, <2>3, <2>4
<1>7. CASE ReserveFails(p) \/ UndoNext(p) \/ Compare(p) \/ NotifyKey(p)
  <2>1. UNCHANGED entries
    BY <1>7 DEF ReserveFails, UndoNext, Compare, NotifyKey
  <2>2. PICK s : /\ Set(p, s) /\ InOrder(s) /\ s.pc # "entries"
                 /\ s.callback => r.callback /\ s.id = r.id
    <3>1. CASE ReserveFails(p)
      <4>1. LET s == [r EXCEPT !.pc = "undo", !.todo = r.got]
            IN  InOrder(s) /\ s.pc # "entries" /\ s.callback = r.callback /\ s.id = r.id
        BY <1>1 DEF Worker, InOrder, CallbackPCs
      <4> QED
        BY <1>4, <3>1, <4>1 DEF ReserveFails
    <3>2. CASE UndoNext(p) \/ NotifyKey(p)
      <4>1. ASSUME NEW k
            PROVE  LET s == [r EXCEPT !.todo = @ \ {k}]
                   IN  InOrder(s) /\ s.pc # "entries" /\ s.callback = r.callback /\ s.id = r.id
        BY <1>1, <3>2 DEF Worker, InOrder, UndoNext, NotifyKey
      <4> QED
        BY <1>4, <3>2, <4>1 DEF UndoNext, NotifyKey
    <3>3. CASE Compare(p)
      <4>1. ASSUME NEW c
            PROVE  LET s == [r EXCEPT !.pc = "replace", !.changed = c]
                   IN  InOrder(s) /\ s.pc # "entries" /\ s.callback = r.callback /\ s.id = r.id
        BY <1>1 DEF Worker, InOrder, CallbackPCs
      <4>2. \E c : Set(p, [r EXCEPT !.pc = "replace", !.changed = c])
        BY <3>3 DEF Compare
      <4> QED
        BY <4>1, <4>2
    <3> QED
      BY <1>7, <3>1, <3>2, <3>3
  <2> QED
    BY <1>3, <2>1, <2>2
<1>8. CASE CreatePayment(p)
  <2> DEFINE s == CallUpdateOrder(r.id, [r.doc EXCEPT !.status = "InProgress"], FALSE, "idle")
  <2>1. InOrder(s) /\ ~s.callback /\ s.pc # "entries"
    BY <1>5
  <2> HIDE DEF s
  <2>2. Set(p, s) /\ UNCHANGED entries
    BY <1>8 DEF CreatePayment, s
  <2> QED
    BY <1>3, <2>1, <2>2
<1>9. CASE Replace(p)
  <2> DEFINE s == [r EXCEPT !.pc = "keys", !.todo = r.doc.keys]
  <2>1. InOrder(s) /\ s.pc # "entries" /\ s.callback = r.callback /\ s.id = r.id
    BY <1>1 DEF Worker, InOrder, CallbackPCs
  <2> HIDE DEF s
  <2>2. (Set(p, s) \/ Set(p, AfterKeys(r))) /\ UNCHANGED entries
    BY <1>9 DEF Replace, s
  <2> QED
    BY <1>1, <1>3, <2>1, <2>2, AfterKeysInOrder
<1>10. CASE KeysNotified(p)
  <2> DEFINE s == [r EXCEPT !.doc.notified = TRUE]
  <2>1. s \in Worker /\ InOrder(s) /\ s.callback = r.callback /\ s.id = r.id
    BY <1>1 DEF Worker, OrderDoc, InOrder
  <2> HIDE DEF s
  <2>2. Set(p, AfterKeys(s)) /\ UNCHANGED entries
    BY <1>10 DEF KeysNotified, s
  <2> QED
    BY <1>3, <2>1, <2>2, AfterKeysInOrder
<1>11. CASE NotifyMerchant(p)
  <2>1. Set(p, Goto(r, r.next)) /\ UNCHANGED entries
    BY <1>11 DEF NotifyMerchant
  <2> QED
    BY <1>1, <1>3, <2>1, GotoInOrder
<1>12. CASE LedgerLookup(p)
  <2> DEFINE s == [r EXCEPT !.pc = "entries"]
  <2>1. s.callback = r.callback /\ s.id = r.id /\ InOrder(s)
    BY <1>1, <1>12 DEF Worker, InOrder, CallbackPCs, LedgerLookup
  <2> HIDE DEF s
  <2>2. UNCHANGED entries /\ (Set(p, Idle) \/ (Set(p, s) /\ ~(entries[r.id] > 0)))
    BY <1>12 DEF LedgerLookup, s
  <2>3. ~(entries[r.id] > 0) => entries'[r.id] = 0
    BY <1>1, <2>2, FlowAssumption DEF TypeInv, TypeOK
  <2>4. CASE Set(p, Idle)
    BY <1>3, <1>4, <2>2, <2>4
  <2>5. CASE Set(p, s) /\ ~(entries[r.id] > 0)
    BY <1>2, <2>1, <2>2, <2>3, <2>5, LedgerWorkerStep
  <2> QED
    BY <2>2, <2>4, <2>5
<1>13. CASE InsertEntries(p)
  <2> DEFINE s == [r EXCEPT !.pc = "card"]
  <2>1. s.callback = r.callback /\ s.id = r.id /\ InOrder(s) /\ s.pc # "entries"
    BY <1>1, <1>13 DEF Worker, InOrder, CallbackPCs, InsertEntries
  <2> HIDE DEF s
  <2>2. Set(p, s) /\ r.pc = "entries" /\ entries' = [entries EXCEPT ![r.id] = @ + 1]
    BY <1>13 DEF InsertEntries, s
  <2> QED
    BY <1>2, <2>1, <2>2, LedgerWorkerStep
<1>14. CASE SaveRecurringCard(p)
  <2> DEFINE s == CallUpdateOrder(r.id, orders[r.id], TRUE, "idle")
  <2>1. InOrder(s) /\ s.pc # "entries" /\ s.id = r.id /\ r.callback
    BY <1>1, <1>14 DEF CallUpdateOrder, InOrder, CallbackPCs, SaveRecurringCard
  <2> HIDE DEF s
  <2>2. (Set(p, Idle) \/ Set(p, s)) /\ UNCHANGED entries
    BY <1>14 DEF SaveRecurringCard, s
  <2> QED
    BY <1>3, <1>4, <2>1, <2>2
<1>15. CASE Abort(p)
  BY <1>3, <1>4, <1>15 DEF Abort
<1> QED
  BY <1>6, <1>7, <1>8, <1>9, <1>10, <1>11, <1>12, <1>13, <1>14, <1>15 DEF Step

\* The entries of a payment are inserted at most once for every set of orders and
\* handlers, if no two callbacks of one order run at the same time: the repeated
\* callback that finds the order pending again, because a form handler wrote an
\* old copy back, is stopped by the look-up (processPaymentEvent).
THEOREM EntriesOnce ==
  ASSUME ~ConcurrentCallbacks
  PROVE  Spec => []AccountedOnce
<1>1. Init => LedgerInv
  BY DEF Init, LedgerInv, Apart, OnlyCallbacks, NothingYet, AccountedOnce, Idle, CallbackPCs
<1>2. TypeInv /\ LedgerInv /\ [Next]_vars => LedgerInv'
  <2> SUFFICES ASSUME TypeInv, LedgerInv, [Next]_vars
               PROVE  LedgerInv'
    OBVIOUS
  <2>1. CASE UNCHANGED <<w, entries>>
    BY <2>1 DEF LedgerInv, Apart, OnlyCallbacks, NothingYet, AccountedOnce
  <2>2. ASSUME NEW o \in Orders,
               \/ \E platform \in Platforms : OrderCreateProcess(o, platform)
               \/ \E n \in Orders : OrderReCreateProcess(o, n)
               \/ \E v \in Verdicts : Settle(o, v)
        PROVE  UNCHANGED <<w, entries>>
    BY <2>2 DEF OrderCreateProcess, OrderReCreateProcess, Settle
  <2>3. CASE Pool \/ UNCHANGED vars
    BY <2>1, <2>3 DEF Pool, flowVars, vars
  <2> QED
    BY <2>1, <2>2, <2>3, RequestLedger, StepLedger DEF Next
<1>3. LedgerInv => AccountedOnce
  BY DEF LedgerInv
<1> QED
  BY <1>1, <1>2, <1>3, TypeInvariant, PTL DEF Spec
=============================================================================
