------------------------------ MODULE KeyPool ------------------------------
(***************************************************************************)
(* The collection of activation keys (internal/repository/key.go), the     *)
(* service methods that reserve, redeem and cancel them                    *)
(* (internal/service/key.go) and the key daemon that returns expired       *)
(* reservations to the stock (internal/app.go, KeyDaemonStart).            *)
(*                                                                         *)
(* Every repository call is one atomic MongoDB operation, so it is one     *)
(* step here; a service method that makes several calls is several steps.  *)
(* Wall-clock time is abstracted to the only comparison the code makes:    *)
(* reserved_to is the zero time, still in the future, or in the past.      *)
(***************************************************************************)
EXTENDS Naturals, FiniteSets

CONSTANTS
    Keys,      \* ids of the key documents
    Stocks,    \* the (key_product_id, platform_id) pairs keys are sold from
    StockOf,   \* [Keys -> Stocks]: the pair stored in each key document
    Orders,    \* order ids
    NoOrder    \* order_id = nil

ASSUME StockAssumption == StockOf \in [Keys -> Stocks]
ASSUME NoOrderAssumption == NoOrder \notin Orders

VARIABLES
    keys,      \* the collection: key id -> document
    batch,     \* keys of the last FindUnfinished the daemon has yet to cancel
    released   \* history: <<o, k>> such that a CancelById took k away from o

poolVars == <<keys, batch, released>>

Locks == {"zero", "running", "expired"}

KeyDoc == [stored : BOOLEAN, order : Orders \cup {NoOrder},
           reserved : Locks, redeemed : BOOLEAN]

NotUploaded == [stored |-> FALSE, order |-> NoOrder,
                reserved |-> "zero", redeemed |-> FALSE]

PoolTypeOK ==
    /\ keys \in [Keys -> KeyDoc]
    /\ batch \subseteq Keys
    /\ released \subseteq Orders \X Keys

PoolInit ==
    /\ keys = [k \in Keys |-> NotUploaded]
    /\ batch = {}
    /\ released = {}

-----------------------------------------------------------------------------
(* The repository: what each call does to one document.                    *)

\* The document Insert writes: order_id is nil and both times are zero.
Insert(doc) == [doc EXCEPT !.stored = TRUE]

\* Mistake: the order_id filter is missing.
AvailableAnyOwner(stock) == {k \in Keys : keys[k].stored /\ StockOf[k] = stock}

\* The query of ReserveKey and of CountKeysByProductPlatform.
Available(stock) ==
    {k \in Keys : keys[k].stored /\ StockOf[k] = stock /\ keys[k].order = NoOrder}

ReserveKey(doc, o) == [doc EXCEPT !.order = o, !.reserved = "running"]

\* Selects by _id alone and leaves redeemed_at as it is.
CancelById(doc) == [doc EXCEPT !.order = NoOrder, !.reserved = "zero"]

\* Mistake: redeeming clears order_id together with reserved_to.
FinishRedeemClearsOrder(doc) ==
    [doc EXCEPT !.reserved = "zero", !.redeemed = TRUE, !.order = NoOrder]

\* Selects by _id alone and leaves order_id as it is.
FinishRedeemById(doc) == [doc EXCEPT !.reserved = "zero", !.redeemed = TRUE]

\* Mistake: the daemon looks only for keys already redeemed.
FindRedeemed ==
    {k \in Keys : keys[k].stored /\ keys[k].reserved = "expired" /\ keys[k].redeemed}

\* The query of the daemon: reserved_to after the zero time and before now.
FindUnfinished == {k \in Keys : keys[k].stored /\ keys[k].reserved = "expired"}

-----------------------------------------------------------------------------
(* The effect of one call on the collection, used by every caller.         *)

ReserveFor(o, k) ==
    /\ keys' = [keys EXCEPT ![k] = ReserveKey(@, o)]
    /\ UNCHANGED released

Finish(k) ==
    /\ keys' = [keys EXCEPT ![k] = FinishRedeemById(@)]
    /\ UNCHANGED released

Cancel(k) ==
    /\ keys' = [keys EXCEPT ![k] = CancelById(@)]
    /\ released' = IF keys[k].order = NoOrder THEN released
                   ELSE released \cup {<<keys[k].order, k>>}

-----------------------------------------------------------------------------
(* The service methods, as anything that can reach the RPC interface calls *)
(* them. A call the database refuses leaves everything unchanged.          *)

UploadKeysFile(k) ==
    /\ ~keys[k].stored
    /\ keys' = [keys EXCEPT ![k] = Insert(@)]
    /\ UNCHANGED <<batch, released>>

ReserveKeyForOrder(o, stock) ==
    /\ \E k \in Available(stock) : ReserveFor(o, k)
    /\ UNCHANGED batch

FinishRedeemKeyForOrder(k) ==
    /\ keys[k].stored
    /\ Finish(k)
    /\ UNCHANGED batch

CancelRedeemKeyForOrder(k) ==
    /\ keys[k].stored
    /\ Cancel(k)
    /\ UNCHANGED batch

\* KeyDaemonProcess reads the expired reservations once ...
DaemonScan ==
    /\ batch = {}
    /\ batch' = FindUnfinished
    /\ UNCHANGED <<keys, released>>

\* ... and then cancels them one by one, without reading them again.
DaemonCancel(k) ==
    /\ k \in batch
    /\ Cancel(k)
    /\ batch' = batch \ {k}

\* CancelById fails: the daemon continues with the next key.
DaemonSkip(k) ==
    /\ k \in batch
    /\ batch' = batch \ {k}
    /\ UNCHANGED <<keys, released>>

Daemon == DaemonScan \/ \E k \in Keys : DaemonCancel(k) \/ DaemonSkip(k)

\* The clock passes reserved_to.
Expire(k) ==
    /\ keys[k].reserved = "running"
    /\ keys' = [keys EXCEPT ![k].reserved = "expired"]
    /\ UNCHANGED <<batch, released>>

Clock == \E k \in Keys : Expire(k)

PoolNext ==
    \/ \E k \in Keys : \/ UploadKeysFile(k)
                       \/ FinishRedeemKeyForOrder(k)
                       \/ CancelRedeemKeyForOrder(k)
    \/ \E o \in Orders, stock \in Stocks : ReserveKeyForOrder(o, stock)
    \/ Daemon
    \/ Clock

\* The daemon is an endless loop with a sleep, so each of its steps is taken
\* in the end; a database that keeps being asked answers in the end.
PoolFairness ==
    /\ WF_poolVars(DaemonScan)
    /\ \A k \in Keys : /\ WF_poolVars(Expire(k))
                       /\ WF_poolVars(DaemonCancel(k) \/ DaemonSkip(k))
                       /\ SF_poolVars(DaemonCancel(k))

PoolSpec == PoolInit /\ [][PoolNext]_poolVars /\ PoolFairness

-----------------------------------------------------------------------------
(* Properties.                                                             *)

\* The collection implements the lease: whatever the callers and the daemon
\* do, ReserveKey never takes a key from the order that holds it.
Lease == INSTANCE KeyLease
    WITH holder <- [k \in Keys |-> keys[k].order], lost <- released

ImplementsLease == Lease!Spec

\* A reservation nobody finishes does not stay for ever: the daemon returns
\* the key (KeyDaemonProcess), unless somebody redeems or cancels it first.
ReservationEnds ==
    \A k \in Keys : keys[k].reserved # "zero" ~> keys[k].reserved = "zero"
=============================================================================
