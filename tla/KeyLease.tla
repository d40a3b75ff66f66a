----------------------------- MODULE KeyLease -----------------------------
(***************************************************************************)
(* What the key collection promises its callers: a key is in the stock or  *)
(* held by one order, it goes to an order only from the stock, and an      *)
(* order that no longer holds a key it was given is known to have lost it. *)
(***************************************************************************)
CONSTANTS Keys, Orders, NoOrder

VARIABLES
    holder,   \* key -> the order that holds it, or NoOrder
    lost      \* the <<order, key>> pairs taken back

leaseVars == <<holder, lost>>

Init ==
    /\ holder = [k \in Keys |-> NoOrder]
    /\ lost = {}

Grant(o, k) ==
    /\ holder[k] = NoOrder
    /\ holder' = [holder EXCEPT ![k] = o]
    /\ UNCHANGED lost

TakeBack(k) ==
    /\ holder[k] # NoOrder
    /\ lost' = lost \cup {<<holder[k], k>>}
    /\ holder' = [holder EXCEPT ![k] = NoOrder]

Next == \E k \in Keys : TakeBack(k) \/ \E o \in Orders : Grant(o, k)

Spec == Init /\ [][Next]_leaseVars
=============================================================================
