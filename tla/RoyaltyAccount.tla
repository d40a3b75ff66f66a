--------------------------- MODULE RoyaltyAccount ---------------------------
(***************************************************************************)
(* What settlement promises a merchant: a report that was accepted is due  *)
(* from then on, a payout is made of reports that are due and that no      *)
(* other open or paid payout lists, and an open payout is paid or given up *)
(* once and for all.                                                       *)
(***************************************************************************)
CONSTANTS Reports, Payouts

VARIABLES
    due,     \* reports the merchant is owed for, or was paid
    state,   \* payout -> "none", "open", "paid" or "void"
    lists    \* payout -> the reports it pays

accountVars == <<due, state, lists>>

Init ==
    /\ due = {}
    /\ state = [x \in Payouts |-> "none"]
    /\ lists = [x \in Payouts |-> {}]

Accept(r) ==
    /\ due' = due \cup {r}
    /\ UNCHANGED <<state, lists>>

\* A payout below the merchant's minimum is void from the start.
Promise(x, S, kind) ==
    /\ state[x] = "none"
    /\ S # {} /\ S \subseteq due
    /\ \A y \in Payouts : state[y] \in {"open", "paid"} => lists[y] \cap S = {}
    /\ state' = [state EXCEPT ![x] = kind]
    /\ lists' = [lists EXCEPT ![x] = S]
    /\ UNCHANGED due

Settle(x, kind) ==
    /\ state[x] = "open"
    /\ state' = [state EXCEPT ![x] = kind]
    /\ UNCHANGED <<due, lists>>

Next ==
    \/ \E r \in Reports : Accept(r)
    \/ \E x \in Payouts, S \in SUBSET Reports, kind \in {"open", "void"} : Promise(x, S, kind)
    \/ \E x \in Payouts, kind \in {"paid", "void"} : Settle(x, kind)

Spec == Init /\ [][Next]_accountVars
=============================================================================
