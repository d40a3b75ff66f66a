------------------------------ MODULE MCEndings ------------------------------
(***************************************************************************)
(* What has to end by itself: the reservation of a key, in one stock of    *)
(* two keys that two orders compete for, and a subscription whose charges  *)
(* fail. The two share no state, so a behaviour has steps of one of them.  *)
(***************************************************************************)
EXTENDS KeyPool, Subscription

CONSTANTS k1, k2, s1, o1, o2

VARIABLE subject

mcVars == <<poolVars, subVars, subject>>

MCStockOf == [k \in Keys |-> s1]
MCOwnerOf(s) == "c1"
MCMerchantOf(s) == "m1"
MCCardOwner(card) == IF card = "card1" THEN "c1" ELSE "c2"

MCInit == PoolInit /\ SubInit /\ subject \in {"keys", "recurring"}

MCNext ==
    \/ subject = "keys" /\ PoolNext /\ UNCHANGED <<subVars, subject>>
    \/ subject = "recurring" /\ SubNext /\ UNCHANGED <<poolVars, subject>>

MCSpec == MCInit /\ [][MCNext]_mcVars /\ PoolFairness /\ SubFairness
=============================================================================
