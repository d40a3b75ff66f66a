---------------------------- MODULE MCSettlement ----------------------------
(* Instances of Settlement for TLC.                                        *)
EXTENDS Settlement, TLC

CONSTANTS r1, r2, r3, t1, t2

\* Two periods, and a spare id that a second report of t1 would get.
WithSpare == (r1 :> t1) @@ (r2 :> t2) @@ (r3 :> t1)

\* Every report is of one period.
OnePeriod == [r \in Reports |-> t1]

Symmetric == Permutations(Workers) \cup Permutations(Payouts)
=============================================================================
