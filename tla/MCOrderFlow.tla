---------------------------- MODULE MCOrderFlow ----------------------------
(* Instances of OrderFlow for TLC.                                         *)
EXTENDS OrderFlow, TLC

CONSTANTS o1, o2, k1, k2, g1, g2, steam, gog

\* Two orders for one copy of the same game, one key in the stock.
OneStock == {<<g1, steam>>}
OneStockOf == [k \in Keys |-> <<g1, steam>>]
OneGame == [o \in Orders |-> <<g1>>]

\* One game on two platforms.
TwoPlatforms == {<<g1, steam>>, <<g1, gog>>}
TwoPlatformsOf == (k1 :> <<g1, steam>>) @@ (k2 :> <<g1, gog>>)

\* A bundle of two games.
TwoGames == {<<g1, steam>>, <<g2, steam>>}
TwoGamesOf == (k1 :> <<g1, steam>>) @@ (k2 :> <<g2, steam>>)
Bundle == [o \in Orders |-> <<g1, g2>>]

Symmetric == Permutations(Workers)
Interchangeable == Permutations(Workers) \cup Permutations(Orders)
=============================================================================
