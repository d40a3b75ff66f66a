------------------------------ MODULE MCRefund ------------------------------
(* One order, two refunds of it, two ids for the orders made for them.   *)
EXTENDS Refund

Base ==
    [charge |-> 1200, tax |-> 200, taxRate |-> 20, vatEnabled |-> TRUE,
     common |-> 100, merchant |-> 104, centralBank |-> 200, stock |-> 55,
     psPercent |-> 5, methodPercent |-> 3, systemPercent |-> 2, psFixedFee |-> 30,
     methodFixAmount |-> 10, systemFixAmount |-> 7,
     backPercent |-> 10, backFixAmount |-> 20, backSystemPercent |-> 4,
     backSystemFixAmount |-> 5, isPaidByMerchant |-> FALSE]

\* The change of the central bank's part is borne by PaySuper, by the merchant, and
\* there is none in a country without VAT.
MCFacts ==
    {Base,
     [Base EXCEPT !.merchant = 96, !.isPaidByMerchant = TRUE],
     [Base EXCEPT !.vatEnabled = FALSE, !.taxRate = 0, !.tax = 0, !.isPaidByMerchant = TRUE]}
=============================================================================
