----------------------------- MODULE MCMerchant -----------------------------
(***************************************************************************)
(* The account of a merchant, from its onboarding to its payouts: Merchant *)
(* and, with requests that are handled one by one, Settlement. They share  *)
(* no state, so a behaviour has steps of one of them.                      *)
(***************************************************************************)
EXTENDS MCSettlement, Merchant

VARIABLE subject

mcVars == <<vars, merchantVars, subject>>

\* A generous CanChangeStatusTo.
MCStatusChanges ==
    {<<"Draft", "Deleted">>, <<"Pending", "Rejected">>, <<"Pending", "KycStarted">>,
     <<"KycStarted", "Rejected">>, <<"AgreementSigned", "Suspend">>}

\* An administrator may correct a report, or enter rolling reserve, either way.
UpOrDown == {-1, 1}

MCInit == Init /\ MerchantInit /\ subject \in {"settlement", "onboarding"}

MCNext ==
    \/ subject = "settlement" /\ Next /\ UNCHANGED <<merchantVars, subject>>
    \/ subject = "onboarding" /\ MerchantNext /\ UNCHANGED <<vars, subject>>

MCSpec == MCInit /\ [][MCNext]_mcVars

\* r1 and r3 are reports of one period.
MCSymmetry == Permutations(Editors) \cup Permutations(Payouts) \cup Permutations({r1, r3})

\* Every variable of the merchant's account has its type.
AccountTypesOK == TypeOK /\ MerchantTypeOK
=============================================================================
