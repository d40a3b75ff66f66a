------------------------------ MODULE Merchant ------------------------------
(***************************************************************************)
(* The onboarding of a merchant: internal/service/onboarding.go,           *)
(* merchants_tariff_rates.go, merchant_document.go and merchant.go with    *)
(* the merchant repository and its cache.                                  *)
(*                                                                         *)
(* A request reads the whole merchant, from the cache if it is there, and  *)
(* replaces the whole document at its end. Between the two it makes the    *)
(* calls in its list todo, one by one; a call that fails ends the request. *)
(* The roles of a new merchant's owner are in module Users.                *)
(***************************************************************************)
EXTENDS Integers, Sequences, FiniteSets

CONSTANTS
    Editors,           \* requests handled at the same time
    Tariffs,           \* tariffs to choose from
    DefaultTariff,
    NoMerchant,        \* no document, no tariff
    StatusChanges,     \* CanChangeStatusTo, external: pairs of statuses
    MaxMerchantTroubles \* bound on failed calls and on requests that start while another
                       \* is handled, together

Statuses == {"Draft", "Pending", "Rejected", "Deleted", "KycStarted", "OpCompanySelected",
             "Accepted", "AgreementSigning", "AgreementSigned", "Suspend"}

\* The statuses merchantStatusChangesMessages has a message for.
Announced == Statuses \ {"Draft", "KycStarted", "OpCompanySelected"}

ASSUME MerchantAssumption ==
    /\ DefaultTariff \in Tariffs /\ NoMerchant \notin Tariffs
    /\ StatusChanges \subseteq Statuses \X Statuses
    /\ MaxMerchantTroubles \in Nat

VARIABLES
    merchant,         \* MongoDB: the merchant or NoMerchant
    merchantCache,    \* Redis: the merchant or NoMerchant
    costs,            \* the tariff of the merchant's active payment costs, or NoMerchant
    agreement,        \* whether the agreement was sent to be rendered
    signatures,       \* how often the signer was asked for signatures
    e,                \* request -> its state
    merchantOverlaps,
    merchantFailures

merchantVars == <<merchant, merchantCache, costs, agreement, signatures, e,
                  merchantOverlaps, merchantFailures>>

MerchantDoc ==
    [status : Statuses, complete : BOOLEAN, tariff : Tariffs, chosen : BOOLEAN,
     merchantSigned : BOOLEAN, pspSigned : BOOLEAN, requested : BOOLEAN, manual : BOOLEAN,
     firstPaid : BOOLEAN]

MerchantCalls == {"clear", "costs", "letters", "notify", "sign", "store", "cache", "agreement",
                  "document"}

NoEdit == [todo |-> <<>>, doc |-> NoMerchant]

MerchantTypeOK ==
    /\ merchant \in MerchantDoc \cup {NoMerchant}
    /\ merchantCache \in MerchantDoc \cup {NoMerchant}
    /\ costs \in Tariffs \cup {NoMerchant}
    /\ agreement \in BOOLEAN
    /\ signatures \in Nat
    /\ \A p \in Editors : /\ e[p].doc \in MerchantDoc \cup {NoMerchant}
                          /\ \A i \in DOMAIN e[p].todo : e[p].todo[i] \in MerchantCalls
    /\ merchantOverlaps + merchantFailures \in 0 .. MaxMerchantTroubles

MerchantInit ==
    /\ merchant = NoMerchant /\ merchantCache = NoMerchant
    /\ costs = NoMerchant
    /\ agreement = FALSE
    /\ signatures = 0
    /\ e = [p \in Editors |-> NoEdit]
    /\ merchantOverlaps = 0 /\ merchantFailures = 0

-----------------------------------------------------------------------------
(* The merchant repository and the parts requests are made of.             *)

\* merchantRepository.GetById: the cache first.
GetMerchantById == IF merchantCache # NoMerchant THEN merchantCache ELSE merchant

\* merchantRepository.GetByUserId does not use the cache.
GetMerchantByUserId == merchant

\* merchantRepository.Update and Upsert: the document is replaced, then cached.
Save == <<"store", "cache">>

\* setMerchantTariffRates: the active costs of the merchant are deleted and those of the
\* tariff inserted.
SetTariff == <<"clear", "costs">>

\* onMerchantOnboardingComplete: a letter to each side and a notification.
OnboardingComplete == <<"letters", "notify">>

StartEdit(p, calls, doc) ==
    /\ e[p] = NoEdit
    /\ e' = [e EXCEPT ![p] = [todo |-> calls, doc |-> doc]]
    /\ merchantOverlaps' = merchantOverlaps +
          (IF \E q \in Editors : e[q] # NoEdit THEN 1 ELSE 0)
    /\ merchantOverlaps' + merchantFailures <= MaxMerchantTroubles
    /\ UNCHANGED <<merchant, merchantCache, costs, agreement, signatures,
                   merchantFailures>>

-----------------------------------------------------------------------------
(* Requests.                                                               *)

\* ChangeMerchant for a user without one; the tariff is the default one.
NewMerchant(p, complete) ==
    /\ GetMerchantByUserId = NoMerchant /\ \A q \in Editors : e[q] = NoEdit
    /\ StartEdit(p, SetTariff \o Save,
          [status |-> "Draft", complete |-> complete, tariff |-> DefaultTariff,
           chosen |-> FALSE, merchantSigned |-> FALSE, pspSigned |-> FALSE,
           requested |-> FALSE, manual |-> FALSE, firstPaid |-> FALSE])

\* IsChangeDataAllow; every merchant that is stored has a tariff.
IsChangeDataAllow(doc) == doc.status = "Draft"

\* ChangeMerchant by the merchant, or by an administrator, who may always.
ChangeMerchant(p, admin, complete) ==
    LET old == IF admin THEN GetMerchantById ELSE GetMerchantByUserId
        done == ~admin /\ complete /\ old.chosen
        doc == [old EXCEPT !.complete = complete, !.status = IF done THEN "Pending" ELSE @]
    IN  /\ merchant # NoMerchant
        /\ admin \/ IsChangeDataAllow(old)
        /\ StartEdit(p, (IF done THEN OnboardingComplete ELSE <<>>) \o Save, doc)

\* The notification is added before the merchant is stored.
ChangeMerchantStatus(p, to) ==
    LET old == GetMerchantById
    IN  /\ merchant # NoMerchant
        /\ <<old.status, to>> \in StatusChanges /\ to \in Announced
        /\ StartEdit(p, <<"notify">> \o Save, [old EXCEPT !.status = to])

\* Mistake: the first signature completes the agreement.
SignedByOne(old, byMerchant, byPsp) ==
    [old EXCEPT !.merchantSigned = @ \/ byMerchant, !.pspSigned = @ \/ byPsp,
                !.status = "AgreementSigned"]

\* The merchant with the signatures of a ChangeMerchantData request.
Sign(old, byMerchant, byPsp) ==
    LET m == old.merchantSigned \/ byMerchant
        s == old.pspSigned \/ byPsp
    IN  [old EXCEPT !.merchantSigned = m, !.pspSigned = s,
                    !.status = CASE m /\ s -> "AgreementSigned"
                                 [] m /\ ~s -> "AgreementSigning"
                                 [] OTHER -> @]

\* ChangeMerchantData, sent by the signer once it was asked for signatures; a status
\* without a message is an error.
ChangeMerchantData(p, byMerchant, byPsp) ==
    LET old == GetMerchantById
        doc == Sign(old, byMerchant, byPsp)
        signed == doc.merchantSigned /\ doc.pspSigned
    IN  /\ merchant # NoMerchant /\ signatures > 0
        /\ ~(old.merchantSigned /\ old.pspSigned)
        /\ doc.status \in Announced \/ signed
        /\ StartEdit(p, (IF signed THEN <<"letters">> ELSE <<>>) \o <<"notify">> \o Save, doc)

\* Mistake: a status that does not exist.
SelectOperatingCompany(p) ==
    LET old == GetMerchantById
    IN  /\ merchant # NoMerchant /\ old.complete
        /\ StartEdit(p, Save, [old EXCEPT !.status = "CompanySelected"])

\* From any status.
SetMerchantOperatingCompany(p) ==
    LET old == GetMerchantById
    IN  /\ merchant # NoMerchant /\ old.complete
        /\ StartEdit(p, Save, [old EXCEPT !.status = "OpCompanySelected"])

\* The status is stored before the notification, the agreement and the letter.
SetMerchantAcceptedStatus(p) ==
    LET old == GetMerchantById
    IN  /\ merchant # NoMerchant /\ old.status = "OpCompanySelected" /\ costs # NoMerchant
        /\ StartEdit(p, Save \o <<"notify", "agreement", "letters">>,
                     [old EXCEPT !.status = "Accepted"])

ChangeMerchantManualPayouts(p, enabled) ==
    LET old == GetMerchantById
    IN  /\ merchant # NoMerchant /\ old.manual # enabled
        /\ StartEdit(p, Save, [old EXCEPT !.manual = enabled])

\* SetMerchantS3Agreement, when the agreement was rendered: signatures are asked for once.
SetMerchantS3Agreement(p) ==
    LET old == GetMerchantById
    IN  /\ merchant # NoMerchant /\ agreement
        /\ StartEdit(p, (IF old.requested THEN <<>> ELSE <<"sign">>) \o Save,
                     [old EXCEPT !.requested = TRUE])

\* IsAgreementSigningStarted, external.
IsAgreementSigningStarted(doc) == doc.status \in {"AgreementSigning", "AgreementSigned"}

SetMerchantTariffRates(p, t) ==
    LET old == GetMerchantById
    IN  /\ merchant # NoMerchant /\ ~old.chosen /\ ~IsAgreementSigningStarted(old)
        /\ StartEdit(p, SetTariff \o (IF old.complete THEN OnboardingComplete ELSE <<>>) \o Save,
                     [old EXCEPT !.tariff = t, !.chosen = TRUE,
                                 !.status = IF old.complete THEN "Pending" ELSE @])

AddMerchantDocument(p) ==
    LET old == GetMerchantById
    IN  /\ merchant # NoMerchant
        /\ \/ /\ old.status = "KycStarted"
              /\ StartEdit(p, <<"document">>, old)
           \/ /\ old.status # "KycStarted" /\ <<old.status, "KycStarted">> \in StatusChanges
              /\ StartEdit(p, Save \o <<"document">>, [old EXCEPT !.status = "KycStarted"])

\* The first payment of the merchant, noted by its callback.
NoteFirstPayment(p) ==
    LET old == GetMerchantById
    IN  /\ merchant # NoMerchant /\ ~old.firstPaid
        /\ StartEdit(p, Save, [old EXCEPT !.firstPaid = TRUE])

\* The task update_first_payments, which reads the merchants without the cache.
UpdateFirstPayments(p) ==
    /\ merchant # NoMerchant /\ merchant.firstPaid
    /\ StartEdit(p, Save, merchant)

-----------------------------------------------------------------------------
(* The calls.                                                              *)

NextCall(p, call) == e[p].todo # <<>> /\ Head(e[p].todo) = call
RestOfEdit(p) == IF Len(e[p].todo) = 1 THEN NoEdit ELSE [e[p] EXCEPT !.todo = Tail(@)]
CallMade(p) == e' = [e EXCEPT ![p] = RestOfEdit(p)]

\* DeleteAndInsertMany, its two halves.
DeleteCosts(p) ==
    /\ NextCall(p, "clear")
    /\ costs' = NoMerchant
    /\ CallMade(p)
    /\ UNCHANGED <<merchant, merchantCache, agreement, signatures,
                   merchantOverlaps, merchantFailures>>

InsertCosts(p) ==
    /\ NextCall(p, "costs")
    /\ costs' = e[p].doc.tariff
    /\ CallMade(p)
    /\ UNCHANGED <<merchant, merchantCache, agreement, signatures,
                   merchantOverlaps, merchantFailures>>

\* sendOnboardingLetter and sendLicenseAgreementSignedEmail.
SendLetters(p) ==
    /\ NextCall(p, "letters")
    /\ CallMade(p)
    /\ UNCHANGED <<merchant, merchantCache, costs, agreement, signatures,
                   merchantOverlaps, merchantFailures>>

\* addNotification: the message of the status is stored and published. Nothing depends on it.
AddNotification(p) ==
    /\ NextCall(p, "notify")
    /\ CallMade(p)
    /\ UNCHANGED <<merchant, merchantCache, costs, agreement, signatures,
                   merchantOverlaps, merchantFailures>>

\* generateMerchantAgreement.
GenerateMerchantAgreement(p) ==
    /\ NextCall(p, "agreement")
    /\ agreement' = TRUE
    /\ CallMade(p)
    /\ UNCHANGED <<merchant, merchantCache, costs, signatures,
                   merchantOverlaps, merchantFailures>>

\* getMerchantAgreementSignature.
GetMerchantAgreementSignature(p) ==
    /\ NextCall(p, "sign")
    /\ signatures' = signatures + 1
    /\ CallMade(p)
    /\ UNCHANGED <<merchant, merchantCache, costs, agreement,
                   merchantOverlaps, merchantFailures>>

StoreMerchant(p) ==
    /\ NextCall(p, "store")
    /\ merchant' = e[p].doc
    /\ CallMade(p)
    /\ UNCHANGED <<merchantCache, costs, agreement, signatures,
                   merchantOverlaps, merchantFailures>>

\* Mistake: the cache is left as it is.
KeepMerchantCache(p) ==
    /\ NextCall(p, "cache")
    /\ merchantCache' = IF merchantCache = NoMerchant THEN e[p].doc ELSE merchantCache
    /\ CallMade(p)
    /\ UNCHANGED <<merchant, costs, agreement, signatures,
                   merchantOverlaps, merchantFailures>>

CacheMerchant(p) ==
    /\ NextCall(p, "cache")
    /\ merchantCache' = e[p].doc
    /\ CallMade(p)
    /\ UNCHANGED <<merchant, costs, agreement, signatures,
                   merchantOverlaps, merchantFailures>>

\* merchantDocumentRepository.Insert: documents are stored and listed, and nothing depends
\* on them; the letters after it may fail.
InsertDocument(p) ==
    /\ NextCall(p, "document")
    /\ CallMade(p)
    /\ UNCHANGED <<merchant, merchantCache, costs, agreement, signatures,
                   merchantOverlaps, merchantFailures>>

\* A call fails, or the process dies, and the rest is not done.
FailEdit(p) ==
    /\ e[p] # NoEdit
    /\ merchantOverlaps + merchantFailures < MaxMerchantTroubles
    /\ merchantFailures' = merchantFailures + 1
    /\ e' = [e EXCEPT ![p] = NoEdit]
    /\ UNCHANGED <<merchant, merchantCache, costs, agreement, signatures,
                   merchantOverlaps>>

Call(p) ==
    \/ DeleteCosts(p) \/ InsertCosts(p) \/ SendLetters(p) \/ AddNotification(p)
    \/ GenerateMerchantAgreement(p) \/ GetMerchantAgreementSignature(p)
    \/ StoreMerchant(p) \/ CacheMerchant(p) \/ InsertDocument(p)

MerchantRequest(p) ==
    \/ SetMerchantOperatingCompany(p)
    \/ SetMerchantAcceptedStatus(p)
    \/ SetMerchantS3Agreement(p)
    \/ AddMerchantDocument(p)
    \/ NoteFirstPayment(p)
    \/ UpdateFirstPayments(p)
    \/ \E to \in Statuses : ChangeMerchantStatus(p, to)
    \/ \E t \in Tariffs : SetMerchantTariffRates(p, t)
    \/ \E flag \in BOOLEAN :
          \/ NewMerchant(p, flag)
          \/ ChangeMerchantManualPayouts(p, flag)
          \/ \E admin \in BOOLEAN : ChangeMerchant(p, admin, flag)
    \/ \E byMerchant, byPsp \in BOOLEAN : ChangeMerchantData(p, byMerchant, byPsp)

MerchantNext == \E p \in Editors : Call(p) \/ FailEdit(p) \/ MerchantRequest(p)

MerchantSpec == MerchantInit /\ [][MerchantNext]_merchantVars

-----------------------------------------------------------------------------
(* Properties.                                                             *)

NoTrouble == merchantOverlaps + merchantFailures = 0

\* An agreement counts as signed, and the merchant can be paid, only if both sides signed,
\* also when requests overwrite each other's merchant (ChangeMerchantData).
SignedByBoth ==
    merchant # NoMerchant /\ merchant.status = "AgreementSigned"
        => merchant.merchantSigned /\ merchant.pspSigned

\* Without overlap and failure nothing that was stored is forgotten: a signature, the
\* choice of the tariff, the signature request and the first payment stay, although every
\* request writes back a whole merchant it may have read from the cache
\* (merchantRepository.GetById, Update).
NothingIsForgotten ==
    [][(NoTrouble /\ merchant # NoMerchant) =>
          /\ merchant.merchantSigned => merchant'.merchantSigned
          /\ merchant.pspSigned => merchant'.pspSigned
          /\ merchant.chosen => merchant'.chosen /\ merchant'.tariff = merchant.tariff
          /\ merchant.requested => merchant'.requested
          /\ merchant.firstPaid => merchant'.firstPaid]_merchantVars
=============================================================================
