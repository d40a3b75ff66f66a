----------------------------- MODULE AccountProofs -----------------------------
(***************************************************************************)
(* Theorems about the onboarding of a merchant (Merchant), and the types   *)
(* of its whole account.                                                   *)
(*                                                                         *)
(* Every request writes back a whole merchant it has read, so what a       *)
(* document may say is proved of the stored merchant, its cached copy and  *)
(* the copies of the requests together.                                    *)
(***************************************************************************)
EXTENDS SettlementProofs, MCMerchant, SequenceTheorems

\* A request that runs: the calls it still has to make and the merchant it will store.
Edit == [todo : Seq(MerchantCalls), doc : MerchantDoc \cup {NoMerchant}]

MerchantTypeInv ==
    /\ merchant \in MerchantDoc \cup {NoMerchant}
    /\ merchantCache \in MerchantDoc \cup {NoMerchant}
    /\ costs \in Tariffs \cup {NoMerchant}
    /\ agreement \in BOOLEAN
    /\ signatures \in Nat
    /\ e \in [Editors -> Edit]
    /\ \A p \in Editors : e[p] # NoEdit => e[p].todo # <<>> /\ e[p].doc \in MerchantDoc
    /\ merchantOverlaps \in Nat /\ merchantFailures \in Nat
    /\ merchantOverlaps + merchantFailures <= MaxMerchantTroubles

\* A merchant whose agreement counts as signed has both signatures.
Signed(doc) ==
    doc # NoMerchant /\ doc.status = "AgreementSigned" => doc.merchantSigned /\ doc.pspSigned

\* What a document must not lose when another takes its place.
Keeps(old, doc) ==
    /\ old.merchantSigned => doc.merchantSigned
    /\ old.pspSigned => doc.pspSigned
    /\ old.chosen => doc.chosen /\ doc.tariff = old.tariff
    /\ old.requested => doc.requested
    /\ old.firstPaid => doc.firstPaid

\* The merchant is stored by the k-th call and cached by the next one; calls that were made
\* count down to 0 and below.
SavesAt(calls, k) ==
    /\ k < Len(calls)
    /\ \A i \in 1 .. Len(calls) : /\ calls[i] = "store" <=> i = k
                                  /\ calls[i] = "cache" <=> i = k + 1

\* The calls that leave the merchant alone.
SideCalls == MerchantCalls \ {"store", "cache"}

LEMMA SideCallsOnly ==
  ASSUME NEW s \in Seq(SideCalls)
  PROVE  s \in Seq(MerchantCalls) /\ SavesAt(s, -1)
<1>1. Len(s) \in Nat /\ \A i \in 1 .. Len(s) : s[i] \in SideCalls
  BY ElementOfSeq
<1> QED
  BY <1>1, IsASeq DEF SideCalls, SavesAt, MerchantCalls

\* What a request does before it saves the merchant.
LEMMA SaveLast ==
  ASSUME NEW s \in Seq(SideCalls)
  PROVE  /\ s \o Save \in Seq(MerchantCalls) /\ s \o Save # <<>>
         /\ SavesAt(s \o Save, Len(s) + 1)
<1>1. Save \in Seq(MerchantCalls) /\ Len(Save) = 2 /\ Save[1] = "store" /\ Save[2] = "cache"
  BY DEF Save, MerchantCalls
<1>2. s \in Seq(MerchantCalls) /\ Len(s) \in Nat /\ \A i \in 1 .. Len(s) : s[i] \in SideCalls
  BY SideCallsOnly, ElementOfSeq
<1>3. /\ Len(s \o Save) = Len(s) + 2
      /\ \A i \in 1 .. Len(s) + 2 :
            (s \o Save)[i] = IF i <= Len(s) THEN s[i] ELSE Save[i - Len(s)]
  <2>1. Len(s \o Save) = Len(s) + Len(Save)
    BY <1>1, <1>2, ConcatProperties, Zenon
  <2>2. \A i \in 1 .. Len(s) + Len(Save) :
           (s \o Save)[i] = IF i <= Len(s) THEN s[i] ELSE Save[i - Len(s)]
    BY <1>1, <1>2, ConcatProperties
  <2> QED
    BY <1>1, <2>1, <2>2
<1>4. \A i \in 1 .. Len(s) + 2 :
         /\ (s \o Save)[i] = "store" <=> i = Len(s) + 1
         /\ (s \o Save)[i] = "cache" <=> i = Len(s) + 2
  BY <1>1, <1>2, <1>3 DEF SideCalls
<1>5. s \o Save \in Seq(MerchantCalls)
  BY <1>1, <1>2, ConcatProperties
<1>6. SavesAt(s \o Save, Len(s) + 1)
  BY <1>2, <1>3, <1>4 DEF SavesAt
<1> QED
  BY <1>2, <1>3, <1>5, <1>6

\* What a request does after it saved the merchant.
LEMMA SaveFirst ==
  ASSUME NEW s \in Seq(SideCalls)
  PROVE  Save \o s \in Seq(MerchantCalls) /\ Save \o s # <<>> /\ SavesAt(Save \o s, 1)
<1>1. Save \in Seq(MerchantCalls) /\ Len(Save) = 2 /\ Save[1] = "store" /\ Save[2] = "cache"
  BY DEF Save, MerchantCalls
<1>2. s \in Seq(MerchantCalls) /\ Len(s) \in Nat /\ \A i \in 1 .. Len(s) : s[i] \in SideCalls
  BY SideCallsOnly, ElementOfSeq
<1>3. /\ Len(Save \o s) = Len(s) + 2
      /\ \A i \in 1 .. Len(s) + 2 :
            (Save \o s)[i] = IF i <= 2 THEN Save[i] ELSE s[i - 2]
  BY <1>1, <1>2, ConcatProperties
<1>4. \A i \in 1 .. Len(s) + 2 :
         /\ (Save \o s)[i] = "store" <=> i = 1
         /\ (Save \o s)[i] = "cache" <=> i = 2
  BY <1>1, <1>2, <1>3 DEF SideCalls
<1>5. Save \o s \in Seq(MerchantCalls)
  BY <1>1, <1>2, ConcatProperties
<1>6. SavesAt(Save \o s, 1)
  BY <1>2, <1>3, <1>4 DEF SavesAt
<1> QED
  BY <1>2, <1>3, <1>5, <1>6

\* One call fewer.
LEMMA SaveNearer ==
  ASSUME NEW s \in Seq(MerchantCalls), s # <<>>, NEW k \in Int, SavesAt(s, k)
  PROVE  /\ Tail(s) \in Seq(MerchantCalls) /\ Len(Tail(s)) = Len(s) - 1
         /\ SavesAt(Tail(s), k - 1)
         /\ Head(s) = "store" <=> k = 1
         /\ Head(s) = "cache" <=> k = 0
<1>1. /\ Len(s) \in Nat /\ Len(s) >= 1
      /\ Tail(s) \in Seq(MerchantCalls) /\ Len(Tail(s)) = Len(s) - 1
      /\ \A i \in 1 .. Len(s) - 1 : Tail(s)[i] = s[i + 1]
      /\ Head(s) = s[1]
  BY HeadTailProperties, EmptySeq
<1>2. SavesAt(Tail(s), k - 1)
  BY <1>1 DEF SavesAt
<1> QED
  BY <1>1, <1>2 DEF SavesAt

-----------------------------------------------------------------------------
(* What a request wants: a document that keeps what the one it read said.  *)

\* Of a status nobody but the two signatures gives.
SignedBySignatures ==
    \A s \in Statuses : <<s, "AgreementSigned">> \in StatusChanges => s = "AgreementSigned"

\* A document that may take the place of old.
Follows(old, doc) ==
    /\ doc \in MerchantDoc
    /\ Keeps(old, doc)
    /\ (SignedBySignatures /\ Signed(old)) => Signed(doc)

\* Request p starts: it will make the calls and store the document, unless nothing is stored.
Starts(p, calls, doc) ==
    /\ StartEdit(p, calls, doc)
    /\ calls \in Seq(MerchantCalls) /\ calls # <<>>
    /\ \E k \in Int \ {0} : SavesAt(calls, k)
    /\ IF merchant = NoMerchant
       THEN doc \in MerchantDoc /\ Signed(doc)
       ELSE \E old \in {merchant, merchantCache} \ {NoMerchant} : Follows(old, doc)

\* The two calls for the tariff, the two of a complete profile, or none of them.
LEMMA Prefixes ==
  /\ \A s \in Seq(SideCalls) : s \o Save \in Seq(MerchantCalls) /\ s \o Save # <<>>
                               /\ \E k \in Int \ {0} : SavesAt(s \o Save, k)
  /\ Save \in Seq(MerchantCalls) /\ Save # <<>> /\ \E k \in Int \ {0} : SavesAt(Save, k)
  /\ {<<>>, SetTariff, OnboardingComplete, SetTariff \o OnboardingComplete, SetTariff \o <<>>,
      <<"letters">> \o <<"notify">>, <<>> \o <<"notify">>, <<"notify">>, <<"sign">>,
      <<"document">>, <<"notify", "agreement", "letters">>} \subseteq Seq(SideCalls)
<1>1. ASSUME NEW s \in Seq(SideCalls)
      PROVE  /\ s \o Save \in Seq(MerchantCalls) /\ s \o Save # <<>>
             /\ \E k \in Int \ {0} : SavesAt(s \o Save, k)
  <2>1. Len(s) + 1 \in Int \ {0}
    BY LenProperties
  <2> QED
    BY <2>1, SaveLast
<1>2. <<>> \in Seq(SideCalls) /\ <<>> \o Save = Save
  BY DEF Save
<1>3. Save \in Seq(MerchantCalls) /\ Save # <<>> /\ \E k \in Int \ {0} : SavesAt(Save, k)
  BY <1>1, <1>2
<1>4. {"clear", "costs", "letters", "notify", "sign", "agreement", "document"} \subseteq SideCalls
  BY DEF SideCalls, MerchantCalls
<1>5. SetTariff \in Seq(SideCalls) /\ OnboardingComplete \in Seq(SideCalls)
  BY <1>4 DEF SetTariff, OnboardingComplete
<1>6. /\ SetTariff \o OnboardingComplete \in Seq(SideCalls)
      /\ SetTariff \o <<>> \in Seq(SideCalls)
  BY <1>2, <1>5
<1>7. /\ <<"letters">> \in Seq(SideCalls) /\ <<"notify">> \in Seq(SideCalls)
      /\ <<"sign">> \in Seq(SideCalls) /\ <<"document">> \in Seq(SideCalls)
      /\ <<"notify", "agreement", "letters">> \in Seq(SideCalls)
  BY <1>4
<1>8. /\ <<"letters">> \o <<"notify">> \in Seq(SideCalls)
      /\ <<>> \o <<"notify">> \in Seq(SideCalls)
  BY <1>2, <1>7
<1> QED
  BY <1>1, <1>2, <1>3, <1>5, <1>6, <1>7, <1>8

LEMMA RequestStarts ==
  ASSUME MerchantAssumption, MerchantTypeInv, NEW p \in Editors, MerchantRequest(p)
  PROVE  \E calls, doc : Starts(p, calls, doc)
<1> DEFINE old == GetMerchantById
<1>1. ASSUME merchant # NoMerchant
      PROVE  old \in {merchant, merchantCache} \ {NoMerchant} /\ old \in MerchantDoc
  BY <1>1 DEF MerchantTypeInv, GetMerchantById
<1>2. CASE SetMerchantOperatingCompany(p)
  <2>1. Follows(old, [old EXCEPT !.status = "OpCompanySelected"])
    BY <1>1, <1>2 DEF SetMerchantOperatingCompany, Follows, Keeps, Signed, MerchantDoc, Statuses
  <2> QED
    BY <1>1, <1>2, <2>1, Prefixes DEF SetMerchantOperatingCompany, Starts
<1>3. CASE SetMerchantAcceptedStatus(p)
  <2>1. Follows(old, [old EXCEPT !.status = "Accepted"])
    BY <1>1, <1>3 DEF SetMerchantAcceptedStatus, Follows, Keeps, Signed, MerchantDoc, Statuses
  <2>2. /\ Save \o <<"notify", "agreement", "letters">> \in Seq(MerchantCalls)
        /\ Save \o <<"notify", "agreement", "letters">> # <<>>
        /\ \E k \in Int \ {0} : SavesAt(Save \o <<"notify", "agreement", "letters">>, k)
    BY Prefixes, SaveFirst, 1 \in Int \ {0}
  <2> QED
    BY <1>1, <1>3, <2>1, <2>2 DEF SetMerchantAcceptedStatus, Starts
<1>4. CASE SetMerchantS3Agreement(p)
  <2>1. Follows(old, [old EXCEPT !.requested = TRUE])
    BY <1>1, <1>4 DEF SetMerchantS3Agreement, Follows, Keeps, Signed, MerchantDoc
  <2>2. (IF old.requested THEN <<>> ELSE <<"sign">>) \in Seq(SideCalls)
    BY Prefixes
  <2> QED
    BY <1>1, <1>4, <2>1, <2>2, Prefixes DEF SetMerchantS3Agreement, Starts
<1>5. CASE AddMerchantDocument(p)
  <2>1. Follows(old, old) /\ Follows(old, [old EXCEPT !.status = "KycStarted"])
    BY <1>1, <1>5 DEF AddMerchantDocument, Follows, Keeps, Signed, MerchantDoc, Statuses
  <2>2. /\ <<"document">> \in Seq(MerchantCalls) /\ <<"document">> # <<>>
        /\ \E k \in Int \ {0} : SavesAt(<<"document">>, k)
    BY Prefixes, SideCallsOnly, -1 \in Int \ {0}
  <2>3. /\ Save \o <<"document">> \in Seq(MerchantCalls) /\ Save \o <<"document">> # <<>>
        /\ \E k \in Int \ {0} : SavesAt(Save \o <<"document">>, k)
    BY Prefixes, SaveFirst, 1 \in Int \ {0}
  <2> QED
    BY <1>1, <1>5, <2>1, <2>2, <2>3 DEF AddMerchantDocument, Starts
<1>6. CASE NoteFirstPayment(p)
  <2>1. Follows(old, [old EXCEPT !.firstPaid = TRUE])
    BY <1>1, <1>6 DEF NoteFirstPayment, Follows, Keeps, Signed, MerchantDoc
  <2> QED
    BY <1>1, <1>6, <2>1, Prefixes DEF NoteFirstPayment, Starts
<1>7. CASE UpdateFirstPayments(p)
  <2>1. Follows(merchant, merchant)
    BY <1>7 DEF UpdateFirstPayments, MerchantTypeInv, Follows, Keeps
  <2> QED
    BY <1>7, <2>1, Prefixes DEF UpdateFirstPayments, Starts
<1>8. ASSUME NEW to \in Statuses, ChangeMerchantStatus(p, to)
      PROVE  \E calls, doc : Starts(p, calls, doc)
  <2>1. Follows(old, [old EXCEPT !.status = to])
    BY <1>1, <1>8 DEF ChangeMerchantStatus, Follows, Keeps, Signed, MerchantDoc,
                      SignedBySignatures
  <2> QED
    BY <1>1, <1>8, <2>1, Prefixes DEF ChangeMerchantStatus, Starts
<1>9. ASSUME NEW t \in Tariffs, SetMerchantTariffRates(p, t)
      PROVE  \E calls, doc : Starts(p, calls, doc)
  <2> DEFINE doc == [old EXCEPT !.tariff = t, !.chosen = TRUE,
                                !.status = IF old.complete THEN "Pending" ELSE @]
  <2>1. Follows(old, doc)
    BY <1>1, <1>9 DEF SetMerchantTariffRates, Follows, Keeps, Signed, MerchantDoc, Statuses
  <2>2. SetTariff \o (IF old.complete THEN OnboardingComplete ELSE <<>>) \in Seq(SideCalls)
    BY Prefixes
  <2> QED
    BY <1>1, <1>9, <2>1, <2>2, Prefixes DEF SetMerchantTariffRates, Starts
<1>10. ASSUME NEW flag \in BOOLEAN, NewMerchant(p, flag)
       PROVE  \E calls, doc : Starts(p, calls, doc)
  <2> DEFINE doc == [status |-> "Draft", complete |-> flag, tariff |-> DefaultTariff,
           chosen |-> FALSE, merchantSigned |-> FALSE, pspSigned |-> FALSE,
           requested |-> FALSE, manual |-> FALSE, firstPaid |-> FALSE]
  <2>1. doc \in MerchantDoc /\ Signed(doc)
    BY <1>10 DEF MerchantDoc, Statuses, MerchantAssumption, Signed
  <2> QED
    BY <1>10, <2>1, Prefixes DEF NewMerchant, Starts, GetMerchantByUserId
<1>11. ASSUME NEW flag \in BOOLEAN, ChangeMerchantManualPayouts(p, flag)
       PROVE  \E calls, doc : Starts(p, calls, doc)
  <2>1. Follows(old, [old EXCEPT !.manual = flag])
    BY <1>1, <1>11 DEF ChangeMerchantManualPayouts, Follows, Keeps, Signed, MerchantDoc
  <2> QED
    BY <1>1, <1>11, <2>1, Prefixes DEF ChangeMerchantManualPayouts, Starts
<1>12. ASSUME NEW admin \in BOOLEAN, NEW flag \in BOOLEAN, ChangeMerchant(p, admin, flag)
       PROVE  \E calls, doc : Starts(p, calls, doc)
  <2> DEFINE was == IF admin THEN GetMerchantById ELSE GetMerchantByUserId
             done == ~admin /\ flag /\ was.chosen
             doc == [was EXCEPT !.complete = flag, !.status = IF done THEN "Pending" ELSE @]
  <2>1. was \in {merchant, merchantCache} \ {NoMerchant} /\ was \in MerchantDoc
    BY <1>1, <1>12 DEF ChangeMerchant, GetMerchantByUserId, MerchantTypeInv
  <2>2. Follows(was, doc)
    BY <2>1 DEF Follows, Keeps, Signed, MerchantDoc, Statuses
  <2>3. (IF done THEN OnboardingComplete ELSE <<>>) \in Seq(SideCalls)
    BY Prefixes
  <2> QED
    BY <1>12, <2>1, <2>2, <2>3, Prefixes DEF ChangeMerchant, Starts
<1>13. ASSUME NEW byMerchant \in BOOLEAN, NEW byPsp \in BOOLEAN,
              ChangeMerchantData(p, byMerchant, byPsp)
       PROVE  \E calls, doc : Starts(p, calls, doc)
  <2> DEFINE doc == Sign(old, byMerchant, byPsp)
             signed == doc.merchantSigned /\ doc.pspSigned
  <2>1. Follows(old, doc)
    <3>1. old \in MerchantDoc
      BY <1>1, <1>13 DEF ChangeMerchantData
    <3>2. CASE old.merchantSigned \/ byMerchant
      <4>1. CASE old.pspSigned \/ byPsp
        <5>1. doc = [old EXCEPT !.merchantSigned = TRUE, !.pspSigned = TRUE,
                                !.status = "AgreementSigned"]
          BY <3>1, <3>2, <4>1 DEF Sign, MerchantDoc
        <5> QED
          BY <3>1, <5>1 DEF Follows, Keeps, Signed, MerchantDoc, Statuses
      <4>2. CASE ~(old.pspSigned \/ byPsp)
        <5>1. doc = [old EXCEPT !.merchantSigned = TRUE, !.pspSigned = FALSE,
                                !.status = "AgreementSigning"]
          BY <3>1, <3>2, <4>2 DEF Sign, MerchantDoc
        <5> QED
          BY <3>1, <4>2, <5>1 DEF Follows, Keeps, Signed, MerchantDoc, Statuses
      <4> QED
        BY <4>1, <4>2
    <3>3. CASE ~(old.merchantSigned \/ byMerchant)
      <4>1. CASE old.pspSigned \/ byPsp
        <5>1. doc = [old EXCEPT !.merchantSigned = FALSE, !.pspSigned = TRUE,
                                !.status = old.status]
          BY <3>1, <3>3, <4>1 DEF Sign, MerchantDoc
        <5> QED
          BY <1>1, <1>13, <3>1, <3>3, <5>1
          DEF ChangeMerchantData, Follows, Keeps, Signed, MerchantDoc, Statuses
      <4>2. CASE ~(old.pspSigned \/ byPsp)
        <5>1. doc = [old EXCEPT !.merchantSigned = FALSE, !.pspSigned = FALSE,
                                !.status = old.status]
          BY <3>1, <3>3, <4>2 DEF Sign, MerchantDoc
        <5> QED
          BY <1>1, <1>13, <3>1, <3>3, <4>2, <5>1
          DEF ChangeMerchantData, Follows, Keeps, Signed, MerchantDoc, Statuses
      <4> QED
        BY <4>1, <4>2
    <3> QED
      BY <3>2, <3>3
  <2>2. (IF signed THEN <<"letters">> ELSE <<>>) \o <<"notify">> \in Seq(SideCalls)
    BY Prefixes
  <2> QED
    BY <1>1, <1>13, <2>1, <2>2, Prefixes DEF ChangeMerchantData, Starts
<1> QED
  BY <1>2, <1>3, <1>4, <1>5, <1>6, <1>7, <1>8, <1>9, <1>10, <1>11, <1>12, <1>13 DEF MerchantRequest

-----------------------------------------------------------------------------
(* What a call does.                                                       *)

\* The first call of p is made: the merchant and its copy change if it is their turn.
CallTaken(p) ==
    LET call == Head(e[p].todo)
    IN  /\ e[p] # NoEdit
        /\ e' \in [Editors -> Edit] /\ \A q \in Editors \ {p} : e'[q] = e[q]
        /\ \/ /\ e'[p] # NoEdit /\ e'[p].todo # <<>>
              /\ e'[p].todo = Tail(e[p].todo) /\ e'[p].doc = e[p].doc
           \/ e'[p] = NoEdit /\ Len(e[p].todo) = 1
        /\ merchant' = IF call = "store" THEN e[p].doc ELSE merchant
        /\ merchantCache' = IF call = "cache" THEN e[p].doc ELSE merchantCache
        /\ costs' \in Tariffs \cup {NoMerchant}
        /\ agreement' \in BOOLEAN
        /\ signatures' \in Nat
        /\ UNCHANGED <<merchantOverlaps, merchantFailures>>

LEMMA EditsAre ==
  /\ NoEdit \in Edit /\ NoEdit.todo = <<>> /\ NoEdit.doc = NoMerchant
  /\ \A x \in Edit : x.todo \in Seq(MerchantCalls) /\ x.doc \in MerchantDoc \cup {NoMerchant}
BY DEF NoEdit, Edit

LEMMA CallsAreTaken ==
  ASSUME MerchantTypeInv, NEW p \in Editors, Call(p)
  PROVE  CallTaken(p)
<1> DEFINE todo == e[p].todo
<1>1. /\ todo # <<>> /\ CallMade(p) /\ UNCHANGED <<merchantOverlaps, merchantFailures>>
  BY DEF Call, DeleteCosts, InsertCosts, SendLetters, AddNotification, GenerateMerchantAgreement,
         GetMerchantAgreementSignature, StoreMerchant, CacheMerchant, InsertDocument, NextCall
<1>2. e[p] \in Edit /\ todo \in Seq(MerchantCalls) /\ e[p] # NoEdit /\ e[p].doc \in MerchantDoc
  BY <1>1, EditsAre DEF MerchantTypeInv
<1>3. /\ Len(todo) \in Nat /\ Len(todo) >= 1
      /\ Tail(todo) \in Seq(MerchantCalls) /\ Len(Tail(todo)) = Len(todo) - 1
  BY <1>1, <1>2, HeadTailProperties, EmptySeq
<1>4. /\ e' \in [Editors -> Edit] /\ \A q \in Editors \ {p} : e'[q] = e[q]
      /\ \/ /\ e'[p] # NoEdit /\ e'[p].todo # <<>>
            /\ e'[p].todo = Tail(todo) /\ e'[p].doc = e[p].doc
         \/ e'[p] = NoEdit /\ Len(todo) = 1
  <2>1. CASE Len(todo) = 1
    <3>1. e' = [e EXCEPT ![p] = NoEdit]
      BY <1>1, <2>1 DEF CallMade, RestOfEdit
    <3> QED
      BY <2>1, <3>1, EditsAre DEF MerchantTypeInv
  <2>2. CASE Len(todo) # 1
    <3> DEFINE x == [e[p] EXCEPT !.todo = Tail(todo)]
    <3>1. e' = [e EXCEPT ![p] = x]
      BY <1>1, <2>2 DEF CallMade, RestOfEdit
    <3>2. x \in Edit /\ x.todo = Tail(todo) /\ x.doc = e[p].doc
      BY <1>2, <1>3 DEF Edit
    <3>3. Tail(todo) # <<>>
      <4>1. Len(Tail(todo)) # 0
        BY <1>3, <2>2
      <4> QED
        BY <4>1, EmptySeq, Zenon
    <3> HIDE DEF x
    <3> QED
      BY <3>1, <3>2, <3>3, EditsAre DEF MerchantTypeInv
  <2> QED
    BY <2>1, <2>2
<1>5. /\ merchant' = IF Head(todo) = "store" THEN e[p].doc ELSE merchant
      /\ merchantCache' = IF Head(todo) = "cache" THEN e[p].doc ELSE merchantCache
  BY DEF Call, DeleteCosts, InsertCosts, SendLetters, AddNotification, GenerateMerchantAgreement,
         GetMerchantAgreementSignature, StoreMerchant, CacheMerchant, InsertDocument, NextCall
<1>6. costs' \in Tariffs \cup {NoMerchant} /\ agreement' \in BOOLEAN /\ signatures' \in Nat
  <2>1. e[p].doc.tariff \in Tariffs
    BY <1>2 DEF MerchantDoc
  <2>2. /\ costs \in Tariffs \cup {NoMerchant} /\ agreement \in BOOLEAN /\ signatures \in Nat
        /\ signatures + 1 \in Nat
    BY DEF MerchantTypeInv
  <2>3. /\ costs' \in {costs, NoMerchant, e[p].doc.tariff}
        /\ agreement' = agreement \/ agreement' = TRUE
        /\ signatures' \in {signatures, signatures + 1}
    BY DEF Call, DeleteCosts, InsertCosts, SendLetters,
       AddNotification, GenerateMerchantAgreement, GetMerchantAgreementSignature, StoreMerchant,
       CacheMerchant, InsertDocument
  <2> QED
    BY <2>1, <2>2, <2>3
<1> QED
  BY <1>1, <1>2, <1>4, <1>5, <1>6 DEF CallTaken

\* What a request that starts leaves to its calls.
LEMMA StartsAre ==
  ASSUME MerchantTypeInv, NEW p \in Editors, NEW calls, NEW doc, Starts(p, calls, doc)
  PROVE  /\ doc \in MerchantDoc /\ e[p] = NoEdit
         /\ e' \in [Editors -> Edit] /\ \A q \in Editors \ {p} : e'[q] = e[q]
         /\ e'[p].todo = calls /\ e'[p].doc = doc /\ calls # <<>>
         /\ UNCHANGED <<merchant, merchantCache, costs, agreement, signatures, merchantFailures>>
         /\ merchantOverlaps' \in Nat
         /\ merchantOverlaps' + merchantFailures <= MaxMerchantTroubles
         /\ merchantOverlaps' = 0 => /\ merchantOverlaps = 0
                                     /\ \A q \in Editors : e[q] = NoEdit
<1>1. doc \in MerchantDoc
  BY DEF Starts, Follows
<1> DEFINE x == [todo |-> calls, doc |-> doc]
<1>2. x \in Edit /\ x.todo = calls /\ x.doc = doc
  BY <1>1 DEF Starts, Edit
<1>3. e' = [e EXCEPT ![p] = x] /\ e[p] = NoEdit
  BY DEF Starts, StartEdit
<1> HIDE DEF x
<1>4. /\ e' \in [Editors -> Edit] /\ \A q \in Editors \ {p} : e'[q] = e[q]
      /\ e'[p].todo = calls /\ e'[p].doc = doc
  BY <1>2, <1>3 DEF MerchantTypeInv
<1>5. /\ UNCHANGED <<merchant, merchantCache, costs, agreement, signatures, merchantFailures>>
      /\ merchantOverlaps' = merchantOverlaps + (IF \E q \in Editors : e[q] # NoEdit THEN 1 ELSE 0)
      /\ merchantOverlaps' + merchantFailures <= MaxMerchantTroubles
      /\ calls # <<>>
  BY DEF Starts, StartEdit
<1> QED
  BY <1>1, <1>3, <1>4, <1>5 DEF MerchantTypeInv

\* A request fails.
LEMMA FailuresAre ==
  ASSUME MerchantTypeInv, NEW p \in Editors, FailEdit(p)
  PROVE  /\ e' \in [Editors -> Edit] /\ \A q \in Editors \ {p} : e'[q] = e[q]
         /\ e'[p] = NoEdit
         /\ merchantFailures' = merchantFailures + 1
         /\ merchantOverlaps' + merchantFailures' <= MaxMerchantTroubles
         /\ UNCHANGED <<merchant, merchantCache, costs, agreement, signatures, merchantOverlaps>>
<1>1. /\ e' = [e EXCEPT ![p] = NoEdit] /\ merchantFailures' = merchantFailures + 1
      /\ merchantOverlaps + merchantFailures < MaxMerchantTroubles
      /\ UNCHANGED <<merchant, merchantCache, costs, agreement, signatures, merchantOverlaps>>
  BY DEF FailEdit
<1>2. e' \in [Editors -> Edit] /\ e'[p] = NoEdit /\ \A q \in Editors \ {p} : e'[q] = e[q]
  BY <1>1, EditsAre DEF MerchantTypeInv
<1>3. merchantOverlaps' + merchantFailures' <= MaxMerchantTroubles
  BY <1>1, MerchantAssumption DEF MerchantTypeInv, MerchantAssumption
<1> QED
  BY <1>1, <1>2, <1>3

-----------------------------------------------------------------------------
(* The types.                                                              *)

LEMMA MerchantTypes == MerchantSpec => []MerchantTypeInv
<1>1. MerchantInit => MerchantTypeInv
  <2> SUFFICES ASSUME MerchantInit PROVE MerchantTypeInv
    OBVIOUS
  <2>1. e \in [Editors -> Edit] /\ \A p \in Editors : e[p] = NoEdit
    BY EditsAre DEF MerchantInit
  <2>2. 0 + 0 <= MaxMerchantTroubles
    BY MerchantAssumption DEF MerchantAssumption
  <2> QED
    BY <2>1, <2>2 DEF MerchantInit, MerchantTypeInv
<1>2. MerchantTypeInv /\ [MerchantNext]_merchantVars => MerchantTypeInv'
  <2> SUFFICES ASSUME MerchantTypeInv, [MerchantNext]_merchantVars
               PROVE  MerchantTypeInv'
    OBVIOUS
  <2>1. CASE UNCHANGED merchantVars
    BY <2>1 DEF merchantVars, MerchantTypeInv
  <2>2. ASSUME NEW p \in Editors, Call(p) PROVE MerchantTypeInv'
    BY <2>2, CallsAreTaken DEF CallTaken, MerchantTypeInv
  <2>3. ASSUME NEW p \in Editors, FailEdit(p) PROVE MerchantTypeInv'
    BY <2>3, FailuresAre DEF MerchantTypeInv
  <2>4. ASSUME NEW p \in Editors, MerchantRequest(p) PROVE MerchantTypeInv'
    <3>1. PICK calls, doc : Starts(p, calls, doc)
      BY <2>4, RequestStarts, MerchantAssumption
    <3> QED
      BY <3>1, StartsAre DEF MerchantTypeInv
  <2> QED
    BY <2>1, <2>2, <2>3, <2>4 DEF MerchantNext
<1> QED
  BY <1>1, <1>2, PTL DEF MerchantSpec

\* The merchant, its copy in the cache, the costs, and what every request still has to do
\* have the types the code gives them, for any number of requests and any statuses.
THEOREM MerchantTypeCorrect == MerchantSpec => []MerchantTypeOK
<1>1. MerchantTypeInv => MerchantTypeOK
  <2> SUFFICES ASSUME MerchantTypeInv PROVE MerchantTypeOK
    OBVIOUS
  <2>1. ASSUME NEW p \in Editors
        PROVE  /\ e[p].doc \in MerchantDoc \cup {NoMerchant}
               /\ \A i \in DOMAIN e[p].todo : e[p].todo[i] \in MerchantCalls
    BY EditsAre, ElementOfSeq DEF MerchantTypeInv
  <2>2. merchantOverlaps + merchantFailures \in 0 .. MaxMerchantTroubles
    BY MerchantAssumption DEF MerchantTypeInv, MerchantAssumption
  <2> QED
    BY <2>1, <2>2 DEF MerchantTypeInv, MerchantTypeOK
<1> QED
  BY <1>1, MerchantTypes, PTL

-----------------------------------------------------------------------------
(* An agreement that counts as signed.                                     *)

\* A copy in the cache or in a request may be stored later: it is held to the same.
SignedInv ==
    /\ Signed(merchant)
    /\ Signed(merchantCache)
    /\ \A p \in Editors : e[p] # NoEdit => Signed(e[p].doc)

\* However requests overlap, overwrite each other's merchant and fail, the merchant's
\* agreement counts as signed only with both signatures, if the status changes that are
\* allowed to an administrator do not lead there (ChangeMerchantStatus, ChangeMerchantData).
THEOREM SignedOnlyByBoth ==
  ASSUME SignedBySignatures
  PROVE  MerchantSpec => []SignedByBoth
<1>1. MerchantInit => SignedInv
  BY DEF MerchantInit, SignedInv, Signed
<1>2. MerchantTypeInv /\ SignedInv /\ [MerchantNext]_merchantVars => SignedInv'
  <2> SUFFICES ASSUME MerchantTypeInv, SignedInv, [MerchantNext]_merchantVars
               PROVE  SignedInv'
    OBVIOUS
  <2>1. CASE UNCHANGED merchantVars
    BY <2>1 DEF merchantVars, SignedInv, Signed
  <2>2. ASSUME NEW p \in Editors, Call(p) PROVE SignedInv'
    BY <2>2, CallsAreTaken DEF CallTaken, SignedInv, Signed
  <2>3. ASSUME NEW p \in Editors, FailEdit(p) PROVE SignedInv'
    BY <2>3, FailuresAre DEF SignedInv, Signed
  <2>4. ASSUME NEW p \in Editors, MerchantRequest(p) PROVE SignedInv'
    <3>1. PICK calls, doc : Starts(p, calls, doc)
      BY <2>4, RequestStarts, MerchantAssumption
    <3>2. Signed(doc)
      BY <3>1, SignedBySignatures DEF Starts, Follows, SignedInv
    <3> QED
      BY <3>1, <3>2, StartsAre DEF SignedInv, Signed
  <2> QED
    BY <2>1, <2>2, <2>3, <2>4 DEF MerchantNext
<1>3. SignedInv => SignedByBoth
  BY DEF SignedInv, Signed, SignedByBoth
<1> QED
  BY <1>1, <1>2, <1>3, MerchantTypes, PTL DEF MerchantSpec

-----------------------------------------------------------------------------
(* What was stored stays.                                                  *)

CacheIsFresh == merchantCache \in {NoMerchant, merchant}

\* The request that runs, between what it read and what it will write.
EditIsFresh(p) ==
    \E k \in Int :
        /\ SavesAt(e[p].todo, k)
        /\ k >= 1 /\ merchant # NoMerchant => Keeps(merchant, e[p].doc)
        /\ k = 0 => e[p].doc = merchant
        /\ k # 0 => CacheIsFresh

\* Without overlap and failure one request runs at a time; the cache is behind only between
\* its two halves of an update.
FreshEditInv ==
    NoTrouble =>
        /\ \A p, q \in Editors : e[p] # NoEdit /\ e[q] # NoEdit => p = q
        /\ \A p \in Editors : e[p] # NoEdit => EditIsFresh(p)
        /\ (\A p \in Editors : e[p] = NoEdit) => CacheIsFresh

LEMMA FreshCall ==
  ASSUME MerchantTypeInv, FreshEditInv, NoTrouble, NEW p \in Editors, CallTaken(p)
  PROVE  /\ FreshEditInv'
         /\ merchant # NoMerchant => Keeps(merchant, merchant')
<1> DEFINE todo == e[p].todo
<1>1. /\ todo \in Seq(MerchantCalls) /\ todo # <<>>
      /\ \A q \in Editors : e[q] # NoEdit => q = p
  BY EditsAre DEF CallTaken, MerchantTypeInv, FreshEditInv
<1>2. PICK k \in Int :
         /\ SavesAt(todo, k)
         /\ k >= 1 /\ merchant # NoMerchant => Keeps(merchant, e[p].doc)
         /\ k = 0 => e[p].doc = merchant
         /\ k # 0 => CacheIsFresh
  BY DEF CallTaken, FreshEditInv, EditIsFresh
<1>3. /\ SavesAt(Tail(todo), k - 1)
      /\ Head(todo) = "store" <=> k = 1
      /\ Head(todo) = "cache" <=> k = 0
      /\ k < Len(todo)
  BY <1>1, <1>2, SaveNearer DEF SavesAt
<1>4. /\ k = 1 => merchant' = e[p].doc /\ merchantCache' = merchantCache
      /\ k = 0 => merchant' = merchant /\ merchantCache' = merchant
      /\ k \notin {0, 1} => UNCHANGED <<merchant, merchantCache>>
  BY <1>2, <1>3 DEF CallTaken
<1>5. k # 1 => CacheIsFresh'
  BY <1>2, <1>4 DEF CacheIsFresh
<1>6. merchant # NoMerchant => Keeps(merchant, merchant')
  BY <1>2, <1>4 DEF Keeps
<1>7. \A q \in Editors : e'[q] # NoEdit => q = p
  BY <1>1 DEF CallTaken
<1>8. CASE e'[p] = NoEdit
  <2>1. Len(todo) = 1
    BY <1>8 DEF CallTaken
  <2>2. k # 1
    BY <1>2, <1>3, <2>1
  <2> QED
    BY <1>5, <1>6, <1>7, <1>8, <2>2 DEF FreshEditInv
<1>9. CASE e'[p] # NoEdit
  <2>1. e'[p].todo = Tail(todo) /\ e'[p].doc = e[p].doc
    BY <1>9 DEF CallTaken
  <2>2. k - 1 >= 1 /\ merchant' # NoMerchant => Keeps(merchant', e'[p].doc)
    BY <1>2, <1>4, <2>1
  <2>3. k - 1 = 0 => e'[p].doc = merchant'
    BY <1>2, <1>4, <2>1
  <2>4. k - 1 \in Int /\ (k - 1 # 0 => CacheIsFresh')
    BY <1>5
  <2>5. EditIsFresh(p)'
    BY <1>3, <2>1, <2>2, <2>3, <2>4 DEF EditIsFresh
  <2> QED
    BY <1>6, <1>7, <1>9, <2>5 DEF FreshEditInv
<1> QED
  BY <1>8, <1>9

LEMMA FreshStart ==
  ASSUME MerchantTypeInv, FreshEditInv, NoTrouble', NEW p \in Editors,
         NEW calls, NEW doc, Starts(p, calls, doc)
  PROVE  FreshEditInv'
<1>1. merchantOverlaps' = 0 /\ merchantFailures = 0
  BY StartsAre DEF NoTrouble, MerchantTypeInv
<1>2. NoTrouble /\ \A q \in Editors : e[q] = NoEdit
  BY <1>1, StartsAre DEF NoTrouble
<1>3. CacheIsFresh
  BY <1>2 DEF FreshEditInv
<1>4. merchant # NoMerchant => Keeps(merchant, doc)
  BY <1>3 DEF Starts, Follows, CacheIsFresh
<1>5. PICK k \in Int \ {0} : SavesAt(calls, k)
  BY DEF Starts
<1>6. EditIsFresh(p)' /\ CacheIsFresh'
  BY <1>3, <1>4, <1>5, StartsAre DEF EditIsFresh, CacheIsFresh
<1>7. \A q \in Editors : e'[q] # NoEdit => q = p
  BY <1>2, StartsAre
<1> QED
  BY <1>6, <1>7 DEF FreshEditInv

\* Without overlap and failure no request, whatever it read and wherever from, forgets a
\* signature, the chosen tariff, the signature request or the first payment
\* (merchantRepository.GetById, Update): the cache is behind the store only between the two
\* halves of an update, and no request starts there.
THEOREM NothingForgotten == MerchantSpec => NothingIsForgotten
<1> DEFINE Kept == (NoTrouble /\ merchant # NoMerchant) => Keeps(merchant, merchant')
<1>1. MerchantInit => FreshEditInv
  BY DEF MerchantInit, FreshEditInv, CacheIsFresh
<1>2. MerchantTypeInv /\ FreshEditInv /\ [MerchantNext]_merchantVars => FreshEditInv' /\ Kept
  <2> SUFFICES ASSUME MerchantTypeInv, FreshEditInv, [MerchantNext]_merchantVars
               PROVE  FreshEditInv' /\ Kept
    OBVIOUS
  <2>1. CASE UNCHANGED merchantVars
    BY <2>1 DEF merchantVars, FreshEditInv, EditIsFresh, CacheIsFresh, NoTrouble, Keeps
  <2>2. ASSUME NEW p \in Editors, Call(p) PROVE FreshEditInv' /\ Kept
    <3>1. CallTaken(p) /\ (NoTrouble' <=> NoTrouble)
      BY <2>2, CallsAreTaken DEF CallTaken, NoTrouble
    <3>2. CASE NoTrouble
      BY <3>1, <3>2, FreshCall
    <3>3. CASE ~NoTrouble
      BY <3>1, <3>3 DEF FreshEditInv
    <3> QED
      BY <3>2, <3>3
  <2>3. ASSUME NEW p \in Editors, FailEdit(p) PROVE FreshEditInv' /\ Kept
    <3>1. ~NoTrouble' /\ merchant' = merchant
      BY <2>3, FailuresAre DEF NoTrouble, MerchantTypeInv
    <3> QED
      BY <3>1 DEF FreshEditInv, Keeps
  <2>4. ASSUME NEW p \in Editors, MerchantRequest(p) PROVE FreshEditInv' /\ Kept
    <3>1. PICK calls, doc : Starts(p, calls, doc)
      BY <2>4, RequestStarts, MerchantAssumption
    <3>2. Kept
      BY <3>1, StartsAre DEF Keeps
    <3>3. CASE NoTrouble'
      BY <3>1, <3>2, <3>3, FreshStart
    <3>4. CASE ~NoTrouble'
      BY <3>2, <3>4 DEF FreshEditInv
    <3> QED
      BY <3>3, <3>4
  <2> QED
    BY <2>1, <2>2, <2>3, <2>4 DEF MerchantNext
<1>3. MerchantSpec => [][Kept]_merchantVars
  BY <1>1, <1>2, MerchantTypes, PTL DEF MerchantSpec
<1>4. [Kept]_merchantVars =>
        [(NoTrouble /\ merchant # NoMerchant) =>
          /\ merchant.merchantSigned => merchant'.merchantSigned
          /\ merchant.pspSigned => merchant'.pspSigned
          /\ merchant.chosen => merchant'.chosen /\ merchant'.tariff = merchant.tariff
          /\ merchant.requested => merchant'.requested
          /\ merchant.firstPaid => merchant'.firstPaid]_merchantVars
  BY DEF Keeps
<1> QED
  BY <1>3, <1>4, PTL DEF NothingIsForgotten

-----------------------------------------------------------------------------
(* The account: a behaviour has steps of the settlement or of the          *)
(* onboarding, and so is one of each.                                      *)

LEMMA AccountIsBoth == MCSpec => Spec /\ MerchantSpec
<1>1. MCInit => Init /\ MerchantInit
  BY DEF MCInit
<1>2. [MCNext]_mcVars => [Next]_vars /\ [MerchantNext]_merchantVars
  BY DEF MCNext, mcVars
<1> QED
  BY <1>1, <1>2, PTL DEF MCSpec, Spec, MerchantSpec

\* The merchant and its documents of settlement, their copies in Redis and in the handlers keep
\* their shape, and every amount is a number.
THEOREM AccountTypesCorrect == MCSpec => []AccountTypesOK
<1>1. TypeOK /\ MerchantTypeOK => AccountTypesOK
  BY DEF AccountTypesOK
<1> QED
  BY <1>1, AccountIsBoth, SettlementTypeCorrect, MerchantTypeCorrect, PTL
=============================================================================
