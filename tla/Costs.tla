------------------------------- MODULE Costs -------------------------------
(***************************************************************************)
(* The four tables of costs: what the payment systems take for payments    *)
(* and for money given back, and what merchants are charged for them       *)
(* (internal/service and internal/repository, payment_channel_cost_system, *)
(* payment_channel_cost_merchant, money_back_cost_system and               *)
(* money_back_cost_merchant). A behaviour is about one of the tables, one  *)
(* merchant or company, payment method, currency and region: what is left  *)
(* of the key is the country, which may be empty for the whole region, and *)
(* the amount or number of days a cost starts at.                          *)
(*                                                                         *)
(* Costs are looked up through a cache that has no expiry. A lookup reads  *)
(* MongoDB and then fills the cache; an edit writes MongoDB and then       *)
(* clears the keys of updateCaches.                                        *)
(***************************************************************************)
EXTENDS Integers, FiniteSets, FiniteSetsExt

CONSTANTS
    Tables,          \* which tables to check
    Clerks,          \* requests handled at the same time
    CostIds,
    Countries,       \* countries of the region
    Starts,          \* amounts or days costs may start at
    Values,          \* what a cost may be
    NoCost,          \* no document
    MaxCostEdits,    \* bound on edits
    MaxCostTroubles  \* bound on failed calls and on requests that start while another is
                     \* handled, together

WholeRegion == ""
Keys == Countries \cup {WholeRegion}
AllCosts == "all"    \* the cache key of the list of all costs

CostDoc == [country : Keys, start : Starts, value : Values, active : BOOLEAN]

ASSUME CostsAssumption ==
    /\ Tables \subseteq {"paymentSystem", "paymentMerchant", "moneyBackSystem",
                         "moneyBackMerchant"}
    /\ {WholeRegion, AllCosts} \cap Countries = {} /\ MaxCostTroubles \in Nat
    /\ Starts \subseteq Nat /\ \E first \in Starts : \A start \in Starts : first <= start
    /\ NoCost \notin CostDoc \cup Values
    /\ MaxCostEdits \in Nat

VARIABLES
    table,
    costDocs,      \* MongoDB: id -> document or NoCost
    foundCache,    \* Redis: country of a lookup -> what it found, or NoCost
    idCache,       \* Redis: id -> document or NoCost
    clerk,         \* request -> its state
    lastSet,       \* history: the id and the document of the last cost a request was
                   \* told was set, or NoCost
    costEdits,     \* how many edits there were
    costOverlaps,
    costFailures

costVars == <<table, costDocs, foundCache, idCache, clerk, lastSet, costEdits,
              costOverlaps, costFailures>>

Found == CostIds \X CostDoc

AtDesk == [pc |-> "idle", key |-> WholeRegion, id |-> NoCost, doc |-> NoCost, found |-> {}]

CostTypeOK ==
    /\ table \in Tables
    /\ costDocs \in [CostIds -> CostDoc \cup {NoCost}]
    /\ \A k \in Keys \cup {AllCosts} : foundCache[k] = NoCost \/ foundCache[k] \subseteq Found
    /\ idCache \in [CostIds -> CostDoc \cup {NoCost}]
    /\ \A p \in Clerks : /\ clerk[p].pc \in {"idle", "remember", "insert", "invalidate"}
                         /\ clerk[p].key \in Keys \cup {AllCosts} /\ clerk[p].found \subseteq Found
                         /\ clerk[p].doc \in CostDoc \cup {NoCost}
    /\ lastSet \in [id : CostIds, doc : CostDoc] \cup {NoCost}
    /\ costEdits \in 0 .. MaxCostEdits
    /\ costOverlaps + costFailures \in 0 .. MaxCostTroubles

CostInit ==
    /\ table \in Tables
    /\ costDocs = [id \in CostIds |-> NoCost]
    /\ foundCache = [k \in Keys \cup {AllCosts} |-> NoCost]
    /\ idCache = [id \in CostIds |-> NoCost]
    /\ clerk = [p \in Clerks |-> AtDesk]
    /\ lastSet = NoCost
    /\ costEdits = 0 /\ costOverlaps = 0 /\ costFailures = 0

StartCost(p) ==
    /\ clerk[p] = AtDesk
    /\ costOverlaps' = costOverlaps + (IF \E x \in Clerks : clerk[x] # AtDesk THEN 1 ELSE 0)
    /\ costOverlaps' + costFailures <= MaxCostTroubles
    /\ UNCHANGED <<table, costFailures>>

StartCostEdit(p) == StartCost(p) /\ costEdits < MaxCostEdits /\ costEdits' = costEdits + 1

-----------------------------------------------------------------------------
(* Lookups.                                                                *)

\* The query of Find: the active costs of the country and of the whole region.
Matching(k) ==
    {<<id, costDocs[id]>> : id \in {x \in CostIds : /\ costDocs[x] # NoCost
                                                     /\ costDocs[x].active
                                                     /\ costDocs[x].country \in {k, WholeRegion}}}

\* The costs of the first country, in descending order: the whole region comes last.
FirstGroup(found, k) ==
    IF \E f \in found : f[2].country = k THEN {f \in found : f[2].country = k} ELSE found

\* Find of the payment costs of the systems keeps one cost, of the first group.
FindPaymentSystem(k) ==
    LET group == FirstGroup(Matching(k), k)
    IN  IF group = {} THEN {} ELSE {CHOOSE f \in group : TRUE}

\* Find of the others keeps every group.
FindPaymentMerchant(k) == Matching(k)
FindMoneyBackSystem(k) == Matching(k)
FindMoneyBackMerchant(k) == Matching(k)

FindFor(k) ==
    CASE table = "paymentSystem" -> FindPaymentSystem(k)
      [] table = "paymentMerchant" -> FindPaymentMerchant(k)
      [] table = "moneyBackSystem" -> FindMoneyBackSystem(k)
      [] table = "moneyBackMerchant" -> FindMoneyBackMerchant(k)

\* What a lookup gives: the cache first.
Lookup(k) == IF foundCache[k] # NoCost THEN foundCache[k] ELSE FindFor(k)

\* The lists of all costs; that of the payment costs of a merchant has the inactive ones.
AllPaymentMerchant == {<<id, costDocs[id]>> : id \in {x \in CostIds : costDocs[x] # NoCost}}
AllPaymentSystem == {f \in AllPaymentMerchant : f[2].active}
AllMoneyBackMerchant == {f \in AllPaymentMerchant : f[2].active}
AllMoneyBackSystem == {f \in AllPaymentMerchant : f[2].active}

ListAll ==
    CASE table = "paymentSystem" -> AllPaymentSystem
      [] table = "paymentMerchant" -> AllPaymentMerchant
      [] table = "moneyBackSystem" -> AllMoneyBackSystem
      [] table = "moneyBackMerchant" -> AllMoneyBackMerchant

\* The cost of a group that starts last, but not after n.
LastStart(group, n) ==
    LET started == {f \in group : f[2].start <= n}
        latest == Max({f[2].start : f \in started})
    IN  IF started = {} THEN NoCost ELSE (CHOOSE f \in started : f[2].start = latest)[2].value

\* getPaymentChannelCostMerchant: the costs of the country if one of them has started,
\* else those of the region.
GetPaymentChannelCostMerchant(found, k, n) ==
    LET own == LastStart({f \in found : f[2].country = k}, n)
    IN  IF own # NoCost THEN own ELSE LastStart({f \in found : f[2].country = WholeRegion}, n)

\* getMoneyBackCostMerchant and getMoneyBackCostSystem do so with days.
GetMoneyBackCostMerchant(found, k, days) == GetPaymentChannelCostMerchant(found, k, days)
GetMoneyBackCostSystem(found, k, days) == GetPaymentChannelCostMerchant(found, k, days)

CostOf(found, k, n) ==
    CASE table = "paymentSystem" ->
            IF found = {} THEN NoCost ELSE (CHOOSE f \in found : TRUE)[2].value
      [] table = "paymentMerchant" -> GetPaymentChannelCostMerchant(found, k, n)
      [] table = "moneyBackSystem" -> GetMoneyBackCostSystem(found, k, n)
      [] table = "moneyBackMerchant" -> GetMoneyBackCostMerchant(found, k, n)

\* Find of a key that is not cached; the payment costs of the systems are cached only if
\* there is one.
LookUp(p, k) ==
    /\ StartCost(p)
    /\ foundCache[k] = NoCost /\ (table = "paymentSystem" => FindFor(k) # {})
    /\ clerk' = [clerk EXCEPT ![p] = [AtDesk EXCEPT !.pc = "remember", !.key = k,
                                                    !.found = FindFor(k)]]
    /\ UNCHANGED <<costDocs, foundCache, idCache, lastSet, costEdits>>

\* GetAll and GetAllForMerchant of a list that is not cached.
LookUpAll(p) ==
    /\ StartCost(p) /\ foundCache[AllCosts] = NoCost
    /\ clerk' = [clerk EXCEPT ![p] = [AtDesk EXCEPT !.pc = "remember", !.key = AllCosts,
                                                    !.found = ListAll]]
    /\ UNCHANGED <<costDocs, foundCache, idCache, lastSet, costEdits>>

RememberFound(p) ==
    /\ clerk[p].pc = "remember"
    /\ foundCache' = [foundCache EXCEPT ![clerk[p].key] = clerk[p].found]
    /\ clerk' = [clerk EXCEPT ![p] = AtDesk]
    /\ UNCHANGED <<table, costDocs, idCache, lastSet, costEdits, costOverlaps, costFailures>>

\* GetById: the cache first, then the active document.
ActiveById(id) ==
    IF idCache[id] # NoCost THEN idCache[id]
    ELSE IF costDocs[id] # NoCost /\ costDocs[id].active THEN costDocs[id] ELSE NoCost

PaymentMerchantById(id) == ActiveById(id)
PaymentSystemById(id) == ActiveById(id)
MoneyBackMerchantById(id) == ActiveById(id)
MoneyBackSystemById(id) == ActiveById(id)

-----------------------------------------------------------------------------
(* Edits.                                                                  *)

\* External, the unique index: one active cost for each country and start.
Unique(id, doc) ==
    \A x \in CostIds \ {id} :
        costDocs[x] # NoCost /\ costDocs[x].active =>
            ~(costDocs[x].country = doc.country /\ costDocs[x].start = doc.start)

NewCost(k, n, v) == [country |-> k, start |-> n, value |-> v, active |-> TRUE]

\* A new ObjectID.
Fresh(id) == costDocs[id] = NoCost /\ idCache[id] = NoCost

\* The document is written, the caches are next.
WriteCost(p, id, doc) ==
    /\ StartCostEdit(p)
    /\ clerk' = [clerk EXCEPT ![p] = [AtDesk EXCEPT !.pc = "invalidate", !.id = id, !.doc = doc]]
    /\ lastSet' = IF doc.active THEN [id |-> id, doc |-> doc] ELSE NoCost
    /\ UNCHANGED foundCache

\* Insert of the four repositories, of a document with a new id. A duplicate is refused.
InsertCost(p, id, doc) ==
    /\ Fresh(id) /\ Unique(id, doc)
    /\ costDocs' = [costDocs EXCEPT ![id] = doc]
    /\ WriteCost(p, id, doc)
    /\ UNCHANGED idCache

InsertPaymentMerchant(p, id, doc) == InsertCost(p, id, doc)
InsertPaymentSystem(p, id, doc) == InsertCost(p, id, doc)
InsertMoneyBackMerchant(p, id, doc) == InsertCost(p, id, doc)
InsertMoneyBackSystem(p, id, doc) == InsertCost(p, id, doc)

\* Update of the four repositories. ReplaceOne of a document that is gone matches nothing
\* and is no error: the caches are updated and the answer is that the cost was set.
ReplaceCost(p, id, doc) ==
    /\ costDocs[id] # NoCost /\ doc.active => Unique(id, doc)
    /\ costDocs' = IF costDocs[id] # NoCost THEN [costDocs EXCEPT ![id] = doc] ELSE costDocs
    /\ WriteCost(p, id, doc)

UpdatePaymentMerchant(p, id, doc) == ReplaceCost(p, id, doc)
UpdatePaymentSystem(p, id, doc) == ReplaceCost(p, id, doc)
UpdateMoneyBackMerchant(p, id, doc) == ReplaceCost(p, id, doc)
UpdateMoneyBackSystem(p, id, doc) == ReplaceCost(p, id, doc)

\* A duplicate is refused, and the caches are left alone. The three services that update by
\* id lose the error, in a variable that hides the outer one, and answer that the cost was
\* set.
LoseRefusal(p, id, doc) ==
    /\ StartCostEdit(p)
    /\ costDocs[id] # NoCost /\ ~Unique(id, doc)
    /\ lastSet' = [id |-> id, doc |-> doc]
    /\ UNCHANGED <<costDocs, foundCache, clerk>>

\* GetById of a cost there is: it is in the cache, in which nothing else removes it when
\* its document is deleted with the others of the merchant.
FetchById(id, cost) == cost # NoCost /\ idCache' = [idCache EXCEPT ![id] = cost]

\* Set, of a new cost or of one that is found by its id. What the validation says of the
\* first is not looked at.
SetPaymentChannelCostMerchant(p, id, k, n, v) ==
    LET doc == NewCost(k, n, v)
    IN  /\ table = "paymentMerchant"
        /\ \/ InsertPaymentMerchant(p, id, doc)
           \/ /\ FetchById(id, PaymentMerchantById(id))
              /\ UpdatePaymentMerchant(p, id, doc) \/ LoseRefusal(p, id, doc)

SetMoneyBackCostMerchant(p, id, k, n, v) ==
    LET doc == NewCost(k, n, v)
    IN  /\ table = "moneyBackMerchant"
        /\ \/ InsertMoneyBackMerchant(p, id, doc)
           \/ /\ FetchById(id, MoneyBackMerchantById(id))
              /\ UpdateMoneyBackMerchant(p, id, doc) \/ LoseRefusal(p, id, doc)

SetMoneyBackCostSystem(p, id, k, n, v) ==
    LET doc == NewCost(k, n, v)
    IN  /\ table = "moneyBackSystem"
        /\ \/ InsertMoneyBackSystem(p, id, doc)
           \/ /\ FetchById(id, MoneyBackSystemById(id))
              /\ UpdateMoneyBackSystem(p, id, doc) \/ LoseRefusal(p, id, doc)

\* SetPaymentChannelCostSystem writes over the cost a lookup of the country finds, which
\* may be the one of the whole region.
SetPaymentChannelCostSystem(p, id, k, v) ==
    /\ table = "paymentSystem"
    /\ \/ Lookup(k) = {} /\ InsertPaymentSystem(p, id, NewCost(k, Min(Starts), v))
       \/ /\ \E f \in Lookup(k) : f[1] = id
          /\ UpdatePaymentSystem(p, id, NewCost(k, Min(Starts), v)) /\ UNCHANGED idCache

\* SetAllPaymentChannelCostMerchant updates costs whose validation passed, one by one,
\* without looking them up, whatever their ids; is_active is what the request says.
SetAllPaymentChannelCostMerchant(p, id, k, n, v, active) ==
    /\ table = "paymentMerchant"
    /\ UpdatePaymentMerchant(p, id, [NewCost(k, n, v) EXCEPT !.active = active])
    /\ UNCHANGED idCache

\* Delete makes the document that was found inactive.
Deactivate(p, id, doc) ==
    FetchById(id, doc) /\ ReplaceCost(p, id, [doc EXCEPT !.active = FALSE])

DeletePaymentMerchant(p, id, doc) == Deactivate(p, id, doc)
DeletePaymentSystem(p, id, doc) == Deactivate(p, id, doc)
DeleteMoneyBackMerchant(p, id, doc) == Deactivate(p, id, doc)
DeleteMoneyBackSystem(p, id, doc) == Deactivate(p, id, doc)

DeletePaymentChannelCostMerchant(p, id) ==
    table = "paymentMerchant" /\ DeletePaymentMerchant(p, id, PaymentMerchantById(id))
DeletePaymentChannelCostSystem(p, id) ==
    table = "paymentSystem" /\ DeletePaymentSystem(p, id, PaymentSystemById(id))
DeleteMoneyBackCostMerchant(p, id) ==
    table = "moneyBackMerchant" /\ DeleteMoneyBackMerchant(p, id, MoneyBackMerchantById(id))
DeleteMoneyBackCostSystem(p, id) ==
    table = "moneyBackSystem" /\ DeleteMoneyBackSystem(p, id, MoneyBackSystemById(id))

\* DeleteAndInsertMany, when a merchant gets a tariff: its active costs are deleted, their
\* cache keys are not, and one of the whole region is inserted.
DeleteActive(p, id, v) ==
    /\ StartCostEdit(p) /\ Fresh(id)
    /\ costDocs' = [x \in CostIds |->
          IF costDocs[x] # NoCost /\ costDocs[x].active THEN NoCost ELSE costDocs[x]]
    /\ clerk' = [clerk EXCEPT ![p] = [AtDesk EXCEPT !.pc = "insert", !.id = id,
                                        !.doc = NewCost(WholeRegion, Min(Starts), v)]]
    /\ lastSet' = NoCost
    /\ UNCHANGED <<foundCache, idCache>>

ReplacePaymentMerchant(p, id, v) == table = "paymentMerchant" /\ DeleteActive(p, id, v)
ReplaceMoneyBackMerchant(p, id, v) == table = "moneyBackMerchant" /\ DeleteActive(p, id, v)

\* MultipleInsert.
InsertMany(p) ==
    /\ clerk[p].pc = "insert"
    /\ IF Unique(clerk[p].id, clerk[p].doc) /\ costDocs[clerk[p].id] = NoCost
       THEN /\ costDocs' = [costDocs EXCEPT ![clerk[p].id] = clerk[p].doc]
            /\ lastSet' = [id |-> clerk[p].id, doc |-> clerk[p].doc]
            /\ clerk' = [clerk EXCEPT ![p].pc = "invalidate"]
       ELSE /\ clerk' = [clerk EXCEPT ![p] = AtDesk]
            /\ UNCHANGED <<costDocs, lastSet>>
    /\ UNCHANGED <<table, foundCache, idCache, costEdits, costOverlaps, costFailures>>

InsertManyPaymentMerchant(p) == table = "paymentMerchant" /\ InsertMany(p)
InsertManyMoneyBackMerchant(p) == table = "moneyBackMerchant" /\ InsertMany(p)

\* Mistake: only the keys of the whole region are deleted.
RegionKeysOnly(doc) == {WholeRegion, AllCosts}

\* The keys updateCaches of each repository deletes: of the country of the cost, of the
\* whole region and of the list.
PaymentMerchantKeys(doc) == {doc.country, WholeRegion, AllCosts}
PaymentSystemKeys(doc) == {doc.country, WholeRegion, AllCosts}
MoneyBackMerchantKeys(doc) == {doc.country, WholeRegion, AllCosts}
MoneyBackSystemKeys(doc) == {doc.country, WholeRegion, AllCosts}

InvalidatedKeys(doc) ==
    CASE table = "paymentSystem" -> PaymentSystemKeys(doc)
      [] table = "paymentMerchant" -> PaymentMerchantKeys(doc)
      [] table = "moneyBackSystem" -> MoneyBackSystemKeys(doc)
      [] table = "moneyBackMerchant" -> MoneyBackMerchantKeys(doc)

UpdateCaches(p) ==
    LET id == clerk[p].id
        doc == clerk[p].doc
    IN  /\ clerk[p].pc = "invalidate"
        /\ foundCache' = [k \in DOMAIN foundCache |-> IF k \in InvalidatedKeys(doc) THEN NoCost
                                                                      ELSE foundCache[k]]
        /\ idCache' = [idCache EXCEPT ![id] = IF doc.active THEN doc ELSE NoCost]
        /\ clerk' = [clerk EXCEPT ![p] = AtDesk]
        /\ UNCHANGED <<table, costDocs, lastSet, costEdits, costOverlaps, costFailures>>

\* A call fails, or the process dies.
FailCost(p) ==
    /\ clerk[p] # AtDesk
    /\ costOverlaps + costFailures < MaxCostTroubles /\ costFailures' = costFailures + 1
    /\ clerk' = [clerk EXCEPT ![p] = AtDesk]
    /\ UNCHANGED <<table, costDocs, foundCache, idCache, lastSet, costEdits, costOverlaps>>

CostNext ==
    \E p \in Clerks :
        \/ RememberFound(p) \/ UpdateCaches(p) \/ FailCost(p) \/ LookUpAll(p)
        \/ InsertManyPaymentMerchant(p) \/ InsertManyMoneyBackMerchant(p)
        \/ \E k \in Keys : LookUp(p, k)
        \/ \E id \in CostIds :
              \/ DeletePaymentChannelCostMerchant(p, id)
              \/ DeletePaymentChannelCostSystem(p, id)
              \/ DeleteMoneyBackCostMerchant(p, id)
              \/ DeleteMoneyBackCostSystem(p, id)
              \/ \E v \in Values : \/ ReplacePaymentMerchant(p, id, v)
                                   \/ ReplaceMoneyBackMerchant(p, id, v)
              \/ \E k \in Keys, v \in Values :
                    \/ SetPaymentChannelCostSystem(p, id, k, v)
                    \/ \E n \in Starts :
                          \/ SetPaymentChannelCostMerchant(p, id, k, n, v)
                          \/ \E active \in BOOLEAN :
                                SetAllPaymentChannelCostMerchant(p, id, k, n, v, active)
                          \/ SetMoneyBackCostMerchant(p, id, k, n, v)
                          \/ SetMoneyBackCostSystem(p, id, k, n, v)

CostSpec == CostInit /\ [][CostNext]_costVars

-----------------------------------------------------------------------------
(* Properties.                                                             *)

CostsQuiet ==
    (\A p \in Clerks : clerk[p] = AtDesk) /\ costOverlaps + costFailures = 0

\* The answers that a cost was set which are not true: there is no document of its id, as it
\* was deleted when the merchant got a tariff and only the cache has it or as the request
\* gave any id, or the unique index refused it.
NotSet(set) == costDocs[set.id] = NoCost \/ ~Unique(set.id, set.doc)

\* A cost a request was told was set is the one charged from then on to whom it was set
\* for, the country or those of the region that are looked up without one, whatever was
\* looked up, set, moved and deleted before, or the answer is one of NotSet; requests do
\* not overlap and nothing fails (updateCaches).
SetTakesEffect ==
    CostsQuiet /\ lastSet # NoCost =>
        LET doc == lastSet.doc
        IN  \/ CostOf(Lookup(doc.country), doc.country, doc.start) = doc.value
            \/ NotSet(lastSet)
=============================================================================
