----------------------------- MODULE Catalogue -----------------------------
(***************************************************************************)
(* What merchants sell: projects, products, key products and payment links *)
(* (internal/service/project.go, product.go, key_product.go, paylink.go,   *)
(* their repositories, and OrderCreateByPaylink of order.go).              *)
(*                                                                         *)
(* A request reads a document, changes it in memory, writes it to MongoDB  *)
(* and then writes the Redis entry of the document, which has no expiry;   *)
(* key products have none. Every step is separate, so two requests for one *)
(* document overlap in every way. A request that reads a document that is  *)
(* not cached fills the cache first. The two Redis keys of a link are      *)
(* always written together and are one entry here. Requests of another     *)
(* merchant, and requests refused for what their data lacks, end after the *)
(* read (Refuse).                                                          *)
(***************************************************************************)
EXTENDS Integers, FiniteSets

CONSTANTS
    Owners,            \* merchants
    Onboarded,         \* those that are signed and whose data is complete
    Projects,
    Products,
    KeyProducts,
    Links,
    Skus,
    NoSku,             \* a request without a sku
    NoItem,            \* no document
    Handlers,          \* requests handled at the same time
    LastDay,           \* bound on the days that pass
    MaxCatalogueCalls  \* bound on requests

Items == Products \cup KeyProducts
Forever == 0

VARIABLES
    projects, products, keyProducts, links,    \* MongoDB: id -> document or NoItem
    projectCache, productCache, linkCache,     \* Redis: id -> document or NoItem
    job,                                       \* request -> its state
    orders,                                    \* orders made through links
    today,
    catalogueCalls

stores == <<projects, products, keyProducts, links>>
caches == <<projectCache, productCache, linkCache>>
catalogueVars == <<stores, caches, job, orders, today, catalogueCalls>>

ProjectDoc == [merchant : Owners, status : {"draft", "production", "deleted"}]
ProductDoc == [merchant : Owners, project : Projects, sku : Skus \cup {NoSku},
               enabled : BOOLEAN, deleted : BOOLEAN]
LinkDoc == [merchant : Owners, project : Projects, type : {"product", "key"},
            items : SUBSET Items, until : 0..LastDay, deleted : BOOLEAN]

ASSUME CatalogueAssumption ==
    /\ Onboarded \subseteq Owners /\ LastDay \in Nat \ {0} /\ MaxCatalogueCalls \in Nat
    /\ Products \cap KeyProducts = {} /\ Items \cap Links = {}
    /\ Projects \cap (Items \cup Links) = {} /\ NoSku \notin Skus
    /\ NoItem \notin Projects \cup Items \cup Links
    /\ NoItem \notin ProjectDoc \cup ProductDoc \cup LinkDoc

Free == [pc |-> "idle", id |-> NoItem, doc |-> NoItem]

\* Every document and every request has its type.
CatalogueTypeOK ==
    /\ projects \in [Projects -> ProjectDoc \cup {NoItem}]
    /\ projectCache \in [Projects -> ProjectDoc \cup {NoItem}]
    /\ products \in [Products -> ProductDoc \cup {NoItem}]
    /\ productCache \in [Products -> ProductDoc \cup {NoItem}]
    /\ keyProducts \in [KeyProducts -> ProductDoc \cup {NoItem}]
    /\ links \in [Links -> LinkDoc \cup {NoItem}]
    /\ linkCache \in [Links -> LinkDoc \cup {NoItem}]
    /\ \A h \in Handlers :
         /\ job[h].pc \in {"idle", "fill", "have", "cache"}
         /\ job[h].id \in Projects \cup Items \cup Links \cup {NoItem}
         /\ job[h].doc \in ProjectDoc \cup ProductDoc \cup LinkDoc \cup {NoItem}
    /\ \A o \in orders : o.project \in Projects /\ o.link \in Links /\ o.items \subseteq Items
    /\ today \in 1..LastDay
    /\ catalogueCalls \in 0..MaxCatalogueCalls

-----------------------------------------------------------------------------
(* Reads. The caches answer first; only the queries ask for documents that *)
(* are not deleted.                                                        *)

Live(doc) == IF doc # NoItem /\ doc.deleted THEN NoItem ELSE doc
GetProject(g) == IF projectCache[g] # NoItem THEN projectCache[g] ELSE projects[g]
GetProduct(p) == IF productCache[p] # NoItem THEN productCache[p] ELSE Live(products[p])
GetKeyProduct(k) == Live(keyProducts[k])
GetLink(l) == IF linkCache[l] # NoItem THEN linkCache[l] ELSE Live(links[l])

GetItem(i) == IF i \in Products THEN GetProduct(i) ELSE GetKeyProduct(i)

CountByProjectSku(p, sku) ==
    Cardinality({i \in Products : /\ Live(products[i]) # NoItem
                                  /\ products[i].project = p /\ products[i].sku = sku})
CountByProjectIdSku(p, sku) ==
    Cardinality({i \in KeyProducts : /\ Live(keyProducts[i]) # NoItem
                                     /\ keyProducts[i].project = p /\ keyProducts[i].sku = sku})

-----------------------------------------------------------------------------
(* The steps all requests have in common.                                  *)

Set(h, pc, id, doc) == job' = [job EXCEPT ![h] = [pc |-> pc, id |-> id, doc |-> doc]]
End(h) == job' = [job EXCEPT ![h] = Free]

Begin(h) ==
    /\ job[h].pc = "idle" /\ catalogueCalls < MaxCatalogueCalls
    /\ catalogueCalls' = catalogueCalls + 1
    /\ UNCHANGED <<orders, today>>

Read(h, id, found, cached) ==
    /\ Begin(h)
    /\ found # NoItem
    /\ Set(h, IF cached THEN "have" ELSE "fill", id, found)
    /\ UNCHANGED <<stores, caches>>

ReadProject(h, g) == Read(h, g, GetProject(g), projectCache[g] # NoItem)
ReadProduct(h, p) == Read(h, p, GetProduct(p), productCache[p] # NoItem)
ReadKeyProduct(h, k) == Read(h, k, GetKeyProduct(k), TRUE)
ReadLink(h, l) == Read(h, l, GetLink(l), linkCache[l] # NoItem)

\* The Redis entry, by a read that missed or after a write.
CacheProject(id, doc) == id \in Projects /\ projectCache' = [projectCache EXCEPT ![id] = doc]
CacheProduct(id, doc) == id \in Products /\ productCache' = [productCache EXCEPT ![id] = doc]
UpdateLinkCaches(id, doc) ==
    id \in Links /\ linkCache' = [linkCache EXCEPT ![id] = Live(doc)]

WriteCache(h) ==
    LET id == job[h].id
        doc == job[h].doc
    IN  /\ job[h].pc \in {"fill", "cache"}
        /\ IF job[h].pc = "fill" THEN Set(h, "have", id, doc) ELSE End(h)
        /\ \/ CacheProject(id, doc) /\ UNCHANGED <<productCache, linkCache>>
           \/ CacheProduct(id, doc) /\ UNCHANGED <<projectCache, linkCache>>
           \/ UpdateLinkCaches(id, doc) /\ UNCHANGED <<projectCache, productCache>>
        /\ UNCHANGED <<stores, orders, today, catalogueCalls>>

Have(h, ids) == job[h].pc = "have" /\ job[h].id \in ids

\* The request only reads, or is refused.
Refuse(h) ==
    /\ job[h].pc = "have"
    /\ End(h)
    /\ UNCHANGED <<stores, caches, orders, today, catalogueCalls>>

-----------------------------------------------------------------------------
(* Projects: project.go.                                                   *)

StoreProject(h, g, doc) ==
    /\ projects' = [projects EXCEPT ![g] = doc]
    /\ Set(h, "cache", g, doc)
    /\ UNCHANGED <<products, keyProducts, links, caches>>

CreateProject(h, g, m) ==
    /\ Begin(h)
    /\ projects[g] = NoItem
    /\ StoreProject(h, g, [merchant |-> m, status |-> "draft"])

\* The only check of ChangeProject that is about more than the data of the request.
ProjectChangeAllowed(doc, status) == status = "production" => doc.merchant \in Onboarded

\* updateProject: the status is the one of the request, whatever it was.
ChangeProject(h, status) ==
    LET doc == job[h].doc IN
    /\ Have(h, Projects)
    /\ ProjectChangeAllowed(doc, status)
    /\ StoreProject(h, job[h].id, [doc EXCEPT !.status = status])
    /\ UNCHANGED <<orders, today, catalogueCalls>>

\* Mistake: a status that does not exist.
ArchiveProject(h) ==
    LET doc == job[h].doc IN
    /\ Have(h, Projects)
    /\ doc.status # "deleted"
    /\ StoreProject(h, job[h].id, [doc EXCEPT !.status = "archived"])
    /\ UNCHANGED <<orders, today, catalogueCalls>>

DeleteProject(h) ==
    LET doc == job[h].doc IN
    /\ Have(h, Projects)
    /\ doc.status # "deleted"
    /\ StoreProject(h, job[h].id, [doc EXCEPT !.status = "deleted"])
    /\ UNCHANGED <<orders, today, catalogueCalls>>

-----------------------------------------------------------------------------
(* Products: product.go. The product of the request is stored as it is,    *)
(* and a product may name any project.                                     *)

StoreProduct(h, p, doc) ==
    /\ products' = [products EXCEPT ![p] = doc]
    /\ Set(h, "cache", p, doc)
    /\ UNCHANGED <<projects, keyProducts, links, caches>>

CreateProduct(h, p, m, g, sku, enabled) ==
    /\ Begin(h)
    /\ products[p] = NoItem
    /\ CountByProjectSku(g, sku) = 0
    /\ StoreProduct(h, p, [merchant |-> m, project |-> g, sku |-> sku,
                           enabled |-> enabled, deleted |-> FALSE])

UpdateProduct(h, sku, enabled) ==
    LET doc == job[h].doc IN
    /\ Have(h, Products)
    /\ sku \in {doc.sku, NoSku}
    /\ CountByProjectSku(doc.project, sku) <= 1
    /\ StoreProduct(h, job[h].id,
                    [doc EXCEPT !.sku = sku, !.enabled = enabled, !.deleted = FALSE])
    /\ UNCHANGED <<orders, today, catalogueCalls>>

UpdateProductPrices(h) ==
    /\ Have(h, Products)
    /\ StoreProduct(h, job[h].id, job[h].doc)
    /\ UNCHANGED <<orders, today, catalogueCalls>>

DeleteProduct(h) ==
    /\ Have(h, Products)
    /\ StoreProduct(h, job[h].id, [job[h].doc EXCEPT !.deleted = TRUE])
    /\ UNCHANGED <<orders, today, catalogueCalls>>

-----------------------------------------------------------------------------
(* Key products: key_product.go. There is no cache to write.               *)

StoreKeyProduct(h, k, doc) ==
    /\ keyProducts' = [keyProducts EXCEPT ![k] = doc]
    /\ End(h)
    /\ UNCHANGED <<projects, products, links, caches>>

CreateKeyProduct(h, k, g, sku) ==
    /\ Begin(h)
    /\ keyProducts[k] = NoItem
    /\ GetProject(g) # NoItem
    /\ CountByProjectIdSku(g, sku) = 0
    /\ StoreKeyProduct(h, k, [merchant |-> GetProject(g).merchant, project |-> g,
                              sku |-> sku, enabled |-> FALSE, deleted |-> FALSE])

\* CreateOrUpdateKeyProduct of a product that exists keeps its sku and whether it is published.
UpdateKeyProduct(h, sku) ==
    LET doc == job[h].doc IN
    /\ Have(h, KeyProducts)
    /\ sku \in {doc.sku, NoSku}
    /\ CountByProjectIdSku(doc.project, sku) <= 1
    /\ StoreKeyProduct(h, job[h].id, doc)
    /\ UNCHANGED <<orders, today, catalogueCalls>>

PublishKeyProduct(h) ==
    /\ Have(h, KeyProducts)
    /\ StoreKeyProduct(h, job[h].id, [job[h].doc EXCEPT !.enabled = TRUE])
    /\ UNCHANGED <<orders, today, catalogueCalls>>

UnPublishKeyProduct(h) ==
    /\ Have(h, KeyProducts)
    /\ job[h].doc.enabled
    /\ StoreKeyProduct(h, job[h].id, [job[h].doc EXCEPT !.enabled = FALSE])
    /\ UNCHANGED <<orders, today, catalogueCalls>>

DeleteKeyProduct(h) ==
    /\ Have(h, KeyProducts)
    /\ StoreKeyProduct(h, job[h].id, [job[h].doc EXCEPT !.deleted = TRUE])
    /\ UNCHANGED <<orders, today, catalogueCalls>>

-----------------------------------------------------------------------------
(* Payment links: paylink.go.                                              *)

\* Mistake: nobody asks whose the products are.
BelongsToAnybody(m, g, type, items) ==
    \A i \in items : GetItem(i) # NoItem /\ GetItem(i).project = g

\* The checks that CreateOrUpdatePaylink makes on the products of the request.
BelongsTo(m, g, type, items) ==
    \A i \in items :
       LET d == GetItem(i) IN
       /\ i \in IF type = "product" THEN Products ELSE KeyProducts
       /\ d # NoItem
       /\ d.merchant = m
       /\ d.project = g

LinkAllowed(m, g, type, items, until) ==
    /\ GetProject(g) # NoItem /\ GetProject(g).merchant = m
    /\ until # Forever => until >= today
    /\ items # {}
    /\ BelongsTo(m, g, type, items)

\* Insert loses the error of MongoDB and goes on to the cache, so a link may be in no other
\* place.
InsertLink(h, l, doc) ==
    /\ links' \in {links, [links EXCEPT ![l] = doc]}
    /\ Set(h, "cache", l, doc)
    /\ UNCHANGED <<projects, products, keyProducts, caches>>

\* Delete replaces the document as a whole, if there is one.
ReplaceLink(h, l, doc) ==
    /\ links' = IF links[l] # NoItem THEN [links EXCEPT ![l] = doc] ELSE links
    /\ Set(h, "cache", l, doc)
    /\ UNCHANGED <<projects, products, keyProducts, caches>>

\* Mistake: the document that was read is written back as a whole.
UpdateLinkWhole(h, l, doc) == ReplaceLink(h, l, doc)

\* Update sets the fields of the request and leaves the others as they are in MongoDB, but
\* the document of the request goes to the cache.
UpdateLink(h, l, doc) ==
    /\ links' = IF links[l] = NoItem THEN links
                ELSE [links EXCEPT ![l].type = doc.type, ![l].items = doc.items,
                                   ![l].until = doc.until]
    /\ Set(h, "cache", l, doc)
    /\ UNCHANGED <<projects, products, keyProducts, caches>>

\* A new ObjectID.
NewLink(l) ==
    links[l] = NoItem /\ linkCache[l] = NoItem /\ \A h \in Handlers : job[h].id # l

CreatePaylink(h, l, m, g, type, items, until) ==
    /\ Begin(h)
    /\ NewLink(l)
    /\ LinkAllowed(m, g, type, items, until)
    /\ InsertLink(h, l, [merchant |-> m, project |-> g, type |-> type, items |-> items,
                         until |-> until, deleted |-> FALSE])

UpdatePaylink(h, type, items, until) ==
    LET doc == job[h].doc IN
    /\ Have(h, Links)
    /\ LinkAllowed(doc.merchant, doc.project, type, items, until)
    /\ UpdateLink(h, job[h].id, [doc EXCEPT !.type = type, !.items = items, !.until = until])
    /\ UNCHANGED <<orders, today, catalogueCalls>>

DeletePaylink(h) ==
    /\ Have(h, Links)
    /\ ReplaceLink(h, job[h].id, [job[h].doc EXCEPT !.deleted = TRUE])
    /\ UNCHANGED <<orders, today, catalogueCalls>>

\* The statistics of the link after an order of it was accounted for. They are left out;
\* the document that was read goes back to the cache.
UpdateTotalStat(h) ==
    /\ Have(h, Links)
    /\ Set(h, "cache", job[h].id, job[h].doc)
    /\ UNCHANGED <<stores, caches, orders, today, catalogueCalls>>

\* GetIsExpired asks the clock.
IsExpired(doc) == doc.until # Forever /\ doc.until < today

GetKeyProductsForOrder(items, g) ==
    {i \in items \cap KeyProducts :
        LET d == GetKeyProduct(i) IN d # NoItem /\ d.enabled /\ d.project = g}
GetProductsForOrder(items, g) ==
    {i \in items \cap Products :
        LET d == GetProduct(i) IN d # NoItem /\ d.enabled /\ d.project = g}

\* Every product of the order must be on sale.
GetOrderKeyProducts(items, g) == items # {} /\ GetKeyProductsForOrder(items, g) = items
GetOrderProducts(items, g) == items # {} /\ GetProductsForOrder(items, g) = items

\* processProject
ProjectIsOpen(g) == GetProject(g) # NoItem /\ GetProject(g).status # "deleted"

\* An order of a link: the link was read, the products are read now and each must be on sale.
OrderCreateByPaylink(h) ==
    LET doc == job[h].doc IN
    /\ Have(h, Links)
    /\ ~IsExpired(doc)
    /\ ProjectIsOpen(doc.project)
    /\ IF doc.type = "key" THEN GetOrderKeyProducts(doc.items, doc.project)
                           ELSE GetOrderProducts(doc.items, doc.project)
    /\ orders' = orders \cup {[link |-> job[h].id, project |-> doc.project,
                               items |-> doc.items]}
    /\ End(h)
    /\ UNCHANGED <<stores, caches, today, catalogueCalls>>

NextDay ==
    /\ today < LastDay
    /\ today' = today + 1
    /\ UNCHANGED <<stores, caches, job, orders, catalogueCalls>>

-----------------------------------------------------------------------------
CatalogueInit ==
    /\ projects \in [Projects -> [merchant : Owners, status : {"draft"}] \cup {NoItem}]
    /\ projectCache = [g \in Projects |-> NoItem]
    /\ products = [p \in Products |-> NoItem] /\ productCache = products
    /\ keyProducts = [k \in KeyProducts |-> NoItem]
    /\ links = [l \in Links |-> NoItem] /\ linkCache = links
    /\ job = [h \in Handlers |-> Free]
    /\ orders = {} /\ today = 1 /\ catalogueCalls = 0

CatalogueNext ==
    \/ \E h \in Handlers :
         \/ \E g \in Projects :
              \/ ReadProject(h, g)
              \/ \E m \in Owners : CreateProject(h, g, m)
         \/ \E s \in {"draft", "production", "deleted"} : ChangeProject(h, s)
         \/ DeleteProject(h)
         \/ \E p \in Products :
              \/ ReadProduct(h, p)
              \/ \E m \in Owners, g \in Projects, s \in Skus, b \in BOOLEAN :
                   CreateProduct(h, p, m, g, s, b)
         \/ \E s \in Skus \cup {NoSku}, b \in BOOLEAN : UpdateProduct(h, s, b)
         \/ UpdateProductPrices(h)
         \/ DeleteProduct(h)
         \/ \E k \in KeyProducts :
              \/ ReadKeyProduct(h, k)
              \/ \E g \in Projects, s \in Skus : CreateKeyProduct(h, k, g, s)
         \/ \E s \in Skus \cup {NoSku} : UpdateKeyProduct(h, s)
         \/ PublishKeyProduct(h)
         \/ UnPublishKeyProduct(h)
         \/ DeleteKeyProduct(h)
         \/ \E l \in Links :
              \/ ReadLink(h, l)
              \/ \E m \in Owners, g \in Projects, t \in {"product", "key"},
                    I \in SUBSET Items, u \in 0..LastDay :
                   CreatePaylink(h, l, m, g, t, I, u)
         \/ \E t \in {"product", "key"}, I \in SUBSET Items, u \in 0..LastDay :
              UpdatePaylink(h, t, I, u)
         \/ DeletePaylink(h)
         \/ UpdateTotalStat(h)
         \/ OrderCreateByPaylink(h)
         \/ WriteCache(h)
         \/ Refuse(h)
    \/ NextDay

CatalogueSpec == CatalogueInit /\ [][CatalogueNext]_catalogueVars

-----------------------------------------------------------------------------
ItemDoc(i) == IF i \in Products THEN products[i] ELSE keyProducts[i]

\* Whatever is deleted, revived, moved to another type of products or edited twice at once:
\* an order made through a link has only items of the project the order is for, and they are
\* the property of the merchant that the project belongs to. Orders ask for the project of
\* an item and never for its merchant, and a product may name a project of another merchant:
\* it is the checks of CreateOrUpdatePaylink, made at another time, that keep them apart.
SoldByOwner ==
    \A o \in orders : \A i \in o.items :
       /\ ItemDoc(i) # NoItem
       /\ ItemDoc(i).project = o.project
       /\ ItemDoc(i).merchant = projects[o.project].merchant

\* A link that was deleted stays deleted in MongoDB, also if an update or the statistics of
\* an order had read it before: Update and UpdateTotalStat set single fields.
DeletedLinkStaysDeleted ==
    [][\A l \in Links : links[l] # NoItem /\ links[l].deleted => links'[l].deleted]_catalogueVars
=============================================================================
