----------------------------- MODULE ShopProofs -----------------------------
(***************************************************************************)
(* Proofs about what is sold (Catalogue) and what it costs (Costs), for    *)
(* all merchants, projects, products, links, tables of costs and any       *)
(* number of requests at the same time.                                    *)
(*                                                                         *)
(* Catalogue: a request works on the copy of a document it has read, and   *)
(* the caches hold copies as old as the requests that wrote them. What all *)
(* copies of a document have in common is whose it is: no operation        *)
(* changes the merchant of a project, or the merchant and the project of a *)
(* product or a link, once it exists, and nothing is ever taken out of     *)
(* MongoDB, though a link may be in a cache alone. So what CreateOrUpdatePaylink found out about owners from old  *)
(* copies is true of MongoDB, and stays so (CopiesInv).                    *)
(*                                                                         *)
(* Costs: the unique index leaves one active cost for a country and a      *)
(* start, so a lookup in MongoDB finds the cost that was set last; the     *)
(* cache says the same of it, has nothing, or is about to be cleared by    *)
(* the request that set it (LastKnown).                                    *)
(***************************************************************************)
EXTENDS MCShop, TLAPS

Ids == Projects \cup Items \cup Links
Docs == ProjectDoc \cup ProductDoc \cup LinkDoc \cup {NoItem}
Jobs == [pc : {"idle", "fill", "have", "cache"}, id : Ids \cup {NoItem}, doc : Docs]

StoresOK ==
    /\ projects \in [Projects -> ProjectDoc \cup {NoItem}]
    /\ products \in [Products -> ProductDoc \cup {NoItem}]
    /\ keyProducts \in [KeyProducts -> ProductDoc \cup {NoItem}]
    /\ links \in [Links -> LinkDoc \cup {NoItem}]

CachesOK ==
    /\ projectCache \in [Projects -> ProjectDoc \cup {NoItem}]
    /\ productCache \in [Products -> ProductDoc \cup {NoItem}]
    /\ linkCache \in [Links -> LinkDoc \cup {NoItem}]

OrdersOK == \A o \in orders : o.project \in Projects /\ o.link \in Links /\ o.items \subseteq Items

CountersOK == today \in 1..LastDay /\ catalogueCalls \in 0..MaxCatalogueCalls

\* The items are in MongoDB and belong to the project, and to the merchant it belongs to.
Owned(g, items) ==
    /\ projects[g] # NoItem
    /\ \A i \in items : /\ ItemDoc(i) # NoItem /\ ItemDoc(i).project = g
                        /\ ItemDoc(i).merchant = projects[g].merchant

\* A copy of a document has the owner that the document in MongoDB has.
ProjectCopy(g, doc) ==
    doc \in ProjectDoc /\ projects[g] # NoItem /\ projects[g].merchant = doc.merchant

ItemCopy(i, doc) ==
    /\ doc \in ProductDoc /\ ItemDoc(i) # NoItem
    /\ ItemDoc(i).merchant = doc.merchant /\ ItemDoc(i).project = doc.project

LinkIsOwned(doc) ==
    Owned(doc.project, doc.items) /\ projects[doc.project].merchant = doc.merchant

\* The link may be missing in MongoDB.
LinkCopy(l, doc) ==
    /\ doc \in LinkDoc
    /\ links[l] # NoItem =>
         links[l].merchant = doc.merchant /\ links[l].project = doc.project
    /\ LinkIsOwned(doc)

Copy(id, doc) ==
    /\ id \in Ids
    /\ id \in Projects => ProjectCopy(id, doc)
    /\ id \in Items => ItemCopy(id, doc)
    /\ id \in Links => LinkCopy(id, doc)

JobsInv == \A h \in Handlers : job[h].pc # "idle" => Copy(job[h].id, job[h].doc)

CachesInv ==
    /\ \A g \in Projects : projectCache[g] # NoItem => ProjectCopy(g, projectCache[g])
    /\ \A p \in Products : productCache[p] # NoItem => ItemCopy(p, productCache[p])
    /\ \A l \in Links : linkCache[l] # NoItem => LinkCopy(l, linkCache[l])

LinksInv == \A l \in Links : links[l] # NoItem => LinkIsOwned(links[l])

OrdersInv == \A o \in orders : Owned(o.project, o.items)

TypeInv == StoresOK /\ CachesOK /\ job \in [Handlers -> Jobs] /\ OrdersOK /\ CountersOK
CopiesInv == JobsInv /\ CachesInv /\ LinksInv /\ OrdersInv
ShopInv == TypeInv /\ CopiesInv

-----------------------------------------------------------------------------
(* What a step does to owners, and what that means for copies.             *)

OwnersKept ==
    /\ \A g \in Projects : projects[g] # NoItem =>
         projects'[g] # NoItem /\ projects'[g].merchant = projects[g].merchant
    /\ \A i \in Items : ItemDoc(i) # NoItem =>
         /\ ItemDoc(i)' # NoItem
         /\ ItemDoc(i)'.merchant = ItemDoc(i).merchant
         /\ ItemDoc(i)'.project = ItemDoc(i).project
    /\ \A l \in Links : links[l] # NoItem =>
         /\ links'[l] # NoItem
         /\ links'[l].merchant = links[l].merchant
         /\ links'[l].project = links[l].project
    /\ \A l \in Links : links[l] = NoItem => links'[l] = NoItem \/ NewLink(l)

\* Only request h moved on, to a copy that is right in the new state.
Moved(h) ==
    /\ job' \in [Handlers -> Jobs]
    /\ \A x \in Handlers : x # h => job'[x] = job[x]
    /\ (job[h].pc # "idle" => Copy(job[h].id, job[h].doc))'

\* What is owned stays owned: orders, and the links that were read.
LEMMA OwnedKept ==
    ASSUME NEW g \in Projects, NEW items \in SUBSET Items, OwnersKept, Owned(g, items)
    PROVE  Owned(g, items)' /\ projects'[g].merchant = projects[g].merchant
<1>1. projects'[g] # NoItem /\ projects'[g].merchant = projects[g].merchant
  BY DEF OwnersKept, Owned
<1>2. ASSUME NEW i \in items
      PROVE  /\ ItemDoc(i)' # NoItem /\ ItemDoc(i)'.project = g
             /\ ItemDoc(i)'.merchant = projects'[g].merchant
  <2>1. i \in Items /\ ItemDoc(i) # NoItem /\ ItemDoc(i).project = g
        /\ ItemDoc(i).merchant = projects[g].merchant
    BY <1>2 DEF Owned
  <2> QED BY <2>1, <1>1 DEF OwnersKept
<1> QED BY <1>1, <1>2 DEF Owned

\* A copy stays a copy.
LEMMA CopyKept ==
    ASSUME NEW id, NEW doc, OwnersKept, Copy(id, doc), links' = links \/ ~NewLink(id)
    PROVE  Copy(id, doc)'
<1>1. id \in Projects => ProjectCopy(id, doc)'
  BY DEF OwnersKept, Copy, ProjectCopy
<1>2. id \in Items => ItemCopy(id, doc)'
  BY DEF OwnersKept, Copy, ItemCopy
<1>3. ASSUME id \in Links PROVE LinkCopy(id, doc)'
  <2>1. LinkCopy(id, doc)
    BY <1>3 DEF Copy
  <2>2. doc.project \in Projects /\ doc.items \in SUBSET Items
    BY <2>1 DEF LinkCopy, LinkDoc
  <2>3. LinkIsOwned(doc)'
    BY <2>1, <2>2, OwnedKept DEF LinkCopy, LinkIsOwned
  <2>4. links'[id] # NoItem => links'[id].merchant = doc.merchant
                               /\ links'[id].project = doc.project
    BY <1>3, <2>1 DEF OwnersKept, LinkCopy
  <2> QED BY <2>1, <2>3, <2>4 DEF LinkCopy
<1> QED BY <1>1, <1>2, <1>3 DEF Copy

\* The copies of the caches stay copies too.
LEMMA CachesKept ==
    ASSUME CachesInv, OwnersKept, UNCHANGED caches
    PROVE  CachesInv'
<1>1. projectCache' = projectCache /\ productCache' = productCache /\ linkCache' = linkCache
  BY DEF caches
<1>2. \A g \in Projects : projectCache'[g] # NoItem => ProjectCopy(g, projectCache[g])'
  BY <1>1 DEF CachesInv, OwnersKept, ProjectCopy
<1>3. \A p \in Products : productCache'[p] # NoItem => ItemCopy(p, productCache[p])'
  BY <1>1 DEF CachesInv, OwnersKept, ItemCopy, Items
<1>4. ASSUME NEW l \in Links, linkCache'[l] # NoItem PROVE LinkCopy(l, linkCache[l])'
  <2>1. PICK doc : doc = linkCache[l]
    OBVIOUS
  <2>2. doc = linkCache'[l] /\ LinkCopy(l, doc)
    BY <2>1, <1>1, <1>4 DEF CachesInv
  <2>3. doc.project \in Projects /\ doc.items \in SUBSET Items
    BY <2>2 DEF LinkCopy, LinkDoc
  <2>4. LinkIsOwned(doc)'
    BY <2>2, <2>3, OwnedKept DEF LinkCopy, LinkIsOwned
  <2>5. LinkCopy(l, doc)'
    BY <1>1, <1>4, <2>2, <2>4 DEF OwnersKept, LinkCopy, NewLink
  <2> QED BY <2>2, <2>5
<1> QED BY <1>2, <1>3, <1>4 DEF CachesInv

\* A step that writes no cache and makes no order.
LEMMA StepKeeps ==
    ASSUME ShopInv, StoresOK', LinksInv', OwnersKept, NEW h \in Handlers, Moved(h),
           UNCHANGED caches, UNCHANGED orders, CountersOK'
    PROVE  ShopInv'
<1>1. CachesOK' /\ OrdersOK'
  BY DEF ShopInv, TypeInv, CachesOK, OrdersOK, caches
<1>2. CachesInv'
  BY CachesKept DEF ShopInv, CopiesInv
<1>3. OrdersInv'
  <2> SUFFICES ASSUME NEW o \in orders PROVE Owned(o.project, o.items)'
    BY DEF OrdersInv
  <2>1. o.project \in Projects /\ o.items \in SUBSET Items /\ Owned(o.project, o.items)
    BY DEF ShopInv, TypeInv, CopiesInv, OrdersOK, OrdersInv
  <2> QED BY <2>1, OwnedKept
<1>4. ASSUME NEW x \in Handlers, job'[x].pc # "idle" PROVE Copy(job[x].id, job[x].doc)'
  <2>1. CASE x = h
    BY <1>4, <2>1 DEF Moved
  <2>2. CASE x # h
    <3>1. PICK id, doc : id = job[x].id /\ doc = job[x].doc
      OBVIOUS
    <3>2. job'[x] = job[x] /\ Copy(id, doc)
      BY <1>4, <2>2, <3>1 DEF Moved, ShopInv, CopiesInv, JobsInv
    <3>3. Copy(id, doc)'
      BY <3>1, <3>2, CopyKept DEF NewLink
    <3>4. id = job'[x].id /\ doc = job'[x].doc
      BY <3>1, <3>2
    <3> QED BY <3>3, <3>4
  <2> QED BY <2>1, <2>2
<1>5. JobsInv'
  BY <1>4 DEF JobsInv
<1> QED BY <1>1, <1>2, <1>3, <1>5 DEF ShopInv, TypeInv, CopiesInv, Moved

-----------------------------------------------------------------------------
(* What is written to MongoDB.                                             *)

\* Nothing is written: owners are kept, links are as they were.
LEMMA StoresUnchanged ==
    ASSUME ShopInv, UNCHANGED stores
    PROVE  StoresOK' /\ LinksInv' /\ OwnersKept
<1>1. /\ projects' = projects /\ products' = products
      /\ keyProducts' = keyProducts /\ links' = links
  BY DEF stores
<1>2. StoresOK'
  BY <1>1 DEF ShopInv, TypeInv, StoresOK
<1>3. OwnersKept
  BY <1>1 DEF OwnersKept, ItemDoc
<1>4. LinksInv'
  BY <1>1 DEF ShopInv, CopiesInv, LinksInv, LinkIsOwned, Owned, ItemDoc
<1> QED BY <1>2, <1>3, <1>4

\* What is owned by a link stays so when no link is written.
LEMMA LinksKept ==
    ASSUME ShopInv, OwnersKept, links' = links
    PROVE  LinksInv'
<1> SUFFICES ASSUME NEW l \in Links, links[l] # NoItem PROVE LinkIsOwned(links[l])'
  BY DEF LinksInv
<1>1. PICK doc : doc = links[l]
  OBVIOUS
<1>2. doc \in LinkDoc /\ LinkIsOwned(doc)
  BY <1>1 DEF ShopInv, TypeInv, StoresOK, CopiesInv, LinksInv
<1>3. doc.project \in Projects /\ doc.items \in SUBSET Items
  BY <1>2 DEF LinkDoc
<1>4. LinkIsOwned(doc)'
  BY <1>2, <1>3, OwnedKept DEF LinkIsOwned
<1> QED BY <1>1, <1>4

LEMMA ProjectStored ==
    ASSUME ShopInv, NEW g \in Projects, NEW doc \in ProjectDoc,
           projects[g] # NoItem => projects[g].merchant = doc.merchant,
           projects' = [projects EXCEPT ![g] = doc],
           UNCHANGED <<products, keyProducts, links>>
    PROVE  StoresOK' /\ LinksInv' /\ OwnersKept /\ Copy(g, doc)'
<1>1. StoresOK'
  BY DEF ShopInv, TypeInv, StoresOK
<1>2. doc # NoItem
  BY CatalogueAssumption
<1>3. projects'[g] = doc /\ \A x \in Projects : x # g => projects'[x] = projects[x]
  BY DEF ShopInv, TypeInv, StoresOK
<1>4. \A x \in Projects : projects[x] # NoItem =>
         projects'[x] # NoItem /\ projects'[x].merchant = projects[x].merchant
  BY <1>2, <1>3
<1>5. OwnersKept
  BY <1>4 DEF OwnersKept, ItemDoc
<1>6. Copy(g, doc)'
  BY <1>2, <1>3, CatalogueAssumption DEF Copy, ProjectCopy, Ids
<1> QED BY <1>1, <1>5, <1>6, LinksKept

LEMMA ProductStored ==
    ASSUME ShopInv, NEW p \in Products, NEW doc \in ProductDoc,
           products[p] # NoItem => products[p].merchant = doc.merchant
                                   /\ products[p].project = doc.project,
           products' = [products EXCEPT ![p] = doc],
           UNCHANGED <<projects, keyProducts, links>>
    PROVE  StoresOK' /\ LinksInv' /\ OwnersKept /\ Copy(p, doc)'
<1>1. StoresOK'
  BY DEF ShopInv, TypeInv, StoresOK
<1>2. doc # NoItem
  BY CatalogueAssumption
<1>3. products'[p] = doc /\ \A x \in Products : x # p => products'[x] = products[x]
  BY DEF ShopInv, TypeInv, StoresOK
<1>4. \A x \in Items : ItemDoc(x) # NoItem =>
         /\ ItemDoc(x)' # NoItem
         /\ ItemDoc(x)'.merchant = ItemDoc(x).merchant
         /\ ItemDoc(x)'.project = ItemDoc(x).project
  BY <1>2, <1>3 DEF ItemDoc
<1>5. OwnersKept
  BY <1>4 DEF OwnersKept
<1>6. Copy(p, doc)'
  BY <1>2, <1>3, CatalogueAssumption DEF Copy, ItemCopy, Ids, Items, ItemDoc
<1> QED BY <1>1, <1>5, <1>6, LinksKept

LEMMA KeyProductStored ==
    ASSUME ShopInv, NEW k \in KeyProducts, NEW doc \in ProductDoc,
           keyProducts[k] # NoItem => keyProducts[k].merchant = doc.merchant
                                      /\ keyProducts[k].project = doc.project,
           keyProducts' = [keyProducts EXCEPT ![k] = doc],
           UNCHANGED <<projects, products, links>>
    PROVE  StoresOK' /\ LinksInv' /\ OwnersKept
<1>1. StoresOK'
  BY DEF ShopInv, TypeInv, StoresOK
<1>2. doc # NoItem
  BY CatalogueAssumption
<1>3. keyProducts'[k] = doc /\ \A x \in KeyProducts : x # k => keyProducts'[x] = keyProducts[x]
  BY DEF ShopInv, TypeInv, StoresOK
<1>4. \A x \in Items : ItemDoc(x) # NoItem =>
         /\ ItemDoc(x)' # NoItem
         /\ ItemDoc(x)'.merchant = ItemDoc(x).merchant
         /\ ItemDoc(x)'.project = ItemDoc(x).project
  BY <1>2, <1>3 DEF ItemDoc, Items
<1>5. OwnersKept
  BY <1>4 DEF OwnersKept
<1> QED BY <1>1, <1>5, LinksKept

\* A link is written as a whole: a new one, or the one that is deleted. Nothing is written
\* if there is none to delete, or if Insert fails.
LinkWritten(l, doc) ==
    \/ links' = links
    \/ links' = [links EXCEPT ![l] = doc] /\ (links[l] = NoItem => NewLink(l))

LEMMA LinkStored ==
    ASSUME ShopInv, NEW l \in Links, NEW doc \in LinkDoc, LinkIsOwned(doc),
           links[l] # NoItem => links[l].merchant = doc.merchant
                                /\ links[l].project = doc.project,
           LinkWritten(l, doc),
           UNCHANGED <<projects, products, keyProducts>>
    PROVE  StoresOK' /\ LinksInv' /\ OwnersKept /\ Copy(l, doc)'
<1>1. StoresOK'
  BY DEF ShopInv, TypeInv, StoresOK, LinkWritten
<1>2. doc # NoItem
  BY CatalogueAssumption
<1>3. /\ links'[l] = links[l] \/ (links'[l] = doc /\ (links[l] = NoItem => NewLink(l)))
      /\ \A x \in Links : x # l => links'[x] = links[x]
  <2>1. links \in [Links -> LinkDoc \cup {NoItem}]
    BY DEF ShopInv, TypeInv, StoresOK
  <2>2. CASE links' = links
    BY <2>2
  <2>3. CASE links' = [links EXCEPT ![l] = doc] /\ (links[l] = NoItem => NewLink(l))
    <3>1. links'[l] = doc /\ \A x \in Links : x # l => links'[x] = links[x]
      BY <2>1, <2>3
    <3> QED BY <2>3, <3>1, Zenon
  <2> QED BY <2>2, <2>3 DEF LinkWritten
<1>4. OwnersKept
  BY <1>2, <1>3 DEF OwnersKept, ItemDoc
<1>5. LinkIsOwned(doc)'
  BY DEF LinkIsOwned, Owned, ItemDoc
<1>6. ASSUME NEW x \in Links, links'[x] # NoItem PROVE LinkIsOwned(links[x])'
  <2>1. CASE x = l /\ links'[l] = doc
    BY <2>1, <1>5
  <2>2. CASE links'[x] = links[x]
    <3>1. PICK d : d = links[x]
      OBVIOUS
    <3>2. d = links'[x] /\ LinkIsOwned(d)
      BY <3>1, <2>2, <1>6 DEF ShopInv, CopiesInv, LinksInv
    <3>3. LinkIsOwned(d)'
      BY <3>2 DEF LinkIsOwned, Owned, ItemDoc
    <3> QED BY <3>2, <3>3
  <2> QED BY <1>3, <2>1, <2>2
<1>7. Copy(l, doc)'
  BY <1>2, <1>3, <1>5, CatalogueAssumption DEF Copy, LinkCopy, Ids
<1> QED BY <1>1, <1>4, <1>6, <1>7 DEF LinksInv

\* What UpdateLink leaves in MongoDB.
LEMMA LinkUpdated ==
    ASSUME ShopInv, NEW h \in Handlers, NEW l \in Links, NEW doc, Copy(l, doc), UpdateLink(h, l, doc)
    PROVE  /\ StoresOK' /\ LinksInv' /\ OwnersKept /\ Copy(l, doc)'
           /\ links[l] # NoItem => links'[l].deleted = links[l].deleted
           /\ \A x \in Links : x # l => links'[x] = links[x]
<1>1. /\ doc \in LinkDoc /\ LinkIsOwned(doc)
      /\ links[l] # NoItem => /\ links[l] \in LinkDoc /\ links[l].merchant = doc.merchant
                              /\ links[l].project = doc.project
  BY CatalogueAssumption DEF Copy, LinkCopy, ShopInv, TypeInv, StoresOK
<1>2. UNCHANGED <<projects, products, keyProducts>>
  BY DEF UpdateLink
<1>3. CASE links[l] = NoItem
  <2>1. links' = links
    BY <1>3 DEF UpdateLink
  <2>2. StoresOK' /\ LinksInv' /\ OwnersKept
    BY <1>2, <2>1, StoresUnchanged DEF stores
  <2> QED BY <1>3, <2>1, <2>2, CopyKept
<1>4. CASE links[l] # NoItem
  <2>1. PICK old : old = links[l]
    OBVIOUS
  <2>2. PICK new : new = [old EXCEPT !.type = doc.type, !.items = doc.items, !.until = doc.until]
    OBVIOUS
  <2>3. old \in LinkDoc /\ doc \in LinkDoc
    BY <1>1, <1>4, <2>1
  <2>4. /\ new \in LinkDoc /\ new.items = doc.items /\ new.deleted = old.deleted
        /\ new.merchant = old.merchant /\ new.project = old.project
    BY <2>2, <2>3 DEF LinkDoc
  <2>5. links' = [links EXCEPT ![l] = new]
    BY <1>4, <2>1, <2>2 DEF UpdateLink
  <2>6. LinkIsOwned(new)
    BY <1>1, <1>4, <2>1, <2>4 DEF LinkIsOwned
  <2>7. LinkWritten(l, new)
    BY <1>4, <2>5 DEF LinkWritten
  <2>8. StoresOK' /\ LinksInv' /\ OwnersKept
    BY <1>1, <1>2, <1>4, <2>1, <2>4, <2>6, <2>7, LinkStored
  <2>9. Copy(l, doc)'
    BY <1>4, <2>8, CopyKept DEF NewLink
  <2>10. links'[l] = new /\ \A x \in Links : x # l => links'[x] = links[x]
    BY <2>5 DEF ShopInv, TypeInv, StoresOK
  <2> QED BY <2>1, <2>4, <2>8, <2>9, <2>10
<1> QED BY <1>3, <1>4

-----------------------------------------------------------------------------
(* The request that moves on.                                              *)

LEMMA SetMoves ==
    ASSUME ShopInv, NEW h \in Handlers, NEW pc \in {"fill", "have", "cache"}, NEW id, NEW doc,
           doc \in Docs, Set(h, pc, id, doc), Copy(id, doc)'
    PROVE  Moved(h)
<1>1. id \in Ids
  BY DEF Copy
<1>2. PICK new : new = [pc |-> pc, id |-> id, doc |-> doc]
  OBVIOUS
<1>3. new \in Jobs /\ new.id = id /\ new.doc = doc
  BY <1>1, <1>2 DEF Jobs
<1>4. job \in [Handlers -> Jobs] /\ job' = [job EXCEPT ![h] = new]
  BY <1>2 DEF Set, ShopInv, TypeInv
<1>5. job' \in [Handlers -> Jobs] /\ job'[h] = new
      /\ \A x \in Handlers : x # h => job'[x] = job[x]
  BY <1>3, <1>4
<1> QED BY <1>3, <1>5 DEF Moved

LEMMA EndMoves ==
    ASSUME ShopInv, NEW h \in Handlers, End(h)
    PROVE  Moved(h)
<1>1. Free \in Jobs /\ Free.pc = "idle"
  BY DEF Free, Jobs, Docs
<1>2. job \in [Handlers -> Jobs] /\ job' = [job EXCEPT ![h] = Free]
  BY DEF End, ShopInv, TypeInv
<1>3. job' \in [Handlers -> Jobs] /\ job'[h] = Free
      /\ \A x \in Handlers : x # h => job'[x] = job[x]
  BY <1>1, <1>2
<1> QED BY <1>1, <1>3 DEF Moved

LEMMA BeginCounts ==
    ASSUME ShopInv, NEW h \in Handlers, Begin(h)
    PROVE  CountersOK' /\ orders' = orders
BY CatalogueAssumption DEF Begin, ShopInv, TypeInv, CountersOK

\* The document of a request that has read one.
LEMMA HeldCopy ==
    ASSUME ShopInv, NEW h \in Handlers, job[h].pc # "idle"
    PROVE  Copy(job[h].id, job[h].doc)
BY DEF ShopInv, CopiesInv, JobsInv

-----------------------------------------------------------------------------
(* Reads: what is found, in MongoDB or in the cache, is a copy.            *)

LEMMA ProjectFound ==
    ASSUME ShopInv, NEW g \in Projects, GetProject(g) # NoItem
    PROVE  Copy(g, GetProject(g)) /\ GetProject(g) \in ProjectDoc
<1>1. ProjectCopy(g, GetProject(g))
  BY DEF GetProject, ShopInv, TypeInv, CopiesInv, StoresOK, CachesInv, ProjectCopy
<1> QED BY <1>1, CatalogueAssumption DEF Copy, ProjectCopy, Ids

LEMMA ProductFound ==
    ASSUME ShopInv, NEW p \in Products, GetProduct(p) # NoItem
    PROVE  Copy(p, GetProduct(p)) /\ GetProduct(p) \in ProductDoc
<1>1. ItemCopy(p, GetProduct(p))
  BY DEF GetProduct, Live, ItemDoc, ShopInv, TypeInv, CopiesInv, StoresOK, CachesInv, ItemCopy
<1> QED BY <1>1, CatalogueAssumption DEF Copy, ItemCopy, Ids, Items

LEMMA KeyProductFound ==
    ASSUME ShopInv, NEW k \in KeyProducts, GetKeyProduct(k) # NoItem
    PROVE  Copy(k, GetKeyProduct(k)) /\ GetKeyProduct(k) \in ProductDoc
<1>1. k \in Items /\ k \notin Products /\ k \notin Projects /\ k \notin Links
  BY CatalogueAssumption DEF Items
<1>2. ItemCopy(k, GetKeyProduct(k))
  BY <1>1 DEF GetKeyProduct, Live, ItemDoc, ShopInv, TypeInv, StoresOK, ItemCopy
<1> QED BY <1>1, <1>2 DEF Copy, ItemCopy, Ids

LEMMA LinkFound ==
    ASSUME ShopInv, NEW l \in Links, GetLink(l) # NoItem
    PROVE  Copy(l, GetLink(l)) /\ GetLink(l) \in LinkDoc
<1>1. ASSUME linkCache[l] = NoItem PROVE LinkCopy(l, GetLink(l))
  <2>1. links[l] # NoItem /\ GetLink(l) = links[l]
    BY <1>1 DEF GetLink, Live
  <2>2. links[l] \in LinkDoc /\ LinkIsOwned(links[l])
    BY <2>1 DEF ShopInv, TypeInv, StoresOK, CopiesInv, LinksInv
  <2>3. LinkCopy(l, links[l])
    BY <2>1, <2>2 DEF LinkCopy
  <2> QED BY <2>1, <2>3
<1>2. ASSUME linkCache[l] # NoItem PROVE LinkCopy(l, GetLink(l))
  BY <1>2 DEF GetLink, ShopInv, CopiesInv, CachesInv
<1>3. LinkCopy(l, GetLink(l))
  BY <1>1, <1>2
<1> QED BY <1>3, CatalogueAssumption DEF Copy, LinkCopy, Ids

LEMMA ItemFound ==
    ASSUME ShopInv, NEW i \in Items, GetItem(i) # NoItem
    PROVE  ItemCopy(i, GetItem(i))
BY ProductFound, KeyProductFound DEF GetItem, Items, Copy

LEMMA ReadKeeps ==
    ASSUME ShopInv, NEW h \in Handlers, NEW id, NEW found, NEW cached \in BOOLEAN,
           Read(h, id, found, cached), Copy(id, found), found \in Docs
    PROVE  ShopInv'
<1>1. StoresOK' /\ LinksInv' /\ OwnersKept
  BY StoresUnchanged DEF Read
<1>2. Copy(id, found)'
  BY <1>1, CopyKept DEF Read, stores
<1>3. PICK pc : pc = IF cached THEN "have" ELSE "fill"
  OBVIOUS
<1>4. pc \in {"fill", "have", "cache"} /\ Set(h, pc, id, found)
  BY <1>3 DEF Read
<1>5. Moved(h)
  BY <1>2, <1>4, SetMoves
<1>6. CountersOK' /\ orders' = orders /\ UNCHANGED caches
  BY BeginCounts DEF Read
<1> QED BY <1>1, <1>5, <1>6, StepKeeps

-----------------------------------------------------------------------------
(* Writes: a document with the owner that MongoDB has, or a new one.       *)

LEMMA StoreProjectKeeps ==
    ASSUME ShopInv, NEW h \in Handlers, NEW g \in Projects, NEW doc \in ProjectDoc,
           projects[g] # NoItem => projects[g].merchant = doc.merchant,
           StoreProject(h, g, doc), UNCHANGED orders, CountersOK'
    PROVE  ShopInv'
<1>1. StoresOK' /\ LinksInv' /\ OwnersKept /\ Copy(g, doc)'
  BY ProjectStored DEF StoreProject
<1>2. doc \in Docs
  BY DEF Docs
<1>3. Set(h, "cache", g, doc) /\ UNCHANGED caches
  BY DEF StoreProject
<1>4. Moved(h)
  BY <1>1, <1>2, <1>3, SetMoves
<1> QED BY <1>1, <1>3, <1>4, StepKeeps

LEMMA StoreProductKeeps ==
    ASSUME ShopInv, NEW h \in Handlers, NEW p \in Products, NEW doc \in ProductDoc,
           products[p] # NoItem => products[p].merchant = doc.merchant
                                   /\ products[p].project = doc.project,
           StoreProduct(h, p, doc), UNCHANGED orders, CountersOK'
    PROVE  ShopInv'
<1>1. StoresOK' /\ LinksInv' /\ OwnersKept /\ Copy(p, doc)'
  BY ProductStored DEF StoreProduct
<1>2. doc \in Docs
  BY DEF Docs
<1>3. Set(h, "cache", p, doc) /\ UNCHANGED caches
  BY DEF StoreProduct
<1>4. Moved(h)
  BY <1>1, <1>2, <1>3, SetMoves
<1> QED BY <1>1, <1>3, <1>4, StepKeeps

LEMMA StoreKeyProductKeeps ==
    ASSUME ShopInv, NEW h \in Handlers, NEW k \in KeyProducts, NEW doc \in ProductDoc,
           keyProducts[k] # NoItem => keyProducts[k].merchant = doc.merchant
                                      /\ keyProducts[k].project = doc.project,
           StoreKeyProduct(h, k, doc), UNCHANGED orders, CountersOK'
    PROVE  ShopInv'
<1>1. StoresOK' /\ LinksInv' /\ OwnersKept
  BY KeyProductStored DEF StoreKeyProduct
<1>2. Moved(h) /\ UNCHANGED caches
  BY EndMoves DEF StoreKeyProduct
<1> QED BY <1>1, <1>2, StepKeeps

LEMMA StoreLinkKeeps ==
    ASSUME ShopInv, NEW h \in Handlers, NEW l \in Links, NEW doc \in LinkDoc, LinkIsOwned(doc),
           links[l] # NoItem => links[l].merchant = doc.merchant
                                /\ links[l].project = doc.project,
           LinkWritten(l, doc), Set(h, "cache", l, doc),
           UNCHANGED <<projects, products, keyProducts, caches>>, UNCHANGED orders, CountersOK'
    PROVE  ShopInv'
<1>1. StoresOK' /\ LinksInv' /\ OwnersKept /\ Copy(l, doc)'
  BY LinkStored
<1>2. doc \in Docs
  BY DEF Docs
<1>3. Set(h, "cache", l, doc) /\ UNCHANGED caches
  OBVIOUS
<1>4. Moved(h)
  BY <1>1, <1>2, <1>3, SetMoves
<1> QED BY <1>1, <1>3, <1>4, StepKeeps

LEMMA UpdateLinkKeeps ==
    ASSUME ShopInv, NEW h \in Handlers, NEW l \in Links, NEW doc, Copy(l, doc),
           UpdateLink(h, l, doc), UNCHANGED orders, CountersOK'
    PROVE  ShopInv'
<1>1. StoresOK' /\ LinksInv' /\ OwnersKept /\ Copy(l, doc)'
  BY LinkUpdated
<1>2. doc \in Docs
  BY DEF Copy, LinkCopy, Docs
<1>3. Set(h, "cache", l, doc) /\ UNCHANGED caches
  BY DEF UpdateLink
<1>4. Moved(h)
  BY <1>1, <1>2, <1>3, SetMoves
<1> QED BY <1>1, <1>3, <1>4, StepKeeps

-----------------------------------------------------------------------------
(* The operations.                                                         *)

LEMMA CountersKept ==
    ASSUME ShopInv, UNCHANGED <<orders, today, catalogueCalls>>
    PROVE  CountersOK' /\ orders' = orders
BY DEF ShopInv, TypeInv, CountersOK

LEMMA ProjectOpsKeep ==
    ASSUME ShopInv, NEW h \in Handlers
    PROVE  /\ \A g \in Projects, m \in Owners : CreateProject(h, g, m) => ShopInv'
           /\ \A s \in {"draft", "production", "deleted"} : ChangeProject(h, s) => ShopInv'
           /\ DeleteProject(h) => ShopInv'
<1>1. ASSUME NEW g \in Projects, NEW m \in Owners, CreateProject(h, g, m) PROVE ShopInv'
  <2>1. PICK doc : doc = [merchant |-> m, status |-> "draft"]
    OBVIOUS
  <2>2. doc \in ProjectDoc
    BY <2>1 DEF ProjectDoc
  <2>3. StoreProject(h, g, doc) /\ projects[g] = NoItem
    BY <1>1, <2>1 DEF CreateProject
  <2>4. CountersOK' /\ orders' = orders
    BY <1>1, BeginCounts DEF CreateProject
  <2> QED BY <2>2, <2>3, <2>4, StoreProjectKeeps
<1>2. ASSUME NEW s \in {"draft", "production", "deleted"},
             ChangeProject(h, s) \/ (DeleteProject(h) /\ s = "deleted")
      PROVE  ShopInv'
  <2>1. PICK doc, new, g : doc = job[h].doc /\ new = [doc EXCEPT !.status = s] /\ g = job[h].id
    OBVIOUS
  <2>2. g \in Projects /\ job[h].pc # "idle"
    BY <1>2, <2>1 DEF ChangeProject, DeleteProject, Have
  <2>3. ProjectCopy(g, doc)
    BY <2>1, <2>2, HeldCopy DEF Copy
  <2>4. new \in ProjectDoc /\ projects[g].merchant = new.merchant
    BY <2>1, <2>3 DEF ProjectCopy, ProjectDoc
  <2>5. StoreProject(h, g, new)
    BY <1>2, <2>1 DEF ChangeProject, DeleteProject
  <2>6. CountersOK' /\ orders' = orders
    BY <1>2, CountersKept DEF ChangeProject, DeleteProject
  <2> QED BY <2>2, <2>4, <2>5, <2>6, StoreProjectKeeps
<1> QED BY <1>1, <1>2

\* A document of a product with other fields than its owner changed.
LEMMA ProductFields ==
    ASSUME NEW doc \in ProductDoc, NEW b \in BOOLEAN
    PROVE  \A new \in {[doc EXCEPT !.enabled = b], [doc EXCEPT !.deleted = TRUE]} :
             new \in ProductDoc /\ new.merchant = doc.merchant /\ new.project = doc.project
BY DEF ProductDoc

LEMMA ProductOpsKeep ==
    ASSUME ShopInv, NEW h \in Handlers
    PROVE  /\ \A p \in Products, m \in Owners, g \in Projects, s \in Skus, b \in BOOLEAN :
                CreateProduct(h, p, m, g, s, b) => ShopInv'
           /\ \A s \in Skus \cup {NoSku}, b \in BOOLEAN : UpdateProduct(h, s, b) => ShopInv'
           /\ UpdateProductPrices(h) => ShopInv'
           /\ DeleteProduct(h) => ShopInv'
<1>1. ASSUME NEW p \in Products, NEW m \in Owners, NEW g \in Projects, NEW s \in Skus,
             NEW b \in BOOLEAN, CreateProduct(h, p, m, g, s, b)
      PROVE  ShopInv'
  <2>1. PICK doc : doc = [merchant |-> m, project |-> g, sku |-> s, enabled |-> b,
                          deleted |-> FALSE]
    OBVIOUS
  <2>2. doc \in ProductDoc
    BY <2>1 DEF ProductDoc
  <2>3. StoreProduct(h, p, doc) /\ products[p] = NoItem
    BY <1>1, <2>1 DEF CreateProduct
  <2>4. CountersOK' /\ orders' = orders
    BY <1>1, BeginCounts DEF CreateProduct
  <2> QED BY <2>2, <2>3, <2>4, StoreProductKeeps
<1>2. ASSUME Have(h, Products), NEW new \in ProductDoc, new.merchant = job[h].doc.merchant,
             new.project = job[h].doc.project, StoreProduct(h, job[h].id, new),
             UNCHANGED <<orders, today, catalogueCalls>>
      PROVE  ShopInv'
  <2>1. PICK p : p = job[h].id
    OBVIOUS
  <2>2. p \in Products /\ ItemCopy(p, job[h].doc)
    BY <1>2, <2>1, HeldCopy DEF Have, Copy, Items
  <2>3. products[p].merchant = new.merchant /\ products[p].project = new.project
    BY <1>2, <2>2 DEF ItemCopy, ItemDoc
  <2>4. CountersOK' /\ orders' = orders
    BY <1>2, CountersKept
  <2> QED BY <1>2, <2>1, <2>2, <2>3, <2>4, StoreProductKeeps
<1>3. ASSUME Have(h, Products) PROVE job[h].doc \in ProductDoc
  BY <1>3, HeldCopy DEF Have, Copy, Items, ItemCopy
<1>4. ASSUME NEW s \in Skus \cup {NoSku}, NEW b \in BOOLEAN, UpdateProduct(h, s, b)
      PROVE  ShopInv'
  <2>1. PICK new : new = [job[h].doc EXCEPT !.sku = s, !.enabled = b, !.deleted = FALSE]
    OBVIOUS
  <2>2. /\ Have(h, Products) /\ StoreProduct(h, job[h].id, new)
        /\ UNCHANGED <<orders, today, catalogueCalls>>
    BY <1>4, <2>1 DEF UpdateProduct
  <2>3. /\ new \in ProductDoc /\ new.merchant = job[h].doc.merchant
        /\ new.project = job[h].doc.project
    <3>1. PICK doc : doc = job[h].doc
      OBVIOUS
    <3>2. doc \in ProductDoc
      BY <1>3, <2>2, <3>1
    <3> QED BY <2>1, <3>1, <3>2 DEF ProductDoc
  <2> QED BY <1>2, <2>2, <2>3
<1>5. ASSUME UpdateProductPrices(h) PROVE ShopInv'
  BY <1>2, <1>3, <1>5 DEF UpdateProductPrices
<1>6. ASSUME DeleteProduct(h) PROVE ShopInv'
  <2>1. job[h].doc \in ProductDoc /\ TRUE \in BOOLEAN
    BY <1>3, <1>6 DEF DeleteProduct
  <2> QED BY <1>2, <1>6, <2>1, ProductFields DEF DeleteProduct
<1> QED BY <1>1, <1>4, <1>5, <1>6

LEMMA KeyProductOpsKeep ==
    ASSUME ShopInv, NEW h \in Handlers
    PROVE  /\ \A k \in KeyProducts, g \in Projects, s \in Skus :
                CreateKeyProduct(h, k, g, s) => ShopInv'
           /\ \A s \in Skus \cup {NoSku} : UpdateKeyProduct(h, s) => ShopInv'
           /\ PublishKeyProduct(h) => ShopInv'
           /\ UnPublishKeyProduct(h) => ShopInv'
           /\ DeleteKeyProduct(h) => ShopInv'
<1>1. ASSUME NEW k \in KeyProducts, NEW g \in Projects, NEW s \in Skus,
             CreateKeyProduct(h, k, g, s)
      PROVE  ShopInv'
  <2>1. PICK m : m = GetProject(g).merchant
    OBVIOUS
  <2>2. m \in Owners
    BY <1>1, <2>1, ProjectFound DEF CreateKeyProduct, ProjectDoc
  <2>3. PICK doc : doc = [merchant |-> m, project |-> g, sku |-> s, enabled |-> FALSE,
                          deleted |-> FALSE]
    OBVIOUS
  <2>4. doc \in ProductDoc
    BY <2>2, <2>3 DEF ProductDoc
  <2>5. StoreKeyProduct(h, k, doc) /\ keyProducts[k] = NoItem
    BY <1>1, <2>1, <2>3 DEF CreateKeyProduct
  <2>6. CountersOK' /\ orders' = orders
    BY <1>1, BeginCounts DEF CreateKeyProduct
  <2> QED BY <2>4, <2>5, <2>6, StoreKeyProductKeeps
<1>2. ASSUME Have(h, KeyProducts), NEW new \in ProductDoc, new.merchant = job[h].doc.merchant,
             new.project = job[h].doc.project, StoreKeyProduct(h, job[h].id, new),
             UNCHANGED <<orders, today, catalogueCalls>>
      PROVE  ShopInv'
  <2>1. PICK k : k = job[h].id
    OBVIOUS
  <2>2. k \in KeyProducts /\ k \notin Products /\ ItemCopy(k, job[h].doc)
    BY <1>2, <2>1, HeldCopy, CatalogueAssumption DEF Have, Copy, Items
  <2>3. keyProducts[k].merchant = new.merchant /\ keyProducts[k].project = new.project
    BY <1>2, <2>2 DEF ItemCopy, ItemDoc
  <2>4. CountersOK' /\ orders' = orders
    BY <1>2, CountersKept
  <2> QED BY <1>2, <2>1, <2>2, <2>3, <2>4, StoreKeyProductKeeps
<1>3. ASSUME Have(h, KeyProducts) PROVE job[h].doc \in ProductDoc
  BY <1>3, HeldCopy DEF Have, Copy, Items, ItemCopy
<1>4. TRUE \in BOOLEAN /\ FALSE \in BOOLEAN
  OBVIOUS
<1>5. ASSUME NEW s \in Skus \cup {NoSku}, UpdateKeyProduct(h, s) PROVE ShopInv'
  BY <1>2, <1>3, <1>5 DEF UpdateKeyProduct
<1>6. ASSUME PublishKeyProduct(h) PROVE ShopInv'
  BY <1>2, <1>3, <1>4, <1>6, ProductFields DEF PublishKeyProduct
<1>7. ASSUME UnPublishKeyProduct(h) PROVE ShopInv'
  BY <1>2, <1>3, <1>4, <1>7, ProductFields DEF UnPublishKeyProduct
<1>8. ASSUME DeleteKeyProduct(h) PROVE ShopInv'
  BY <1>2, <1>3, <1>4, <1>8, ProductFields DEF DeleteKeyProduct
<1> QED BY <1>1, <1>5, <1>6, <1>7, <1>8

\* What LinkAllowed finds out about a link is true of MongoDB.
LEMMA AllowedIsOwned ==
    ASSUME ShopInv, NEW doc \in LinkDoc,
           LinkAllowed(doc.merchant, doc.project, doc.type, doc.items, doc.until)
    PROVE  LinkIsOwned(doc)
<1>1. PICK g, m, items : g = doc.project /\ m = doc.merchant /\ items = doc.items
  OBVIOUS
<1>2. g \in Projects /\ items \in SUBSET Items
  BY <1>1 DEF LinkDoc
<1>3. GetProject(g) # NoItem /\ GetProject(g).merchant = m
  BY <1>1 DEF LinkAllowed
<1>4. projects[g] # NoItem /\ projects[g].merchant = m
  BY <1>2, <1>3, ProjectFound DEF Copy, ProjectCopy
<1>5. \A i \in items : GetItem(i) # NoItem /\ GetItem(i).merchant = m /\ GetItem(i).project = g
  BY <1>1 DEF LinkAllowed, BelongsTo
<1>6. ASSUME NEW i \in items
      PROVE  ItemDoc(i) # NoItem /\ ItemDoc(i).project = g /\ ItemDoc(i).merchant = m
  <2>1. i \in Items /\ GetItem(i) # NoItem
    BY <1>2, <1>5
  <2>2. ItemCopy(i, GetItem(i))
    BY <2>1, ItemFound
  <2> QED BY <2>2, <1>5 DEF ItemCopy
<1> QED BY <1>1, <1>4, <1>6 DEF LinkIsOwned, Owned

LEMMA LinkOpsKeep ==
    ASSUME ShopInv, NEW h \in Handlers
    PROVE  /\ \A l \in Links, m \in Owners, g \in Projects, t \in {"product", "key"},
                 I \in SUBSET Items, u \in 0..LastDay :
                CreatePaylink(h, l, m, g, t, I, u) => ShopInv'
           /\ \A t \in {"product", "key"}, I \in SUBSET Items, u \in 0..LastDay :
                UpdatePaylink(h, t, I, u) => ShopInv'
           /\ DeletePaylink(h) => ShopInv'
           /\ UpdateTotalStat(h) => ShopInv'
<1>1. ASSUME NEW l \in Links, NEW m \in Owners, NEW g \in Projects, NEW t \in {"product", "key"},
             NEW I \in SUBSET Items, NEW u \in 0..LastDay, CreatePaylink(h, l, m, g, t, I, u)
      PROVE  ShopInv'
  <2>1. PICK doc : doc = [merchant |-> m, project |-> g, type |-> t, items |-> I, until |-> u,
                          deleted |-> FALSE]
    OBVIOUS
  <2>2. /\ doc \in LinkDoc /\ doc.merchant = m /\ doc.project = g /\ doc.type = t
        /\ doc.items = I /\ doc.until = u
    BY <2>1 DEF LinkDoc
  <2>3. /\ LinkAllowed(m, g, t, I, u) /\ LinkWritten(l, doc) /\ links[l] = NoItem
        /\ Set(h, "cache", l, doc) /\ UNCHANGED <<projects, products, keyProducts, caches>>
    BY <1>1, <2>1 DEF CreatePaylink, InsertLink, NewLink, LinkWritten
  <2>4. LinkIsOwned(doc)
    BY <2>2, <2>3, AllowedIsOwned
  <2>5. CountersOK' /\ orders' = orders
    BY <1>1, BeginCounts DEF CreatePaylink
  <2> QED BY <2>2, <2>3, <2>4, <2>5, StoreLinkKeeps
<1>2. ASSUME Have(h, Links)
      PROVE  /\ job[h].id \in Links /\ Copy(job[h].id, job[h].doc)
             /\ LinkCopy(job[h].id, job[h].doc)
  BY <1>2, HeldCopy DEF Have, Copy
<1>3. ASSUME NEW t \in {"product", "key"}, NEW I \in SUBSET Items, NEW u \in 0..LastDay,
             UpdatePaylink(h, t, I, u)
      PROVE  ShopInv'
  <2>1. PICK l, doc, new : /\ l = job[h].id /\ doc = job[h].doc
                           /\ new = [doc EXCEPT !.type = t, !.items = I, !.until = u]
    OBVIOUS
  <2>2. /\ LinkAllowed(doc.merchant, doc.project, t, I, u) /\ UpdateLink(h, l, new)
        /\ Have(h, Links) /\ UNCHANGED <<orders, today, catalogueCalls>>
    BY <1>3, <2>1 DEF UpdatePaylink
  <2>3. l \in Links /\ Copy(l, doc) /\ LinkCopy(l, doc)
    BY <1>2, <2>1, <2>2
  <2>4. doc \in LinkDoc
    BY <2>3 DEF LinkCopy
  <2>5. /\ new \in LinkDoc /\ new.merchant = doc.merchant /\ new.project = doc.project
        /\ new.type = t /\ new.items = I /\ new.until = u
    BY <2>1, <2>4 DEF LinkDoc
  <2>6. LinkIsOwned(new)
    BY <2>2, <2>5, AllowedIsOwned
  <2>7. Copy(l, new)
    BY <2>3, <2>5, <2>6, CatalogueAssumption DEF Copy, LinkCopy
  <2>8. CountersOK' /\ orders' = orders
    BY <2>2, CountersKept
  <2> QED BY <2>2, <2>3, <2>7, <2>8, UpdateLinkKeeps
<1>4. ASSUME DeletePaylink(h) PROVE ShopInv'
  <2>1. PICK l, doc, new : l = job[h].id /\ doc = job[h].doc /\ new = [doc EXCEPT !.deleted = TRUE]
    OBVIOUS
  <2>2. /\ ReplaceLink(h, l, new) /\ Have(h, Links)
        /\ UNCHANGED <<orders, today, catalogueCalls>>
    BY <1>4, <2>1 DEF DeletePaylink
  <2>3. l \in Links /\ LinkCopy(l, doc)
    BY <1>2, <2>1, <2>2
  <2>4. /\ new \in LinkDoc /\ new.merchant = doc.merchant /\ new.project = doc.project
        /\ new.items = doc.items
    BY <2>1, <2>3 DEF LinkCopy, LinkDoc
  <2>5. /\ LinkIsOwned(new)
        /\ links[l] # NoItem => links[l].merchant = new.merchant /\ links[l].project = new.project
    BY <2>3, <2>4 DEF LinkCopy, LinkIsOwned
  <2>6. /\ LinkWritten(l, new) /\ Set(h, "cache", l, new)
        /\ UNCHANGED <<projects, products, keyProducts, caches>>
    BY <2>2 DEF ReplaceLink, LinkWritten
  <2>7. CountersOK' /\ orders' = orders
    BY <2>2, CountersKept
  <2> QED BY <2>3, <2>4, <2>5, <2>6, <2>7, StoreLinkKeeps
<1>5. ASSUME UpdateTotalStat(h) PROVE ShopInv'
  <2>1. PICK l, doc : l = job[h].id /\ doc = job[h].doc
    OBVIOUS
  <2>2. /\ Set(h, "cache", l, doc) /\ Have(h, Links) /\ UNCHANGED <<stores, caches>>
        /\ UNCHANGED <<orders, today, catalogueCalls>>
    BY <1>5, <2>1 DEF UpdateTotalStat
  <2>3. Copy(l, doc) /\ doc \in Docs
    BY <1>2, <2>1, <2>2 DEF LinkCopy, Docs
  <2>4. StoresOK' /\ LinksInv' /\ OwnersKept
    BY <2>2, StoresUnchanged
  <2>5. Copy(l, doc)'
    BY <2>2, <2>3, <2>4, CopyKept DEF stores
  <2>6. Moved(h)
    BY <2>2, <2>3, <2>5, SetMoves
  <2>7. CountersOK' /\ orders' = orders
    BY <2>2, CountersKept
  <2> QED BY <2>2, <2>4, <2>6, <2>7, StepKeeps
<1> QED BY <1>1, <1>3, <1>4, <1>5

\* A request that ends without writing.
LEMMA RefuseKeeps ==
    ASSUME ShopInv, NEW h \in Handlers, Refuse(h)
    PROVE  ShopInv'
<1>1. StoresOK' /\ LinksInv' /\ OwnersKept
  BY StoresUnchanged DEF Refuse
<1>2. Moved(h) /\ UNCHANGED caches
  BY EndMoves DEF Refuse
<1>3. CountersOK' /\ orders' = orders
  BY CountersKept DEF Refuse
<1> QED BY <1>1, <1>2, <1>3, StepKeeps

\* The order takes its items from the link that was read, which is owned.
LEMMA OrderKeeps ==
    ASSUME ShopInv, NEW h \in Handlers, OrderCreateByPaylink(h)
    PROVE  ShopInv'
<1>1. PICK l, doc, o : /\ l = job[h].id /\ doc = job[h].doc
                       /\ o = [link |-> l, project |-> doc.project, items |-> doc.items]
  OBVIOUS
<1>2. /\ Have(h, Links) /\ End(h) /\ orders' = orders \cup {o}
      /\ UNCHANGED stores /\ UNCHANGED caches /\ UNCHANGED <<today, catalogueCalls>>
  BY <1>1 DEF OrderCreateByPaylink
<1>3. l \in Links /\ LinkCopy(l, doc)
  BY <1>1, <1>2, HeldCopy DEF Have, Copy
<1>4. /\ o.project \in Projects /\ o.link \in Links /\ o.items \subseteq Items
      /\ Owned(o.project, o.items)
  BY <1>1, <1>3 DEF LinkCopy, LinkDoc, LinkIsOwned
<1>5. OrdersOK'
  BY <1>2, <1>4 DEF ShopInv, TypeInv, OrdersOK
<1>6. \A x \in orders : Owned(x.project, x.items)
  BY DEF ShopInv, CopiesInv, OrdersInv
<1>7. StoresOK' /\ LinksInv' /\ OwnersKept
  BY <1>2, StoresUnchanged
<1>8. ASSUME NEW x \in orders' PROVE Owned(x.project, x.items)'
  <2>1. x.project \in Projects /\ x.items \in SUBSET Items /\ Owned(x.project, x.items)
    BY <1>2, <1>4, <1>6, <1>8 DEF ShopInv, TypeInv, OrdersOK
  <2> QED BY <2>1, <1>7, OwnedKept
<1>9. OrdersInv'
  BY <1>8 DEF OrdersInv
<1>10. CountersOK' /\ CachesOK'
  BY <1>2 DEF ShopInv, TypeInv, CountersOK, CachesOK, caches
<1>11. CachesInv'
  BY <1>2, <1>7, CachesKept DEF ShopInv, CopiesInv
<1>12. Moved(h)
  BY <1>2, EndMoves
<1>13. ASSUME NEW x \in Handlers, job'[x].pc # "idle" PROVE Copy(job[x].id, job[x].doc)'
  <2>1. CASE x = h
    BY <1>13, <2>1, <1>12 DEF Moved
  <2>2. CASE x # h
    <3>1. PICK id, d : id = job[x].id /\ d = job[x].doc
      OBVIOUS
    <3>2. job'[x] = job[x] /\ Copy(id, d)
      BY <1>13, <2>2, <3>1, <1>12, HeldCopy DEF Moved
    <3>3. Copy(id, d)' /\ id = job'[x].id /\ d = job'[x].doc
      BY <3>1, <3>2, <1>2, <1>7, CopyKept DEF stores
    <3> QED BY <3>3
  <2> QED BY <2>1, <2>2
<1>14. JobsInv'
  BY <1>13 DEF JobsInv
<1> QED BY <1>5, <1>7, <1>9, <1>10, <1>11, <1>12, <1>14 DEF ShopInv, TypeInv, CopiesInv, Moved

\* What goes to the cache is the copy of the request.
LEMMA WriteCacheKeeps ==
    ASSUME ShopInv, NEW h \in Handlers, WriteCache(h)
    PROVE  ShopInv'
<1>1. PICK id, doc : id = job[h].id /\ doc = job[h].doc
  OBVIOUS
<1>2. /\ job[h].pc \in {"fill", "cache"}
      /\ IF job[h].pc = "fill" THEN Set(h, "have", id, doc) ELSE End(h)
      /\ \/ CacheProject(id, doc) /\ UNCHANGED <<productCache, linkCache>>
         \/ CacheProduct(id, doc) /\ UNCHANGED <<projectCache, linkCache>>
         \/ UpdateLinkCaches(id, doc) /\ UNCHANGED <<projectCache, productCache>>
      /\ UNCHANGED stores /\ UNCHANGED <<orders, today, catalogueCalls>>
  BY <1>1 DEF WriteCache
<1>3. Copy(id, doc)
  BY <1>1, <1>2, HeldCopy
<1>4. doc \in Docs
  BY <1>3 DEF Copy, Ids, ProjectCopy, ItemCopy, LinkCopy, Docs
<1>5. StoresOK' /\ LinksInv' /\ OwnersKept
  BY <1>2, StoresUnchanged
<1>6. Copy(id, doc)'
  BY <1>2, <1>3, <1>5, CopyKept DEF stores
<1>7. Moved(h)
  <2>1. CASE job[h].pc = "fill"
    BY <2>1, <1>2, <1>4, <1>6, SetMoves
  <2>2. CASE job[h].pc # "fill"
    BY <2>2, <1>2, EndMoves
  <2> QED BY <2>1, <2>2
<1>8. CountersOK' /\ orders' = orders
  BY <1>2, CountersKept
\* The same step without the write to the cache.
<1>9. JobsInv' /\ OrdersInv' /\ OrdersOK'
  <2>1. ASSUME NEW x \in Handlers, job'[x].pc # "idle" PROVE Copy(job[x].id, job[x].doc)'
    <3>1. CASE x = h
      BY <2>1, <3>1, <1>7 DEF Moved
    <3>2. CASE x # h
      <4>1. PICK i, d : i = job[x].id /\ d = job[x].doc
        OBVIOUS
      <4>2. job'[x] = job[x] /\ Copy(i, d)
        BY <2>1, <3>2, <4>1, <1>7, HeldCopy DEF Moved
      <4>3. Copy(i, d)' /\ i = job'[x].id /\ d = job'[x].doc
        BY <4>1, <4>2, <1>2, <1>5, CopyKept DEF stores
      <4> QED BY <4>3
    <3> QED BY <3>1, <3>2
  <2>2. ASSUME NEW o \in orders PROVE Owned(o.project, o.items)'
    <3>1. o.project \in Projects /\ o.items \in SUBSET Items /\ Owned(o.project, o.items)
      BY DEF ShopInv, TypeInv, CopiesInv, OrdersOK, OrdersInv
    <3> QED BY <3>1, <1>5, OwnedKept
  <2> QED BY <2>1, <2>2, <1>8 DEF JobsInv, OrdersInv, ShopInv, TypeInv, OrdersOK
<1>10. Live(doc) = doc \/ Live(doc) = NoItem
  BY DEF Live
<1>11. CachesOK'
  BY <1>2, <1>3, <1>10 DEF ShopInv, TypeInv, CachesOK, CacheProject, CacheProduct,
     UpdateLinkCaches, Copy, ProjectCopy, ItemCopy, LinkCopy, Items
<1>12. ASSUME NEW g \in Projects, projectCache'[g] # NoItem
       PROVE  ProjectCopy(g, projectCache[g])'
  <2>1. PICK d : d = projectCache'[g]
    OBVIOUS
  <2>2. (g = id /\ d = doc) \/ d = projectCache[g]
    BY <1>2, <2>1 DEF CacheProject, ShopInv, TypeInv, CachesOK
  <2>3. Copy(g, d)
    BY <2>1, <2>2, <1>3, <1>12, CatalogueAssumption
       DEF ShopInv, CopiesInv, CachesInv, Copy, Ids
  <2>4. Copy(g, d)'
    BY <1>2, <2>3, <1>5, CopyKept DEF stores
  <2> QED BY <2>1, <2>4 DEF Copy
<1>13. ASSUME NEW p \in Products, productCache'[p] # NoItem
       PROVE  ItemCopy(p, productCache[p])'
  <2>1. PICK d : d = productCache'[p]
    OBVIOUS
  <2>2. (p = id /\ d = doc) \/ d = productCache[p]
    BY <1>2, <2>1 DEF CacheProduct, ShopInv, TypeInv, CachesOK
  <2>3. Copy(p, d)
    BY <2>1, <2>2, <1>3, <1>13, CatalogueAssumption
       DEF ShopInv, CopiesInv, CachesInv, Copy, Ids, Items
  <2>4. Copy(p, d)'
    BY <1>2, <2>3, <1>5, CopyKept DEF stores
  <2> QED BY <2>1, <2>4 DEF Copy, Items
<1>14. ASSUME NEW l \in Links, linkCache'[l] # NoItem
       PROVE  LinkCopy(l, linkCache[l])'
  <2>1. PICK d : d = linkCache'[l]
    OBVIOUS
  <2>2. (l = id /\ d = doc) \/ d = linkCache[l]
    BY <1>2, <1>10, <1>14, <2>1 DEF UpdateLinkCaches, ShopInv, TypeInv, CachesOK
  <2>3. Copy(l, d)
    BY <2>1, <2>2, <1>3, <1>14, CatalogueAssumption
       DEF ShopInv, CopiesInv, CachesInv, Copy, Ids
  <2>4. Copy(l, d)'
    BY <1>2, <2>3, <1>5, CopyKept DEF stores
  <2> QED BY <2>1, <2>4 DEF Copy
<1>15. CachesInv'
  BY <1>12, <1>13, <1>14 DEF CachesInv
<1> QED BY <1>5, <1>7, <1>8, <1>9, <1>11, <1>15 DEF ShopInv, TypeInv, CopiesInv, Moved

LEMMA ReadsKeep ==
    ASSUME ShopInv, NEW h \in Handlers
    PROVE  /\ \A g \in Projects : ReadProject(h, g) => ShopInv'
           /\ \A p \in Products : ReadProduct(h, p) => ShopInv'
           /\ \A k \in KeyProducts : ReadKeyProduct(h, k) => ShopInv'
           /\ \A l \in Links : ReadLink(h, l) => ShopInv'
<1>1. \A d \in ProjectDoc \cup ProductDoc \cup LinkDoc : d \in Docs
  BY DEF Docs
<1>2. ASSUME NEW g \in Projects, ReadProject(h, g) PROVE ShopInv'
  <2>1. Read(h, g, GetProject(g), projectCache[g] # NoItem) /\ GetProject(g) # NoItem
    BY <1>2 DEF ReadProject, Read
  <2> QED BY <2>1, <1>1, ProjectFound, ReadKeeps
<1>3. ASSUME NEW p \in Products, ReadProduct(h, p) PROVE ShopInv'
  <2>1. Read(h, p, GetProduct(p), productCache[p] # NoItem) /\ GetProduct(p) # NoItem
    BY <1>3 DEF ReadProduct, Read
  <2> QED BY <2>1, <1>1, ProductFound, ReadKeeps
<1>4. ASSUME NEW k \in KeyProducts, ReadKeyProduct(h, k) PROVE ShopInv'
  <2>1. Read(h, k, GetKeyProduct(k), TRUE) /\ GetKeyProduct(k) # NoItem
    BY <1>4 DEF ReadKeyProduct, Read
  <2> QED BY <2>1, <1>1, KeyProductFound, ReadKeeps
<1>5. ASSUME NEW l \in Links, ReadLink(h, l) PROVE ShopInv'
  <2>1. Read(h, l, GetLink(l), linkCache[l] # NoItem) /\ GetLink(l) # NoItem
    BY <1>5 DEF ReadLink, Read
  <2> QED BY <2>1, <1>1, LinkFound, ReadKeeps
<1> QED BY <1>2, <1>3, <1>4, <1>5

LEMMA NextDayKeeps ==
    ASSUME ShopInv, NextDay
    PROVE  ShopInv'
<1>1. /\ UNCHANGED stores /\ UNCHANGED caches /\ job' = job /\ orders' = orders
      /\ today < LastDay /\ today' = today + 1 /\ catalogueCalls' = catalogueCalls
  BY DEF NextDay
<1>2. CountersOK'
  BY <1>1, CatalogueAssumption DEF ShopInv, TypeInv, CountersOK
<1>3. TypeInv'
  BY <1>1, <1>2, StoresUnchanged DEF ShopInv, TypeInv, CachesOK, OrdersOK, caches
<1>4. CopiesInv'
  BY <1>1 DEF ShopInv, CopiesInv, JobsInv, CachesInv, LinksInv, OrdersInv, Copy, ProjectCopy,
     ItemCopy, LinkCopy, LinkIsOwned, Owned, ItemDoc, stores, caches
<1> QED BY <1>3, <1>4 DEF ShopInv

LEMMA StutterKeeps ==
    ASSUME ShopInv, UNCHANGED catalogueVars
    PROVE  ShopInv'
<1>1. /\ UNCHANGED stores /\ UNCHANGED caches /\ job' = job /\ orders' = orders
      /\ today' = today /\ catalogueCalls' = catalogueCalls
  BY DEF catalogueVars
<1>2. TypeInv'
  BY <1>1, StoresUnchanged DEF ShopInv, TypeInv, CachesOK, OrdersOK, CountersOK, caches
<1>3. CopiesInv'
  BY <1>1 DEF ShopInv, CopiesInv, JobsInv, CachesInv, LinksInv, OrdersInv, Copy, ProjectCopy,
     ItemCopy, LinkCopy, LinkIsOwned, Owned, ItemDoc, stores, caches
<1> QED BY <1>2, <1>3 DEF ShopInv

LEMMA InitHolds ==
    ASSUME CatalogueInit
    PROVE  ShopInv
<1>1. /\ productCache = [p \in Products |-> NoItem] /\ linkCache = [l \in Links |-> NoItem]
      /\ products = [p \in Products |-> NoItem] /\ links = [l \in Links |-> NoItem]
      /\ keyProducts = [k \in KeyProducts |-> NoItem]
      /\ projectCache = [g \in Projects |-> NoItem]
      /\ job = [h \in Handlers |-> Free] /\ orders = {} /\ today = 1 /\ catalogueCalls = 0
  BY DEF CatalogueInit
<1>2. [merchant : Owners, status : {"draft"}] \subseteq ProjectDoc
  BY DEF ProjectDoc
<1>3. StoresOK
  BY <1>1, <1>2 DEF StoresOK, CatalogueInit
<1>4. CachesOK
  BY <1>1 DEF CachesOK
<1>5. Free \in Jobs /\ Free.pc = "idle"
  BY DEF Free, Jobs, Docs
<1>6. job \in [Handlers -> Jobs] /\ JobsInv
  BY <1>1, <1>5 DEF JobsInv
<1>7. OrdersOK /\ OrdersInv /\ CountersOK
  BY <1>1, CatalogueAssumption DEF OrdersOK, OrdersInv, CountersOK
<1>8. CachesInv /\ LinksInv
  BY <1>1 DEF CachesInv, LinksInv
<1> QED BY <1>3, <1>4, <1>6, <1>7, <1>8 DEF ShopInv, TypeInv, CopiesInv

LEMMA NextKeeps ==
    ASSUME ShopInv, CatalogueNext
    PROVE  ShopInv'
<1>1. ASSUME NextDay PROVE ShopInv'
  BY <1>1, NextDayKeeps
<1>2. ASSUME ~NextDay PROVE ShopInv'
  <2>1. PICK h \in Handlers :
         \/ \E g \in Projects :
              \/ ReadProject(h, g)
              \/ \E m \in Owners : CreateProject(h, g, m)
         \/ \E s \in {"draft", "production", "deleted"} : ChangeProject(h, s)
         \/ DeleteProject(h)
         \/ \E p \in Products :
              \/ ReadProduct(h, p)
              \/ \E m \in Owners, g \in Projects, s \in Skus, b \in BOOLEAN :
                   CreateProduct(h, p, m, g, s, b)
         \/ \E s \in Skus \cup {NoSku}, b \in BOOLEAN : UpdateProduct(h, s, b)
         \/ UpdateProductPrices(h)
         \/ DeleteProduct(h)
         \/ \E k \in KeyProducts :
              \/ ReadKeyProduct(h, k)
              \/ \E g \in Projects, s \in Skus : CreateKeyProduct(h, k, g, s)
         \/ \E s \in Skus \cup {NoSku} : UpdateKeyProduct(h, s)
         \/ PublishKeyProduct(h)
         \/ UnPublishKeyProduct(h)
         \/ DeleteKeyProduct(h)
         \/ \E l \in Links :
              \/ ReadLink(h, l)
              \/ \E m \in Owners, g \in Projects, t \in {"product", "key"},
                    I \in SUBSET Items, u \in 0..LastDay :
                   CreatePaylink(h, l, m, g, t, I, u)
         \/ \E t \in {"product", "key"}, I \in SUBSET Items, u \in 0..LastDay :
              UpdatePaylink(h, t, I, u)
         \/ DeletePaylink(h)
         \/ UpdateTotalStat(h)
         \/ OrderCreateByPaylink(h)
         \/ WriteCache(h)
         \/ Refuse(h)
    BY <1>2, Zenon DEF CatalogueNext
  <2>2. CASE \/ \E g \in Projects : ReadProject(h, g) \/ \E m \in Owners : CreateProject(h, g, m)
             \/ \E s \in {"draft", "production", "deleted"} : ChangeProject(h, s)
             \/ DeleteProject(h)
    BY <2>2, ReadsKeep, ProjectOpsKeep, Zenon
  <2>3. CASE \/ \E p \in Products :
                  \/ ReadProduct(h, p)
                  \/ \E m \in Owners, g \in Projects, s \in Skus, b \in BOOLEAN :
                       CreateProduct(h, p, m, g, s, b)
             \/ \E s \in Skus \cup {NoSku}, b \in BOOLEAN : UpdateProduct(h, s, b)
             \/ UpdateProductPrices(h)
             \/ DeleteProduct(h)
    BY <2>3, ReadsKeep, ProductOpsKeep, Zenon
  <2>4. CASE \/ \E k \in KeyProducts :
                  \/ ReadKeyProduct(h, k)
                  \/ \E g \in Projects, s \in Skus : CreateKeyProduct(h, k, g, s)
             \/ \E s \in Skus \cup {NoSku} : UpdateKeyProduct(h, s)
             \/ PublishKeyProduct(h) \/ UnPublishKeyProduct(h) \/ DeleteKeyProduct(h)
    BY <2>4, ReadsKeep, KeyProductOpsKeep, Zenon
  <2>5. CASE \/ \E l \in Links :
                  \/ ReadLink(h, l)
                  \/ \E m \in Owners, g \in Projects, t \in {"product", "key"},
                        I \in SUBSET Items, u \in 0..LastDay :
                       CreatePaylink(h, l, m, g, t, I, u)
             \/ \E t \in {"product", "key"}, I \in SUBSET Items, u \in 0..LastDay :
                  UpdatePaylink(h, t, I, u)
             \/ DeletePaylink(h) \/ UpdateTotalStat(h)
    BY <2>5, ReadsKeep, LinkOpsKeep, Zenon
  <2>6. CASE OrderCreateByPaylink(h) \/ WriteCache(h) \/ Refuse(h)
    BY <2>6, OrderKeeps, WriteCacheKeeps, RefuseKeeps, Zenon
  <2> QED BY <2>1, <2>2, <2>3, <2>4, <2>5, <2>6, Zenon
<1> QED BY <1>1, <1>2

LEMMA ShopInvariant == CatalogueSpec => []ShopInv
<1>1. CatalogueInit => ShopInv
  BY InitHolds
<1>2. ShopInv /\ [CatalogueNext]_catalogueVars => ShopInv'
  BY NextKeeps, StutterKeeps
<1> QED BY <1>1, <1>2, PTL DEF CatalogueSpec

-----------------------------------------------------------------------------
\* Whatever requests overlap, documents, caches and requests have their types: a request that
\* has read the document of a product never writes it as a link.
THEOREM CatalogueTypeCorrect == CatalogueSpec => []CatalogueTypeOK
<1>1. ShopInv => CatalogueTypeOK
  <2> SUFFICES ASSUME ShopInv PROVE CatalogueTypeOK
    OBVIOUS
  <2>1. ASSUME NEW h \in Handlers
        PROVE  /\ job[h].pc \in {"idle", "fill", "have", "cache"}
               /\ job[h].id \in Projects \cup Items \cup Links \cup {NoItem}
               /\ job[h].doc \in ProjectDoc \cup ProductDoc \cup LinkDoc \cup {NoItem}
    <3>1. job[h] \in Jobs
      BY DEF ShopInv, TypeInv
    <3> QED BY <3>1 DEF Jobs, Ids, Docs
  <2> QED BY <2>1 DEF ShopInv, TypeInv, StoresOK, CachesOK, OrdersOK, CountersOK, CatalogueTypeOK
<1> QED BY <1>1, ShopInvariant, PTL

\* An order made through a link has only items of the project it is for, and they belong to
\* the merchant of that project (OrderCreateByPaylink asks for neither): with any number of
\* requests that read, change, delete, publish and order at the same time and with caches
\* that are behind.
THEOREM ItemsAreTheSellers == CatalogueSpec => []SoldByOwner
<1>1. ShopInv => SoldByOwner
  BY DEF ShopInv, CopiesInv, OrdersInv, Owned, SoldByOwner
<1> QED BY <1>1, ShopInvariant, PTL

\* Of the operations only three write links: one needs that there is none, one sets the mark
\* and one leaves the mark alone.
LEMMA MarkKept ==
    ASSUME ShopInv, NEW h \in Handlers, NEW l \in Links, links[l] # NoItem, links[l].deleted
    PROVE  /\ \A x \in Links, m \in Owners, g \in Projects, t \in {"product", "key"},
                 I \in SUBSET Items, u \in 0..LastDay :
                CreatePaylink(h, x, m, g, t, I, u) => links'[l].deleted
           /\ \A t \in {"product", "key"}, I \in SUBSET Items, u \in 0..LastDay :
                UpdatePaylink(h, t, I, u) => links'[l].deleted
           /\ DeletePaylink(h) => links'[l].deleted
<1>1. ASSUME NEW x \in Links, NEW m \in Owners, NEW g \in Projects, NEW t \in {"product", "key"},
             NEW I \in SUBSET Items, NEW u \in 0..LastDay, CreatePaylink(h, x, m, g, t, I, u)
      PROVE  links'[l].deleted
  <2>1. links[x] = NoItem /\ links'[l] = links[l]
    BY <1>1 DEF CreatePaylink, NewLink, InsertLink, ShopInv, TypeInv, StoresOK
  <2> QED BY <2>1
<1>2. ASSUME Have(h, Links)
      PROVE  job[h].id \in Links /\ Copy(job[h].id, job[h].doc) /\ LinkCopy(job[h].id, job[h].doc)
  BY <1>2, HeldCopy DEF Have, Copy
<1>3. ASSUME NEW t \in {"product", "key"}, NEW I \in SUBSET Items, NEW u \in 0..LastDay,
             UpdatePaylink(h, t, I, u)
      PROVE  links'[l].deleted
  <2>1. PICK x, doc, new : /\ x = job[h].id /\ doc = job[h].doc
                           /\ new = [doc EXCEPT !.type = t, !.items = I, !.until = u]
    OBVIOUS
  <2>2. /\ LinkAllowed(doc.merchant, doc.project, t, I, u) /\ UpdateLink(h, x, new)
        /\ Have(h, Links)
    BY <1>3, <2>1 DEF UpdatePaylink
  <2>3. x \in Links /\ Copy(x, doc) /\ LinkCopy(x, doc)
    BY <1>2, <2>1, <2>2
  <2>4. /\ new \in LinkDoc /\ new.merchant = doc.merchant /\ new.project = doc.project
        /\ new.type = t /\ new.items = I /\ new.until = u
    BY <2>1, <2>3 DEF LinkCopy, LinkDoc
  <2>5. LinkIsOwned(new)
    BY <2>2, <2>4, AllowedIsOwned
  <2>6. Copy(x, new)
    BY <2>3, <2>4, <2>5, CatalogueAssumption DEF Copy, LinkCopy
  <2>7. (links[x] # NoItem => links'[x].deleted = links[x].deleted) /\ \A y \in Links : y # x => links'[y] = links[y]
    BY <2>2, <2>3, <2>6, LinkUpdated
  <2>8. CASE l = x
    BY <2>7, <2>8
  <2>9. CASE l # x
    BY <2>7, <2>9
  <2> QED BY <2>8, <2>9
<1>4. ASSUME DeletePaylink(h) PROVE links'[l].deleted
  <2>1. PICK x, doc, new : x = job[h].id /\ doc = job[h].doc /\ new = [doc EXCEPT !.deleted = TRUE]
    OBVIOUS
  <2>2. ReplaceLink(h, x, new) /\ Have(h, Links)
    BY <1>4, <2>1 DEF DeletePaylink
  <2>3. x \in Links /\ LinkCopy(x, doc)
    BY <1>2, <2>1, <2>2
  <2>4. new.deleted = TRUE
    BY <2>1, <2>3 DEF LinkCopy, LinkDoc
  <2>5. /\ links' = IF links[x] # NoItem THEN [links EXCEPT ![x] = new] ELSE links
        /\ links \in [Links -> LinkDoc \cup {NoItem}]
    BY <2>2 DEF ReplaceLink, ShopInv, TypeInv, StoresOK
  <2>6. CASE l = x
    BY <2>3, <2>4, <2>5, <2>6
  <2>7. CASE l # x
    BY <2>5, <2>7
  <2> QED BY <2>6, <2>7
<1> QED BY <1>1, <1>3, <1>4

\* A link that was deleted stays deleted in MongoDB, also if an update or the statistics of an
\* order had read it before.
THEOREM DeletedForGood == CatalogueSpec => DeletedLinkStaysDeleted
<1>1. ShopInv /\ [CatalogueNext]_catalogueVars =>
        [\A l \in Links : links[l] # NoItem /\ links[l].deleted => links'[l].deleted]_catalogueVars
  <2> SUFFICES ASSUME ShopInv, CatalogueNext, NEW l \in Links, links[l] # NoItem, links[l].deleted
               PROVE  links'[l].deleted
    OBVIOUS
  <2>1. CASE links' = links
    BY <2>1
  <2>2. CASE links' # links
    <3>1. PICK h \in Handlers :
             \/ \E x \in Links, m \in Owners, g \in Projects, t \in {"product", "key"},
                   I \in SUBSET Items, u \in 0..LastDay : CreatePaylink(h, x, m, g, t, I, u)
             \/ \E t \in {"product", "key"}, I \in SUBSET Items, u \in 0..LastDay :
                  UpdatePaylink(h, t, I, u)
             \/ DeletePaylink(h)
      <4>1. ~NextDay
        BY <2>2 DEF NextDay, stores
      <4>2. ASSUME NEW h \in Handlers
            PROVE  /\ \A id, found, cached : ~Read(h, id, found, cached)
                   /\ \A g, doc : ~StoreProject(h, g, doc)
                   /\ \A p, doc : ~StoreProduct(h, p, doc)
                   /\ \A k, doc : ~StoreKeyProduct(h, k, doc)
                   /\ ~UpdateTotalStat(h) /\ ~OrderCreateByPaylink(h) /\ ~WriteCache(h)
                   /\ ~Refuse(h)
        BY <2>2 DEF Read, StoreProject, StoreProduct, StoreKeyProduct, UpdateTotalStat,
           OrderCreateByPaylink, WriteCache, Refuse, stores
      <4>3. ASSUME NEW h \in Handlers
            PROVE  /\ \A g : ~ReadProject(h, g)
                   /\ \A g, m : ~CreateProject(h, g, m)
                   /\ \A s : ~ChangeProject(h, s)
                   /\ ~DeleteProject(h)
                   /\ \A p : ~ReadProduct(h, p)
                   /\ \A p, m, g, s, b : ~CreateProduct(h, p, m, g, s, b)
                   /\ \A s, b : ~UpdateProduct(h, s, b)
                   /\ ~UpdateProductPrices(h) /\ ~DeleteProduct(h)
                   /\ \A k : ~ReadKeyProduct(h, k)
                   /\ \A k, g, s : ~CreateKeyProduct(h, k, g, s)
                   /\ \A s : ~UpdateKeyProduct(h, s)
                   /\ ~PublishKeyProduct(h) /\ ~UnPublishKeyProduct(h) /\ ~DeleteKeyProduct(h)
                   /\ \A x : ~ReadLink(h, x)
        BY <4>2, Zenon DEF ReadProject, CreateProject, ChangeProject, DeleteProject, ReadProduct,
           CreateProduct, UpdateProduct, UpdateProductPrices, DeleteProduct, ReadKeyProduct,
           CreateKeyProduct, UpdateKeyProduct, PublishKeyProduct, UnPublishKeyProduct,
           DeleteKeyProduct, ReadLink
      <4> QED BY <4>1, <4>2, <4>3, Zenon DEF CatalogueNext
    <3> QED BY <3>1, MarkKept
  <2> QED BY <2>1, <2>2
<1> QED BY <1>1, ShopInvariant, PTL DEF CatalogueSpec, DeletedLinkStaysDeleted

-----------------------------------------------------------------------------
(* The tables of costs.                                                    *)

ClerkDoc ==
    [pc : {"idle", "remember", "insert", "invalidate"}, key : Keys \cup {AllCosts},
     id : CostIds \cup {NoCost}, doc : CostDoc \cup {NoCost}, found : SUBSET Found]

LastDoc == [id : CostIds, doc : CostDoc] \cup {NoCost}

\* A request that writes has a document and its id; what is inserted after a deletion is
\* active.
ClerkType(q) ==
    /\ q \in ClerkDoc
    /\ q.pc = "idle" => q = AtDesk
    /\ q.pc \in {"insert", "invalidate"} => q.id \in CostIds /\ q.doc \in CostDoc
    /\ q.pc = "insert" => q.doc.active

CostTypeInv ==
    /\ table \in Tables
    /\ costDocs \in [CostIds -> CostDoc \cup {NoCost}]
    /\ foundCache = [k \in Keys \cup {AllCosts} |-> foundCache[k]]
    /\ \A k \in Keys \cup {AllCosts} : foundCache[k] = NoCost \/ foundCache[k] \subseteq Found
    /\ idCache \in [CostIds -> CostDoc \cup {NoCost}]
    /\ clerk = [p \in Clerks |-> clerk[p]]
    /\ \A p \in Clerks : ClerkType(clerk[p])
    /\ lastSet \in LastDoc
    /\ costEdits \in 0 .. MaxCostEdits
    /\ costOverlaps \in Nat /\ costFailures \in Nat
    /\ costOverlaps + costFailures <= MaxCostTroubles

\* The unique index: one active cost for each country and start.
Active(x) == costDocs[x] # NoCost /\ costDocs[x].active

OneActive ==
    \A x, y \in CostIds : x # y /\ Active(x) /\ Active(y) =>
        costDocs[x].country # costDocs[y].country \/ costDocs[x].start # costDocs[y].start

\* The payment costs of the systems do not depend on an amount.
SystemStart ==
    table = "paymentSystem" =>
        \A x \in CostIds : Active(x) => costDocs[x].start = Min(Starts)

\* The documents that were found say that the cost is the given one, where it starts.
Says(t, found, last) ==
    last.value =
        IF t # "paymentSystem" THEN GetPaymentChannelCostMerchant(found, last.country, last.start)
        ELSE IF found = {} THEN NoCost ELSE (CHOOSE f \in found : TRUE)[2].value

\* They say so of the cost that was set last.
SaysLast(found) == Says(table, found, lastSet.doc)

\* The cost that was set last is in MongoDB.
Stored == lastSet # NoCost /\ costDocs[lastSet.id] = lastSet.doc

LastStored == lastSet # NoCost => lastSet.doc.active /\ (Stored \/ NotSet(lastSet))

\* While requests do not overlap and nothing fails: what is known of the cost that was set
\* last, by the request that set it, by one that looked it up, or else by the cache.
LastKnown ==
    Stored =>
        /\ \A p \in Clerks : clerk[p].pc # "insert"
        /\ \A p \in Clerks : clerk[p].pc = "invalidate" => clerk[p].doc = lastSet.doc
        /\ \A p \in Clerks : clerk[p].pc = "remember" /\ clerk[p].key = lastSet.doc.country
                                => SaysLast(clerk[p].found)
        /\ \/ \E p \in Clerks : clerk[p].pc = "invalidate"
           \/ foundCache[lastSet.doc.country] = NoCost
           \/ SaysLast(foundCache[lastSet.doc.country])

OneClerk == \A p, q \in Clerks : clerk[p] # AtDesk /\ clerk[q] # AtDesk => p = q

NoTrouble == costOverlaps = 0 /\ costFailures = 0

CostInv ==
    /\ CostTypeInv /\ OneActive /\ SystemStart /\ LastStored
    /\ NoTrouble => OneClerk /\ LastKnown

-----------------------------------------------------------------------------
(* What a lookup of the country finds in MongoDB is the cost that was set  *)
(* last: it is the only active one of its country and start.               *)

LEMMA Dear == \A d \in CostDoc : /\ d # NoCost /\ d.country \in Keys /\ d.start \in Nat
                                 /\ d.value \in Values /\ d.value # NoCost
BY CostsAssumption DEF CostDoc

LEMMA LastIsDoc ==
    ASSUME CostTypeInv, lastSet # NoCost
    PROVE  /\ lastSet.id \in CostIds /\ lastSet.doc \in CostDoc
           /\ lastSet.doc.country \in Keys
<1>1. lastSet.id \in CostIds /\ lastSet.doc \in CostDoc BY DEF CostTypeInv, LastDoc
<1> QED BY <1>1, Dear

LEMMA LastIsFound ==
    ASSUME CostTypeInv, OneActive, LastStored, Stored
    PROVE  \E id \in CostIds :
              /\ <<id, lastSet.doc>> \in Matching(lastSet.doc.country)
              /\ lastSet.doc \in CostDoc
              /\ \A f \in Matching(lastSet.doc.country) :
                    /\ f[2] \in CostDoc /\ f[2].active
                    /\ f[2].country = lastSet.doc.country /\ f[2].start = lastSet.doc.start
                         => f = <<id, lastSet.doc>>
<1>1. lastSet.doc \in CostDoc /\ lastSet.doc.active BY LastIsDoc DEF Stored, LastStored
<1>2. PICK id \in CostIds : costDocs[id] = lastSet.doc BY LastIsDoc DEF Stored
<1>3. Active(id) BY <1>1, <1>2, Dear DEF Active
<1>4. <<id, lastSet.doc>> \in Matching(lastSet.doc.country)
  BY <1>1, <1>2, <1>3, Dear DEF Matching, Active
<1>5. ASSUME NEW f \in Matching(lastSet.doc.country)
      PROVE  /\ f[2] \in CostDoc /\ f[2].active
             /\ f[2].country = lastSet.doc.country /\ f[2].start = lastSet.doc.start
                  => f = <<id, lastSet.doc>>
  <2>1. PICK x \in CostIds : f = <<x, costDocs[x]>> /\ Active(x) BY DEF Matching, Active
  <2>2. f[2] \in CostDoc /\ f[2].active BY <2>1 DEF CostTypeInv, Active
  <2>3. ASSUME f[2].country = lastSet.doc.country, f[2].start = lastSet.doc.start PROVE x = id
    BY <1>2, <1>3, <2>1, <2>3 DEF OneActive
  <2> QED BY <1>2, <2>1, <2>2, <2>3
<1> QED BY <1>1, <1>4, <1>5

LEMMA StartsLast ==
    ASSUME NEW group, NEW n \in Nat, NEW g \in group, g[2].start = n,
           \A f \in group : f[2].start \in Nat /\ (f[2].start = n => f = g)
    PROVE  LastStart(group, n) = g[2].value
<1> DEFINE started == {f \in group : f[2].start <= n}
           starts == {f[2].start : f \in started}
<1>1. g \in started /\ \A f \in started : f[2].start = n <=> f = g OBVIOUS
<1>2. n \in starts /\ \A m \in starts : m \in Nat /\ n >= m BY <1>1
<1>3. Max(starts) = n
  <2>1. ASSUME NEW m \in starts, \A y \in starts : m >= y PROVE m = n
    <3>1. m >= n /\ n >= m /\ m \in Nat BY <1>2, <2>1
    <3> QED BY <3>1
  <2> HIDE DEF starts
  <2> QED BY <1>2, <2>1 DEF Max
<1>4. LastStart(group, n) = (CHOOSE f \in started : f[2].start = Max(starts))[2].value
  <2>1. started # {} BY <1>1
  <2> QED BY <2>1 DEF LastStart
<1>5. (CHOOSE f \in started : f[2].start = n) = g
  <2> HIDE DEF started
  <2> QED BY <1>1
<1>6. (CHOOSE f \in started : f[2].start = Max(starts)) = g
  <2> HIDE DEF started, starts
  <2> QED BY <1>3, <1>5
<1> QED BY <1>4, <1>6

LEMMA FreshSaysLast ==
    ASSUME CostTypeInv, OneActive, SystemStart, LastStored, Stored
    PROVE  SaysLast(FindFor(lastSet.doc.country))
<1> DEFINE k == lastSet.doc.country
           n == lastSet.doc.start
<1>1. PICK id \in CostIds :
        /\ <<id, lastSet.doc>> \in Matching(k)
        /\ lastSet.doc \in CostDoc
        /\ \A f \in Matching(k) : /\ f[2] \in CostDoc /\ f[2].active
                                  /\ f[2].country = k /\ f[2].start = n
                                       => f = <<id, lastSet.doc>>
  BY LastIsFound
<1>2. CASE table = "paymentSystem"
  <2>1. ASSUME NEW f \in Matching(k) PROVE f[2].start = n
    <3>1. PICK x \in CostIds : f = <<x, costDocs[x]>> /\ Active(x) BY DEF Matching, Active
    <3>2. PICK y \in CostIds : costDocs[y] = lastSet.doc BY LastIsDoc DEF Stored
    <3>3. Active(y) BY <1>1, <3>2, Dear DEF Active, LastStored, Stored
    <3> QED BY <1>2, <3>1, <3>2, <3>3 DEF SystemStart
  <2>2. FirstGroup(Matching(k), k) = {<<id, lastSet.doc>>} BY <1>1, <2>1 DEF FirstGroup
  <2>3. FindFor(k) = {<<id, lastSet.doc>>} BY <1>2, <2>2 DEF FindFor, FindPaymentSystem
  <2> DEFINE found == FindFor(k)
             chosen == CHOOSE f \in found : TRUE
  <2>4. found # {} /\ chosen = <<id, lastSet.doc>> BY <2>3
  <2>5. SaysLast(found) <=> lastSet.doc.value = chosen[2].value
    <3> HIDE DEF found
    <3>1. SaysLast(found) <=> lastSet.doc.value = IF found = {} THEN NoCost ELSE chosen[2].value
      BY <1>2 DEF SaysLast, Says
    <3> HIDE DEF chosen
    <3> QED BY <2>4, <3>1
  <2>6. SaysLast(found)
    <3> HIDE DEF found, chosen
    <3> QED BY <2>4, <2>5
  <2> QED BY <2>6
<1>3. CASE table # "paymentSystem"
  <2> DEFINE own == {f \in Matching(k) : f[2].country = k}
  <2>1. n \in Nat /\ lastSet.doc.value # NoCost BY <1>1, Dear
  <2>2. LastStart(own, n) = lastSet.doc.value
    <3>1. <<id, lastSet.doc>> \in own /\ <<id, lastSet.doc>>[2] = lastSet.doc BY <1>1
    <3>2. \A f \in own : f[2].start \in Nat /\ (f[2].start = n => f = <<id, lastSet.doc>>)
      BY <1>1, Dear
    <3> HIDE DEF own
    <3> QED BY <2>1, <3>1, <3>2, StartsLast
  <2>3. GetPaymentChannelCostMerchant(Matching(k), k, n) = lastSet.doc.value
    BY <2>1, <2>2 DEF GetPaymentChannelCostMerchant
  <2>4. FindFor(k) = Matching(k)
    BY <1>3, CostsAssumption DEF FindFor, FindPaymentMerchant, FindMoneyBackSystem,
       FindMoneyBackMerchant, CostTypeInv
  <2> QED BY <1>3, <2>3, <2>4 DEF SaysLast, Says
<1> QED BY <1>2, <1>3

-----------------------------------------------------------------------------
(* The steps of a request.                                                 *)

LEMMA CostKeys == AllCosts \notin Keys /\ WholeRegion \in Keys /\ Min(Starts) \in Starts
<1>1. AllCosts \notin Keys /\ WholeRegion \in Keys
  BY CostsAssumption DEF Keys, AllCosts, WholeRegion
<1>2. Min(Starts) \in Starts BY CostsAssumption DEF Min
<1> QED BY <1>1, <1>2

LEMMA NewCostIs ==
    ASSUME NEW k \in Keys, NEW n \in Starts, NEW v \in Values
    PROVE  /\ NewCost(k, n, v) \in CostDoc /\ NewCost(k, n, v).active
           /\ NewCost(k, n, v).start = n
BY DEF NewCost, CostDoc

LEMMA IdleClerk == ClerkType(AtDesk) /\ AtDesk.pc = "idle"
BY DEF ClerkType, ClerkDoc, AtDesk, Keys

\* The request is handled alone if none has overlapped or failed after it started.
LEMMA Alone ==
    ASSUME CostTypeInv, NEW p \in Clerks, StartCost(p)
    PROVE  /\ table' = table /\ clerk[p] = AtDesk
           /\ costOverlaps' \in Nat /\ costFailures' = costFailures
           /\ costOverlaps' + costFailures' <= MaxCostTroubles
           /\ NoTrouble' => NoTrouble /\ \A x \in Clerks : clerk[x] = AtDesk
<1>1. CASE \E x \in Clerks : clerk[x] # AtDesk
  <2>1. costOverlaps' = costOverlaps + 1 BY <1>1 DEF StartCost
  <2> QED BY <2>1 DEF StartCost, CostTypeInv, NoTrouble
<1>2. CASE \A x \in Clerks : clerk[x] = AtDesk
  <2>1. costOverlaps' = costOverlaps + 0 BY <1>2 DEF StartCost
  <2> QED BY <1>2, <2>1 DEF StartCost, CostTypeInv, NoTrouble
<1> QED BY <1>1, <1>2

LEMMA ClerkSet ==
    ASSUME CostTypeInv, NEW p \in Clerks, NEW q, ClerkType(q),
           clerk' = [clerk EXCEPT ![p] = q]
    PROVE  /\ clerk' = [x \in Clerks |-> clerk'[x]]
           /\ \A x \in Clerks : ClerkType(clerk'[x])
           /\ clerk'[p] = q
           /\ \A x \in Clerks : x # p => clerk'[x] = clerk[x]
<1>1. clerk = [x \in Clerks |-> clerk[x]] /\ \A x \in Clerks : ClerkType(clerk[x])
  BY DEF CostTypeInv
<1>2. clerk' = [x \in Clerks |-> clerk'[x]] BY <1>1
<1>3. clerk'[p] = q /\ \A x \in Clerks : x # p => clerk'[x] = clerk[x] BY <1>1
<1>4. \A x \in Clerks : ClerkType(clerk'[x]) BY <1>1, <1>3
<1> QED BY <1>2, <1>3, <1>4

\* Nothing but the table of requests: the invariant of the rest is kept.
LEMMA DocsKept ==
    ASSUME CostTypeInv, OneActive, SystemStart, LastStored, table' = table,
           costDocs' = costDocs, lastSet' = lastSet
    PROVE  (OneActive /\ SystemStart /\ LastStored)'
BY DEF OneActive, SystemStart, LastStored, Stored, NotSet, Unique, Active

\* A request writes a document, or there is none to write it over.
LEMMA WriteKeeps ==
    ASSUME CostInv, NEW p \in Clerks, NEW id \in CostIds, NEW doc \in CostDoc,
           \/ /\ doc.active => Unique(id, doc)
              /\ costDocs' = [costDocs EXCEPT ![id] = doc]
           \/ costDocs[id] = NoCost /\ costDocs' = costDocs,
           table = "paymentSystem" /\ doc.active => doc.start = Min(Starts),
           idCache' \in [CostIds -> CostDoc \cup {NoCost}],
           WriteCost(p, id, doc)
    PROVE  CostInv'
<1> DEFINE q == [AtDesk EXCEPT !.pc = "invalidate", !.id = id, !.doc = doc]
           last == [id |-> id, doc |-> doc]
<1>1. CostTypeInv /\ OneActive /\ SystemStart BY DEF CostInv
<1>2. /\ StartCost(p) /\ costEdits < MaxCostEdits /\ costEdits' = costEdits + 1
      /\ clerk' = [clerk EXCEPT ![p] = q]
      /\ lastSet' = IF doc.active THEN last ELSE NoCost
      /\ foundCache' = foundCache
  BY DEF WriteCost, StartCostEdit
<1>3. q.pc = "invalidate" /\ q.id = id /\ q.doc = doc /\ q.found = {} /\ q.key = WholeRegion
  BY DEF AtDesk
<1>4. ClerkType(q)
  <2>1. q \in ClerkDoc BY CostKeys DEF ClerkDoc, AtDesk
  <2> HIDE DEF q
  <2> QED BY <1>3, <2>1 DEF ClerkType
<1> HIDE DEF q
<1>5. /\ clerk' = [x \in Clerks |-> clerk'[x]] /\ \A x \in Clerks : ClerkType(clerk'[x])
      /\ clerk'[p] = q /\ \A x \in Clerks : x # p => clerk'[x] = clerk[x]
  BY <1>1, <1>2, <1>4, ClerkSet
<1>6. /\ table' = table /\ costOverlaps' \in Nat /\ costFailures' = costFailures
      /\ costOverlaps' + costFailures' <= MaxCostTroubles
      /\ NoTrouble' => \A x \in Clerks : clerk[x] = AtDesk
  BY <1>1, <1>2, Alone
<1>7. /\ costDocs' \in [CostIds -> CostDoc \cup {NoCost}]
      /\ \A x \in CostIds : x # id => costDocs'[x] = costDocs[x]
      /\ \/ costDocs'[id] = doc /\ (doc.active => Unique(id, doc))
         \/ costDocs'[id] = NoCost
  BY <1>1 DEF CostTypeInv
<1>8. CostTypeInv'
  <2>1. costEdits' \in 0 .. MaxCostEdits BY <1>1, <1>2, CostsAssumption DEF CostTypeInv
  <2>2. lastSet' \in LastDoc BY <1>2 DEF LastDoc
  <2>3. /\ foundCache' = [k \in Keys \cup {AllCosts} |-> foundCache'[k]]
        /\ \A k \in Keys \cup {AllCosts} : foundCache'[k] = NoCost \/ foundCache'[k] \subseteq Found
        /\ idCache' \in [CostIds -> CostDoc \cup {NoCost}]
        /\ table' \in Tables /\ costFailures' \in Nat
    BY <1>1, <1>2, <1>6 DEF CostTypeInv
  <2> QED BY <1>5, <1>6, <1>7, <2>1, <2>2, <2>3 DEF CostTypeInv
<1>9. OneActive'
  <2> SUFFICES ASSUME NEW x \in CostIds, NEW y \in CostIds, x # y, Active(x)', Active(y)'
               PROVE  \/ costDocs'[x].country # costDocs'[y].country
                      \/ costDocs'[x].start # costDocs'[y].start
    BY DEF OneActive
  <2>1. CASE x # id /\ y # id BY <1>1, <1>7, <2>1 DEF OneActive, Active
  <2>2. CASE x = id BY <1>7, <2>2 DEF Unique, Active
  <2>3. CASE y = id BY <1>7, <2>3 DEF Unique, Active
  <2> QED BY <2>1, <2>2, <2>3
<1>10. SystemStart' BY <1>1, <1>6, <1>7 DEF SystemStart, Active
<1>11. LastStored'
  <2>1. lastSet' # NoCost => lastSet' = last /\ doc.active BY <1>2
  <2>2. last.id = id /\ last.doc = doc OBVIOUS
  <2> HIDE DEF last
  <2> QED BY <1>7, <2>1, <2>2 DEF LastStored, Stored, NotSet
<1>12. ASSUME NoTrouble' PROVE (OneClerk /\ LastKnown)'
  <2>1. \A x \in Clerks : x # p => clerk'[x] = AtDesk BY <1>5, <1>6, <1>12
  <2>2. OneClerk' BY <2>1 DEF OneClerk
  <2>3. \A x \in Clerks : clerk'[x].pc = (IF x = p THEN "invalidate" ELSE "idle")
    BY <1>3, <1>5, <2>1, IdleClerk
  <2>4. Stored' => lastSet'.doc = doc BY <1>2 DEF Stored
  <2>5. LastKnown' BY <1>3, <1>5, <2>3, <2>4 DEF LastKnown
  <2> QED BY <2>2, <2>5
<1> QED BY <1>8, <1>9, <1>10, <1>11, <1>12 DEF CostInv

\* The index refuses a document, and the request answers that it was set.
LEMMA LoseKeeps ==
    ASSUME CostInv, NEW p \in Clerks, NEW id \in CostIds, NEW doc \in CostDoc, doc.active,
           idCache' \in [CostIds -> CostDoc \cup {NoCost}], LoseRefusal(p, id, doc)
    PROVE  CostInv'
<1> DEFINE last == [id |-> id, doc |-> doc]
<1>1. CostTypeInv /\ OneActive /\ SystemStart BY DEF CostInv
<1>2. /\ StartCost(p) /\ costEdits < MaxCostEdits /\ costEdits' = costEdits + 1
      /\ costDocs[id] # NoCost /\ ~Unique(id, doc) /\ lastSet' = last
      /\ costDocs' = costDocs /\ foundCache' = foundCache /\ clerk' = clerk
  BY DEF LoseRefusal, StartCostEdit
<1>3. /\ table' = table /\ costOverlaps' \in Nat /\ costFailures' = costFailures
      /\ costOverlaps' + costFailures' <= MaxCostTroubles
      /\ NoTrouble' => \A x \in Clerks : clerk[x] = AtDesk
  BY <1>1, <1>2, Alone
<1>4. last \in LastDoc /\ last.id = id /\ last.doc = doc BY DEF LastDoc
<1> HIDE DEF last
<1>5. CostTypeInv'
  <2>1. costEdits' \in 0 .. MaxCostEdits BY <1>1, <1>2, CostsAssumption DEF CostTypeInv
  <2> QED BY <1>1, <1>2, <1>3, <1>4, <2>1 DEF CostTypeInv
<1>6. OneActive' /\ SystemStart' BY <1>1, <1>2, <1>3 DEF OneActive, SystemStart, Active
<1>7. LastStored' BY <1>2, <1>4 DEF LastStored, NotSet, Unique
<1>8. ~Stored'
  <2>1. doc # NoCost /\ doc.country \in Keys BY Dear
  <2>2. PICK x \in CostIds \ {id} :
          /\ costDocs[x] # NoCost /\ costDocs[x].active
          /\ costDocs[x].country = doc.country /\ costDocs[x].start = doc.start
    BY <1>2 DEF Unique
  <2>3. costDocs[id] # doc BY <1>1, <2>1, <2>2 DEF OneActive, Active
  <2> QED BY <1>2, <1>4, <2>3 DEF Stored
<1>9. ASSUME NoTrouble' PROVE (OneClerk /\ LastKnown)'
  <2>1. \A x \in Clerks : clerk'[x] = AtDesk BY <1>2, <1>3, <1>9
  <2> QED BY <1>8, <2>1 DEF OneClerk, LastKnown
<1> QED BY <1>5, <1>6, <1>7, <1>9 DEF CostInv

LEMMA ReplaceKeeps ==
    ASSUME CostInv, NEW p \in Clerks, NEW id \in CostIds, NEW v \in Values,
           table # "paymentSystem", DeleteActive(p, id, v)
    PROVE  CostInv'
<1> DEFINE doc == NewCost(WholeRegion, Min(Starts), v)
           q == [AtDesk EXCEPT !.pc = "insert", !.id = id, !.doc = doc]
<1>1. CostTypeInv /\ OneActive /\ SystemStart BY DEF CostInv
<1>2. /\ StartCost(p) /\ costEdits < MaxCostEdits /\ costEdits' = costEdits + 1
      /\ costDocs' = [x \in CostIds |->
            IF costDocs[x] # NoCost /\ costDocs[x].active THEN NoCost ELSE costDocs[x]]
      /\ clerk' = [clerk EXCEPT ![p] = q]
      /\ lastSet' = NoCost
      /\ foundCache' = foundCache /\ idCache' = idCache
  BY DEF DeleteActive, StartCostEdit
<1>3. doc \in CostDoc /\ doc.active BY CostKeys, NewCostIs
<1> HIDE DEF doc
<1>4. q.pc = "insert" /\ q.id = id /\ q.doc = doc BY DEF AtDesk
<1>5. ClerkType(q)
  <2>1. q \in ClerkDoc BY <1>3, CostKeys DEF ClerkDoc, AtDesk
  <2> HIDE DEF q
  <2> QED BY <1>3, <1>4, <2>1 DEF ClerkType
<1> HIDE DEF q
<1>6. /\ clerk' = [x \in Clerks |-> clerk'[x]] /\ \A x \in Clerks : ClerkType(clerk'[x])
      /\ \A x \in Clerks : x # p => clerk'[x] = clerk[x]
  BY <1>1, <1>2, <1>5, ClerkSet
<1>7. /\ table' = table /\ costOverlaps' \in Nat /\ costFailures' = costFailures
      /\ costOverlaps' + costFailures' <= MaxCostTroubles
      /\ NoTrouble' => \A x \in Clerks : clerk[x] = AtDesk
  BY <1>1, <1>2, Alone
<1>8. costDocs' \in [CostIds -> CostDoc \cup {NoCost}] BY <1>1, <1>2 DEF CostTypeInv
<1>9. CostTypeInv'
  <2>1. costEdits' \in 0 .. MaxCostEdits BY <1>1, <1>2, CostsAssumption DEF CostTypeInv
  <2>2. /\ foundCache' = [k \in Keys \cup {AllCosts} |-> foundCache'[k]]
        /\ \A k \in Keys \cup {AllCosts} : foundCache'[k] = NoCost \/ foundCache'[k] \subseteq Found
        /\ idCache' \in [CostIds -> CostDoc \cup {NoCost}]
        /\ table' \in Tables /\ costFailures' \in Nat
    BY <1>1, <1>2, <1>7 DEF CostTypeInv
  <2> QED BY <1>2, <1>6, <1>7, <1>8, <2>1, <2>2 DEF CostTypeInv, LastDoc
<1>10. \A x \in CostIds : ~Active(x)' BY <1>2 DEF Active
<1>11. (OneActive /\ SystemStart /\ LastStored)'
  BY <1>2, <1>10 DEF OneActive, SystemStart, LastStored
<1>12. ASSUME NoTrouble' PROVE (OneClerk /\ LastKnown)'
  <2>1. \A x \in Clerks : x # p => clerk'[x] = AtDesk BY <1>6, <1>7, <1>12
  <2> QED BY <1>2, <2>1 DEF OneClerk, LastKnown, Stored
<1> QED BY <1>9, <1>11, <1>12 DEF CostInv

LEMMA InsertManyKeeps ==
    ASSUME CostInv, NEW p \in Clerks, table # "paymentSystem", InsertMany(p)
    PROVE  CostInv'
<1> DEFINE id == clerk[p].id
           doc == clerk[p].doc
           ok == Unique(id, doc) /\ costDocs[id] = NoCost
           moved == [clerk[p] EXCEPT !.pc = "invalidate"]
           q == IF ok THEN moved ELSE AtDesk
           last == [id |-> id, doc |-> doc]
<1>1. CostTypeInv /\ OneActive /\ SystemStart /\ LastStored BY DEF CostInv
<1>2. /\ clerk[p].pc = "insert"
      /\ costDocs' = (IF ok THEN [costDocs EXCEPT ![id] = doc] ELSE costDocs)
      /\ lastSet' = (IF ok THEN last ELSE lastSet)
      /\ table' = table /\ foundCache' = foundCache /\ idCache' = idCache
      /\ costEdits' = costEdits /\ costOverlaps' = costOverlaps /\ costFailures' = costFailures
  BY DEF InsertMany
<1>3. clerk' = [clerk EXCEPT ![p] = q] BY DEF InsertMany, CostTypeInv
<1>4. clerk[p] \in ClerkDoc /\ id \in CostIds /\ doc \in CostDoc /\ doc.active
  BY <1>1, <1>2 DEF CostTypeInv, ClerkType
<1>5. ClerkType(moved) /\ moved.pc = "invalidate" /\ moved.doc = doc
  <2>1. moved.pc = "invalidate" /\ moved.id = id /\ moved.doc = doc BY <1>4 DEF ClerkDoc
  <2>2. moved \in ClerkDoc BY <1>4 DEF ClerkDoc
  <2> HIDE DEF moved
  <2> QED BY <1>4, <2>1, <2>2 DEF ClerkType
<1>6. ClerkType(q) BY <1>5, IdleClerk
<1> HIDE DEF moved
<1>7. /\ clerk' = [x \in Clerks |-> clerk'[x]] /\ \A x \in Clerks : ClerkType(clerk'[x])
      /\ clerk'[p] = q /\ \A x \in Clerks : x # p => clerk'[x] = clerk[x]
  <2> HIDE DEF q
  <2> QED BY <1>1, <1>3, <1>6, ClerkSet
<1> HIDE DEF id, doc
<1>8. /\ costDocs' \in [CostIds -> CostDoc \cup {NoCost}]
      /\ ok => costDocs'[id] = doc /\ \A x \in CostIds : x # id => costDocs'[x] = costDocs[x]
  BY <1>1, <1>2, <1>4 DEF CostTypeInv
<1>9. CostTypeInv'
  <2>1. lastSet' \in LastDoc BY <1>1, <1>2, <1>4 DEF CostTypeInv, LastDoc
  <2> QED BY <1>1, <1>2, <1>7, <1>8, <2>1 DEF CostTypeInv
<1>10. (OneActive /\ SystemStart /\ LastStored)'
  <2>1. CASE ~ok BY <1>1, <1>2, <2>1, DocsKept
  <2>2. CASE ok
    <3>1. OneActive'
      <4> SUFFICES ASSUME NEW x \in CostIds, NEW y \in CostIds, x # y, Active(x)', Active(y)'
                   PROVE  \/ costDocs'[x].country # costDocs'[y].country
                          \/ costDocs'[x].start # costDocs'[y].start
        BY DEF OneActive
      <4>1. CASE x # id /\ y # id BY <1>1, <1>8, <2>2, <4>1 DEF OneActive, Active
      <4>2. CASE x = id BY <1>8, <2>2, <4>2 DEF Unique, Active
      <4>3. CASE y = id BY <1>8, <2>2, <4>3 DEF Unique, Active
      <4> QED BY <4>1, <4>2, <4>3
    <3>2. SystemStart' BY <1>2 DEF SystemStart
    <3>3. LastStored' BY <1>2, <1>4, <1>8, <2>2 DEF LastStored, Stored
    <3> QED BY <3>1, <3>2, <3>3
  <2> QED BY <2>1, <2>2
<1>11. ASSUME NoTrouble' PROVE (OneClerk /\ LastKnown)'
  <2>1. OneClerk /\ LastKnown BY <1>2, <1>11 DEF CostInv, NoTrouble
  <2>2. \A x \in Clerks : x # p => clerk'[x] = AtDesk
    BY <1>2, <1>7, <2>1, IdleClerk DEF OneClerk
  <2>3. OneClerk' BY <2>2 DEF OneClerk
  <2>4. LastKnown'
    <3>1. CASE ~ok
      <4>1. \A x \in Clerks : clerk'[x] = AtDesk BY <1>7, <2>2, <3>1
      <4>2. Stored' => Stored BY <1>2, <3>1 DEF Stored
      <4>3. Stored => \A x \in Clerks : clerk[x].pc # "insert" BY <2>1 DEF LastKnown
      <4> QED BY <1>2, <4>2, <4>3 DEF LastKnown
    <3>2. CASE ok
      <4>1. clerk'[p].pc = "invalidate" /\ clerk'[p].doc = doc /\ lastSet'.doc = doc
        BY <1>2, <1>5, <1>7, <3>2
      <4>2. \A x \in Clerks : x # p => clerk'[x].pc = "idle" BY <2>2, IdleClerk
      <4> QED BY <4>1, <4>2 DEF LastKnown
    <3> QED BY <3>1, <3>2
  <2> QED BY <2>3, <2>4
<1> QED BY <1>9, <1>10, <1>11 DEF CostInv

\* What lookups and lists find are documents of the table.
LEMMA FindsDocs ==
    ASSUME CostTypeInv, NEW k
    PROVE  FindFor(k) \subseteq Found /\ ListAll \subseteq Found
<1>1. Matching(k) \subseteq Found BY DEF Matching, Found, CostTypeInv
<1>2. FirstGroup(Matching(k), k) \subseteq Found BY <1>1 DEF FirstGroup
<1>3. FindPaymentSystem(k) \subseteq Found BY <1>2 DEF FindPaymentSystem
<1>4. AllPaymentMerchant \subseteq Found BY DEF AllPaymentMerchant, Found, CostTypeInv
<1>5. table \in {"paymentSystem", "paymentMerchant", "moneyBackSystem", "moneyBackMerchant"}
  BY CostsAssumption DEF CostTypeInv
<1>6. FindFor(k) \subseteq Found
  BY <1>1, <1>3, <1>5 DEF FindFor, FindPaymentMerchant, FindMoneyBackSystem,
     FindMoneyBackMerchant
<1>7. ListAll \subseteq Found
  BY <1>4, <1>5 DEF ListAll, AllPaymentSystem, AllMoneyBackMerchant, AllMoneyBackSystem
<1> QED BY <1>6, <1>7

\* A lookup takes what it finds to the cache.
LEMMA LookUpKeeps ==
    ASSUME CostInv, NEW p \in Clerks, NEW k \in Keys \cup {AllCosts}, NEW found,
           (k \in Keys /\ found = FindFor(k)) \/ (k = AllCosts /\ found = ListAll),
           StartCost(p),
           clerk' = [clerk EXCEPT ![p] = [AtDesk EXCEPT !.pc = "remember", !.key = k,
                                                        !.found = found]],
           UNCHANGED <<costDocs, foundCache, idCache, lastSet, costEdits>>
    PROVE  CostInv'
<1> DEFINE q == [AtDesk EXCEPT !.pc = "remember", !.key = k, !.found = found]
<1>1. CostTypeInv /\ OneActive /\ SystemStart /\ LastStored BY DEF CostInv
<1>2. found \subseteq Found BY <1>1, FindsDocs
<1>3. q.pc = "remember" /\ q.key = k /\ q.found = found BY DEF AtDesk
<1>4. ClerkType(q)
  <2>1. q \in ClerkDoc BY <1>2 DEF ClerkDoc, AtDesk
  <2> HIDE DEF q
  <2> QED BY <1>3, <2>1 DEF ClerkType
<1>5. clerk' = [clerk EXCEPT ![p] = q] OBVIOUS
<1> HIDE DEF q
<1>6. /\ clerk' = [x \in Clerks |-> clerk'[x]] /\ \A x \in Clerks : ClerkType(clerk'[x])
      /\ clerk'[p] = q /\ \A x \in Clerks : x # p => clerk'[x] = clerk[x]
  BY <1>1, <1>4, <1>5, ClerkSet
<1>7. /\ table' = table /\ costOverlaps' \in Nat /\ costFailures' = costFailures
      /\ costOverlaps' + costFailures' <= MaxCostTroubles
      /\ NoTrouble' => NoTrouble /\ \A x \in Clerks : clerk[x] = AtDesk
  BY <1>1, Alone
<1>8. CostTypeInv'
  <2>1. /\ costDocs' \in [CostIds -> CostDoc \cup {NoCost}] /\ costEdits' \in 0 .. MaxCostEdits
        /\ foundCache' = [x \in Keys \cup {AllCosts} |-> foundCache'[x]]
        /\ \A x \in Keys \cup {AllCosts} : foundCache'[x] = NoCost \/ foundCache'[x] \subseteq Found
        /\ idCache' \in [CostIds -> CostDoc \cup {NoCost}]
        /\ table' \in Tables /\ costFailures' \in Nat /\ lastSet' \in LastDoc
    BY <1>1, <1>7 DEF CostTypeInv
  <2> QED BY <1>6, <1>7, <2>1 DEF CostTypeInv
<1>9. (OneActive /\ SystemStart /\ LastStored)' BY <1>1, <1>7, DocsKept
<1>10. ASSUME NoTrouble' PROVE (OneClerk /\ LastKnown)'
  <2>1. \A x \in Clerks : x # p => clerk'[x] = AtDesk BY <1>6, <1>7, <1>10
  <2>2. OneClerk' BY <2>1 DEF OneClerk
  <2>3. ASSUME Stored PROVE LastKnown'
    <3>1. LastKnown BY <1>7, <1>10 DEF CostInv
    <3>2. \A x \in Clerks : clerk[x].pc = "idle" BY <1>7, <1>10, IdleClerk
    <3>3. \A x \in Clerks : clerk'[x].pc = (IF x = p THEN "remember" ELSE "idle")
      BY <1>3, <1>6, <2>1, IdleClerk
    <3>4. \/ foundCache[lastSet.doc.country] = NoCost
          \/ SaysLast(foundCache[lastSet.doc.country])
      BY <2>3, <3>1, <3>2 DEF LastKnown
    <3>5. ASSUME k = lastSet.doc.country PROVE SaysLast(found)
      <4>1. lastSet.doc.country \in Keys BY <1>1, <2>3, LastIsDoc DEF Stored
      <4>2. found = FindFor(lastSet.doc.country) BY <3>5, <4>1, CostKeys
      <4> QED BY <1>1, <2>3, <4>2, FreshSaysLast
    <3>6. table' = table /\ lastSet' = lastSet /\ foundCache' = foundCache BY <1>7
    <3>7. \A f : SaysLast(f)' <=> SaysLast(f) BY <3>6 DEF SaysLast
    <3>8. \A x \in Clerks : clerk'[x].pc = "remember" /\ clerk'[x].key = lastSet.doc.country
                              => SaysLast(clerk'[x].found)
      BY <1>3, <1>6, <3>3, <3>5
    <3> QED BY <3>3, <3>4, <3>6, <3>7, <3>8 DEF LastKnown
  <2>4. ASSUME ~Stored PROVE LastKnown' BY <2>4 DEF LastKnown, Stored
  <2> QED BY <2>2, <2>3, <2>4
<1> QED BY <1>8, <1>9, <1>10 DEF CostInv

LEMMA RememberKeeps ==
    ASSUME CostInv, NEW p \in Clerks, RememberFound(p)
    PROVE  CostInv'
<1>1. CostTypeInv /\ OneActive /\ SystemStart /\ LastStored BY DEF CostInv
<1>2. /\ clerk[p].pc = "remember"
      /\ foundCache' = [foundCache EXCEPT ![clerk[p].key] = clerk[p].found]
      /\ clerk' = [clerk EXCEPT ![p] = AtDesk]
      /\ table' = table /\ costDocs' = costDocs /\ idCache' = idCache /\ lastSet' = lastSet
      /\ costEdits' = costEdits /\ costOverlaps' = costOverlaps /\ costFailures' = costFailures
  BY DEF RememberFound
<1>3. clerk[p].key \in Keys \cup {AllCosts} /\ clerk[p].found \subseteq Found
  BY <1>1 DEF CostTypeInv, ClerkType, ClerkDoc
<1>4. /\ clerk' = [x \in Clerks |-> clerk'[x]] /\ \A x \in Clerks : ClerkType(clerk'[x])
      /\ clerk'[p] = AtDesk /\ \A x \in Clerks : x # p => clerk'[x] = clerk[x]
  BY <1>1, <1>2, ClerkSet, IdleClerk
<1>5. /\ foundCache' = [k \in Keys \cup {AllCosts} |-> foundCache'[k]]
      /\ \A k \in Keys \cup {AllCosts} :
            foundCache'[k] = IF k = clerk[p].key THEN clerk[p].found ELSE foundCache[k]
  BY <1>1, <1>2, <1>3 DEF CostTypeInv
<1>6. CostTypeInv' BY <1>1, <1>2, <1>3, <1>4, <1>5 DEF CostTypeInv
<1>7. (OneActive /\ SystemStart /\ LastStored)' BY <1>1, <1>2, DocsKept
<1>8. ASSUME NoTrouble' PROVE (OneClerk /\ LastKnown)'
  <2>1. OneClerk /\ LastKnown BY <1>2, <1>8 DEF CostInv, NoTrouble
  <2>2. \A x \in Clerks : clerk'[x] = AtDesk BY <1>2, <1>4, <2>1, IdleClerk DEF OneClerk
  <2>3. OneClerk' BY <2>2 DEF OneClerk
  <2>4. ASSUME Stored PROVE LastKnown'
    <3>1. \A f : SaysLast(f)' <=> SaysLast(f) BY <1>2 DEF SaysLast
    <3>2. lastSet.doc.country \in Keys BY <1>1, <2>4, LastIsDoc DEF Stored
    <3>3. ~\E x \in Clerks : clerk[x].pc = "invalidate" BY <1>2, <2>1 DEF OneClerk, AtDesk
    <3>4. \/ foundCache'[lastSet.doc.country] = NoCost
          \/ SaysLast(foundCache'[lastSet.doc.country])
      BY <1>2, <1>5, <2>1, <2>4, <3>2, <3>3 DEF LastKnown
    <3>5. \A x \in Clerks : clerk'[x].pc = "idle" BY <2>2, IdleClerk
    <3> QED BY <1>2, <3>1, <3>4, <3>5 DEF LastKnown
  <2>5. ASSUME ~Stored PROVE LastKnown' BY <1>2, <2>5 DEF LastKnown, Stored
  <2> QED BY <2>3, <2>4, <2>5
<1> QED BY <1>6, <1>7, <1>8 DEF CostInv

\* The keys of every table have the country of the cost.
LEMMA UpdateCachesKeeps ==
    ASSUME CostInv, NEW p \in Clerks, UpdateCaches(p)
    PROVE  CostInv'
<1> DEFINE id == clerk[p].id
           doc == clerk[p].doc
<1>1. CostTypeInv /\ OneActive /\ SystemStart /\ LastStored BY DEF CostInv
<1>2. /\ clerk[p].pc = "invalidate"
      /\ foundCache' = [k \in DOMAIN foundCache |-> IF k \in InvalidatedKeys(doc) THEN NoCost
                                                                      ELSE foundCache[k]]
      /\ idCache' = [idCache EXCEPT ![id] = IF doc.active THEN doc ELSE NoCost]
      /\ clerk' = [clerk EXCEPT ![p] = AtDesk]
      /\ table' = table /\ costDocs' = costDocs /\ lastSet' = lastSet
      /\ costEdits' = costEdits /\ costOverlaps' = costOverlaps /\ costFailures' = costFailures
  BY DEF UpdateCaches
<1>3. id \in CostIds /\ doc \in CostDoc BY <1>1, <1>2 DEF CostTypeInv, ClerkType
<1>4. doc.country \in InvalidatedKeys(doc)
  <2>1. table \in {"paymentSystem", "paymentMerchant", "moneyBackSystem", "moneyBackMerchant"}
    BY <1>1, CostsAssumption DEF CostTypeInv
  <2> QED BY <2>1 DEF InvalidatedKeys, PaymentSystemKeys, PaymentMerchantKeys, MoneyBackSystemKeys,
          MoneyBackMerchantKeys
<1>5. /\ clerk' = [x \in Clerks |-> clerk'[x]] /\ \A x \in Clerks : ClerkType(clerk'[x])
      /\ clerk'[p] = AtDesk /\ \A x \in Clerks : x # p => clerk'[x] = clerk[x]
  BY <1>1, <1>2, ClerkSet, IdleClerk
<1> HIDE DEF id, doc
<1>6. /\ foundCache' = [k \in Keys \cup {AllCosts} |-> foundCache'[k]]
      /\ \A k \in Keys \cup {AllCosts} :
            foundCache'[k] = IF k \in InvalidatedKeys(doc) THEN NoCost ELSE foundCache[k]
  <2>1. DOMAIN foundCache = Keys \cup {AllCosts} BY <1>1 DEF CostTypeInv
  <2> QED BY <1>2, <2>1
<1>7. idCache' \in [CostIds -> CostDoc \cup {NoCost}] BY <1>1, <1>2, <1>3 DEF CostTypeInv
<1>8. CostTypeInv' BY <1>1, <1>2, <1>5, <1>6, <1>7 DEF CostTypeInv
<1>9. (OneActive /\ SystemStart /\ LastStored)' BY <1>1, <1>2, DocsKept
<1>10. ASSUME NoTrouble' PROVE (OneClerk /\ LastKnown)'
  <2>1. OneClerk /\ LastKnown BY <1>2, <1>10 DEF CostInv, NoTrouble
  <2>2. \A x \in Clerks : clerk'[x] = AtDesk BY <1>2, <1>5, <2>1, IdleClerk DEF OneClerk
  <2>3. OneClerk' BY <2>2 DEF OneClerk
  <2>4. ASSUME Stored PROVE LastKnown'
    <3>1. lastSet.doc.country \in Keys BY <1>1, <2>4, LastIsDoc DEF Stored
    <3>2. doc = lastSet.doc BY <1>2, <2>1, <2>4 DEF LastKnown, doc
    <3>3. foundCache'[lastSet.doc.country] = NoCost BY <1>4, <1>6, <3>1, <3>2
    <3>4. \A x \in Clerks : clerk'[x].pc = "idle" BY <2>2, IdleClerk
    <3> QED BY <1>2, <3>3, <3>4 DEF LastKnown
  <2>5. ASSUME ~Stored PROVE LastKnown' BY <1>2, <2>5 DEF LastKnown, Stored
  <2> QED BY <2>3, <2>4, <2>5
<1> QED BY <1>8, <1>9, <1>10 DEF CostInv

LEMMA FailKeeps ==
    ASSUME CostInv, NEW p \in Clerks, FailCost(p)
    PROVE  CostInv'
<1>1. CostTypeInv /\ OneActive /\ SystemStart /\ LastStored BY DEF CostInv
<1>2. /\ costOverlaps + costFailures < MaxCostTroubles /\ costFailures' = costFailures + 1
      /\ clerk' = [clerk EXCEPT ![p] = AtDesk]
      /\ table' = table /\ costDocs' = costDocs /\ foundCache' = foundCache
      /\ idCache' = idCache /\ lastSet' = lastSet
      /\ costEdits' = costEdits /\ costOverlaps' = costOverlaps
  BY DEF FailCost
<1>3. clerk' = [x \in Clerks |-> clerk'[x]] /\ \A x \in Clerks : ClerkType(clerk'[x])
  BY <1>1, <1>2, ClerkSet, IdleClerk
<1>4. /\ costOverlaps' \in Nat /\ costFailures' \in Nat
      /\ costOverlaps' + costFailures' <= MaxCostTroubles /\ costFailures' # 0
  BY <1>1, <1>2, CostsAssumption DEF CostTypeInv
<1>5. CostTypeInv' BY <1>1, <1>2, <1>3, <1>4 DEF CostTypeInv
<1>6. (OneActive /\ SystemStart /\ LastStored)' BY <1>1, <1>2, DocsKept
<1> QED BY <1>4, <1>5, <1>6 DEF CostInv, NoTrouble

\* A document is written over, if it is there.
LEMMA OverwriteKeeps ==
    ASSUME CostInv, NEW p \in Clerks, NEW id \in CostIds, NEW doc \in CostDoc,
           table = "paymentSystem" /\ doc.active => doc.start = Min(Starts),
           idCache' \in [CostIds -> CostDoc \cup {NoCost}], ReplaceCost(p, id, doc)
    PROVE  CostInv'
<1>1. WriteCost(p, id, doc) BY DEF ReplaceCost
<1>2. \/ /\ doc.active => Unique(id, doc)
         /\ costDocs' = [costDocs EXCEPT ![id] = doc]
      \/ costDocs[id] = NoCost /\ costDocs' = costDocs
  BY DEF ReplaceCost
<1> QED BY <1>1, <1>2, WriteKeeps

LEMMA AddKeeps ==
    ASSUME CostInv, NEW p \in Clerks, NEW id \in CostIds, NEW doc \in CostDoc,
           table = "paymentSystem" => doc.start = Min(Starts), InsertCost(p, id, doc)
    PROVE  CostInv'
<1>1. /\ WriteCost(p, id, doc) /\ Unique(id, doc) /\ idCache' = idCache
      /\ costDocs' = [costDocs EXCEPT ![id] = doc]
  BY DEF InsertCost
<1>2. idCache' \in [CostIds -> CostDoc \cup {NoCost}] BY <1>1 DEF CostInv, CostTypeInv
<1> QED BY <1>1, <1>2, WriteKeeps

\* A document that was found by its id is in the cache.
LEMMA FetchKeeps ==
    ASSUME CostInv, NEW id \in CostIds, FetchById(id, ActiveById(id))
    PROVE  ActiveById(id) \in CostDoc /\ idCache' \in [CostIds -> CostDoc \cup {NoCost}]
<1>1. ActiveById(id) # NoCost /\ idCache' = [idCache EXCEPT ![id] = ActiveById(id)]
  BY DEF FetchById
<1>2. ActiveById(id) \in CostDoc BY <1>1 DEF ActiveById, CostInv, CostTypeInv
<1> QED BY <1>1, <1>2 DEF CostInv, CostTypeInv

\* Deleting a cost makes the document that was found inactive.
LEMMA DeleteKeeps ==
    ASSUME CostInv, NEW p \in Clerks, NEW id \in CostIds, Deactivate(p, id, ActiveById(id))
    PROVE  CostInv'
<1> DEFINE old == ActiveById(id)
           doc == [old EXCEPT !.active = FALSE]
<1>1. FetchById(id, old) /\ ReplaceCost(p, id, doc) BY DEF Deactivate
<1>2. old \in CostDoc /\ idCache' \in [CostIds -> CostDoc \cup {NoCost}] BY <1>1, FetchKeeps
<1> HIDE DEF old
<1>3. doc \in CostDoc /\ doc.active = FALSE BY <1>2 DEF CostDoc
<1> HIDE DEF doc
<1> QED BY <1>1, <1>2, <1>3, OverwriteKeeps

\* The services that find a cost by its id.
LEMMA SetKeeps ==
    ASSUME CostInv, NEW p \in Clerks, NEW id \in CostIds, NEW k \in Keys, NEW n \in Starts,
           NEW v \in Values, table # "paymentSystem",
           \/ InsertCost(p, id, NewCost(k, n, v))
           \/ /\ FetchById(id, ActiveById(id))
              /\ ReplaceCost(p, id, NewCost(k, n, v)) \/ LoseRefusal(p, id, NewCost(k, n, v))
    PROVE  CostInv'
<1> DEFINE doc == NewCost(k, n, v)
<1>1. doc \in CostDoc /\ doc.active BY NewCostIs
<1>2. \/ InsertCost(p, id, doc)
      \/ /\ FetchById(id, ActiveById(id))
         /\ ReplaceCost(p, id, doc) \/ LoseRefusal(p, id, doc)
  OBVIOUS
<1> HIDE DEF doc
<1>3. CASE InsertCost(p, id, doc) BY <1>1, <1>3, AddKeeps
<1>4. CASE FetchById(id, ActiveById(id)) /\ ReplaceCost(p, id, doc)
  BY <1>1, <1>4, FetchKeeps, OverwriteKeeps
<1>5. CASE FetchById(id, ActiveById(id)) /\ LoseRefusal(p, id, doc)
  BY <1>1, <1>5, FetchKeeps, LoseKeeps
<1> QED BY <1>2, <1>3, <1>4, <1>5

LEMMA SetSystemKeeps ==
    ASSUME CostInv, NEW p \in Clerks, NEW id \in CostIds, NEW k \in Keys, NEW v \in Values,
           SetPaymentChannelCostSystem(p, id, k, v)
    PROVE  CostInv'
<1> DEFINE doc == NewCost(k, Min(Starts), v)
<1>1. doc \in CostDoc /\ doc.start = Min(Starts) BY CostKeys, NewCostIs
<1>2. InsertCost(p, id, doc) \/ (ReplaceCost(p, id, doc) /\ idCache' = idCache)
  BY DEF SetPaymentChannelCostSystem, InsertPaymentSystem, UpdatePaymentSystem
<1> HIDE DEF doc
<1>3. idCache \in [CostIds -> CostDoc \cup {NoCost}] BY DEF CostInv, CostTypeInv
<1> QED BY <1>1, <1>2, <1>3, AddKeeps, OverwriteKeeps

LEMMA SetAllKeeps ==
    ASSUME CostInv, NEW p \in Clerks, NEW id \in CostIds, NEW k \in Keys, NEW n \in Starts,
           NEW v \in Values, NEW active \in BOOLEAN,
           SetAllPaymentChannelCostMerchant(p, id, k, n, v, active)
    PROVE  CostInv'
<1> DEFINE new == NewCost(k, n, v)
           doc == [new EXCEPT !.active = active]
<1>1. new \in CostDoc BY NewCostIs
<1>2. table # "paymentSystem" /\ ReplaceCost(p, id, doc) /\ idCache' = idCache
  BY DEF SetAllPaymentChannelCostMerchant, UpdatePaymentMerchant
<1> HIDE DEF new
<1>3. doc \in CostDoc BY <1>1 DEF CostDoc
<1> HIDE DEF doc
<1>4. idCache \in [CostIds -> CostDoc \cup {NoCost}] BY DEF CostInv, CostTypeInv
<1> QED BY <1>2, <1>3, <1>4, OverwriteKeeps

LEMMA CostInitHolds == CostInit => CostInv
<1> SUFFICES ASSUME CostInit PROVE CostInv
  OBVIOUS
<1>1. /\ clerk = [x \in Clerks |-> clerk[x]] /\ \A x \in Clerks : clerk[x] = AtDesk
      /\ foundCache = [k \in Keys \cup {AllCosts} |-> foundCache[k]]
      /\ \A k \in Keys \cup {AllCosts} : foundCache[k] = NoCost
      /\ \A x \in CostIds : costDocs[x] = NoCost
  BY DEF CostInit
<1>2. CostTypeInv BY <1>1, IdleClerk, CostsAssumption DEF CostInit, CostTypeInv, LastDoc
<1>3. OneActive /\ SystemStart /\ LastStored
  BY <1>1 DEF CostInit, OneActive, SystemStart, LastStored, Active
<1>4. OneClerk /\ LastKnown BY <1>1 DEF CostInit, OneClerk, LastKnown, Stored
<1> QED BY <1>2, <1>3, <1>4 DEF CostInv

LEMMA CostStep == CostInv /\ [CostNext]_costVars => CostInv'
<1> SUFFICES ASSUME CostInv, [CostNext]_costVars PROVE CostInv'
  OBVIOUS
<1>1. CASE UNCHANGED costVars
  BY <1>1, Zenon DEF costVars, CostInv, CostTypeInv, OneActive, SystemStart, LastStored, LastKnown,
     OneClerk, NoTrouble, Active, SaysLast, Stored, NotSet, Unique
<1>2. ASSUME NEW p \in Clerks, RememberFound(p) PROVE CostInv' BY <1>2, RememberKeeps
<1>3. ASSUME NEW p \in Clerks, UpdateCaches(p) PROVE CostInv' BY <1>3, UpdateCachesKeeps
<1>4. ASSUME NEW p \in Clerks, FailCost(p) PROVE CostInv' BY <1>4, FailKeeps
<1>5. ASSUME NEW p \in Clerks, LookUpAll(p) PROVE CostInv'
  BY <1>5, LookUpKeeps DEF LookUpAll
<1>6. ASSUME NEW p \in Clerks, InsertManyPaymentMerchant(p) \/ InsertManyMoneyBackMerchant(p)
      PROVE CostInv'
  BY <1>6, InsertManyKeeps DEF InsertManyPaymentMerchant, InsertManyMoneyBackMerchant
<1>7. ASSUME NEW p \in Clerks, NEW k \in Keys, LookUp(p, k) PROVE CostInv'
  <2> DEFINE found == FindFor(k)
  <2>1. /\ (k \in Keys /\ found = FindFor(k)) \/ (k = AllCosts /\ found = ListAll)
        /\ StartCost(p)
        /\ clerk' = [clerk EXCEPT ![p] = [AtDesk EXCEPT !.pc = "remember", !.key = k,
                                                        !.found = found]]
        /\ UNCHANGED <<costDocs, foundCache, idCache, lastSet, costEdits>>
    BY <1>7 DEF LookUp
  <2>2. k \in Keys \cup {AllCosts} OBVIOUS
  <2> HIDE DEF found
  <2> QED BY <2>1, <2>2, LookUpKeeps
<1>8. ASSUME NEW p \in Clerks, NEW id \in CostIds,
             \/ DeletePaymentChannelCostMerchant(p, id) \/ DeletePaymentChannelCostSystem(p, id)
             \/ DeleteMoneyBackCostMerchant(p, id) \/ DeleteMoneyBackCostSystem(p, id)
      PROVE  CostInv'
  <2>1. Deactivate(p, id, ActiveById(id))
    BY <1>8 DEF DeletePaymentChannelCostMerchant, DeletePaymentChannelCostSystem,
       DeleteMoneyBackCostMerchant, DeleteMoneyBackCostSystem, DeletePaymentMerchant,
       DeletePaymentSystem, DeleteMoneyBackMerchant, DeleteMoneyBackSystem,
       PaymentMerchantById, PaymentSystemById, MoneyBackMerchantById, MoneyBackSystemById
  <2> QED BY <2>1, DeleteKeeps
<1>9. ASSUME NEW p \in Clerks, NEW id \in CostIds, NEW v \in Values,
             ReplacePaymentMerchant(p, id, v) \/ ReplaceMoneyBackMerchant(p, id, v)
      PROVE  CostInv'
  BY <1>9, ReplaceKeeps DEF ReplacePaymentMerchant, ReplaceMoneyBackMerchant
<1>10. ASSUME NEW p \in Clerks, NEW id \in CostIds, NEW k \in Keys, NEW v \in Values,
              SetPaymentChannelCostSystem(p, id, k, v)
       PROVE  CostInv'
  BY <1>10, SetSystemKeeps
<1>11. ASSUME NEW p \in Clerks, NEW id \in CostIds, NEW k \in Keys, NEW v \in Values,
              NEW n \in Starts,
              \/ SetPaymentChannelCostMerchant(p, id, k, n, v)
              \/ SetMoneyBackCostMerchant(p, id, k, n, v)
              \/ SetMoneyBackCostSystem(p, id, k, n, v)
       PROVE  CostInv'
  <2>1. \/ InsertCost(p, id, NewCost(k, n, v))
        \/ /\ FetchById(id, ActiveById(id))
           /\ ReplaceCost(p, id, NewCost(k, n, v)) \/ LoseRefusal(p, id, NewCost(k, n, v))
    BY <1>11, Zenon DEF SetPaymentChannelCostMerchant, SetMoneyBackCostMerchant,
       SetMoneyBackCostSystem, InsertPaymentMerchant, UpdatePaymentMerchant,
       InsertMoneyBackMerchant, UpdateMoneyBackMerchant, InsertMoneyBackSystem,
       UpdateMoneyBackSystem, PaymentMerchantById, MoneyBackMerchantById, MoneyBackSystemById
  <2>2. table # "paymentSystem"
    BY <1>11 DEF SetPaymentChannelCostMerchant, SetMoneyBackCostMerchant, SetMoneyBackCostSystem
  <2> QED BY <2>1, <2>2, SetKeeps
<1>12. ASSUME NEW p \in Clerks, NEW id \in CostIds, NEW k \in Keys, NEW v \in Values,
              NEW n \in Starts, NEW active \in BOOLEAN,
              SetAllPaymentChannelCostMerchant(p, id, k, n, v, active)
       PROVE  CostInv'
  BY <1>12, SetAllKeeps
<1>13. ASSUME CostNext PROVE CostInv'
  <2>1. PICK p \in Clerks :
          \/ RememberFound(p) \/ UpdateCaches(p) \/ FailCost(p) \/ LookUpAll(p)
          \/ InsertManyPaymentMerchant(p) \/ InsertManyMoneyBackMerchant(p)
          \/ \E k \in Keys : LookUp(p, k)
          \/ \E id \in CostIds :
                \/ DeletePaymentChannelCostMerchant(p, id)
                \/ DeletePaymentChannelCostSystem(p, id)
                \/ DeleteMoneyBackCostMerchant(p, id)
                \/ DeleteMoneyBackCostSystem(p, id)
                \/ \E v \in Values : \/ ReplacePaymentMerchant(p, id, v)
                                     \/ ReplaceMoneyBackMerchant(p, id, v)
                \/ \E k \in Keys, v \in Values :
                      \/ SetPaymentChannelCostSystem(p, id, k, v)
                      \/ \E n \in Starts :
                            \/ SetPaymentChannelCostMerchant(p, id, k, n, v)
                            \/ \E active \in BOOLEAN :
                                  SetAllPaymentChannelCostMerchant(p, id, k, n, v, active)
                            \/ SetMoneyBackCostMerchant(p, id, k, n, v)
                            \/ SetMoneyBackCostSystem(p, id, k, n, v)
    BY <1>13 DEF CostNext
  <2> QED BY <2>1, <1>2, <1>3, <1>4, <1>5, <1>6, <1>7, <1>8, <1>9, <1>10, <1>11, <1>12, Zenon
<1> QED BY <1>1, <1>13

LEMMA CostInvariant == CostSpec => []CostInv
BY CostInitHolds, CostStep, PTL DEF CostSpec

\* The documents, the caches and the requests keep their types (Costs).
THEOREM CostTypeCorrect == CostSpec => []CostTypeOK
<1>1. ASSUME CostTypeInv PROVE CostTypeOK
  <2>1. \A p \in Clerks : /\ clerk[p].pc \in {"idle", "remember", "insert", "invalidate"}
                          /\ clerk[p].key \in Keys \cup {AllCosts}
                          /\ clerk[p].found \subseteq Found
                          /\ clerk[p].doc \in CostDoc \cup {NoCost}
    <3> SUFFICES ASSUME NEW p \in Clerks
                 PROVE  /\ clerk[p].pc \in {"idle", "remember", "insert", "invalidate"}
                        /\ clerk[p].key \in Keys \cup {AllCosts}
                        /\ clerk[p].found \subseteq Found
                        /\ clerk[p].doc \in CostDoc \cup {NoCost}
      OBVIOUS
    <3>1. clerk[p] \in ClerkDoc BY <1>1 DEF CostTypeInv, ClerkType
    <3> QED BY <3>1 DEF ClerkDoc
  <2>2. costOverlaps + costFailures \in 0 .. MaxCostTroubles
    BY <1>1, CostsAssumption DEF CostTypeInv
  <2> QED BY <1>1, <2>1, <2>2 DEF CostTypeInv, CostTypeOK, LastDoc
<1>2. CostInv => CostTypeOK BY <1>1 DEF CostInv
<1> QED BY <1>2, CostInvariant, PTL

\* A cost a request was told was set is the one charged from then on to whom it was set
\* for, whatever was looked up, set, moved and deleted before, in each of the four tables,
\* while requests do not overlap and nothing fails; or its document was only in the cache,
\* or the unique index refused it (updateCaches of the four repositories).
THEOREM SettingTakesEffect == CostSpec => []SetTakesEffect
<1>1. ASSUME CostInv, CostsQuiet, Stored
      PROVE  CostOf(Lookup(lastSet.doc.country), lastSet.doc.country, lastSet.doc.start) = lastSet.doc.value
  <2> DEFINE found == Lookup(lastSet.doc.country)
  <2>1. CostTypeInv /\ OneActive /\ SystemStart /\ LastStored BY <1>1 DEF CostInv
  <2>2. NoTrouble BY <1>1, <2>1 DEF CostsQuiet, NoTrouble, CostTypeInv
  <2>3. \A p \in Clerks : clerk[p].pc # "invalidate" BY <1>1, IdleClerk DEF CostsQuiet
  <2>4. \/ foundCache[lastSet.doc.country] = NoCost
        \/ SaysLast(foundCache[lastSet.doc.country])
    BY <1>1, <2>2, <2>3 DEF CostInv, LastKnown
  <2>5. SaysLast(found) BY <1>1, <2>1, <2>4, FreshSaysLast DEF Lookup
  <2>6. table \in {"paymentSystem", "paymentMerchant", "moneyBackSystem", "moneyBackMerchant"}
    BY <2>1, CostsAssumption DEF CostTypeInv
  <2> HIDE DEF found
  <2>7. ASSUME table = "paymentSystem"
        PROVE  CostOf(found, lastSet.doc.country, lastSet.doc.start) = lastSet.doc.value
    <3> DEFINE cost == IF found = {} THEN NoCost ELSE (CHOOSE f \in found : TRUE)[2].value
    <3>1. CostOf(found, lastSet.doc.country, lastSet.doc.start) = cost BY ONLY <2>7 DEF CostOf
    <3>2. lastSet.doc.value = cost BY <2>5, <2>7 DEF SaysLast, Says
    <3> HIDE DEF cost
    <3> QED BY <3>1, <3>2
  <2>8. ASSUME table # "paymentSystem"
        PROVE  CostOf(found, lastSet.doc.country, lastSet.doc.start) = lastSet.doc.value
    <3> DEFINE cost == GetPaymentChannelCostMerchant(found, lastSet.doc.country, lastSet.doc.start)
    <3>1. CostOf(found, lastSet.doc.country, lastSet.doc.start) = cost
      BY <2>6, <2>8 DEF CostOf, GetMoneyBackCostMerchant, GetMoneyBackCostSystem
    <3>2. lastSet.doc.value = cost BY <2>5, <2>8 DEF SaysLast, Says
    <3> QED BY <3>1, <3>2
  <2> QED BY <2>7, <2>8 DEF found
<1>2. CostInv => SetTakesEffect BY <1>1 DEF CostInv, LastStored, SetTakesEffect
<1> QED BY <1>2, CostInvariant, PTL

-----------------------------------------------------------------------------
(* The shop: a behaviour has steps of the catalogue or of the costs, and   *)
(* so is one of each.                                                      *)

LEMMA ShopIsBoth == MCSpec => CatalogueSpec /\ CostSpec
<1>1. MCInit => CatalogueInit /\ CostInit
  BY DEF MCInit
<1>2. [MCNext]_mcVars => [CatalogueNext]_catalogueVars /\ [CostNext]_costVars
  BY DEF MCNext, mcVars
<1> QED
  BY <1>1, <1>2, PTL DEF MCSpec, CatalogueSpec, CostSpec

\* Projects, products, links and costs, their cached copies and what requests hold of them
\* keep their shape, whoever takes the steps.
THEOREM ShopTypesCorrect == MCSpec => []ShopTypesOK
<1>1. CatalogueTypeOK /\ CostTypeOK => ShopTypesOK
  BY DEF ShopTypesOK
<1> QED
  BY <1>1, ShopIsBoth, CatalogueTypeCorrect, CostTypeCorrect, PTL
=============================================================================
