------------------------------- MODULE MCShop -------------------------------
(***************************************************************************)
(* What is sold and what it costs: Catalogue and Costs. They share no      *)
(* state, so a behaviour has steps of one of them.                         *)
(***************************************************************************)
EXTENDS Catalogue, Costs, TLC

VARIABLE subject

mcVars == <<catalogueVars, costVars, subject>>

\* CostIds are given the same model values as Handlers.
MCSymmetry == Permutations(Handlers) \cup Permutations(Projects)

MCInit ==
    /\ subject \in {"catalogue", "costs"}
    /\ CatalogueInit /\ (subject = "costs" => projects = projectCache)
    /\ CostInit /\ (subject = "catalogue" => table = "paymentSystem")

\* A failed call is one of two edits, not of three: SetTakesEffect is about costs set while
\* nothing failed.
FailedEarly == costFailures' > 0 => costEdits' <= 2

MCNext ==
    \/ subject = "catalogue" /\ CatalogueNext /\ UNCHANGED <<costVars, subject>>
    \/ subject = "costs" /\ CostNext /\ FailedEarly /\ UNCHANGED <<catalogueVars, subject>>

MCSpec == MCInit /\ [][MCNext]_mcVars

\* Every variable of the shop has its type.
ShopTypesOK == CatalogueTypeOK /\ CostTypeOK
=============================================================================
