------------------------------ MODULE MCGateway ------------------------------
(* Gateway with two handlers and two terminals.                            *)
EXTENDS Gateway

\* A token with lifetimes, and one without.
MCLifetimes == {[access |-> 1, refresh |-> 2], [access |-> 0, refresh |-> 0]}
=============================================================================
