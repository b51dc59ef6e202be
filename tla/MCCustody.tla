------------------------------- MODULE MCCustody -------------------------------
(* Master-key custody for TLC, with processes that resolve at once.          *)
EXTENDS KeyCustody, TLC

\* The processes differ in nothing, and nothing temporal is checked here.
Symmetry == Permutations(Resolvers)
=============================================================================
