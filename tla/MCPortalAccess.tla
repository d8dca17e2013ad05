--------------------------- MODULE MCPortalAccess ---------------------------
(* A small instance of PortalAccess for TLC.                               *)
EXTENDS PortalAccess, TLC

Symmetry == Permutations(Worker) \cup Permutations(Token)
=============================================================================
