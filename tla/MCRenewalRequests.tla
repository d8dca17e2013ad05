------------------------- MODULE MCRenewalRequests -------------------------
(* Small instances of RenewalRequests for TLC.                             *)
EXTENDS RenewalRequests, TLC

\* Workers and files are interchangeable.
Symmetry == Permutations(Worker) \cup Permutations(File)
=============================================================================
