-------------------------- MODULE MCClientLifecycle --------------------------
(* Small instances of ClientLifecycle for TLC.                             *)
EXTENDS ClientLifecycleAccess, TLC

\* Clients, key pairs and workers are interchangeable; addresses are not (the
\* lowest free one is taken).
Symmetry == Permutations(Client) \cup Permutations(Key) \cup Permutations(Worker)
=============================================================================
