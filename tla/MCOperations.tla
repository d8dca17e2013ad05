---------------------------- MODULE MCOperations ----------------------------
EXTENDS Operations, TLC

\* Workers and attachments are interchangeable; no liveness property is checked.
Symmetry == Permutations(Syncer) \cup Permutations(Attachment)
=============================================================================
