\* The list and the bulk toolbar offer every request for every status.
SPECIFICATION Spec
CONSTANTS
  Client = {c1}
  Worker = {w1}
  Key = {k1, k2}
  PoolSize = 2
  NoClient = NoClient
  NoKey = NoKey
  NoAddr = NoAddr
  NoPeer = NoPeer
  Violations = {}
  Persistent = TRUE
  Discipline = {"exclusive", "reliable", "quiet_restart"}
SYMMETRY Symmetry
INVARIANT DeletedHasNoPeer
