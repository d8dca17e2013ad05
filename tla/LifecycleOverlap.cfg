\* Operations on one client overlap.
SPECIFICATION Spec
CONSTANTS
  Client = {c1}
  Worker = {w1, w2}
  Key = {k1, k2, k3}
  PoolSize = 3
  NoClient = NoClient
  NoKey = NoKey
  NoAddr = NoAddr
  NoPeer = NoPeer
  Violations = {}
  Persistent = TRUE
  Discipline = {"card", "reliable", "quiet_restart"}
SYMMETRY Symmetry
INVARIANT SupersededNotLive
