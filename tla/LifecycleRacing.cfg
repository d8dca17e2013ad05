\* Two workers on one client of the legacy protocol, any request in any status.
SPECIFICATION Spec
CONSTANTS
  Client = {c1}
  Worker = {w1, w2}
  Key = {k1, k2, k3}
  PoolSize = 2
  NoClient = NoClient
  NoKey = NoKey
  NoAddr = NoAddr
  NoPeer = NoPeer
  Violations = {"expired"}
  Persistent = FALSE
  Discipline = {"reliable"}
SYMMETRY Symmetry
INVARIANTS TypeOK ConfigMatchesKey ReasonMatchesStatus
