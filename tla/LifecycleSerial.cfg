\* One operation at a time, any of them failing anywhere, and restarts.
SPECIFICATION Spec
CONSTANTS
  Client = {c1, c2}
  Worker = {w1}
  Key = {k1, k2, k3}
  PoolSize = 2
  NoClient = NoClient
  NoKey = NoKey
  NoAddr = NoAddr
  NoPeer = NoPeer
  Violations = {}
  Persistent = TRUE
  Discipline = {"exclusive", "card", "quiet_restart"}
SYMMETRY Symmetry
INVARIANTS SupersededNotLive DeletedHasNoPeer SharedAddressOnlyAfterDelete
PROPERTY ImplementsAccess
PROPERTY DisableCutsPeer
