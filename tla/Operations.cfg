SPECIFICATION Spec
CONSTANTS
  Syncer = {w1, w2}
  AtFirst = {"running", "missing"}
  MaxChanges = 1
  Attachment = {a1, a2}
  KeepCount = 1
  MaxBackups = 2
SYMMETRY Symmetry
CHECK_DEADLOCK FALSE
INVARIANTS TypeOK VerifiedIsWhole
PROPERTIES HealthyWasSeen RestoredAll
