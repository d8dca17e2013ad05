\* One text of up to four lines, cut into messages of four characters.
SPECIFICATION Spec
CONSTANTS
  Client = {c1}
  Lifetimes = {1}
  MaxTime = 0
  MaxEdits = 0
  Thresholds = {1}
  Runner = {r1}
  MaxFaults = 0
  ExpiringDays = 1
  Notifier = {n1}
  MaxDeaths = 0
  Limit = 4
  LineLength = {0, 1, 2, 4}
  MaxLines = 4
CHECK_DEADLOCK FALSE
INVARIANT ChunksFit
