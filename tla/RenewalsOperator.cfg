\* One operator at a time, beside the portal.
SPECIFICATION Spec
CONSTANTS
  Worker = {w1, w2}
  File = {f1}
  NoFile = NoFile
  Days = {1, 2}
  MaxRequests = 2
  MaxExtended = 2
  MaxTime = 2
  Exclusive = TRUE
SYMMETRY Symmetry
INVARIANT ExtendedOnce
PROPERTIES ClosedForGood ExtensionAddsDays ImplementsDesk
