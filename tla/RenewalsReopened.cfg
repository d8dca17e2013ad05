\* Two operators save one request.
SPECIFICATION Spec
CONSTANTS
  Worker = {w1, w2}
  File = {f1, f2}
  NoFile = NoFile
  Days = {1}
  MaxRequests = 2
  MaxExtended = 1
  MaxTime = 0
  Exclusive = FALSE
SYMMETRY Symmetry
PROPERTY ClosedForGood
