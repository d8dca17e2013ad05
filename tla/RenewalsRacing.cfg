\* Operators and the portal's submissions in any order.
SPECIFICATION Spec
CONSTANTS
  Worker = {w1, w2}
  File = {f1, f2}
  NoFile = NoFile
  Days = {1}
  MaxRequests = 2
  MaxExtended = 1
  MaxTime = 0
  Exclusive = FALSE
SYMMETRY Symmetry
INVARIANTS TypeOK ClosedIffProcessed AtMostOneOpen
PROPERTIES AttachmentKept AttachedOnlyWhileOpen
