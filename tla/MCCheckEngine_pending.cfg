SPECIFICATION Spec
CONSTANTS
  Dir = {d1}
  ExtDir = {}
  Slot = {s1, s2}
  Getter = {g1}
  None = None
  MaxLRU = 1
  Undo = FALSE
  Shutdown = {}
  MaxEdits = 2
  MaxDepChanges = 0
  MaxGets = 1
  MaxFaults = 0
  MaxEvents = 3
INVARIANT
  PendingIsExact
