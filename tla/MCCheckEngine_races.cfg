SPECIFICATION Spec
CONSTANTS
  Dir = {d1}
  ExtDir = {}
  Slot = {s1, s2, s3}
  Getter = {g1, g2}
  None = None
  MaxLRU = 1
  Undo = FALSE
  Shutdown = {"Retire", "Stop"}
  MaxEdits = 2
  MaxDepChanges = 1
  MaxGets = 2
  MaxFaults = 1
  MaxEvents = 3
SYMMETRY Symmetry
INVARIANTS
  TypeOK
  FreshWhenQuiet
  CacheFreshWhenQuiet
  OneLiveJob
  WaitNeverEarly
  GetNeverStale
