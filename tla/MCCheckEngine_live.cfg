SPECIFICATION FairSpec
CONSTANTS
  Dir = {d1}
  ExtDir = {d1}
  Slot = {s1, s2}
  Getter = {g1}
  None = None
  MaxLRU = 1
  Undo = FALSE
  Shutdown = {"Retire", "Stop"}
  MaxEdits = 1
  MaxDepChanges = 1
  MaxGets = 1
  MaxFaults = 1
  MaxEvents = 2
PROPERTIES
  EveryGetReturns
  ClientCatchesUp
