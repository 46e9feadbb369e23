SPECIFICATION FairSpec
CONSTANTS
  Pkg = {p}
  Loader = loader
  Reloader = {r1}
  Task = {t1}
  None = None
  RepairThreshold = 0
  SeededThreshold = 1
  MaxSaves = 1
  MaxExternal = 0
  MaxFailures = 1
  MaxHeals = 1
  MaxEvents = 2
CHECK_DEADLOCK FALSE
PROPERTY
  LockIsReleased
