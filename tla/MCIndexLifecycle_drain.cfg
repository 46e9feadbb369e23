SPECIFICATION Spec
CONSTANTS
  Pkg = {p, q}
  Loader = loader
  Reloader = {r1}
  Task = {t1}
  None = None
  RepairThreshold = 1
  SeededThreshold = 2
  MaxSaves = 2
  MaxExternal = 0
  MaxFailures = 0
  MaxHeals = 0
  MaxEvents = 2
CHECK_DEADLOCK FALSE
INVARIANT
  DrainCanLock
