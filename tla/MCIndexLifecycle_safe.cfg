SPECIFICATION Spec
CONSTANTS
  Pkg = {p, q}
  Loader = loader
  Reloader = {r1}
  Task = {t1, t2}
  None = None
  RepairThreshold = 1
  SeededThreshold = 2
  MaxSaves = 2
  MaxExternal = 1
  MaxFailures = 1
  MaxHeals = 1
  MaxEvents = 2
SYMMETRY Symmetry
CHECK_DEADLOCK FALSE
INVARIANTS
  TypeOK
  ServedIndexIsOpen
  ReindexHoldsOpenDB
  OneOwnerPerFile
  DroppedReindexIsMadeUpFor
