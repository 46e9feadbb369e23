SPECIFICATION Spec
CONSTANTS
  Doc = {"base", "test", "dep"}
  Unit = {"u", "u_test", "dep"}
  UnitOf <- MCUnitOf
  BaseOf <- MCBaseOf
  Outside = {"dep"}
  Importing = {"base"}
  OnDisk <- MCOnDisk
  MaxEngine = 3
  File = {"lib1", "lib2", "app1", "libx"}
  Pkg = {"lib", "app", "lib_test"}
  PkgOf <- MCPkgOf
  ForTest <- MCForTest
  Imports <- MCImports
  UnitDir <- MCUnitDir
  Large = {"app1"}
  None = None
  RepairThreshold = 1
  MaxDecoded = 1
  MaxFired = 2
  Loads <- MCEarly
CHECK_DEADLOCK FALSE
INVARIANT
  GateIsTemporary
