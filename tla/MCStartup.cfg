CONSTANTS
  Files <- SomeFiles
  Flags <- SomeFlags
  Machines <- SomeMachines
  configLocations <- Locations
  unset = unset
SPECIFICATION Spec
INVARIANTS
  PrecedenceKept
  OnlyValidFiles
  SizedForPipeline
  RegionFromFirstSource
  ProxyFromFirstSource
  LocalModeAsksNothing
