CONSTANTS
  MaxLayers = 2
SPECIFICATION Spec
INVARIANTS
  TimeoutCounted
