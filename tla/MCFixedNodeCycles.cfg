CONSTANTS
  Part <- MCPart
  Species <- MCSpecies
  Setups <- MCCycles
  DelayedRejection = FALSE
  Wrong = Wrong
SPECIFICATION Spec
INVARIANTS InverseIsCurrent
