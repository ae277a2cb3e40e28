CONSTANTS
  Part <- MCPart
  Species <- MCSpecies
  Setups <- MCAll
  DelayedRejection = FALSE
  Wrong = Wrong
SPECIFICATION Spec
INVARIANTS AcceptedIsTested
