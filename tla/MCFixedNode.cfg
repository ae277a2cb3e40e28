CONSTANTS
  Part <- MCPart
  Species <- MCSpecies
  Setups <- MCSetups
  DelayedRejection = TRUE
  Wrong = Wrong
SPECIFICATION Spec
INVARIANTS SectionsMatchPermutations AcceptedIsTested ReferenceIsCurrent InverseIsCurrent
