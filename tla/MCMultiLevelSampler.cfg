CONSTANTS
  Part <- MCPart
  Weight <- MCWeight
  nlevel = 2
  Samplers <- MCSamplers
  nrepeat = 2
  DelayedRejection = TRUE
SPECIFICATION Spec
INVARIANTS SectionMatchesPermutation NoHalfMove AccRejChain TableIsFresh
PROPERTY WalkIsReversible
