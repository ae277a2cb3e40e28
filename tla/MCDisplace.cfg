CONSTANTS
  Part <- MCPart
  NWorker = 3
  Tags = {0, 1, 111}
  Programs <- MCPrograms
  Double = FALSE
  Exchanges <- MCExchanges
  Choices <- MCChoices
  Collective = FALSE
SPECIFICATION Spec
INVARIANTS WorldlinesMoveRigidly ProposalsAgree PermutingStay
PROPERTY EveryRankFinishes
