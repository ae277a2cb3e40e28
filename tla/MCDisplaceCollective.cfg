CONSTANTS
  Part <- MCPart2
  NWorker = 2
  Tags = {0, 1, 111}
  Programs <- MCPrograms1
  Double = FALSE
  Exchanges <- MCExchanges2
  Choices <- MCChoices2
  Collective = TRUE
SPECIFICATION Spec
INVARIANT WorldlinesMoveRigidly
