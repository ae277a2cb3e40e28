CONSTANTS
  Part <- MCPart2
  NWorker = 2
  Tags = {0, 1, 111}
  Programs <- MCPrograms1
  Double = TRUE
  Exchanges <- MCExchanges2
  Choices <- MCChoices2
  Collective = FALSE
SPECIFICATION Spec
INVARIANT PermutingStay
