CONSTANTS
  Part <- MCPart
  NSlice = 10
  Tags = {1, 2}
  NWorker = 2
  SectionSizes = {3}
  Exchanges <- MCExchanges
  MaxShift = 2
  Programs <- MCPrograms
SPECIFICATION Spec
INVARIANTS SumSeesWorldlines
PROPERTIES ImplementsRing GlobalPermutationIsAround
