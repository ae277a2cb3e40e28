CONSTANTS
  Part <- MCPart
  NSlice = 7
  Tags = {1}
  NWorker = 3
  SectionSizes = {3}
  Exchanges <- MCExchanges
  MaxShift = 2
  Programs <- MCPrograms
SPECIFICATION Spec
INVARIANTS SumSeesWorldlines ShiftSendsFreshSlices NoCrossTalk TypeOK
PROPERTIES ImplementsRing GlobalPermutationIsAround EveryRankFinishes
