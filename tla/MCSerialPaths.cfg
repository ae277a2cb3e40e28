CONSTANTS
  Part <- MCPart
  NSlice = 4
  SectionSizes = {3, 5}
  Exchanges <- MCExchanges
  MaxShift = 4
  DoubleAction = TRUE
SPECIFICATION Spec
INVARIANTS NoBeadLost InverseIsCurrent SumSeesWorldlines TypeOK
PROPERTY ImplementsRing
