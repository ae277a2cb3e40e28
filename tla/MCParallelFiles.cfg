CONSTANTS
  Part <- MCPart
  NSlice = 11
  Tags = {1}
  NWorker = 2
  SectionSizes = {3}
  Exchanges <- MCExchanges
  BFactor = 3
  MaxShift = 2
  Programs <- MCPrograms
SPECIFICATION FilesSpec
INVARIANTS WritingChangesNothing ReadIsWritten SumSeesRead
