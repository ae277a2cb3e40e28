CONSTANTS
  Part <- MCPart
  NSlice = 7
  BufferSlices = 4
  Shifts <- MCShifts
SPECIFICATION Spec
INVARIANTS ShiftIsRotation RewriteIsOrdered
PROPERTY ShiftTerminates
