--------------------------- MODULE MCSerialShift ---------------------------
(* Seven slices and buffers of four: one put takes at most three slices,   *)
(* shifts of up to sixteen slices are nested six deep.                     *)
EXTENDS SerialShift

MCPart == 0 .. 2
MCShifts == 0 .. 16
=============================================================================
