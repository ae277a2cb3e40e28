--------------------------- MODULE MCSerialPaths ---------------------------
(* Three particles on four slices: sections of 3 slices (nlevel = 1) wrap  *)
(* round the end of the array, sections of 5 close on themselves.          *)
EXTENDS SerialPaths, FiniteSets

MCPart == 0 .. 2

(* the identity (a rejected or non-permuting move) and the pair exchanges  *)
MCExchanges ==
  {p \in Perms(MCPart) : Cardinality({i \in MCPart : p[i] # i}) \in {0, 2}}
=============================================================================
