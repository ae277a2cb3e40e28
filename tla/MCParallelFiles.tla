-------------------------- MODULE MCParallelFiles --------------------------
(* Two particles on two ranks with 5 and 6 of 11 slices: chunks of two     *)
(* slices, of which the last has only one.  The new run has 33 slices, 16   *)
(* on one rank and 17 on the other.                                        *)
EXTENDS ParallelPathFiles

MCPart == 0 .. 1
MCExchanges == Perms(MCPart)
MCPrograms == {<<"section", "global", "header", "chunk", "chunk", "chunk", "chunk",
                 "chunk", "chunk", "read">>}
=============================================================================
