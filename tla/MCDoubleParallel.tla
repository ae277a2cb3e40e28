-------------------------- MODULE MCDoubleParallel --------------------------
(* Three particles on two ranks.  Half of the ten slices is five, so rank  *)
(* 0 holds two slices of each half and rank 1 three.                       *)
EXTENDS DoubleParallelPaths

MCPart == 0 .. 2

(* Two pair exchanges that do not commute.                                 *)
MCExchanges == {[i \in MCPart |-> <<1, 0, 2>>[i + 1]], [i \in MCPart |-> <<0, 2, 1>>[i + 1]]}

MCPrograms == {<<"section", "global", "shift">>, <<"shift", "section", "section">>}
=============================================================================
