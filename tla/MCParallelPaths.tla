-------------------------- MODULE MCParallelPaths --------------------------
(* Three particles on three workers with two, two and three of the seven   *)
(* slices: only the last has slices after a section that begins at slice 0.*)
EXTENDS ParallelPaths

MCPart == 0 .. 2

(* Two pair exchanges that do not commute.                                 *)
MCExchanges == {[i \in MCPart |-> <<1, 0, 2>>[i + 1]], [i \in MCPart |-> <<0, 2, 1>>[i + 1]]}

MCPrograms == {<<"section", "global", "shift">>, <<"shift", "section", "shift">>,
               <<"section", "section">>}
=============================================================================
