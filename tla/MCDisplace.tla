----------------------------- MODULE MCDisplace -----------------------------
(* Three particles, of which one or an ordered pair moves.                 *)
EXTENDS DisplaceMoveSampler

MCPart == 0 .. 2
MCChoices == {<<i>> : i \in {0, 1}} \cup {<<0, 2>>}

(* On three ranks: permutations that do not commute.                       *)
MCExchanges == {Identity(MCPart), [i \in MCPart |-> <<1, 0, 2>>[i + 1]],
                [i \in MCPart |-> (i + 1) % 3]}
MCPrograms == {<<"displace", "displace">>}

(* On two ranks with two halves: any of two particles.                     *)
MCPart2 == 0 .. 1
MCChoices2 == {<<0>>, <<1>>}
MCExchanges2 == Perms(MCPart2)
MCPrograms1 == {<<"displace">>}
=============================================================================
