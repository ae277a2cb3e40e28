------------------------ MODULE MCMultiLevelSampler ------------------------
(* A WalkingChooser with 3-cycles, followed by single moves and pair       *)
(* exchanges of the same four particles, on a section of 5 slices.         *)
EXTENDS WalkingChooser

MCPart == 0 .. 3

Swap2 == [i \in 1 .. 2 |-> 3 - i]

(* No two cycles, and no cycle and its inverse, are equally likely.        *)
MCWeight == [i \in MCPart |-> [j \in MCPart |-> 1 + ((2 * i + j * j) % 3)]]

MCSamplers ==
  <<[pool |-> MCPart, nmoving |-> 3, perms |-> {Cycle(3)}, walks |-> TRUE],
    [pool |-> MCPart, nmoving |-> 2, perms |-> Perms(1 .. 2), walks |-> FALSE]>>
=============================================================================
