------------------------- MODULE MCDoubleMLSampler -------------------------
(* Four particles, three of them the fermion species of the node model.    *)
EXTENDS DoubleMLSampler

MCPart == 0 .. 3
MCSpecies == 0 .. 2

(* Samplers of one particle, of two with the permutations ps, and of a     *)
(* walk through the species.                                               *)
One(pool, both) == [pool |-> pool, nmoving |-> 1, perms |-> {Identity(1 .. 1)},
                    walks |-> FALSE, both |-> both]
Two(pool, ps, both) == [pool |-> pool, nmoving |-> 2, perms |-> ps,
                        walks |-> FALSE, both |-> both]
Walk == [pool |-> MCSpecies, nmoving |-> 3, perms |-> {[i \in 1 .. 3 |-> (i % 3) + 1]},
         walks |-> TRUE, both |-> FALSE]

Setup(l, r, ks, updates, nodal) ==
  [nlevel |-> l, nrepeat |-> r, samplers |-> ks, useUpdates |-> updates,
   withNodalAction |-> nodal]

(* With full determinants: a permuting sampler of the species, one of both *)
(* sections, one of the other species, and a plain one.                    *)
MCSamplers == <<Walk, Two({0, 1}, Perms(1 .. 2), TRUE), One({3}, TRUE),
                One({0, 1}, FALSE)>>

(* With matrix updates: without permutations and on one section.           *)
MCPlain == <<Two(MCSpecies, {Identity(1 .. 2)}, FALSE), One({2, 3}, FALSE)>>

MCSetups == {Setup(1, 1, MCSamplers, FALSE, TRUE),
             Setup(2, 2, MCPlain, TRUE, TRUE),
             Setup(2, 2, MCPlain, TRUE, FALSE)}

(* Three-particle cycles with matrix updates.                              *)
MCCycles == {Setup(1, 2, <<Walk>>, TRUE, TRUE)}

(* Particles of all species on both sections (SimpleParticleChooser).      *)
MCAll == {Setup(1, 1, <<One(MCPart, TRUE)>>, FALSE, TRUE)}
=============================================================================
