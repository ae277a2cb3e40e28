-------------------------- MODULE DoubleMLSampler --------------------------
(***************************************************************************)
(* One pair of sections of DoubleSectionChooser::run, sampled by a list of *)
(* DoubleMLSamplers (advancer/DoubleMLSampler.cc), with the DoubleAction   *)
(* that judges them, FixedNodeAction (fixednode/FixedNodeAction.cc), and   *)
(* its FreeParticleNodes with or without matrix updates.                   *)
(*                                                                         *)
(* Side 1 and side 2 are the sections half a path apart.  The action keeps *)
(* per slice the determinant, the distance to the node and the inverse     *)
(* Slater matrix of the pair of slices.  Such a value is modelled by the   *)
(* configuration it was computed from: the beads of the species on both    *)
(* sides.  A value that belongs to no configuration is Wrong.              *)
(***************************************************************************)
EXTENDS Permutations, Sequences, FiniteSets

CONSTANTS Part,      \* particle labels 0 .. npart-1
          Species,   \* the labels of the fermion species of the node model
          DelayedRejection,
          Setups,    \* input files: nlevel, nrepeat, samplers, useUpdates (the
                     \* node model has a MatrixUpdate), withNodalAction
          Wrong      \* a value that is the determinant of nothing

(* A sampler: its pool, nmoving, perms and walks are those of              *)
(* MultiLevelSampler; both stands for samplingBoth.                        *)
IsSampler(k) ==
  /\ k.pool \subseteq Part
  /\ k.nmoving \in 1 .. Cardinality(k.pool)
  /\ k.perms \subseteq Perms(1 .. k.nmoving)
  /\ k.walks \in BOOLEAN /\ k.both \in BOOLEAN

ASSUME SetupAssumption ==
  /\ IsFiniteSet(Part) /\ Species \subseteq Part /\ DelayedRejection \in BOOLEAN
  /\ \A u \in Setups :
       /\ u.nlevel \in Nat /\ u.nrepeat \in Nat \ {0}
       /\ u.useUpdates \in BOOLEAN /\ u.withNodalAction \in BOOLEAN
       /\ Len(u.samplers) \in Nat \ {0}
       /\ DOMAIN u.samplers = 1 .. Len(u.samplers)
       /\ \A k \in DOMAIN u.samplers : IsSampler(u.samplers[k])
(* The laws of the powers the code computes by shifting 1.                 *)
ASSUME PowerAssumption ==
  /\ 2 ^ 0 = 1
  /\ \A u \in Setups : \A l \in 0 .. u.nlevel : 2 ^ (l + 1) = 2 * 2 ^ l

VARIABLES setup,
          sectionBeads,        \* sectionBeads[x][s][label], side x
          sectionPermutation,
          movingBeads,         \* movingBeads[x][s][i], i a moving particle
          movingIndex,
          permutation,
          sampler, irepeat, ilevel, trial, pc,
          dmValue, newDMValue, \* FixedNodeAction, by slice
          dist, newDist,
          notMySpecies,
          matrix,              \* FreeParticleNodes, by slice
          newMatrix,           \* MatrixUpdate, by slice
          phi,
          isNewMatrixUpdated

sectionVars == <<setup, sectionBeads, sectionPermutation>>
movingVars == <<movingBeads, movingIndex, permutation>>
actionVars == <<dmValue, newDMValue, dist, newDist, notMySpecies, matrix, newMatrix,
                phi, isNewMatrixUpdated>>
vars == <<sectionVars, movingVars, sampler, irepeat, ilevel, trial, pc, actionVars>>

nlevel == setup.nlevel
nrepeat == setup.nrepeat
Samplers == setup.samplers
UseUpdates == setup.useUpdates
WithNodalAction == setup.withNodalAction

nsectionSlice == 2 ^ nlevel + 1
Last == nsectionSlice - 1
Slices == 0 .. Last
Levels == 0 .. nlevel
Side == {1, 2}
Sampler == DOMAIN Samplers

Moving == 1 .. Samplers[sampler].nmoving
samplingBoth == Samplers[sampler].both
Sampled == IF samplingBoth THEN Side ELSE {1}

(* Configurations of the species: as the section has it, and with the      *)
(* moving beads mv of the given sides in place.                            *)
With(slice, ix, mv) ==
  [a \in DOMAIN slice |-> IF \E i \in Moving : ix[i] = a
                          THEN mv[CHOOSE i \in Moving : ix[i] = a] ELSE slice[a]]
OfSpecies(slice) == [a \in Species |-> slice[a]]
Config(beads, s) == [x \in Side |-> OfSpecies(beads[x][s])]
Moved(mv, sides, s) ==
  [x \in Side |-> OfSpecies(IF x \in sides
                            THEN With(sectionBeads[x][s], movingIndex[x], mv[x][s])
                            ELSE sectionBeads[x][s])]

-----------------------------------------------------------------------------
(* DoubleSectionChooser::run before the samplers: both sections are        *)
(* fetched, FixedNodeAction::initialize evaluates every slice.             *)
Init ==
  /\ setup \in Setups
  /\ sectionBeads = [x \in Side |-> [s \in Slices |-> [a \in Part |-> <<a, 0>>]]]
  /\ sectionPermutation = [x \in Side |-> Identity(Part)]
  /\ sampler = 1 /\ irepeat = 0 /\ ilevel = nlevel /\ trial = 0 /\ pc = "run"
  /\ movingBeads = [x \in Side |-> [s \in Slices |-> [i \in Moving |-> <<-1, 0>>]]]
  /\ movingIndex = [x \in Side |-> [i \in Moving |-> i - 1]]
  /\ permutation = [x \in Side |-> Identity(Moving)]
  /\ dmValue = [s \in Slices |-> Config(sectionBeads, s)]
  /\ dist = dmValue /\ matrix = dmValue
  /\ newDMValue = [s \in Slices |-> IF s = 0 THEN dmValue[0] ELSE Wrong]
  /\ newDist = newDMValue
  /\ newMatrix = [s \in Slices |-> Wrong] /\ phi = newMatrix
  /\ isNewMatrixUpdated \in BOOLEAN /\ notMySpecies \in BOOLEAN

Run == /\ pc = "run"
       /\ irepeat' = 0
       /\ movingBeads' = [x \in Side |-> [s \in Slices |-> [i \in Moving |-> <<-1, 0>>]]]
       /\ movingIndex' = [x \in Side |-> [i \in Moving |-> i - 1]]
       /\ permutation' = [x \in Side |-> Identity(Moving)]
       /\ pc' = "choose"
       /\ UNCHANGED <<sectionVars, sampler, ilevel, trial, actionVars>>

Chosen == {ix \in [Moving -> Samplers[sampler].pool] :
             \A i, j \in Moving : ix[i] = ix[j] => i = j}

(* isNewPerm is false: a walk met a particle twice or was not accepted.    *)
(* Labels and permutations have been overwritten, possibly by a walk that  *)
(* is no cycle; the moving beads have not.                                 *)
ChooseFails ==
  /\ pc = "choose" /\ irepeat < nrepeat /\ Samplers[sampler].walks
  /\ \E ix \in [Sampled -> [Moving -> Samplers[sampler].pool]],
        p \in [Sampled -> Samplers[sampler].perms] :
       /\ movingIndex' =
            [x \in Side |-> IF x \in Sampled THEN ix[x] ELSE movingIndex[x]]
       /\ permutation' =
            [x \in Side |-> IF x \in Sampled THEN p[x] ELSE permutation[x]]
  /\ irepeat' = irepeat + 1
  /\ UNCHANGED <<sectionVars, movingBeads, sampler, ilevel, trial, pc, actionVars>>

(* Both sides choose particles and permutation; the fixed ends of the      *)
(* sampled sides are copied.                                               *)
Choose ==
  /\ pc = "choose" /\ irepeat < nrepeat
  /\ \E ix \in [Sampled -> Chosen], p \in [Sampled -> Samplers[sampler].perms] :
       LET ix2 == [x \in Side |-> IF x \in Sampled THEN ix[x] ELSE movingIndex[x]]
           p2  == [x \in Side |-> IF x \in Sampled THEN p[x] ELSE permutation[x]]
       IN /\ movingIndex' = ix2
          /\ permutation' = p2
          /\ movingBeads' =
               [x \in Side |->
                  IF x \notin Sampled THEN movingBeads[x]
                  ELSE [movingBeads[x] EXCEPT
                          ![0] = [i \in Moving |-> sectionBeads[x][0][ix2[x][i]]],
                          ![Last] = [i \in Moving |->
                                       sectionBeads[x][Last][ix2[x][p2[x][i]]]]]]
  /\ trial' = trial + 1
  /\ ilevel' = nlevel
  /\ pc' = "level"
  /\ UNCHANGED <<sectionVars, sampler, irepeat, actionVars>>

-----------------------------------------------------------------------------
LevelSlices(l) ==
  {s \in 1 .. Last - 2 ^ l : \E k \in 0 .. Last : s = (2 * k + 1) * 2 ^ l}

(* The slices getActionDifference checks on a level; on the highest one    *)
(* that is the last slice, whose beads are only permuted.                  *)
InnerSlices(l) == LevelSlices(l)
CheckedSlices(l) ==
  {s \in 1 .. Last : \E k \in 0 .. Last : s = (2 * k + 1) * 2 ^ l}

MadeMove == [x \in Side |->
  IF x \notin Sampled THEN movingBeads[x]
  ELSE [s \in Slices |-> IF s \in LevelSlices(ilevel)
                         THEN [i \in Moving |-> <<movingIndex[x][i], trial>>]
                         ELSE movingBeads[x][s]]]

(* Only the particles moving on side 1 are looked at.                      *)
NoneOfMine == \A i \in Moving : movingIndex[1][i] \notin Species

(* The matrix update knows the moving beads of side 1 only, and is right   *)
(* only if it starts from the inverse of the section as it is.             *)
Updated(inverse, s, config) ==
  IF inverse = Config(sectionBeads, s) THEN config ELSE Wrong

(* getActionDifference on the slices checked up to s0, moving beads mv:    *)
(* determinants, and on level 0 (full: no node was crossed) the distances. *)
Evaluate(mv, s0, full) ==
  LET checked  == {s \in CheckedSlices(ilevel) : s <= s0}
      nodal    == WithNodalAction /\ ilevel = 0 /\ full
      onSide1  == [s \in Slices |-> Moved(mv, {1}, s)]
      new      == [s \in Slices |-> Moved(mv, Sampled, s)]
  IN IF NoneOfMine
     THEN /\ notMySpecies' = TRUE
          /\ UNCHANGED <<newDMValue, newDist, matrix, newMatrix, phi,
                         isNewMatrixUpdated>>
     ELSE IF UseUpdates
     THEN /\ notMySpecies' = FALSE
          /\ phi' = [s \in Slices |-> IF s \in checked THEN onSide1[s] ELSE phi[s]]
          /\ newDMValue' =
               [s \in Slices |->
                  IF s \notin checked THEN newDMValue[s]
                  ELSE IF dmValue[s] = Config(sectionBeads, s)
                  THEN Updated(matrix[s], s, onSide1[s]) ELSE Wrong]
          /\ newMatrix' =
               [s \in Slices |-> IF nodal /\ s # 0
                                 THEN Updated(matrix[s], s, phi'[s]) ELSE newMatrix[s]]
          /\ newDist' =
               [s \in Slices |-> IF nodal /\ s # 0
                                 THEN IF newMatrix'[s] = new[s] THEN new[s] ELSE Wrong
                                 ELSE newDist[s]]
          /\ isNewMatrixUpdated' = nodal
          /\ UNCHANGED matrix
     ELSE /\ notMySpecies' = FALSE
          /\ matrix' = [s \in Slices |-> IF s \in checked THEN new[s] ELSE matrix[s]]
          /\ newDMValue' =
               [s \in Slices |-> IF s \in checked THEN new[s] ELSE newDMValue[s]]
          /\ newDist' =
               [s \in Slices |-> IF nodal /\ s # 0
                                 THEN IF matrix'[s] = new[s] THEN new[s] ELSE Wrong
                                 ELSE newDist[s]]
          /\ UNCHANGED <<newMatrix, phi, isNewMatrixUpdated>>

(* A level of tryMove, or its second attempt with delayed rejection.  All  *)
(* slices are on the right side of the node and the move is accepted.      *)
LevelAccepted ==
  /\ pc \in {"level", "delayed"}
  /\ movingBeads' = MadeMove
  /\ Evaluate(MadeMove, Last, TRUE)
  /\ IF ilevel = 0 THEN pc' = "accept" /\ UNCHANGED ilevel
                   ELSE pc' = "level" /\ ilevel' = ilevel - 1
  /\ UNCHANGED <<sectionVars, movingIndex, permutation, sampler, irepeat, trial,
                 dmValue, dist>>

(* A node was crossed on slice s0 (2e100 is returned at once), or none was *)
(* and the move is rejected for other reasons.  With delayed rejection the *)
(* second attempt follows on level nlevel-1.                               *)
LevelRejected ==
  /\ pc \in {"level", "delayed"}
  /\ movingBeads' = MadeMove
  /\ \/ \E s0 \in CheckedSlices(ilevel) : Evaluate(MadeMove, s0, FALSE)
     \/ Evaluate(MadeMove, Last, TRUE)
  /\ IF pc = "level" /\ DelayedRejection /\ ilevel = nlevel - 1
     THEN pc' = "delayed" /\ trial' = trial + 1 /\ UNCHANGED irepeat
     ELSE pc' = "choose" /\ irepeat' = irepeat + 1 /\ UNCHANGED trial
  /\ UNCHANGED <<sectionVars, movingIndex, permutation, sampler, ilevel, dmValue, dist>>

-----------------------------------------------------------------------------
(* MatrixUpdate::acceptLastMove takes over the slices between the ends.    *)
KeepMatrices == UNCHANGED <<matrix, newMatrix>>
AcceptMatrices ==
  IF ~UseUpdates THEN UNCHANGED <<matrix, newMatrix>>
  ELSE /\ matrix' =
            [s \in Slices |->
               IF s \notin 1 .. Last - 1  THEN matrix[s]
               ELSE IF isNewMatrixUpdated THEN newMatrix[s]
               ELSE                            Updated(matrix[s], s, phi[s])]
       /\ newMatrix' =
            [s \in Slices |-> IF s \in 1 .. Last - 1 /\ isNewMatrixUpdated
                              THEN matrix[s] ELSE newMatrix[s]]

(* FixedNodeAction::acceptLastMove, first without its early return.        *)
AcceptAlways == /\ dmValue' = newDMValue
                /\ dist' = newDist
                /\ AcceptMatrices
AcceptLastMove ==
  IF notMySpecies
  THEN UNCHANGED <<dmValue, dist, matrix, newMatrix>>
  ELSE /\ dmValue' = newDMValue
       /\ dist' = newDist
       /\ AcceptMatrices

Appended(sp, ix, p) ==
  [a \in Part |-> IF \E i \in Moving : ix[i] = a
                  THEN sp[ix[p[CHOOSE i \in Moving : ix[i] = a]]] ELSE sp[a]]
(* With the permutation of side 1 on both sides.                           *)
AppendedPermutations1 ==
  [x \in Side |-> IF x \in Sampled
                  THEN Appended(sectionPermutation[x], movingIndex[x], permutation[1])
                  ELSE sectionPermutation[x]]
AppendedPermutations ==
  [x \in Side |-> IF x \in Sampled
                  THEN Appended(sectionPermutation[x], movingIndex[x], permutation[x])
                  ELSE sectionPermutation[x]]

(* All levels were accepted: the action and the sections take the move.    *)
AcceptMove ==
  /\ pc = "accept"
  /\ AcceptLastMove
  /\ sectionBeads' =
       [x \in Side |-> [s \in Slices |->
          IF x \in Sampled
          THEN With(sectionBeads[x][s], movingIndex[x], movingBeads[x][s])
          ELSE sectionBeads[x][s]]]
  /\ sectionPermutation' = AppendedPermutations
  /\ irepeat' = irepeat + 1
  /\ pc' = "choose"
  /\ UNCHANGED <<setup, movingVars, sampler, ilevel, trial, newDMValue, newDist,
                 notMySpecies, phi, isNewMatrixUpdated>>

NextSampler ==
  /\ pc = "choose" /\ irepeat = nrepeat
  /\ IF sampler = Len(Samplers) THEN pc' = "put" /\ UNCHANGED sampler
                                ELSE pc' = "run" /\ sampler' = sampler + 1
  /\ UNCHANGED <<sectionVars, movingVars, irepeat, ilevel, trial, actionVars>>

Next == \/ Run
        \/ ChooseFails
        \/ Choose
        \/ LevelAccepted
        \/ LevelRejected
        \/ AcceptMove
        \/ NextSampler
        \/ (pc = "put" /\ UNCHANGED vars)

Spec == Init /\ [][Next]_vars

-----------------------------------------------------------------------------
TypeOK ==
  /\ \A x \in Side : /\ sectionPermutation[x] \in Perms(Part)
                     /\ sectionBeads[x] \in [Slices -> [Part -> Part \X Nat]]
  /\ sampler \in Sampler /\ irepeat \in 0 .. nrepeat /\ ilevel \in 0 .. nlevel
  /\ pc \in {"run", "choose", "level", "delayed", "accept", "put"}
  /\ \A f \in {dmValue, newDMValue, dist, newDist, matrix, newMatrix, phi} :
       DOMAIN f = Slices
  /\ notMySpecies \in BOOLEAN /\ isNewMatrixUpdated \in BOOLEAN

(* What FixedNodeAction takes for granted of an input file: a sampler of   *)
(* both sections moves the species only or not at all; where the node model *)
(* has matrix updates, the species moves on side 1 only and permutes        *)
(* nothing.                                                                *)
Careful ==
  \A k \in Sampler :
    LET p == Samplers[k]
    IN /\ p.both => p.pool \subseteq Species \/ p.pool \cap Species = {}
       /\ UseUpdates => \/ p.pool \cap Species = {}
                        \/ ~p.both /\ p.perms \subseteq {Identity(1 .. p.nmoving)}

(* The contract putDoubleBeads relies on, on each side: ends fixed, last   *)
(* slice permuted as the section permutation says, labels kept between.    *)
SectionsMatchPermutations ==
  \A x \in Side :
    /\ sectionBeads[x][0] = [a \in Part |-> <<a, 0>>]
    /\ sectionBeads[x][Last] = [a \in Part |-> <<sectionPermutation[x][a], 0>>]
    /\ \A s \in 1 .. Last - 1, a \in Part : sectionBeads[x][s][a][1] = a

(* Fixed node restriction: when a move is accepted, the determinant that   *)
(* was tested on each slice is that of the beads the move puts there, both *)
(* sections considered, whatever was evaluated, given up or tried twice    *)
(* before.                                                                 *)
AcceptedIsTested ==
  pc = "accept" =>
    \A s \in 1 .. Last :
      LET new == Moved(movingBeads, Sampled, s)
      IN (IF notMySpecies THEN dmValue[s] ELSE newDMValue[s]) = new

(* Between trials the stored determinants and distances are those of the   *)
(* section, the reference the next trial is compared with.                 *)
ReferenceIsCurrent ==
  pc = "choose" =>
    \A s \in Slices : /\ dmValue[s] = Config(sectionBeads, s)
                      /\ WithNodalAction => dist[s] = Config(sectionBeads, s)

(* Between trials the inverse matrices the updates start from are those of *)
(* the section.                                                            *)
InverseIsCurrent ==
  UseUpdates /\ pc = "choose" =>
    \A s \in Slices : matrix[s] = Config(sectionBeads, s)
=============================================================================
