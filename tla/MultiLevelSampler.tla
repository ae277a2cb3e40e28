------------------------- MODULE MultiLevelSampler -------------------------
(***************************************************************************)
(* One section of SectionChooser::run, sampled by a list of                *)
(* MultiLevelSamplers (advancer/MultiLevelSampler.cc): between getBeads    *)
(* and putBeads each sampler makes nrepeat trial moves.  A trial chooses   *)
(* particles and a permutation of them, moves the slices level by level    *)
(* and stops at the first level that is rejected.                          *)
(*                                                                         *)
(* A bead is <<id, trial>>: the bead of which it is a new position, and    *)
(* the trial that put it there (0: fetched by getBeads).  What the action  *)
(* says of a trial is left open.                                           *)
(***************************************************************************)
EXTENDS Permutations, Sequences, FiniteSets

CONSTANTS Part,      \* particle labels
          nlevel,
          Samplers,  \* the samplers of the section: pool, nmoving, perms, walks
          nrepeat,
          DelayedRejection

ASSUME LevelAssumption == nlevel \in Nat /\ nrepeat \in Nat \ {0}
(* The laws of the powers the code computes by shifting 1.                 *)
ASSUME PowerAssumption == /\ 2 ^ 0 = 1
                          /\ \A l \in 0 .. nlevel : 2 ^ (l + 1) = 2 * 2 ^ l
ASSUME PartAssumption == IsFiniteSet(Part) /\ Part = 0 .. Cardinality(Part) - 1
ASSUME DelayedAssumption == DelayedRejection \in BOOLEAN
ASSUME ListAssumption == /\ Len(Samplers) \in Nat \ {0}
                         /\ DOMAIN Samplers = 1 .. Len(Samplers)

(* pool: the labels particleChooser draws from; perms: the permutations    *)
(* permutationChooser proposes; walks: it is a WalkingChooser, which uses  *)
(* its table and may come back without a permutation.                      *)
ASSUME SamplerAssumption ==
  \A k \in DOMAIN Samplers :
    /\ Samplers[k].pool \subseteq Part
    /\ Samplers[k].nmoving \in 1 .. Cardinality(Samplers[k].pool)
    /\ Samplers[k].perms \subseteq Perms(1 .. Samplers[k].nmoving)
    /\ Samplers[k].walks \in BOOLEAN

VARIABLES sectionBeads,        \* sectionBeads[s][label]
          sectionPermutation,
          movingBeads,         \* movingBeads[s][i], i a moving particle
          movingIndex,         \* its label
          permutation,         \* the permutation of the trial
          table,               \* the section ends WalkingChooser::init saw
          naccept, ntrial,     \* accRejEst of each sampler, by level
          sampler, irepeat, ilevel, trial, pc

vars == <<sectionBeads, sectionPermutation, movingBeads, movingIndex, permutation,
          table, naccept, ntrial, sampler, irepeat, ilevel, trial, pc>>

nsectionSlice == 2 ^ nlevel + 1
Last == nsectionSlice - 1
Slices == 0 .. Last
Levels == 0 .. nlevel
Sampler == DOMAIN Samplers

Moving == 1 .. Samplers[sampler].nmoving
Unset == [s \in Slices |-> [i \in Moving |-> <<-1, 0>>]]
Ends == <<sectionBeads[0], sectionBeads[Last]>>

(* The slices a mover moves on one level, midway between moved ones: from  *)
(* nStride on in steps of 2*nStride.                                       *)
LevelSlicesShort(l) ==
  {s \in 1 .. Last - 2 * 2 ^ l : \E k \in 0 .. Last : s = (2 * k + 1) * 2 ^ l}
LevelSlices(l) ==
  {s \in 1 .. Last - 2 ^ l : \E k \in 0 .. Last : s = (2 * k + 1) * 2 ^ l}

Init ==
  /\ sectionBeads = [s \in Slices |-> [i \in Part |-> <<i, 0>>]]
  /\ sectionPermutation = Identity(Part)
  /\ sampler = 1 /\ irepeat = 0 /\ ilevel = nlevel /\ trial = 0
  /\ movingBeads = Unset
  /\ movingIndex = [i \in Moving |-> i - 1]
  /\ permutation = Identity(Moving)
  /\ table = Ends
  /\ naccept = [k \in Sampler |-> [l \in Levels |-> 0]]
  /\ ntrial = naccept
  /\ pc = "run"

(* run begins: permutationChooser->init().  movingBeads still holds what   *)
(* earlier sections left there.                                            *)
Run == /\ pc = "run"
       /\ table' = Ends
       /\ movingBeads' = Unset
       /\ irepeat' = 0
       /\ pc' = "choose"
       /\ UNCHANGED <<sectionBeads, sectionPermutation, movingIndex, permutation,
                      naccept, ntrial, sampler, ilevel, trial>>

(* choosePermutation returns false.                                        *)
ChooseFails ==
  /\ pc = "choose" /\ irepeat < nrepeat /\ Samplers[sampler].walks
  /\ irepeat' = irepeat + 1
  /\ UNCHANGED <<sectionBeads, sectionPermutation, movingBeads, movingIndex,
                 permutation, table, naccept, ntrial, sampler, ilevel, trial, pc>>

(* Distinct labels of the pool.                                            *)
Chosen == {ix \in [Moving -> Samplers[sampler].pool] :
             \A i, j \in Moving : ix[i] = ix[j] => i = j}

(* Particles and permutation are chosen and the fixed ends are copied, the *)
(* last slice through pMovingIndex.                                        *)
Choose ==
  /\ pc = "choose" /\ irepeat < nrepeat
  /\ \E ix \in Chosen, p \in Samplers[sampler].perms :
       /\ movingIndex' = ix
       /\ permutation' = p
       /\ movingBeads' =
            [movingBeads EXCEPT
               ![0] = [i \in Moving |-> sectionBeads[0][ix[i]]],
               ![Last] = [i \in Moving |-> sectionBeads[Last][ix[p[i]]]]]
  /\ trial' = trial + 1
  /\ ilevel' = nlevel
  /\ pc' = "level"
  /\ UNCHANGED <<sectionBeads, sectionPermutation, table, naccept, ntrial, sampler,
                 irepeat>>

(* mover.makeMove: new positions for the slices of the level.              *)
MakeMove == movingBeads' =
  [s \in Slices |-> IF s \in LevelSlices(ilevel)
                    THEN [i \in Moving |-> <<movingIndex[i], trial>>]
                    ELSE movingBeads[s]]

TryingMove == ntrial' = [ntrial EXCEPT ![sampler][ilevel] = @ + 1]
MoveAccepted == naccept' = [naccept EXCEPT ![sampler][ilevel] = @ + 1]

(* One level of tryMove is accepted, at once or, with delayed rejection,   *)
(* on the second move that replaces a rejected one on level nlevel-1.      *)
LevelAccepted(delayed) ==
  /\ pc = "level"
  /\ delayed => DelayedRejection /\ ilevel = nlevel - 1
  /\ MakeMove
  /\ TryingMove
  /\ MoveAccepted
  /\ IF ilevel = 0 THEN pc' = "accept" /\ UNCHANGED ilevel
                   ELSE ilevel' = ilevel - 1 /\ UNCHANGED pc
  /\ UNCHANGED <<sectionBeads, sectionPermutation, movingIndex, permutation, table,
                 sampler, irepeat, trial>>

(* ... or rejected: tryMove returns false (in the first form it forgets to *)
(* count the trial).                                                       *)
RejectedUncounted ==
  /\ pc = "level"
  /\ MakeMove
  /\ irepeat' = irepeat + 1
  /\ pc' = "choose"
  /\ UNCHANGED <<sectionBeads, sectionPermutation, movingIndex, permutation, table,
                 naccept, ntrial, sampler, ilevel, trial>>
LevelRejected ==
  /\ pc = "level"
  /\ MakeMove
  /\ TryingMove
  /\ irepeat' = irepeat + 1
  /\ pc' = "choose"
  /\ UNCHANGED <<sectionBeads, sectionPermutation, movingIndex, permutation, table,
                 naccept, sampler, ilevel, trial>>

(* The section permutation after the move: label movingIndex[i] now ends   *)
(* where label movingIndex[permutation[i]] did.                            *)
Backwards(sp, ix, p) ==
  [a \in Part |-> IF \E i \in Moving : ix[p[i]] = a
                  THEN sp[ix[CHOOSE i \in Moving : ix[p[i]] = a]] ELSE sp[a]]
Appended(sp, ix, p) ==
  [a \in Part |-> IF \E i \in Moving : ix[i] = a
                  THEN sp[ix[p[CHOOSE i \in Moving : ix[i] = a]]] ELSE sp[a]]

(* permutationChooser->init() again, unless this was the last trial.       *)
KeptTable(ends) == table
TableAfter(ends) == IF irepeat < nrepeat - 1 THEN ends ELSE table

(* All levels were accepted: moved beads and permutation enter the section.*)
AcceptMove ==
  /\ pc = "accept"
  /\ sectionBeads' =
       [s \in Slices |-> [a \in Part |->
          IF \E i \in Moving : movingIndex[i] = a
          THEN movingBeads[s][CHOOSE i \in Moving : movingIndex[i] = a]
          ELSE sectionBeads[s][a]]]
  /\ sectionPermutation' = Appended(sectionPermutation, movingIndex, permutation)
  /\ table' = TableAfter(<<sectionBeads'[0], sectionBeads'[Last]>>)
  /\ irepeat' = irepeat + 1
  /\ pc' = "choose"
  /\ UNCHANGED <<movingBeads, movingIndex, permutation, naccept, ntrial, sampler,
                 ilevel, trial>>

(* CompositeAlgorithm::run goes on to the next sampler of the section.     *)
NextSampler ==
  /\ pc = "choose" /\ irepeat = nrepeat
  /\ IF sampler = Len(Samplers)
     THEN pc' = "put" /\ UNCHANGED sampler
     ELSE pc' = "run" /\ sampler' = sampler + 1
  /\ UNCHANGED <<sectionBeads, sectionPermutation, movingBeads, movingIndex,
                 permutation, table, naccept, ntrial, irepeat, ilevel, trial>>

Next == \/ Run
        \/ ChooseFails
        \/ Choose
        \/ \E delayed \in BOOLEAN : LevelAccepted(delayed)
        \/ LevelRejected
        \/ AcceptMove
        \/ NextSampler
        \/ (pc = "put" /\ UNCHANGED vars)

Spec == Init /\ [][Next]_vars

-----------------------------------------------------------------------------
MaxTrial == nrepeat * Len(Samplers)

TypeOK ==
  /\ sectionBeads \in [Slices -> [Part -> Part \X (0 .. MaxTrial)]]
  /\ sectionPermutation \in Perms(Part)
  /\ DOMAIN movingBeads = Slices
  /\ movingIndex \in [DOMAIN movingIndex -> Part]
  /\ sampler \in Sampler /\ irepeat \in 0 .. nrepeat /\ ilevel \in Levels
  /\ trial \in 0 .. MaxTrial
  /\ pc \in {"run", "choose", "level", "accept", "put"}

(* The contract putBeads relies on (Sampled in SerialPaths and              *)
(* ParallelPaths): whatever mixture of accepted and rejected, permuting and *)
(* plain moves of several samplers the section has seen, its first slice is *)
(* untouched, label a of its last slice is the bead label sp[a] was fetched *)
(* with, and in between no label has changed hands.                         *)
SectionMatchesPermutation ==
  /\ sectionBeads[0] = [a \in Part |-> <<a, 0>>]
  /\ sectionBeads[Last] = [a \in Part |-> <<sectionPermutation[a], 0>>]
  /\ \A s \in 1 .. Last - 1, a \in Part : sectionBeads[s][a][1] = a

(* A move enters the section whole: all slices of a label between the fixed *)
(* ends come from the same trial, never from a trial that was given up on a *)
(* later level or from an earlier section.                                  *)
NoHalfMove ==
  \A a \in Part : \A s, t \in 1 .. Last - 1 :
    sectionBeads[s][a] = sectionBeads[t][a]

(* The acceptance statistics fit together: a level is tried exactly as      *)
(* often as the level above it was accepted, delayed rejection included.    *)
AccRejChain ==
  \A k \in Sampler, l \in 0 .. nlevel - 1 :
    naccept[k][l + 1] =
      ntrial[k][l] + (IF k = sampler /\ pc = "level" /\ l = ilevel THEN 1 ELSE 0)

(* A WalkingChooser that proposes a cycle weighs it with the propagators of *)
(* the section as it now is, not as it was before an accepted permutation   *)
(* or before another sampler's moves.                                       *)
TableIsFresh ==
  pc = "choose" /\ irepeat < nrepeat /\ Samplers[sampler].walks => table = Ends
=============================================================================
