------------------------ MODULE DisplaceMoveSampler ------------------------
(***************************************************************************)
(* DisplaceMoveSampler and DoubleDisplaceMoveSampler (advancer/) on        *)
(* NWorker ranks: all ranks together move a few whole worldlines, which    *)
(* each of them knows by other labels.                                     *)
(*                                                                         *)
(* The paths are those of ParallelPaths, or of DoubleParallelPaths when    *)
(* Double.  Of a rank's slices three kinds matter, as the code treats the  *)
(* slices of a kind alike: the owned ones and the buffers on either side.  *)
(* A coordinate is the bag of displacements it has received; rounding is   *)
(* left out, so a displacement taken back is as if it had never been.      *)
(* One operation of the program is one turn of the nrepeat loop.           *)
(***************************************************************************)
EXTENDS Permutations, Ranks, Bags, FiniteSets

CONSTANTS Part,
          Double,      \* the sampler and the paths for double actions
          Exchanges,   \* permutations that earlier sections may have left
          Choices,     \* what chooseParticles may return
          Collective   \* TRUE: CollectiveMover, FALSE: UniformMover

ASSUME DisplaceAssumption == Tags = {0, 1, 111} /\ Programs \subseteq Seq({"displace"})
ASSUME ExchangesAssumption == Exchanges \subseteq Perms(Part)
ASSUME ChoicesAssumption == Choices \subseteq Seq(Part)

Sum == 0         \* stands for the communication of Reduce

VARIABLES permutation,       \* permutation[w][h]
          coords,            \* coords[w][h][kind of slice][i]
          movingIndex,       \* movingIndex[w][k], the k-th moving particle
          displacement,      \* the rank whose random numbers w uses
          gathered,          \* iworkerPerm of rank 0
          globalPermutation, \* the local variable of rank 0
          chosen,            \* index of rank 0's particleChooser
          passing,           \* iworkerMovingIndex of rank 0
          peer               \* the loop variable src or iw of rank 0

rootVars == <<gathered, globalPermutation, chosen, passing, peer>>
pathVars == <<permutation, coords>>
moveVars == <<movingIndex, displacement>>
vars == <<pathVars, moveVars, rootVars, rankVars>>

Half == IF Double THEN {1, 2} ELSE {1}
Place == {"lower", "owned", "upper"}
Boundary == {"lower", "upper"}

LastButOne(v) == v = NWorker - 2
LastRank(v) == v = NWorker - 1

-----------------------------------------------------------------------------
(* getGlobalPermutation: rank 0 receives what paths.getPermutation()       *)
(* returns on the others; for DoubleParallelPaths that is permutation1.    *)
ChooseRoot(c) ==
  /\ Begins(0, "displace")
  /\ chosen' = c
  /\ gathered' = [gathered EXCEPT ![0] = permutation[0][1]]
  /\ globalPermutation' = permutation[0][1]
  /\ peer' = 1
  /\ Block(0, "gather")
  /\ UNCHANGED <<pathVars, moveVars, passing, messageVars>>

(* What the other ranks choose is overwritten before it is used.           *)
SendLocal(w) ==
  /\ w # 0 /\ Begins(w, "displace")
  /\ Post(w, 0, 1, "permutation", permutation[w][1])
  /\ Block(w, "reject")
  /\ UNCHANGED <<pathVars, moveVars, rootVars, bcast>>

FirstOnly(c, p) == p[c[1]] # c[1]
Permuting(c, p) == \E k \in DOMAIN c : p[c[k]] # c[k]

Gather ==
  /\ pc[0] = "gather" /\ Arrived(peer, 0, 1)
  /\ LET got    == Received(peer, 0, 1)
         total  == PermAppend(globalPermutation, got)
         reject == Permuting(chosen, total)
     IN /\ gathered' = [gathered EXCEPT ![peer] = got]
        /\ globalPermutation' = total
        /\ IF ~LastRank(peer)
           THEN /\ peer' = peer + 1
                /\ UNCHANGED <<movingIndex, passing, bcast, program, ip, pc>>
           ELSE /\ bcast' = Broadcast(reject)
                /\ IF reject
                   THEN /\ peer' = 0
                        /\ UNCHANGED <<movingIndex, passing>>
                        /\ Advance(0)
                   ELSE /\ peer' = 1
                        /\ movingIndex' = [movingIndex EXCEPT ![0] = chosen]
                        /\ passing' = chosen
                        /\ Block(0, "distribute")
  /\ chan' = Take(peer, 0, 1)
  /\ UNCHANGED <<pathVars, displacement, chosen>>

(* The labels by which rank peer knows the moving particles, from those of *)
(* the rank before it.                                                     *)
TheirOwnStep(labels) == [k \in DOMAIN labels |-> gathered[peer][labels[k]]]
PassedOn(labels) == [k \in DOMAIN labels |-> gathered[peer - 1][labels[k]]]

Distribute ==
  /\ pc[0] = "distribute"
  /\ LET labels == PassedOn(passing)
     IN /\ passing' = labels
        /\ Post(0, peer, 111, "moving", labels)
  /\ IF LastRank(peer) THEN /\ peer' = 0
                            /\ Block(0, "propose")
                       ELSE /\ peer' = peer + 1
                            /\ UNCHANGED progressVars
  /\ UNCHANGED <<pathVars, moveVars, gathered, globalPermutation, chosen, bcast>>

RecvReject(w) ==
  /\ pc[w] = "reject" /\ bcast[w] # <<>>
  /\ IF Head(bcast[w]) THEN Advance(w) ELSE Block(w, "moving")
  /\ bcast' = Listened(w)
  /\ UNCHANGED <<pathVars, moveVars, rootVars, chan>>

RecvMoving(w) ==
  /\ pc[w] = "moving" /\ Arrived(0, w, 111)
  /\ movingIndex' = [movingIndex EXCEPT ![w] = Received(0, w, 111)]
  /\ chan' = Take(0, w, 111)
  /\ Block(w, "displacement")
  /\ UNCHANGED <<pathVars, displacement, rootVars, bcast>>

-----------------------------------------------------------------------------
(* The displacements that particle i receives on rank w, if the random     *)
(* numbers of rank d are used.                                             *)
Vectors(w, d, i) ==
  SetToBag({<<ip[w], d, k>> : k \in {m \in DOMAIN movingIndex[w] : movingIndex[w][m] = i}})

Combined(w, d, places, sign) ==
  [coords EXCEPT ![w] = [h \in Half |-> [p \in Place |-> [i \in Part |->
     IF p \notin places THEN @[h][p][i]
     ELSE IF sign = 1 THEN @[h][p][i] (+) Vectors(w, d, i)
                      ELSE @[h][p][i] (-) Vectors(w, d, i)]]]]

(* handleBoundary with sign -1 and +1, and the loop at the end of tryMove. *)
RestoredLower(w, d) == Combined(w, d, {"lower"}, -1)
Restored(w, d) == Combined(w, d, Boundary, -1)

Displaced(w, d, places) == Combined(w, d, places, 1)

(* makeMove, the move of the boundary slices, and Reduce of the action.    *)
ProposeRoot ==
  /\ pc[0] = "propose"
  /\ displacement' = [displacement EXCEPT ![0] = 0]
  /\ IF Collective THEN UNCHANGED bcast ELSE bcast' = Broadcast(0)
  /\ coords' = Displaced(0, 0, Boundary)
  /\ Block(0, "reduce")
  /\ UNCHANGED <<permutation, movingIndex, rootVars, chan>>

ProposeOther(w) ==
  /\ pc[w] = "displacement"
  /\ IF Collective
     THEN UNCHANGED bcast
     ELSE bcast[w] # <<>> /\ bcast' = Listened(w)
  /\ LET d == IF Collective THEN w ELSE Head(bcast[w])
     IN /\ displacement' = [displacement EXCEPT ![w] = d]
        /\ coords' = Displaced(w, d, Boundary)
  /\ Post(w, 0, Sum, "deltaAction", 0)
  /\ Block(w, "decision")
  /\ UNCHANGED <<permutation, movingIndex, rootVars>>

Decide(w, reject) ==
  coords' = IF reject THEN Restored(w, displacement[w])
                      ELSE Displaced(w, displacement[w], {"owned"})

DecideRoot(reject) ==
  /\ pc[0] = "reduce"
  /\ \A v \in Worker \ {0} : Arrived(v, 0, Sum)
  /\ chan' = [v \in Worker |-> IF v = 0 THEN chan[v]
                                        ELSE [chan[v] EXCEPT ![0][Sum] = Tail(@)]]
  /\ bcast' = Broadcast(reject)
  /\ Decide(0, reject)
  /\ Advance(0)
  /\ UNCHANGED <<permutation, moveVars, rootVars>>

DecideOther(w) ==
  /\ pc[w] = "decision" /\ bcast[w] # <<>>
  /\ Decide(w, Head(bcast[w]))
  /\ bcast' = Listened(w)
  /\ Advance(w)
  /\ UNCHANGED <<permutation, moveVars, rootVars, chan>>

-----------------------------------------------------------------------------
Init ==
  /\ permutation \in [Worker -> [Half -> Exchanges]]
  /\ coords = [w \in Worker |-> [h \in Half |->
                [p \in Place |-> [i \in Part |-> EmptyBag]]]]
  /\ movingIndex = [w \in Worker |-> <<>>]
  /\ displacement = [w \in Worker |-> w]
  /\ gathered = [w \in Worker |-> Identity(Part)]
  /\ globalPermutation = Identity(Part)
  /\ chosen = <<>> /\ passing = <<>> /\ peer = 0
  /\ RanksInit

Step(w) == \/ w = 0 /\ \E c \in Choices : ChooseRoot(c)
           \/ SendLocal(w)
           \/ w = 0 /\ Gather
           \/ w = 0 /\ Distribute
           \/ RecvReject(w)
           \/ RecvMoving(w)
           \/ w = 0 /\ ProposeRoot
           \/ ProposeOther(w)
           \/ w = 0 /\ \E reject \in BOOLEAN : DecideRoot(reject)
           \/ DecideOther(w)

Next == (\E w \in Worker : Step(w)) \/ (Done /\ UNCHANGED vars)

(* A rank whose call can return without buffers returns: MPI progress.     *)
Progress(w) == Step(w) /\ Unbuffered(w, {})

Spec == Init /\ [][Next]_vars /\ \A w \in Worker : WF_vars(Progress(w))

-----------------------------------------------------------------------------
(* Every displacement that could be made: no bead receives one twice.      *)
AllVectors == (1 .. Len(program)) \X Worker \X (1 .. Cardinality(Part))
IsCoordinate(c) == c \in [BagToSet(c) -> {1}] /\ BagToSet(c) \subseteq AllVectors

TypeOK ==
  /\ permutation \in [Worker -> [Half -> Perms(Part)]]
  /\ \A w \in Worker, h \in Half, p \in Place, i \in Part : IsCoordinate(coords[w][h][p][i])
  /\ movingIndex \in [Worker -> Seq(Part)]
  /\ displacement \in [Worker -> Worker]
  /\ gathered \in [Worker -> Perms(Part)] /\ globalPermutation \in Perms(Part)
  /\ chosen \in Choices \cup {<<>>} /\ passing \in Seq(Part) /\ peer \in Worker
  /\ RanksTypeOK({"gather", "distribute", "propose", "reduce", "reject", "moving",
                  "displacement", "decision"})

(* Half h of rank w continues as this half of the next rank.               *)
Continues(w, h) == IF Double /\ LastRank(w) THEN 3 - h ELSE h

(* The label that label i of half h of rank w continues as.                *)
NextLabel(w, h, i) == permutation[w][h][i]

BetweenTrials == \A v, w \in Worker : pc[w] = "ready" /\ ip[v] = ip[w]

(* A displacement moves the worldline as a whole: between two trials a     *)
(* bead, its copy on the neighbouring rank, and the bead it is joined to   *)
(* there have all received the same displacements.                         *)
WorldlinesMoveRigidly ==
  BetweenTrials =>
    \A w \in Worker, h \in Half, i \in Part :
      LET mine   == coords[w][h]
          theirs == coords[NextW(w)][Continues(w, h)]
          j      == NextLabel(w, h, i)
      IN Cardinality({mine["owned"][i], mine["upper"][i],
                      theirs["owned"][j], theirs["lower"][j]}) = 1

(* Two neighbouring ranks that evaluate the action of the same proposal    *)
(* do it for the same path: where one has moved its copy of the other's    *)
(* bead, the other is about to move that bead by the same vector.          *)
ProposalsAgree ==
  \A w \in Worker, h \in Half, i \in Part :
    LET v == NextW(w)
        j == NextLabel(w, h, i)
        Evaluating(u) == pc[u] \in {"reduce", "decision"}
    IN Evaluating(w) /\ Evaluating(v) /\ ip[v] = ip[w]
         => Vectors(w, displacement[w], i) = Vectors(v, displacement[v], j)

(* The label reached from label i of rank 0 once around the ring.          *)
AroundLabel(i) ==
  LET at[n \in 0 .. NWorker * Cardinality(Half)] ==
        IF n = 0 THEN [rank |-> 0, half |-> 1, label |-> i]
        ELSE LET b == at[n - 1]
             IN [rank  |-> NextW(b.rank),
                 half  |-> Continues(b.rank, b.half),
                 label |-> NextLabel(b.rank, b.half, b.label)]
  IN at[NWorker * Cardinality(Half)].label

(* A particle whose worldline is exchanged with another's is not moved.    *)
PermutingStay ==
  \A i \in Part : AroundLabel(i) # i => coords[0][1]["owned"][i] = EmptyBag

(* Every rank runs through all trials: what the ranks wait for arrives,    *)
(* rejected or not, though no send is buffered.                            *)
EveryRankFinishes == <>Done
=============================================================================
