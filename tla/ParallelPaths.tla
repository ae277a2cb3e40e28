--------------------------- MODULE ParallelPaths ---------------------------
(***************************************************************************)
(* ParallelPaths (base/ParallelPaths.cc) on NWorker MPI ranks, together    *)
(* with the two algorithms that drive it: SectionChooser and WorkerShifter.*)
(*                                                                         *)
(* Worker w keeps nprocSlice(w)+2 slices.  It owns slices 1..nprocSlice;   *)
(* slice 0 is a copy of the last slice of the worker before it, slice      *)
(* nprocSlice+1 a copy of the first slice of the worker after it, both     *)
(* under w's own labels.  Label i of w continues as label permutation[w][i]*)
(* on the next worker.  inversePermutation is written and never read, and  *)
(* is left out.                                                            *)
(*                                                                         *)
(* All point-to-point calls use tag 1 of the worker communicator, so only  *)
(* their order keeps them apart.                                           *)
(***************************************************************************)
EXTENDS Permutations, Ranks

CONSTANTS Part,          \* particle labels, and the bead identities of a slice
          NSlice,        \* nslice
          SectionSizes,  \* slices of a section, 2^nlevel + 1
          Exchanges,     \* permutations a sampler may leave in a section
          MaxShift       \* largest shift WorkerShifter draws

ASSUME SliceAssumption == NSlice \in Nat /\ NSlice >= NWorker
ASSUME ExchangesAssumption == Exchanges \subseteq Perms(Part)
ASSUME SectionAssumption == SectionSizes \subseteq Nat \ {0, 1}
ASSUME MaxShiftAssumption == MaxShift \in 1 .. NSlice \div NWorker
Operations == {"section", "shift", "global",
               "header", "chunk", "read"}   \* these three in ParallelPathFiles
ASSUME ProgramAssumption == Programs \subseteq Seq(Operations)
ASSUME TagAssumption == Tags = {1}

VARIABLES beads,             \* beads[w][j][i]: bead at label i of w's slice j
          buffer,            \* the second bead array of each worker
          permutation,
          globalPermutation,
          nextSrc            \* next rank that getGlobalPermutation receives from

pathVars == <<beads, buffer, permutation, globalPermutation>>
vars == <<pathVars, nextSrc, rankVars>>

ifirst(w) == (NSlice \div NWorker) * w - 1
nprocSlice(w) ==
  (NSlice \div NWorker) + (IF w = NWorker - 1 THEN NSlice % NWorker ELSE 0)
Stored(w) == 0 .. nprocSlice(w) + 1

(* A bead is its identity on its slice and the version of its coordinates: *)
(* moving a bead gives it another version.                                 *)
Bead == [id : Part, ver : Nat]
NoSlice == [i \in Part |-> [id |-> i, ver |-> 0]]

-----------------------------------------------------------------------------
(* getLowestOwnedSlice(false)-1 .. getHighestSampledSlice(n-1,false), as   *)
(* positions in w's own array.                                             *)
UpToNextRank(w, n) == 0 .. nprocSlice(w) - (n - 2)
FirstSlices(w, n) == 0 .. nprocSlice(w) - (n - 1)

(* What a sampler leaves in a section of n slices: the slices between the  *)
(* two fixed ends have moved, the last one is joined as sp says.           *)
Sampled(section, n, sp) ==
  [k \in 0 .. n - 1 |->
     IF k = 0          THEN section[k]
     ELSE IF k = n - 1 THEN Relabel(section[k], sp)
     ELSE                   [i \in Part |-> [section[k][i] EXCEPT !.ver = @ + 1]]]

GetBeads(w, f, n) == [k \in 0 .. n - 1 |-> beads[w][f + k]]

(* putBeads: store the section, relabel all later slices up to the buffer  *)
(* slice.                                                                  *)
PutBeads(b, w, f, section, n, sp) ==
  [j \in Stored(w) |->
     IF j \in f .. f + n - 1 THEN section[j - f]
     ELSE IF j >= f + n      THEN Relabel(b[j], sp)
     ELSE                         b[j]]

(* SectionChooser::run: sample one section, put it back, and begin         *)
(* setBuffers by sending the first owned slice to the previous worker.     *)
SectionRun(w, f, n, sp) ==
  /\ Begins(w, "section")
  /\ LET put == PutBeads(beads[w], w, f, Sampled(GetBeads(w, f, n), n, sp), n, sp)
     IN /\ beads' = [beads EXCEPT ![w] = put]
        /\ Post(w, Prev(w), 1, "first", put[1])
  /\ permutation' = [permutation EXCEPT ![w] = Prepend(@, sp)]
  /\ Block(w, "recvFirst")
  /\ UNCHANGED <<buffer, globalPermutation, nextSrc, bcast>>

(* A section in which every trial was rejected goes back as it came; in    *)
(* the first form without setBuffers.                                      *)
SectionSkipped(w) ==
  /\ Begins(w, "section")
  /\ Advance(w)
  /\ UNCHANGED <<pathVars, nextSrc, chan, bcast>>

SectionRejected(w) ==
  /\ Begins(w, "section")
  /\ Post(w, Prev(w), 1, "first", beads[w][1])
  /\ Block(w, "recvFirst")
  /\ UNCHANGED <<pathVars, nextSrc, bcast>>

(* setBuffers, first Sendrecv: slice nprocSlice+1 is refreshed, under w's  *)
(* own labels (in the first form as it came) ...                           *)
AsItCame(w, got) == got
UnderOwnLabels(w, got) == Relabel(got, permutation[w])

RecvFirst(w) ==
  /\ pc[w] = "recvFirst" /\ Arrived(NextW(w), w, 1)
  /\ LET got == Received(NextW(w), w, 1)
     IN beads' = [beads EXCEPT ![w][nprocSlice(w) + 1] = UnderOwnLabels(w, got)]
  /\ chan' = Take(NextW(w), w, 1)
  /\ Block(w, "sendLast")
  /\ UNCHANGED <<buffer, permutation, globalPermutation, nextSrc, bcast>>

(* ... and the last owned slice, under the next worker's labels, is sent   *)
(* on in the second Sendrecv.                                              *)
SendLast(w) ==
  /\ pc[w] = "sendLast"
  /\ LET last == Scatter(beads[w][nprocSlice(w)], permutation[w])
     IN /\ buffer' = [buffer EXCEPT ![w][0] = last]
        /\ Post(w, NextW(w), 1, "last", last)
  /\ Block(w, "recvLast")
  /\ UNCHANGED <<beads, permutation, globalPermutation, nextSrc, bcast>>

(* The second Sendrecv receives: slice 0 is refreshed.                     *)
RecvLast(w) ==
  /\ pc[w] = "recvLast" /\ Arrived(Prev(w), w, 1)
  /\ beads' = [beads EXCEPT ![w][0] = Received(Prev(w), w, 1)]
  /\ chan' = Take(Prev(w), w, 1)
  /\ Advance(w)
  /\ UNCHANGED <<buffer, permutation, globalPermutation, nextSrc, bcast>>

-----------------------------------------------------------------------------
(* ParallelPaths::shift begins: slices 0 .. ishift+1 go to the previous    *)
(* worker.                                                                 *)
BeginShift(w, ishift) ==
  /\ Post(w, Prev(w), 1, "shift",
          [n |-> ishift, slice |-> [j \in 0 .. ishift + 1 |-> beads[w][j]]])
  /\ Block(w, "recvShift")
  /\ UNCHANGED <<pathVars, nextSrc>>

(* WorkerShifter::run: every rank draws a shift, the Bcast gives all of    *)
(* them rank 0's.                                                          *)
ShiftRoot(ishift) ==
  /\ Begins(0, "shift")
  /\ bcast' = Broadcast(ishift)
  /\ BeginShift(0, ishift)

ShiftOther(w) ==
  /\ w # 0 /\ Begins(w, "shift")
  /\ bcast[w] # <<>>
  /\ bcast' = Listened(w)
  /\ BeginShift(w, Head(bcast[w]))

(* The new array: w's own slices move down, the received ones follow under *)
(* w's labels (in the first form, all but the one at the seam).            *)
SeamNotRelabelled(w, ishift, received) ==
  LET seam == nprocSlice(w) - ishift
  IN [j \in Stored(w) |->
        IF j > seam      THEN Relabel(received[j - seam], permutation[w])
        ELSE IF j = seam THEN received[0] ELSE beads[w][j + ishift]]
Shifted(w, ishift, received) ==
  LET seam == nprocSlice(w) - ishift
  IN [j \in Stored(w) |->
        IF j >= seam THEN Relabel(received[j - seam], permutation[w])
                     ELSE beads[w][j + ishift]]

(* The Sendrecv returns; the new array is assembled in buffer.             *)
RecvShift(w) ==
  /\ pc[w] = "recvShift" /\ Arrived(NextW(w), w, 1)
  /\ LET got == Received(NextW(w), w, 1)
     IN buffer' = [buffer EXCEPT ![w] = Shifted(w, got.n, got.slice)]
  /\ chan' = Take(NextW(w), w, 1)
  /\ Block(w, "barrier")
  /\ UNCHANGED <<beads, permutation, globalPermutation, nextSrc, bcast>>

(* Barrier, then cycleArrays exchanges the two arrays.                     *)
LeaveBarrier(w) ==
  /\ pc[w] = "barrier"
  /\ BarrierOpens(w)
  /\ beads' = [beads EXCEPT ![w] = buffer[w]]
  /\ buffer' = [buffer EXCEPT ![w] = beads[w]]
  /\ Advance(w)
  /\ UNCHANGED <<permutation, globalPermutation, nextSrc, chan, bcast>>

-----------------------------------------------------------------------------
(* sumOverLinks: the pairs of beads handed to an estimator for slice j.     *)
SummedLinks(w, j) == {<<beads[w][j - 1][i], beads[w][j][i]>> : i \in Part}

(* getGlobalPermutation on rank 0: start from the local permutation ...    *)
GatherBegin ==
  /\ Begins(0, "global")
  /\ globalPermutation' = [globalPermutation EXCEPT ![0] = permutation[0]]
  /\ nextSrc' = 1
  /\ Block(0, "gather")
  /\ UNCHANGED <<beads, buffer, permutation, chan, bcast>>

PrependRank(sum, got) == Prepend(sum, got)
AppendRank(sum, got) == PermAppend(sum, got)

(* ... append those of ranks 1, 2, ... in this order, and Bcast.           *)
Gather ==
  /\ pc[0] = "gather" /\ Arrived(nextSrc, 0, 1)
  /\ LET got == Received(nextSrc, 0, 1)
         sum == AppendRank(globalPermutation[0], got)
     IN /\ globalPermutation' = [globalPermutation EXCEPT ![0] = sum]
        /\ IF nextSrc = NWorker - 1
           THEN /\ bcast' = Broadcast(sum)
                /\ nextSrc' = 0
                /\ Advance(0)
           ELSE /\ nextSrc' = nextSrc + 1
                /\ UNCHANGED <<bcast, progressVars>>
  /\ chan' = Take(nextSrc, 0, 1)
  /\ UNCHANGED <<beads, buffer, permutation>>

(* The other ranks send theirs and wait in the Bcast.                      *)
SendLocal(w) ==
  /\ w # 0 /\ Begins(w, "global")
  /\ globalPermutation' = [globalPermutation EXCEPT ![w] = permutation[w]]
  /\ Post(w, 0, 1, "permutation", permutation[w])
  /\ Block(w, "recvGlobal")
  /\ UNCHANGED <<beads, buffer, permutation, nextSrc, bcast>>

RecvGlobal(w) ==
  /\ pc[w] = "recvGlobal" /\ bcast[w] # <<>>
  /\ globalPermutation' = [globalPermutation EXCEPT ![w] = Head(bcast[w])]
  /\ bcast' = Listened(w)
  /\ Advance(w)
  /\ UNCHANGED <<beads, buffer, permutation, nextSrc, chan>>

-----------------------------------------------------------------------------
Init ==
  /\ beads = [w \in Worker |-> [j \in Stored(w) |-> NoSlice]]
  /\ buffer = [w \in Worker |-> [j \in Stored(w) |-> NoSlice]]
  /\ permutation = [w \in Worker |-> Identity(Part)]
  /\ globalPermutation = [w \in Worker |-> Identity(Part)]
  /\ nextSrc = 0
  /\ RanksInit

Step(w) == \/ \E n \in SectionSizes, sp \in Exchanges :
                \E f \in FirstSlices(w, n) : SectionRun(w, f, n, sp)
           \/ SectionRejected(w)
           \/ RecvFirst(w)
           \/ SendLast(w)
           \/ RecvLast(w)
           \/ w = 0 /\ \E ishift \in 1 .. MaxShift : ShiftRoot(ishift)
           \/ ShiftOther(w)
           \/ RecvShift(w)
           \/ LeaveBarrier(w)
           \/ w = 0 /\ GatherBegin
           \/ w = 0 /\ Gather
           \/ SendLocal(w)
           \/ RecvGlobal(w)

Next == (\E w \in Worker : Step(w)) \/ (Done /\ UNCHANGED vars)

(* A rank whose call can return without buffers returns: MPI progress.     *)
Progress(w) == Step(w) /\ Unbuffered(w, {"recvFirst", "recvLast", "recvShift"})

Spec == Init /\ [][Next]_vars /\ \A w \in Worker : WF_vars(Progress(w))

-----------------------------------------------------------------------------
SliceType == [Part -> Bead]

TypeOK ==
  /\ \A w \in Worker : /\ DOMAIN beads[w] = Stored(w)
                       /\ DOMAIN buffer[w] = Stored(w)
                       /\ \A j \in Stored(w) : /\ beads[w][j] \in SliceType
                                               /\ buffer[w][j] \in SliceType
  /\ permutation \in [Worker -> Perms(Part)]
  /\ globalPermutation \in [Worker -> Perms(Part)]
  /\ RanksTypeOK({"recvFirst", "sendLast", "recvLast", "recvShift", "barrier",
                  "gather", "recvGlobal"})
  /\ nextSrc \in Worker

(* The array a rank stands for once some rank has left the barrier of a    *)
(* shift: the ranks still inside it have their new slices in buffer.       *)
View(w) == IF pc[w] = "barrier" /\ \E v \in Worker : ip[v] > ip[w]
           THEN buffer[w] ELSE beads[w]

Owner(g) == CHOOSE w \in Worker : g - ifirst(w) \in 1 .. nprocSlice(w)

LabelOf(slice, b) == CHOOSE i \in Part : slice[i].id = b

(* The worldlines, read from the owned slices only.                        *)
WorldLink ==
  [g \in 0 .. NSlice - 1 |->
     LET w     == Owner(g)
         j     == g - ifirst(w)
         here  == View(w)
         there == View(NextW(w))
     IN [b \in Part |->
           LET i == LabelOf(here[j], b)
           IN IF j < nprocSlice(w) THEN here[j + 1][i].id
              ELSE there[1][permutation[w][i]].id]]

Ring == INSTANCE PathRing WITH link <- WorldLink, Double <- FALSE

(* Ranks that sample, relabel, exchange and shift at their own pace do to  *)
(* the worldlines only what the abstract ring allows: one section re-joins *)
(* beads across one pair of slices, a shift moves the time origin and      *)
(* changes no worldline, whichever rank is how far.                        *)
ImplementsRing == Ring!RingSpec

(* A rank about to sample or to measure sums the links of the worldlines   *)
(* that end on its first slice with current coordinates, though they start *)
(* on another rank's slice: that rank never moves it                       *)
(* (getHighestSampledSlice), and when it relabels it, its permutation      *)
(* changes with it.                                                        *)
SumSeesWorldlines ==
  \A w \in Worker : pc[w] = "ready" =>
    LET v == Prev(w)
    IN \A i \in Part :
         <<View(v)[nprocSlice(v)][i], beads[w][1][permutation[v][i]]>>
           \in SummedLinks(w, 1)

(* A rank about to shift has a current copy of its other buffer slice too, *)
(* which it hands on when the shift is as long as its own part.            *)
ShiftSendsFreshSlices ==
  \A w \in Worker : pc[w] = "ready" /\ Op(w) = "shift" =>
    \A i \in Part : View(NextW(w))[1][permutation[w][i]]
                      = beads[w][nprocSlice(w) + 1][i]

(* The message at the head of a channel is the one the receiving call      *)
(* expects, although setBuffers, shift and getGlobalPermutation share one  *)
(* tag and, with two workers, one channel.                                 *)
Expected(w) ==
  CASE pc[w] = "recvFirst" -> {<<NextW(w), "first">>}
    [] pc[w] = "recvLast"  -> {<<Prev(w), "last">>}
    [] pc[w] = "recvShift" -> {<<NextW(w), "shift">>}
    [] pc[w] = "gather"    -> {<<nextSrc, "permutation">>}
    [] OTHER               -> {}

NoCrossTalk ==
  \A w \in Worker : \A e \in Expected(w) :
    Arrived(e[1], w, 1) => Head(chan[e[1]][w][1]).kind = e[2]

(* Following every worldline once around the ring, from the first slice of *)
(* rank 0 to itself, by the labels the ranks store.                        *)
Around ==
  LET to[g \in 0 .. NSlice] ==
        IF g = 0 THEN [i \in Part |-> View(0)[1][i].id]
        ELSE [i \in Part |-> WorldLink[g - 1][to[g - 1][i]]]
  IN [i \in Part |-> LabelOf(View(0)[1], to[NSlice][i])]

(* What rank 0 broadcasts from getGlobalPermutation is the permutation of  *)
(* the closed worldlines at that moment: the ranks' permutations composed  *)
(* in ring order, with no rank moving on meanwhile.                        *)
GlobalPermutationIsAround ==
  [][pc[0] = "gather" /\ pc'[0] = "ready" => globalPermutation'[0] = Around]_vars

(* No rank is left waiting: all of them run through the program, though no *)
(* send is buffered.                                                       *)
EveryRankFinishes == <>Done
=============================================================================
