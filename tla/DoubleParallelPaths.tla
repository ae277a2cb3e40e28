------------------------ MODULE DoubleParallelPaths ------------------------
(***************************************************************************)
(* DoubleParallelPaths (base/DoubleParallelPaths.cc) on NWorker ranks with *)
(* the algorithms that drive it, DoubleSectionChooser and WorkerShifter.   *)
(*                                                                         *)
(* Each rank holds the same stretch of both halves of the path: beads1 and *)
(* beads2, with a permutation each.  A half continues on the next rank as  *)
(* the same half, except that half 1 of the last rank continues as half 2  *)
(* of rank 0, and half 2 as half 1.                                        *)
(*                                                                         *)
(* A call of Sendrecv that returns is one action with the beginning of the *)
(* next one.  inversePermutation1 and 2 are never read, and setBuffers     *)
(* uses slice 0 of the buffers as scratch only; both are left out.         *)
(***************************************************************************)
EXTENDS Permutations, Ranks

CONSTANTS Part, NSlice, SectionSizes, Exchanges, MaxShift   \* as in ParallelPaths

HalfLength == NSlice \div 2
ifirst(w) == (HalfLength \div NWorker) * w - 1
nprocSlice(w) ==
  (HalfLength \div NWorker) + (IF w = NWorker - 1 THEN HalfLength % NWorker ELSE 0)
Stored(w) == 0 .. nprocSlice(w) + 1

ASSUME SliceAssumption == NSlice \in Nat /\ NSlice % 2 = 0
ASSUME ExchangesAssumption == Exchanges \subseteq Perms(Part)
ASSUME SectionAssumption == SectionSizes \subseteq Nat \ {0, 1}
ASSUME MaxShiftAssumption == MaxShift \in 1 .. HalfLength \div NWorker
ASSUME ProgramAssumption == Programs \subseteq Seq({"section", "shift", "global"})
ASSUME TagAssumption == Tags = {1, 2}

(* Slice numbers tell the halves apart only if the other ranks have two    *)
(* slices between them; the code does not check it.                        *)
ASSUME HalfTestAssumption ==
  \A w \in Worker : nprocSlice(w) + 2 <= HalfLength

VARIABLES beads,             \* beads[w][h][j][i], h a half
          buffer,
          permutation,       \* permutation[w][h]
          globalPermutation,
          perm2,             \* rank 0's sum over the second halves
          nextSrc

pathVars == <<beads, buffer, permutation>>
globalVars == <<globalPermutation, perm2, nextSrc>>
vars == <<pathVars, globalVars, rankVars>>

Half == {1, 2}
Other(h) == 3 - h

Bead == [id : Part, ver : Nat]
NoSlice == [i \in Part |-> [id |-> i, ver |-> 0]]

(* The half whose data rank w receives in its k-th Sendrecv belongs to.    *)
IntoSameHalf(w, k) == k
Into(w, k) == IF w < NWorker - 1 THEN k ELSE Other(k)

First == <<"first1", "first2">>   \* the calls of setBuffers,
Last == <<"last1", "last2">>
ShiftCall == <<"shift1", "shift2">>
GatherCall == <<"gather1", "gather2">>

-----------------------------------------------------------------------------
(* Where w keeps slice islice of the whole path.                           *)
HalfOf(w, islice) == IF islice - ifirst(w) < nprocSlice(w) + 2 THEN 1 ELSE 2
PositionOf(w, islice) == (islice - ifirst(w)) % HalfLength

(* DoubleSectionChooser::run: the first section is in either half, the     *)
(* second one half a path away.                                            *)
OtherSection(f) == ((f + HalfLength + 1) % NSlice) - 1
UpToNextRank(w, n) ==
  LET base == ifirst(w) .. ifirst(w) + nprocSlice(w) - (n - 2)
  IN base \cup {OtherSection(f) : f \in base}
FirstSlices(w, n) ==
  LET base == ifirst(w) .. ifirst(w) + nprocSlice(w) - (n - 1)
  IN base \cup {OtherSection(f) : f \in base}

GetBeads(w, f, n) ==
  [k \in 0 .. n - 1 |-> beads[w][HalfOf(w, f)][PositionOf(w, f) + k]]

Sampled(section, n, sp) ==
  [k \in 0 .. n - 1 |->
     IF k = 0          THEN section[k]
     ELSE IF k = n - 1 THEN Relabel(section[k], sp)
     ELSE                   [i \in Part |-> [section[k][i] EXCEPT !.ver = @ + 1]]]

(* putBeads into the halves b of rank w, and into its permutations p.      *)
PutBeads(b, w, f, section, n, sp) ==
  LET first == PositionOf(w, f)
  IN [b EXCEPT ![HalfOf(w, f)] =
        [j \in Stored(w) |->
           IF j \in first .. first + n - 1 THEN section[j - first]
           ELSE IF j >= first + n          THEN Relabel(@[j], sp)
           ELSE                                 @[j]]]

PutPermutation(p, w, f, sp) == [p EXCEPT ![HalfOf(w, f)] = Prepend(@, sp)]

(* A double section: fetch two, sample, putDoubleBeads; setBuffers begins  *)
(* by sending the first slice of half 1.                                   *)
SectionRun(w, f, n, sp1, sp2) ==
  /\ Begins(w, "section")
  /\ LET g    == OtherSection(f)
         sec1 == Sampled(GetBeads(w, f, n), n, sp1)
         sec2 == Sampled(GetBeads(w, g, n), n, sp2)
         put  == PutBeads(PutBeads(beads[w], w, f, sec1, n, sp1), w, g, sec2, n, sp2)
     IN /\ beads' = [beads EXCEPT ![w] = put]
        /\ permutation' =
             [permutation EXCEPT
                ![w] = PutPermutation(PutPermutation(@, w, f, sp1), w, g, sp2)]
        /\ Post(w, Prev(w), 1, "first", put[1][1])
  /\ Block(w, First[1])
  /\ UNCHANGED <<buffer, globalVars, bcast>>

(* A pair of sections in which every trial was rejected.                   *)
SectionRejected(w) ==
  /\ Begins(w, "section")
  /\ Post(w, Prev(w), 1, "first", beads[w][1][1])
  /\ Block(w, First[1])
  /\ UNCHANGED <<pathVars, globalVars, bcast>>

(* The last slice of the half that the next rank keeps as half k, under    *)
(* the labels of that rank.                                                *)
LastSlice(w, k) ==
  LET h == Into(w, k) IN Scatter(beads[w][h][nprocSlice(w)], permutation[w][h])

(* setBuffers, the two Sendrecvs that refresh slice nprocSlice+1, each     *)
(* followed by the send of the next call.                                  *)
RecvFirst(w, k) ==
  /\ pc[w] = First[k] /\ Arrived(NextW(w), w, 1)
  /\ LET h     == Into(w, k)
         got   == Received(NextW(w), w, 1)
         taken == Take(NextW(w), w, 1)
     IN /\ beads' = [beads EXCEPT ![w][h][nprocSlice(w) + 1] =
                                    Relabel(got, permutation[w][h])]
        /\ IF k = 1
           THEN /\ chan' = Posted(taken, w, Prev(w), 1, "first", beads[w][2][1])
                /\ Block(w, First[2])
           ELSE /\ chan' = Posted(taken, w, NextW(w), 1, "last", LastSlice(w, 1))
                /\ Block(w, Last[1])
  /\ UNCHANGED <<buffer, permutation, globalVars, bcast>>

(* The two that refresh slice 0.                                           *)
RecvLast(w, k) ==
  /\ pc[w] = Last[k] /\ Arrived(Prev(w), w, 1)
  /\ beads' = [beads EXCEPT ![w][k][0] = Received(Prev(w), w, 1)]
  /\ LET taken == Take(Prev(w), w, 1)
     IN IF k = 1
        THEN /\ chan' = Posted(taken, w, NextW(w), 1, "last", LastSlice(w, 2))
             /\ Block(w, Last[2])
        ELSE /\ chan' = taken
             /\ Advance(w)
  /\ UNCHANGED <<buffer, permutation, globalVars, bcast>>

-----------------------------------------------------------------------------
(* shift: slices 0 .. ishift+1 of both halves, tagged 1 and 2.             *)
FirstSlicesOf(w, h, ishift) ==
  [n |-> ishift, slice |-> [j \in 0 .. ishift + 1 |-> beads[w][h][j]]]

BeginShift(w, ishift) ==
  /\ Post(w, Prev(w), 1, "shift", FirstSlicesOf(w, 1, ishift))
  /\ Block(w, ShiftCall[1])
  /\ UNCHANGED <<pathVars, globalVars>>

ShiftRoot(ishift) ==
  /\ Begins(0, "shift")
  /\ bcast' = Broadcast(ishift)
  /\ BeginShift(0, ishift)

ShiftOther(w) ==
  /\ w # 0 /\ Begins(w, "shift") /\ bcast[w] # <<>>
  /\ bcast' = Listened(w)
  /\ BeginShift(w, Head(bcast[w]))

(* The received slices are in place; they are relabelled, and the slices   *)
(* of this rank move down.                                                 *)
Assembled(w, raw, ishift) ==
  [h \in Half |-> [j \in Stored(w) |->
     IF j >= nprocSlice(w) - ishift THEN Relabel(raw[h][j], permutation[w][h])
                                    ELSE beads[w][h][j + ishift]]]

RecvShift(w, k) ==
  /\ pc[w] = ShiftCall[k] /\ Arrived(NextW(w), w, k)
  /\ LET got   == Received(NextW(w), w, k)
         seam  == nprocSlice(w) - got.n
         taken == Take(NextW(w), w, k)
         raw   == [buffer[w] EXCEPT ![Into(w, k)] =
                     [j \in Stored(w) |-> IF j >= seam THEN got.slice[j - seam]
                                                       ELSE @[j]]]
     IN IF k = 1
        THEN /\ buffer' = [buffer EXCEPT ![w] = raw]
             /\ chan' = Posted(taken, w, Prev(w), 2, "shift", FirstSlicesOf(w, 2, got.n))
             /\ Block(w, ShiftCall[2])
        ELSE /\ buffer' = [buffer EXCEPT ![w] = Assembled(w, raw, got.n)]
             /\ chan' = taken
             /\ Block(w, "barrier")
  /\ UNCHANGED <<beads, permutation, globalVars, bcast>>

LeaveBarrier(w) ==
  /\ pc[w] = "barrier" /\ BarrierOpens(w)
  /\ beads' = [beads EXCEPT ![w] = buffer[w]]
  /\ buffer' = [buffer EXCEPT ![w] = beads[w]]
  /\ Advance(w)
  /\ UNCHANGED <<permutation, globalVars, messageVars>>

-----------------------------------------------------------------------------
(* getGlobalPermutation on rank 0: the first halves in ring order, then    *)
(* the second halves, then one after the other.                            *)
GatherBegin ==
  /\ Begins(0, "global")
  /\ globalPermutation' = [globalPermutation EXCEPT ![0] = permutation[0][1]]
  /\ perm2' = permutation[0][2]
  /\ nextSrc' = 1
  /\ Block(0, GatherCall[1])
  /\ UNCHANGED <<pathVars, messageVars>>

SecondHalfFirst(p1, p2) == Prepend(p1, p2)
BothHalves(p1, p2) == PermAppend(p1, p2)

Gather(k) ==
  /\ pc[0] = GatherCall[k] /\ Arrived(nextSrc, 0, k)
  /\ LET got   == Received(nextSrc, 0, k)
         last  == nextSrc = NWorker - 1
         sum1  == IF k = 1 THEN PermAppend(globalPermutation[0], got)
                           ELSE globalPermutation[0]
         sum2  == IF k = 2 THEN PermAppend(perm2, got) ELSE perm2
         total == IF k = 2 /\ last THEN BothHalves(sum1, sum2) ELSE sum1
     IN /\ globalPermutation' = [globalPermutation EXCEPT ![0] = total]
        /\ perm2' = sum2
        /\ nextSrc' = IF ~last THEN nextSrc + 1 ELSE IF k = 1 THEN 1 ELSE 0
        /\ IF k = 2 /\ last THEN bcast' = Broadcast(total) /\ Advance(0)
           ELSE /\ UNCHANGED bcast
                /\ Block(0, GatherCall[IF last THEN 2 ELSE k])
  /\ chan' = Take(nextSrc, 0, k)
  /\ UNCHANGED pathVars

SendLocal(w) ==
  /\ w # 0 /\ Begins(w, "global")
  /\ globalPermutation' = [globalPermutation EXCEPT ![w] = permutation[w][1]]
  /\ chan' = Posted(Posted(chan, w, 0, 1, "permutation", permutation[w][1]),
                    w, 0, 2, "permutation", permutation[w][2])
  /\ Block(w, "recvGlobal")
  /\ UNCHANGED <<pathVars, perm2, nextSrc, bcast>>

RecvGlobal(w) ==
  /\ pc[w] = "recvGlobal" /\ bcast[w] # <<>>
  /\ globalPermutation' = [globalPermutation EXCEPT ![w] = Head(bcast[w])]
  /\ bcast' = Listened(w)
  /\ Advance(w)
  /\ UNCHANGED <<pathVars, perm2, nextSrc, chan>>

-----------------------------------------------------------------------------
Init ==
  /\ beads = [w \in Worker |-> [h \in Half |-> [j \in Stored(w) |-> NoSlice]]]
  /\ buffer = beads
  /\ permutation = [w \in Worker |-> [h \in Half |-> Identity(Part)]]
  /\ globalPermutation = [w \in Worker |-> Identity(Part)]
  /\ perm2 = Identity(Part)
  /\ nextSrc = 0
  /\ RanksInit

Step(w) == \/ \E n \in SectionSizes, sp1, sp2 \in Exchanges :
                \E f \in FirstSlices(w, n) : SectionRun(w, f, n, sp1, sp2)
           \/ SectionRejected(w)
           \/ \E k \in Half : RecvFirst(w, k)
           \/ \E k \in Half : RecvLast(w, k)
           \/ w = 0 /\ \E ishift \in 1 .. MaxShift : ShiftRoot(ishift)
           \/ ShiftOther(w)
           \/ \E k \in Half : RecvShift(w, k)
           \/ LeaveBarrier(w)
           \/ w = 0 /\ GatherBegin
           \/ w = 0 /\ \E k \in Half : Gather(k)
           \/ SendLocal(w)
           \/ RecvGlobal(w)

Next == (\E w \in Worker : Step(w)) \/ (Done /\ UNCHANGED vars)

Spec == Init /\ [][Next]_vars

-----------------------------------------------------------------------------
TypeOK ==
  /\ \A w \in Worker, h \in Half :
       \A a \in {beads[w][h], buffer[w][h]} : a \in [Stored(w) -> [Part -> Bead]]
  /\ permutation \in [Worker -> [Half -> Perms(Part)]]
  /\ globalPermutation \in [Worker -> Perms(Part)]
  /\ perm2 \in Perms(Part)
  /\ nextSrc \in Worker
  /\ RanksTypeOK({First[k] : k \in Half} \cup {Last[k] : k \in Half}
                 \cup {ShiftCall[k] : k \in Half} \cup {GatherCall[k] : k \in Half}
                 \cup {"barrier", "recvGlobal"})

View(w) == IF pc[w] = "barrier" /\ \E v \in Worker : ip[v] > ip[w]
           THEN buffer[w] ELSE beads[w]

LabelOf(slice, b) == CHOOSE i \in Part : slice[i].id = b

(* The half, rank and position that own slice g of the path.               *)
OwnerHalf(g) == IF g < HalfLength THEN 1 ELSE 2
InHalf(g) == g % HalfLength
Owner(g) == CHOOSE w \in Worker : InHalf(g) - ifirst(w) \in 1 .. nprocSlice(w)

(* The half of the next rank that half h of rank w continues as.           *)
Continues(w, h) == IF w = NWorker - 1 THEN Other(h) ELSE h

WorldLink ==
  [g \in 0 .. NSlice - 1 |->
     LET w     == Owner(g)
         h     == OwnerHalf(g)
         j     == InHalf(g) - ifirst(w)
         here  == View(w)[h]
         there == View(NextW(w))[Continues(w, h)]
     IN [b \in Part |->
           LET i == LabelOf(here[j], b)
           IN IF j < nprocSlice(w) THEN here[j + 1][i].id
              ELSE there[1][permutation[w][h][i]].id]]

Ring == INSTANCE PathRing WITH link <- WorldLink, Double <- TRUE

(* Whatever the ranks do at their own pace, the two sections of a move     *)
(* re-join beads across two pairs of slices exactly half a path apart, and *)
(* a shift turns the ring as a whole, with the halves following each other *)
(* through the last rank.                                                  *)
ImplementsRing == Ring!RingSpec

(* sumOverLinks hands an estimator, for slice j of half h, the links from  *)
(* slice j-1.                                                              *)
SummedLinks(w, h, j) == {<<beads[w][h][j - 1][i], beads[w][h][j][i]>> : i \in Part}

(* The links onto the first slice of each half of each rank that an        *)
(* estimator would sum join current coordinates of the worldlines, though  *)
(* they start on another rank, and for rank 0 in the other half.           *)
SumSeesWorldlines ==
  \A w \in Worker, h \in Half : pc[w] = "ready" =>
    LET v  == Prev(w)
        hv == Continues(v, h)   \* its own inverse
    IN \A i \in Part :
         <<View(v)[hv][nprocSlice(v)][i], beads[w][h][1][permutation[v][hv][i]]>>
           \in SummedLinks(w, h, 1)

(* The beads met by following the worldlines once around the ring.         *)
Around ==
  LET to[g \in 0 .. NSlice] ==
        IF g = 0 THEN [i \in Part |-> View(0)[1][1][i].id]
        ELSE [i \in Part |-> WorldLink[g - 1][to[g - 1][i]]]
  IN [i \in Part |-> LabelOf(View(0)[1][1], to[NSlice][i])]

(* What rank 0 broadcasts from getGlobalPermutation is the permutation of  *)
(* the closed worldlines: 2*NWorker permutations gathered in two rounds,   *)
(* composed in ring order, no rank having moved on meanwhile.              *)
GlobalPermutationIsAround ==
  [][pc[0] = GatherCall[2] /\ pc'[0] = "ready" => globalPermutation'[0] = Around]_vars
=============================================================================
