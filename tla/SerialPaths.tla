---------------------------- MODULE SerialPaths ----------------------------
(***************************************************************************)
(* SerialPaths (base/SerialPaths.cc): the worldlines of Part particles on  *)
(* NSlice slices in one process.  A slice is an array from particle labels *)
(* to beads.  Label i of slice NSlice-1 continues as label permutation[i]  *)
(* of slice 0.  A bead is known by its identity, not by its coordinates:   *)
(* moving a bead keeps its identity, re-joining paths does not.            *)
(***************************************************************************)
EXTENDS Permutations

CONSTANTS Part,          \* particle labels, and the bead identities of a slice
          NSlice,        \* nslice
          SectionSizes,  \* slices of a section, 2^nlevel + 1
          Exchanges,     \* permutations a sampler may leave in a section
          MaxShift,      \* largest argument of shift
          DoubleAction   \* TRUE: ChooseSection means a pair of sections

ASSUME NSliceAssumption == NSlice \in Nat \ {0}
ASSUME SectionAssumption == SectionSizes \subseteq 2 .. NSlice + 1
ASSUME ExchangesAssumption == Exchanges \subseteq Perms(Part)
ASSUME MaxShiftAssumption == MaxShift \in 0 .. NSlice
ASSUME DoubleAssumption == /\ DoubleAction \in BOOLEAN
                           /\ DoubleAction => NSlice % 2 = 0

VARIABLES beads,               \* beads[s][i]: the bead stored at label i of slice s
          permutation,
          inversePermutation

vars == <<beads, permutation, inversePermutation>>

Slice == 0 .. NSlice - 1

(***************************************************************************)
(* Operations on the arrays, as functions of the state they read.  A path  *)
(* state is a record so that putBeads can be applied twice in a row.       *)
(***************************************************************************)
State == [b |-> beads, p |-> permutation, inv |-> inversePermutation]

(* getBeads for one slice: the label order follows the worldlines over the *)
(* end of the array in either direction.                                   *)
GetSlice(st, islice) ==
  IF islice < 0           THEN Relabel(st.b[NSlice + islice], st.inv)
  ELSE IF islice < NSlice THEN st.b[islice]
  ELSE                         Relabel(st.b[islice - NSlice], st.p)

GetBeads(st, ifirstSlice, n) ==
  [k \in 0 .. n - 1 |-> GetSlice(st, ifirstSlice + k)]

(* First half of putBeads: the section goes back to its slices.  Slice -1  *)
(* is skipped, a wrapped slice is stored under the permuted labels.  When  *)
(* a section closes on its own first slice the later copy wins.            *)
StoreSection(st, f, section, n) ==
  [s \in Slice |->
     IF s + NSlice \in f .. f + n - 1
     THEN Scatter(section[s + NSlice - f], st.p)
     ELSE IF s \in f .. f + n - 1 THEN section[s - f] ELSE st.b[s]]

(* A section that wraps leaves its permutation in the labels of the end of *)
(* the array; the slices at the start need it in their own labels.         *)
NotTranslated(st, p) == p
Translated(st, p) == PermAppend(Prepend(p, st.inv), st.p)

(* putBeads: store, then relabel the slices that follow the section and    *)
(* account for the section's permutation in the closing permutation.       *)
PutBeads(st, f, section, n, inPermutation) ==
  LET stored     == StoreSection(st, f, section, n)
      wraps      == f + n > NSlice
      ifollowing == IF wraps THEN f + n - NSlice ELSE f + n
      temp       == IF wraps THEN Translated(st, inPermutation)
                    ELSE inPermutation
      closing    == Prepend(st.p, temp)
  IN IF IsIdentity(inPermutation)
     THEN [st EXCEPT !.b = stored]
     ELSE [b   |-> [s \in Slice |-> IF s >= ifollowing
                                    THEN Relabel(stored[s], temp)
                                    ELSE stored[s]],
           p   |-> closing,
           inv |-> InverseOf(closing)]

(* The permutation of a section, in the labels that p1 leaves behind.      *)
SecondAsSampled(p2, p1) == p2
SecondPermutation(p2, p1) == PermAppend(Prepend(p2, p1), InverseOf(p1))

(* putDoubleBeads: the earlier section first; the labels of the later one, *)
(* and its permutation, are translated by what the first one did.          *)
PutDoubleBeads(st, f1, sec1, p1, f2, sec2, p2, n) ==
  LET Second(f, sec, p, q) ==   \* section f after the other one applied q
        PutBeads(q.st, f, [k \in 0 .. n - 1 |-> Relabel(sec[k], q.p)], n,
                 SecondPermutation(p, q.p))
  IN IF f1 < (NSlice \div 2) - 1
     THEN Second(f2, sec2, p2, [st |-> PutBeads(st, f1, sec1, n, p1), p |-> p1])
     ELSE Second(f1, sec1, p1, [st |-> PutBeads(st, f2, sec2, n, p2), p |-> p2])

(* What a sampler leaves in a section: the beads in between keep their     *)
(* labels, label i of the fixed last slice is now the bead of label sp[i]. *)
Sampled(section, n, sp) ==
  [section EXCEPT ![n - 1] = Relabel(@, sp)]

(* The same with a loop that runs one slice past the end of the array.     *)
RotatedPastEnd(st, k) ==
  [s \in 0 .. NSlice |-> GetSlice(st, s + k)]

(* shift: slice s becomes the former slice s + k, along the worldlines.    *)
Rotated(st, k) ==
  [s \in Slice |-> GetSlice(st, s + k)]

-----------------------------------------------------------------------------
Become(st) == /\ beads' = st.b
              /\ permutation' = st.p
              /\ inversePermutation' = st.inv

Init == /\ beads = [s \in Slice |-> Identity(Part)]
        /\ permutation = Identity(Part)
        /\ inversePermutation = Identity(Part)

(* SectionChooser::run: getBeads, the samplers, putBeads.                  *)
SectionRun(f, n, sp) ==
  Become(PutBeads(State, f, Sampled(GetBeads(State, f, n), n, sp), n, sp))

(* The second section of a double move lies half the path away.            *)
OtherSection(f) == ((f + (NSlice \div 2) + 1) % NSlice) - 1

(* DoubleSectionChooser::run: both sections are fetched before the samplers *)
(* run and put back together.                                              *)
DoubleSectionRun(f, n, sp1, sp2) ==
  LET g == OtherSection(f)
  IN Become(PutDoubleBeads(State,
                f, Sampled(GetBeads(State, f, n), n, sp1), sp1,
                g, Sampled(GetBeads(State, g, n), n, sp2), sp2, n))

(* shift, called by WorkerShifter and WritePaths.  A shift longer than the *)
(* path is done in pieces.                                                 *)
Shift(k) == /\ beads' = Rotated(State, k)
            /\ UNCHANGED <<permutation, inversePermutation>>

(* clearPermutation must reset the cached inverse as well.                 *)
ClearOnePermutation == /\ permutation' = Identity(Part)
                       /\ UNCHANGED <<beads, inversePermutation>>

ClearPermutation == /\ permutation' = Identity(Part)
                    /\ inversePermutation' = Identity(Part)
                    /\ UNCHANGED beads

(* ilo .. ihi of SectionChooser::run, with getLowestOwnedSlice(false) and  *)
(* getHighestSampledSlice(n,false) of SerialPaths.                         *)
FirstSlices == -1 .. NSlice - 1

(* MiddleSectionChooser has one section, across the end of the array;      *)
(* NonZeroSectionChooser keeps slice 0 out of its sections while they are  *)
(* shorter than the path.                                                  *)
MiddleFirstSlice(n) == NSlice - (n \div 2)
NonZeroFirstSlices(n) ==
  LET ihi == NSlice - n
  IN IF ihi < 1 THEN {ihi} ELSE 1 .. ihi

(* ... and of DoubleSectionChooser::run, before and after the coin toss.   *)
DoubleFirstSlices ==
  LET base == -1 .. (NSlice \div 2) - 1
  IN base \cup {OtherSection(f) : f \in base}

(* Two sections half a path apart may touch but not overlap.               *)
DoubleSizes == {n \in SectionSizes : n <= (NSlice \div 2) + 1}

Section == \E f \in FirstSlices, n \in SectionSizes, sp \in Exchanges :
             SectionRun(f, n, sp)

MiddleSection == \E n \in SectionSizes, sp \in Exchanges :
                   SectionRun(MiddleFirstSlice(n), n, sp)

NonZeroSection == \E n \in SectionSizes, sp \in Exchanges :
                    \E f \in NonZeroFirstSlices(n) : SectionRun(f, n, sp)

DoubleSection ==
  /\ DoubleAction
  /\ \E f \in DoubleFirstSlices, n \in DoubleSizes, sp1, sp2 \in Exchanges :
       DoubleSectionRun(f, n, sp1, sp2)

(* With a double action ChooseSection means DoubleSection, and the other   *)
(* two choosers still one section.                                         *)
Next == \/ Section
        \/ MiddleSection
        \/ NonZeroSection
        \/ DoubleSection
        \/ \E k \in 0 .. MaxShift : Shift(k)
        \/ ClearPermutation

Spec == Init /\ [][Next]_vars

-----------------------------------------------------------------------------
TypeOK == /\ beads \in [Slice -> [Part -> Part]]
          /\ permutation \in [Part -> Part]
          /\ inversePermutation \in [Part -> Part]

(* No operation drops or duplicates a bead: every slice still holds each   *)
(* of its beads once, although sections wrap round the end of the array,   *)
(* overlap themselves and are stored under permuted labels.                *)
NoBeadLost == \A s \in Slice : beads[s] \in Perms(Part)

(* The cached inverse, which putBeads and getBeads trust when a section    *)
(* reaches over the start of the array, is never stale.                    *)
InverseIsCurrent == /\ permutation \in Perms(Part)
                    /\ \A i \in Part : inversePermutation[permutation[i]] = i

(* The worldlines the arrays stand for.                                    *)
LabelOf(s, b) == CHOOSE i \in Part : beads[s][i] = b

WorldLink ==
  [s \in Slice |->
     [b \in Part |-> IF s < NSlice - 1
                     THEN beads[s + 1][LabelOf(s, b)]
                     ELSE beads[0][permutation[LabelOf(s, b)]]]]

(* sumOverLinks: the pairs of beads handed to an estimator, by the slice    *)
(* the link starts from; the first form takes the closing link forwards.    *)
SummedForwards(s) ==
  {<<beads[s][IF s = NSlice - 1 THEN permutation[i] ELSE i],
     beads[(s + 1) % NSlice][i]>> : i \in Part}
SummedLinks(s) ==
  IF s = NSlice - 1
  THEN {<<beads[s][inversePermutation[i]], beads[0][i]>> : i \in Part}
  ELSE {<<beads[s][i], beads[s + 1][i]>> : i \in Part}

(* Estimators see the same closed worldlines as the moves, each link once,  *)
(* although one goes by the inverse permutation and the other does not.     *)
SumSeesWorldlines ==
  \A s \in Slice : SummedLinks(s) = {<<b, WorldLink[s][b]>> : b \in Part}

Ring == INSTANCE PathRing
          WITH link <- WorldLink, Double <- DoubleAction

(* Every operation does to the worldlines what the abstract ring allows:   *)
(* putBeads re-joins beads at the end of its section and nowhere else,     *)
(* whatever relabelling that takes, and shift changes no worldline.        *)
ImplementsRing == Ring!RingSpec
=============================================================================
