------------------------- MODULE SerialPathsProofs -------------------------
(***************************************************************************)
(* The safety invariants of SerialPaths, for every number of particles and *)
(* slices, every section length and every set of section permutations; and *)
(* that SerialPaths implements PathRing, likewise.                         *)
(***************************************************************************)
EXTENDS SerialPaths, DataLemmas

(* A path state in which every slice is a permutation of its beads and the *)
(* cached inverse is current: the inductive invariant.                     *)
Good(st) == /\ st = [b |-> st.b, p |-> st.p, inv |-> st.inv]
            /\ st.b \in [Slice -> Perms(Part)]
            /\ st.p \in Perms(Part)
            /\ st.inv \in Perms(Part)
            /\ \A i \in Part : st.inv[st.p[i]] = i

IInv == Good(State)

Sections(n) == [0 .. n - 1 -> Perms(Part)]

(* Reading one slice, inside the array or one period beyond either end,    *)
(* gives each bead of the slice once.                                      *)
LEMMA GetSliceGood ==
  ASSUME NEW st, Good(st), NEW s \in -NSlice .. (2 * NSlice) - 1
  PROVE  GetSlice(st, s) \in Perms(Part)
<1> USE NSliceAssumption DEF Slice
<1>1. CASE s < 0
  <2>1. NSlice + s \in Slice
    BY <1>1
  <2> QED
    BY <1>1, <2>1, RelabelPerm DEF GetSlice, Good
<1>2. CASE s >= 0 /\ s < NSlice
  BY <1>2 DEF GetSlice, Good
<1>3. CASE s >= NSlice
  <2>1. s - NSlice \in Slice
    BY <1>3
  <2> QED
    BY <1>3, <2>1, RelabelPerm DEF GetSlice, Good
<1> QED
  BY <1>1, <1>2, <1>3

(* A section fetched by getBeads, and what a sampler makes of it.          *)
LEMMA SampledGood ==
  ASSUME NEW st, Good(st), NEW n \in SectionSizes,
         NEW f \in FirstSlices, NEW sp \in Exchanges
  PROVE  /\ n \in 2 .. NSlice + 1
         /\ sp \in Perms(Part)
         /\ Sampled(GetBeads(st, f, n), n, sp) \in Sections(n)
<1> USE NSliceAssumption
<1>1. n \in 2 .. NSlice + 1 /\ sp \in Perms(Part)
  BY SectionAssumption, ExchangesAssumption
<1>2. \A k \in 0 .. n - 1 : f + k \in -NSlice .. (2 * NSlice) - 1
  BY <1>1 DEF FirstSlices
<1>3. GetBeads(st, f, n) \in Sections(n)
  BY <1>2, GetSliceGood DEF GetBeads, Sections
<1>4. n - 1 \in 0 .. n - 1
  BY <1>1
<1>5. Relabel(GetBeads(st, f, n)[n - 1], sp) \in Perms(Part)
  BY <1>1, <1>3, <1>4, RelabelPerm DEF Sections
<1>6. Sampled(GetBeads(st, f, n), n, sp) \in Sections(n)
  BY <1>3, <1>5 DEF Sampled, Sections
<1> QED
  BY <1>1, <1>6

LEMMA StoreSectionGood ==
  ASSUME NEW st, Good(st), NEW n \in 2 .. NSlice + 1, NEW f \in Int,
         NEW section \in Sections(n)
  PROVE  StoreSection(st, f, section, n) \in [Slice -> Perms(Part)]
<1> DEFINE new(s) == IF s + NSlice \in f .. f + n - 1
                     THEN Scatter(section[s + NSlice - f], st.p)
                     ELSE IF s \in f .. f + n - 1 THEN section[s - f]
                     ELSE st.b[s]
<1> SUFFICES ASSUME NEW s \in Slice
             PROVE  new(s) \in Perms(Part)
  BY DEF StoreSection
<1> USE NSliceAssumption DEF Slice
<1>1. CASE s + NSlice \in f .. f + n - 1
  <2>1. s + NSlice - f \in 0 .. n - 1
    BY <1>1
  <2>2. section[s + NSlice - f] \in Perms(Part)
    BY <2>1 DEF Sections
  <2> QED
    BY <1>1, <2>2, ScatterPerm DEF Good
<1>2. CASE s + NSlice \notin f .. f + n - 1 /\ s \in f .. f + n - 1
  <2>1. s - f \in 0 .. n - 1
    BY <1>2
  <2> QED
    BY <1>2, <2>1 DEF Sections
<1>3. CASE s + NSlice \notin f .. f + n - 1 /\ s \notin f .. f + n - 1
  BY <1>3 DEF Good
<1> QED
  BY <1>1, <1>2, <1>3

(* putBeads keeps a good state good, wherever the section lies.            *)
LEMMA PutBeadsGood ==
  ASSUME NEW st, Good(st), NEW n \in 2 .. NSlice + 1, NEW f \in Int,
         NEW section \in Sections(n), NEW sp \in Perms(Part)
  PROVE  Good(PutBeads(st, f, section, n, sp))
<1> DEFINE stored == StoreSection(st, f, section, n)
           wraps  == f + n > NSlice
           ifollowing == IF wraps THEN f + n - NSlice ELSE f + n
           temp   == IF wraps
                     THEN Translated(st, sp)
                     ELSE sp
           closing == Prepend(st.p, temp)
           relabelled == [s \in Slice |-> IF s >= ifollowing
                                          THEN Relabel(stored[s], temp)
                                          ELSE stored[s]]
<1>1. stored \in [Slice -> Perms(Part)]
  BY StoreSectionGood
<1>2. temp \in Perms(Part)
  BY PrependPerm, AppendPerm DEF Good, Translated
<1>3. closing \in Perms(Part)
  BY <1>2, PrependPerm DEF Good
<1>4. /\ InverseOf(closing) \in Perms(Part)
      /\ \A i \in Part : InverseOf(closing)[closing[i]] = i
  BY <1>3, InversePerm
<1>5. relabelled \in [Slice -> Perms(Part)]
  BY <1>1, <1>2, RelabelPerm
<1>6. CASE IsIdentity(sp)
  <2>1. PutBeads(st, f, section, n, sp) = [st EXCEPT !.b = stored]
    BY <1>6 DEF PutBeads
  <2>2. [st EXCEPT !.b = stored] = [b |-> stored, p |-> st.p, inv |-> st.inv]
    BY DEF Good
  <2> QED
    BY <1>1, <2>1, <2>2 DEF Good
<1>7. CASE ~IsIdentity(sp)
  <2>1. PutBeads(st, f, section, n, sp)
          = [b |-> relabelled, p |-> closing, inv |-> InverseOf(closing)]
    BY <1>7 DEF PutBeads
  <2> HIDE DEF relabelled, closing
  <2> QED
    BY <1>3, <1>4, <1>5, <2>1 DEF Good
<1> QED
  BY <1>6, <1>7

(* The second put of a double section sees labels and a permutation that   *)
(* were translated by permutations, hence again permutations.              *)
LEMMA PutDoubleBeadsGood ==
  ASSUME NEW st, Good(st), NEW n \in 2 .. NSlice + 1,
         NEW f1 \in Int, NEW f2 \in Int,
         NEW sec1 \in Sections(n), NEW sec2 \in Sections(n),
         NEW p1 \in Perms(Part), NEW p2 \in Perms(Part)
  PROVE  Good(PutDoubleBeads(st, f1, sec1, p1, f2, sec2, p2, n))
<1>1. ASSUME NEW st0, Good(st0), NEW f \in Int, NEW sec \in Sections(n),
             NEW p \in Perms(Part), NEW q \in Perms(Part)
      PROVE  Good(PutBeads(st0, f, [k \in 0 .. n - 1 |-> Relabel(sec[k], q)], n,
                           SecondPermutation(p, q)))
  <2>1. [k \in 0 .. n - 1 |-> Relabel(sec[k], q)] \in Sections(n)
    BY <1>1, RelabelPerm DEF Sections
  <2>2. SecondPermutation(p, q) \in Perms(Part)
    BY <1>1, PrependPerm, AppendPerm, InversePerm DEF SecondPermutation
  <2> QED
    BY <1>1, <2>1, <2>2, PutBeadsGood
<1>2. Good(PutBeads(st, f1, sec1, n, p1)) /\ Good(PutBeads(st, f2, sec2, n, p2))
  BY PutBeadsGood
<1> QED
  BY <1>1, <1>2 DEF PutDoubleBeads

LEMMA RotatedGood ==
  ASSUME NEW st, Good(st), NEW k \in 0 .. MaxShift
  PROVE  Rotated(st, k) \in [Slice -> Perms(Part)]
<1>1. \A s \in Slice : s + k \in -NSlice .. (2 * NSlice) - 1
  BY NSliceAssumption, MaxShiftAssumption DEF Slice
<1> QED
  BY <1>1, GetSliceGood DEF Rotated

LEMMA OtherSectionIsFirstSlice ==
  ASSUME NEW f \in Int
  PROVE  OtherSection(f) \in FirstSlices
BY NSliceAssumption DEF OtherSection, FirstSlices

(* The other choosers draw from the first slices of SectionChooser.        *)
LEMMA SomeFirstSlice ==
  ASSUME NEW n \in SectionSizes
  PROVE  /\ MiddleFirstSlice(n) \in FirstSlices
         /\ NonZeroFirstSlices(n) \subseteq FirstSlices
BY NSliceAssumption, SectionAssumption
   DEF MiddleFirstSlice, NonZeroFirstSlices, FirstSlices

(* Init and every action of Next keep the inductive invariant.             *)
LEMMA InitGood == Init => IInv
<1>1. Identity(Part) \in Perms(Part)
  BY IdentityPerm
<1>2. \A i \in Part : Identity(Part)[Identity(Part)[i]] = i
  BY DEF Identity
<1> QED
  BY <1>1, <1>2 DEF Init, IInv, Good, State

LEMMA NextGood == IInv /\ [Next]_vars => IInv'
<1> SUFFICES ASSUME IInv, [Next]_vars
             PROVE  IInv'
  OBVIOUS
<1>0. Good(State)
  BY DEF IInv
<1>1. ASSUME NEW st, Good(st), Become(st)
      PROVE  IInv'
  <2>1. State' = st
    BY <1>1 DEF Become, State, Good
  <2> QED
    BY <1>1, <2>1 DEF IInv, Good
<1>2. CASE Section \/ MiddleSection \/ NonZeroSection
  <2>1. PICK f \in FirstSlices, n \in SectionSizes, sp \in Exchanges :
          SectionRun(f, n, sp)
    BY <1>2, SomeFirstSlice DEF Section, MiddleSection, NonZeroSection
  <2>2. f \in Int
    BY DEF FirstSlices
  <2>3. Good(PutBeads(State, f, Sampled(GetBeads(State, f, n), n, sp), n, sp))
    BY <1>0, <2>2, SampledGood, PutBeadsGood
  <2> QED
    BY <1>1, <2>1, <2>3 DEF SectionRun
<1>3. CASE DoubleSection
  <2>1. PICK f \in DoubleFirstSlices, n \in DoubleSizes,
             sp1 \in Exchanges, sp2 \in Exchanges :
          DoubleSectionRun(f, n, sp1, sp2)
    BY <1>3 DEF DoubleSection
  <2>2. n \in SectionSizes /\ f \in FirstSlices /\ f \in Int
    <3>1. \A g \in -1 .. (NSlice \div 2) - 1 : g \in FirstSlices /\ g \in Int
      BY NSliceAssumption DEF FirstSlices
    <3>2. \A g \in FirstSlices : g \in Int
      BY DEF FirstSlices
    <3> QED
      BY <3>1, <3>2, OtherSectionIsFirstSlice DEF DoubleFirstSlices, DoubleSizes
  <2>3. OtherSection(f) \in FirstSlices /\ OtherSection(f) \in Int
    BY <2>2, OtherSectionIsFirstSlice DEF FirstSlices
  <2>4. Good(PutDoubleBeads(State,
               f, Sampled(GetBeads(State, f, n), n, sp1), sp1,
               OtherSection(f),
               Sampled(GetBeads(State, OtherSection(f), n), n, sp2), sp2, n))
    <3>1. /\ n \in 2 .. NSlice + 1 /\ sp1 \in Perms(Part) /\ sp2 \in Perms(Part)
          /\ Sampled(GetBeads(State, f, n), n, sp1) \in Sections(n)
          /\ Sampled(GetBeads(State, OtherSection(f), n), n, sp2) \in Sections(n)
      BY <1>0, <2>2, <2>3, SampledGood
    <3> QED
      BY <1>0, <2>2, <2>3, <3>1, PutDoubleBeadsGood
  <2> QED
    BY <1>1, <2>1, <2>4 DEF DoubleSectionRun
<1>4. ASSUME NEW k \in 0 .. MaxShift, Shift(k)
      PROVE  IInv'
  <2>1. beads' \in [Slice -> Perms(Part)]
    BY <1>0, <1>4, RotatedGood DEF Shift
  <2> QED
    BY <1>0, <1>4, <2>1 DEF Shift, IInv, Good, State
<1>5. CASE ClearPermutation
  <2>1. Identity(Part) \in Perms(Part)
    BY IdentityPerm
  <2>2. \A i \in Part : Identity(Part)[Identity(Part)[i]] = i
    BY DEF Identity
  <2> QED
    BY <1>0, <1>5, <2>1, <2>2 DEF ClearPermutation, IInv, Good, State
<1>6. CASE UNCHANGED vars
  BY <1>0, <1>6 DEF vars, IInv, Good, State
<1> QED
  BY <1>2, <1>3, <1>4, <1>5, <1>6 DEF Next

(* The inductive invariant holds in every reachable state.                 *)
THEOREM Inductive == Spec => []IInv
BY InitGood, NextGood, PTL DEF Spec

(* Every slice and both permutation arrays always hold labels.             *)
THEOREM TypeCorrect == Spec => []TypeOK
<1>1. IInv => TypeOK
  BY DEF IInv, Good, State, TypeOK, Perms
<1> QED
  BY <1>1, Inductive, PTL

(* putBeads, putDoubleBeads and shift (base/SerialPaths.cc) never drop or  *)
(* duplicate a bead of any slice.                                          *)
THEOREM BeadsConserved == Spec => []NoBeadLost
<1>1. IInv => NoBeadLost
  BY DEF IInv, Good, State, NoBeadLost
<1> QED
  BY <1>1, Inductive, PTL

(* inversePermutation is the inverse of permutation whenever getBeads or   *)
(* putBeads can read it.                                                   *)
THEOREM InverseCorrect == Spec => []InverseIsCurrent
<1>1. IInv => InverseIsCurrent
  BY DEF IInv, Good, State, InverseIsCurrent
<1> QED
  BY <1>1, Inductive, PTL

(* A bead of a slice stands under one label.                               *)
LEMMA LabelOfGood ==
  ASSUME IInv, NEW s \in Slice, NEW b \in Part
  PROVE  LabelOf(s, b) \in Part /\ beads[s][LabelOf(s, b)] = b
<1>1. beads[s] \in Perms(Part)
  BY DEF IInv, Good, State
<1>2. PICK i \in Part : beads[s][i] = b
  BY <1>1 DEF Perms
<1> QED
  BY <1>2 DEF LabelOf

(* What sumOverLinks reads off a good state is the worldlines: within the  *)
(* array because both run by label, across its end because the cached      *)
(* inverse undoes the permutation.                                         *)
LEMMA SummedLinksGood ==
  ASSUME IInv, NEW s \in Slice
  PROVE  SummedLinks(s) = {<<b, WorldLink[s][b]>> : b \in Part}
<1> USE NSliceAssumption DEF Slice
<1>1. \A r \in Slice : beads[r] \in Perms(Part)
  BY DEF IInv, Good, State
<1>2. /\ permutation \in Perms(Part) /\ inversePermutation \in Perms(Part)
      /\ \A i \in Part : inversePermutation[permutation[i]] = i
  BY DEF IInv, Good, State
<1>3. \A j \in Part : permutation[inversePermutation[j]] = j
  BY <1>2 DEF Perms
<1>4. \A i \in Part : LabelOf(s, beads[s][i]) = i
  <2>1. \A i \in Part : beads[s][i] \in Part
    BY <1>1 DEF Perms
  <2> QED
    BY <1>1, <2>1, LabelOfGood DEF Perms
<1>5. CASE s < NSlice - 1
  <2> DEFINE Link(b) == <<b, beads[s + 1][LabelOf(s, b)]>>
  <2>1. \A b \in Part : <<b, WorldLink[s][b]>> = Link(b)
    BY <1>5 DEF WorldLink
  <2>2. SummedLinks(s) = {<<beads[s][i], beads[s + 1][i]>> : i \in Part}
    BY <1>5 DEF SummedLinks
  <2>3. \A i \in Part : /\ beads[s][i] \in Part
                        /\ <<beads[s][i], beads[s + 1][i]>> = Link(beads[s][i])
    BY <1>1, <1>4 DEF Perms
  <2>4. \A b \in Part : \E i \in Part : b = beads[s][i]
    BY <1>1 DEF Perms
  <2> HIDE DEF Link
  <2> QED
    BY SMTT(30), <2>1, <2>2, <2>3, <2>4
<1>6. CASE s = NSlice - 1
  <2> DEFINE Link(b) == <<b, beads[0][permutation[LabelOf(s, b)]]>>
  <2>1. \A b \in Part : <<b, WorldLink[s][b]>> = Link(b)
    BY <1>6 DEF WorldLink
  <2>2. SummedLinks(s) = {<<beads[s][inversePermutation[i]], beads[0][i]>> : i \in Part}
    BY <1>6 DEF SummedLinks
  <2>3. \A i \in Part : inversePermutation[i] \in Part
    BY <1>2 DEF Perms
  <2>4. \A i \in Part : /\ beads[s][inversePermutation[i]] \in Part
                        /\ <<beads[s][inversePermutation[i]], beads[0][i]>>
                             = Link(beads[s][inversePermutation[i]])
    BY <1>1, <1>3, <1>4, <2>3 DEF Perms
  <2>5. \A b \in Part : \E i \in Part : b = beads[s][inversePermutation[i]]
    BY SMTT(30), <1>1, <1>2 DEF Perms
  <2> HIDE DEF Link
  <2> QED
    BY SMTT(30), <2>1, <2>2, <2>4, <2>5
<1> QED
  BY <1>5, <1>6

(* Estimators always sum the worldlines the moves act on, each link once.  *)
THEOREM SumsCorrect == Spec => []SumSeesWorldlines
<1>1. IInv => SumSeesWorldlines
  BY SummedLinksGood DEF SumSeesWorldlines
<1> QED
  BY <1>1, Inductive, PTL

-----------------------------------------------------------------------------
(* The refinement.  Whatever putBeads does to a section, wrapped or not,   *)
(* comes to this: from one slice on all slices are relabelled by one       *)
(* permutation, and the closing permutation with them (CutBy).  Such a     *)
(* step re-joins beads at one place (CutRejoins).                          *)
Slices == [Slice -> Perms(Part)]

(* The bead that follows label i of slice s, and the worldlines of arrays. *)
After(b, p, s, i) == IF s < NSlice - 1 THEN b[s + 1][i] ELSE b[0][p[i]]
LinkFn(b, p) ==
  [s \in Slice |-> [x \in Part |->
     LET i == CHOOSE i \in Part : b[s][i] = x
     IN IF s < NSlice - 1 THEN b[s + 1][i] ELSE b[0][p[i]]]]

(* t and q are the same permutation, up to the names of the labels.        *)
Conjugate(t, q) ==
  \E u \in Perms(Part) : \A i \in Part : t[u[i]] = u[q[i]]

(* From slice c on, labels are renamed by t.                               *)
CutBy(b, p, b2, p2, c, t) ==
  /\ b2 = [s \in Slice |-> IF s >= c THEN Relabel(b[s], t) ELSE b[s]]
  /\ p2 = Prepend(p, t)

Before(c) == IF c = 0 THEN NSlice - 1 ELSE c - 1

HalfPath(c, d) == 2 * (c - d) \in {NSlice, -NSlice}

RejoinedBy(old, new, q) ==
  \E r \in Perms(Part) : \A i \in Part : new[r[i]] = old[r[q[i]]]

-----------------------------------------------------------------------------
(* A permutation reaches every label, from one label.                      *)
LEMMA PermsFacts ==
  ASSUME NEW p \in Perms(Part)
  PROVE  /\ \A i \in Part : p[i] \in Part
         /\ \A i, j \in Part : p[i] = p[j] => i = j
         /\ \A x \in Part : \E i \in Part : p[i] = x
BY DEF Perms

LEMMA LinkFnIs ==
  ASSUME NEW b \in Slices, NEW p \in Perms(Part), NEW s \in Slice
  PROVE  /\ \A i \in Part : LinkFn(b, p)[s][b[s][i]] = After(b, p, s, i)
         /\ DOMAIN (LinkFn(b, p)[s]) = Part
         /\ \A x \in Part : LinkFn(b, p)[s][x] \in Part
<1> USE NSliceAssumption DEF Slice
<1>1. b[s] \in Perms(Part) /\ b[0] \in Perms(Part)
      /\ (s < NSlice - 1 => b[s + 1] \in Perms(Part))
  BY DEF Slices
<1>2. \A x \in Part : /\ (CHOOSE i \in Part : b[s][i] = x) \in Part
                      /\ b[s][CHOOSE i \in Part : b[s][i] = x] = x
  BY <1>1, PermsFacts
<1>3. \A x \in Part : LinkFn(b, p)[s][x] = After(b, p, s, CHOOSE i \in Part : b[s][i] = x)
  BY DEF LinkFn, After
<1>4. \A i \in Part : After(b, p, s, i) \in Part
  BY <1>1, PermsFacts DEF After
<1>5. \A i \in Part : (CHOOSE j \in Part : b[s][j] = b[s][i]) = i
  BY <1>1, <1>2, PermsFacts
<1>6. DOMAIN (LinkFn(b, p)[s]) = Part
  BY DEF LinkFn
<1>7. \A i \in Part : b[s][i] \in Part
  BY <1>1, PermsFacts
<1> QED
  BY <1>2, <1>3, <1>4, <1>5, <1>6, <1>7

(* Every link joins each bead to a bead of its own.                        *)
LEMMA LinkFnPerm ==
  ASSUME NEW b \in Slices, NEW p \in Perms(Part), NEW s \in Slice
  PROVE  LinkFn(b, p)[s] \in Perms(Part)
<1> USE NSliceAssumption DEF Slice
<1> DEFINE L == LinkFn(b, p)[s]
<1> DEFINE next == [i \in Part |-> After(b, p, s, i)]
<1>1. b[s] \in Perms(Part) /\ b[0] \in Perms(Part)
      /\ (s < NSlice - 1 => b[s + 1] \in Perms(Part))
  BY DEF Slices
<1>2. \A i \in Part : L[b[s][i]] = After(b, p, s, i)
  BY LinkFnIs
<1>3. L \in [Part -> Part]
  BY ZenonT(40), LinkFnIs DEF LinkFn
<1>4. next \in Perms(Part)
  <2>1. CASE s < NSlice - 1
    <3>1. next = [i \in Part |-> b[s + 1][i]]
      BY <2>1 DEF After
    <3>2. b[s + 1] \in [Part -> Part] /\ b[s + 1] \in Perms(Part)
      BY <1>1, <2>1 DEF Perms
    <3>3. next = b[s + 1]
      BY <3>1, <3>2
    <3> QED
      BY <3>2, <3>3
  <2>2. CASE ~(s < NSlice - 1)
    <3>1. next = [i \in Part |-> b[0][p[i]]]
      BY <2>2 DEF After
    <3>2. Prepend(b[0], p) = [i \in Part |-> b[0][p[i]]]
      BY <1>1 DEF Prepend, Perms
    <3> QED
      BY <1>1, <3>1, <3>2, PrependPerm
  <2> QED
    BY <2>1, <2>2
<1>5. \A i \in Part : next[i] = After(b, p, s, i)
  OBVIOUS
<1> HIDE DEF L, next
<1>5a. \A i \in Part : L[b[s][i]] = next[i]
  BY <1>2, <1>5
<1>5b. /\ \A i, j \in Part : next[i] = next[j] => i = j
       /\ \A x \in Part : \E i \in Part : next[i] = x
  BY <1>4, PermsFacts
<1>6. \A x, y \in Part : L[x] = L[y] => x = y
  <2> SUFFICES ASSUME NEW x \in Part, NEW y \in Part, L[x] = L[y]
               PROVE  x = y
    OBVIOUS
  <2>1. PICK i \in Part : b[s][i] = x
    BY <1>1, PermsFacts
  <2>2. PICK j \in Part : b[s][j] = y
    BY <1>1, PermsFacts
  <2> QED
    BY <1>5a, <1>5b, <2>1, <2>2
<1>7. \A z \in Part : \E x \in Part : L[x] = z
  <2> SUFFICES ASSUME NEW z \in Part
               PROVE  \E x \in Part : L[x] = z
    OBVIOUS
  <2>1. PICK i \in Part : next[i] = z
    BY <1>5b
  <2>2. b[s][i] \in Part
    BY <1>1, PermsFacts
  <2> QED
    BY <1>5a, <2>1, <2>2
<1>8. L \in Perms(Part)
  BY <1>3, <1>6, <1>7 DEF Perms
<1> QED
  BY <1>8 DEF L

(* Two arrays that join the same beads under other labels have one link.   *)
LEMMA SameLink ==
  ASSUME NEW b \in Slices, NEW p \in Perms(Part), NEW s \in Slice,
         NEW b2 \in Slices, NEW p2 \in Perms(Part), NEW s2 \in Slice,
         NEW t \in Perms(Part),
         \A i \in Part : b2[s2][i] = b[s][t[i]],
         \A i \in Part : After(b2, p2, s2, i) = After(b, p, s, t[i])
  PROVE  LinkFn(b2, p2)[s2] = LinkFn(b, p)[s]
<1>1. ASSUME NEW x \in Part
      PROVE  LinkFn(b2, p2)[s2][x] = LinkFn(b, p)[s][x]
  <2>1. PICK i \in Part : b2[s2][i] = x
    BY PermsFacts DEF Slices
  <2>2. t[i] \in Part /\ b[s][t[i]] = x
    BY <2>1, PermsFacts
  <2>3. LinkFn(b2, p2)[s2][b2[s2][i]] = After(b2, p2, s2, i)
    BY LinkFnIs
  <2>4. LinkFn(b, p)[s][b[s][t[i]]] = After(b, p, s, t[i])
    BY <2>2, LinkFnIs
  <2> QED
    BY <2>1, <2>2, <2>3, <2>4
<1>2. /\ LinkFn(b2, p2)[s2] = [x \in Part |-> LinkFn(b2, p2)[s2][x]]
      /\ LinkFn(b, p)[s] = [x \in Part |-> LinkFn(b, p)[s][x]]
  BY DEF LinkFn
<1> HIDE DEF LinkFn
<1> QED
  BY <1>1, <1>2

(* Relabelling from slice c on re-joins the beads before c and no others.  *)
LEMMA CutIsGood ==
  ASSUME NEW b \in Slices, NEW p \in Perms(Part), NEW b2, NEW p2,
         NEW c \in Slice, NEW t \in Perms(Part), CutBy(b, p, b2, p2, c, t)
  PROVE  b2 \in Slices /\ p2 \in Perms(Part)
<1>1. \A s \in Slice : b[s] \in Perms(Part) /\ Relabel(b[s], t) \in Perms(Part)
  BY RelabelPerm DEF Slices
<1> QED
  BY <1>1, PrependPerm DEF CutBy, Slices

LEMMA CutLeavesOthers ==
  ASSUME NEW b \in Slices, NEW p \in Perms(Part), NEW b2, NEW p2,
         NEW c \in Slice, NEW t \in Perms(Part), CutBy(b, p, b2, p2, c, t),
         NEW s \in Slice, s # Before(c)
  PROVE  LinkFn(b2, p2)[s] = LinkFn(b, p)[s]
<1>1. b2 \in Slices /\ p2 \in Perms(Part)
  BY CutIsGood
<1>2. \A r \in Slice, i \in Part :
        b2[r][i] = IF r >= c THEN b[r][t[i]] ELSE b[r][i]
  BY RelabelPerm DEF CutBy, Slices
<1>3a. \A i \in Part : p2[i] = p[t[i]]
  BY PrependPerm DEF CutBy
<1>3b. \A i \in Part : t[i] \in Part /\ p[i] \in Part
  BY PermsFacts
<1>3. /\ \A i \in Part : p2[i] = p[t[i]]
      /\ \A i \in Part : t[i] \in Part /\ p[i] \in Part
  BY <1>3a, <1>3b
<1> USE NSliceAssumption DEF Slice
<1>4. 0 \in Slice /\ (s < NSlice - 1 => s + 1 \in Slice)
  OBVIOUS
<1>5. CASE s < c
  <2>1. s + 1 < c /\ c \in Nat /\ 0 < c /\ s < NSlice - 1
    BY <1>5 DEF Before
  <2>2. \A i \in Part : b2[s][i] = b[s][Identity(Part)[i]]
    BY <1>2, <1>5, <2>1 DEF Identity
  <2>3. \A i \in Part : After(b2, p2, s, i) = After(b, p, s, Identity(Part)[i])
    BY <1>2, <1>4, <2>1 DEF After, Identity
  <2> QED
    <3>1. Identity(Part) \in Perms(Part)
      BY IdentityPerm
    <3> QED
      BY <1>1, <2>2, <2>3, <3>1, SameLink
<1>6. CASE s >= c
  <2>1. s = NSlice - 1 => 0 < c
    BY <1>6 DEF Before
  <2>2. \A i \in Part : b2[s][i] = b[s][t[i]]
    BY <1>2, <1>6
  <2>3. \A i \in Part : After(b2, p2, s, i) = After(b, p, s, t[i])
    BY <1>2, <1>3, <1>4, <1>6, <2>1 DEF After
  <2> QED
    BY <1>1, <2>2, <2>3, SameLink
<1> QED
  BY <1>5, <1>6

LEMMA CutRejoins ==
  ASSUME NEW b \in Slices, NEW p \in Perms(Part), NEW b2, NEW p2,
         NEW c \in Slice, NEW t \in Perms(Part), CutBy(b, p, b2, p2, c, t),
         NEW q \in Perms(Part), Conjugate(t, q)
  PROVE  RejoinedBy(LinkFn(b, p)[Before(c)], LinkFn(b2, p2)[Before(c)], q)
<1> DEFINE s == Before(c)
           old == LinkFn(b, p)[s]
           new == LinkFn(b2, p2)[s]
<1>0. s \in Slice
  BY NSliceAssumption DEF Before, Slice
<1>1. b2 \in Slices /\ p2 \in Perms(Part) /\ s \in Slice
  BY <1>0, CutIsGood
<1>2. \A r \in Slice, i \in Part :
        b2[r][i] = IF r >= c THEN b[r][t[i]] ELSE b[r][i]
  BY RelabelPerm DEF CutBy, Slices
<1>3a. \A i \in Part : p2[i] = p[t[i]]
  BY PrependPerm DEF CutBy
<1>3b. \A i \in Part : t[i] \in Part /\ p[i] \in Part
  BY PermsFacts
<1>3. /\ \A i \in Part : p2[i] = p[t[i]]
      /\ \A i \in Part : t[i] \in Part /\ p[i] \in Part
  BY <1>3a, <1>3b
<1> USE NSliceAssumption DEF Slice
<1>4. PICK v \in Perms(Part) : \A j \in Part : new[b[s][v[j]]] = old[b[s][v[t[j]]]]
  <2>1. CASE c > 0
    <3>1. \A j \in Part : b2[s][j] = b[s][j]
      BY <1>1, <1>2, <2>1 DEF Before
    <3>2. \A j \in Part : After(b2, p2, s, j) = After(b, p, s, t[j])
      BY <1>2, <1>3, <2>1 DEF Before, After
    <3>3. \A j \in Part : /\ new[b2[s][j]] = After(b2, p2, s, j)
                           /\ old[b[s][j]] = After(b, p, s, j)
      BY ZenonT(40), <1>1, LinkFnIs
    <3> HIDE DEF old, new, s
    <3>4. \A j \in Part : new[b[s][j]] = old[b[s][t[j]]]
      BY <1>3, <3>1, <3>2, <3>3
    <3>5. Identity(Part) \in Perms(Part) /\ \A j \in Part : Identity(Part)[j] = j
      BY IdentityPerm DEF Identity
    <3> QED
      BY <1>3, <3>4, <3>5
  <2>2. CASE c = 0
    <3> DEFINE v == InverseOf(p)
    <3>1. /\ v \in Perms(Part)
          /\ \A j \in Part : v[j] \in Part /\ p[v[j]] = j
      BY InversePerm, PermsFacts
    <3>2. s = NSlice - 1
      BY <2>2 DEF Before
    <3>3. \A i \in Part : new[b[s][t[i]]] = b[0][t[p[t[i]]]]
      <4>1. \A i \in Part : b2[s][i] = b[s][t[i]]
        BY <1>1, <1>2, <2>2
      <4>2. \A i \in Part : new[b2[s][i]] = b2[0][p2[i]]
        BY <1>1, <3>2, LinkFnIs DEF After
      <4>3. \A i \in Part : b2[0][p2[i]] = b[0][t[p2[i]]]
        BY <1>2, <1>3, <2>2
      <4> QED
        BY <1>3, <4>1, <4>2, <4>3
    <3>4. \A i \in Part : old[b[s][i]] = b[0][p[i]]
      BY <1>1, <3>2, LinkFnIs DEF After
    <3> HIDE DEF old, new, s, v
    <3>5. \A i \in Part : \E k \in Part : t[k] = i
      BY PermsFacts
    <3>6. \A i \in Part : new[b[s][i]] = b[0][t[p[i]]]
      BY <3>3, <3>5
    <3>7. \A j \in Part : new[b[s][v[j]]] = old[b[s][v[t[j]]]]
      BY <1>3, <3>1, <3>4, <3>6
    <3> QED
      BY <3>1, <3>7
  <2> QED
    BY <2>1, <2>2
<1>5. PICK u \in Perms(Part) : \A i \in Part : t[u[i]] = u[q[i]]
  BY DEF Conjugate
<1> DEFINE r == Prepend(b[s], Prepend(v, u))
<1>6. b[s] \in Perms(Part) /\ Prepend(v, u) \in Perms(Part) /\ r \in Perms(Part)
  BY <1>1, PrependPerm DEF Slices
<1>7a. \A i \in Part : r[i] = b[s][Prepend(v, u)[i]] /\ Prepend(v, u)[i] = v[u[i]]
  BY <1>6, PrependPerm
<1>7b. \A i \in Part : u[i] \in Part /\ q[i] \in Part
  BY PermsFacts
<1> HIDE DEF old, new, r, s
<1>8. \A i \in Part : new[r[i]] = old[r[q[i]]]
  BY <1>4, <1>5, <1>7a, <1>7b
<1>9. RejoinedBy(old, new, q)
  BY <1>6, <1>8 DEF RejoinedBy
<1> QED
  BY <1>9 DEF old, new, s
-----------------------------------------------------------------------------
(* What putBeads does to the section it was given by getBeads: everything  *)
(* before the end of the section comes back as it was, and everything from *)
(* there on is relabelled, wherever the section lies.                      *)
CutSlice(f, n) == IF f + n > NSlice THEN f + n - 1 - NSlice ELSE f + n - 1
CutPerm(st, f, n, sp) == IF f + n > NSlice THEN Translated(st, sp) ELSE sp

LEMMA CutPermGood ==
  ASSUME NEW st, Good(st), NEW f \in Int, NEW n \in Int, NEW sp \in Perms(Part)
  PROVE  CutPerm(st, f, n, sp) \in Perms(Part) /\ Conjugate(CutPerm(st, f, n, sp), sp)
<1>0. /\ st.p \in Perms(Part) /\ st.inv \in Perms(Part)
      /\ \A i \in Part : st.inv[st.p[i]] = i
  BY DEF Good
<1> DEFINE back == Prepend(sp, st.inv)
<1>1. back \in Perms(Part) /\ \A i \in Part : back[i] = sp[st.inv[i]]
  BY <1>0, PrependPerm
<1>2. Translated(st, sp) = PermAppend(back, st.p)
  BY DEF Translated
<1> HIDE DEF back
<1>3. /\ Translated(st, sp) \in Perms(Part)
      /\ \A i \in Part : Translated(st, sp)[i] = st.p[back[i]]
  BY <1>0, <1>1, <1>2, AppendPerm
<1>4. CASE f + n > NSlice
  <2>1. \A i \in Part : st.p[i] \in Part
    BY <1>0, PermsFacts
  <2>2. \A i \in Part : Translated(st, sp)[st.p[i]] = st.p[sp[i]]
    BY <1>0, <1>1, <1>3, <2>1
  <2>3. Conjugate(Translated(st, sp), sp)
    BY <1>0, <2>2 DEF Conjugate
  <2> QED
    BY <1>3, <1>4, <2>3 DEF CutPerm
<1>5. CASE ~(f + n > NSlice)
  <2>1. CutPerm(st, f, n, sp) = sp
    BY <1>5 DEF CutPerm
  <2>2. /\ Identity(Part) \in Perms(Part)
        /\ \A i \in Part : Identity(Part)[i] = i
    BY IdentityPerm DEF Identity
  <2>3. \A i \in Part : sp[i] \in Part
    BY PermsFacts
  <2>4. \A i \in Part : sp[Identity(Part)[i]] = Identity(Part)[sp[i]]
    BY <2>2, <2>3
  <2> QED
    BY <2>1, <2>2, <2>4 DEF Conjugate
<1> QED
  BY <1>4, <1>5

LEMMA CutSliceGood ==
  ASSUME NEW f \in FirstSlices, NEW n \in 2 .. NSlice + 1
  PROVE  CutSlice(f, n) \in Slice
BY NSliceAssumption DEF CutSlice, FirstSlices, Slice

(* The beads that putBeads stores, at every slice it stores to.            *)
LEMMA StoredIs ==
  ASSUME NEW st, Good(st), NEW f \in FirstSlices, NEW n \in 2 .. NSlice + 1,
         NEW sp \in Perms(Part), NEW s \in Slice
  PROVE  StoreSection(st, f, Sampled(GetBeads(st, f, n), n, sp), n)[s]
           = IF s = CutSlice(f, n) THEN Relabel(st.b[s], CutPerm(st, f, n, sp))
             ELSE st.b[s]
<1> DEFINE got == GetBeads(st, f, n)
           section == Sampled(got, n, sp)
           stored == StoreSection(st, f, section, n)
<1> DEFINE c == CutSlice(f, n)
           t == CutPerm(st, f, n, sp)
<1> SUFFICES stored[s] = IF s = c THEN Relabel(st.b[s], t) ELSE st.b[s]
  OBVIOUS
<1> USE NSliceAssumption DEF Slice, FirstSlices
<1>1. /\ st.p \in Perms(Part) /\ st.inv \in Perms(Part)
      /\ st.b[s] \in Perms(Part)
  BY DEF Good
<1>2. /\ \A k \in 0 .. n - 2 : section[k] = got[k]
      /\ section[n - 1] = Relabel(got[n - 1], sp)
  BY DEF Sampled, GetBeads
<1>3. \A k \in 0 .. n - 1 : got[k] = GetSlice(st, f + k)
  BY DEF GetBeads
<1>3a. stored = StoreSection(st, f, section, n)
  OBVIOUS
<1> HIDE DEF got, section, stored
<1>4. CASE s + NSlice \in f .. f + n - 1
  <2> DEFINE k == s + NSlice - f
  <2>1. k \in 0 .. n - 1 /\ f + k = s + NSlice /\ f + n > NSlice
    BY <1>4
  <2>2. stored[s] = Scatter(section[k], st.p)
    BY <1>3a, <1>4 DEF StoreSection
  <2>3. got[k] = Relabel(st.b[s], st.p)
    BY <1>3, <2>1 DEF GetSlice
  <2>4. got[k] \in Perms(Part) /\ \A i \in Part : got[k][i] = st.b[s][st.p[i]]
    BY <1>1, <2>3, RelabelPerm
  <2>5. /\ InverseOf(st.p) \in Perms(Part)
        /\ \A j \in Part : st.p[InverseOf(st.p)[j]] = j
        /\ \A j \in Part : InverseOf(st.p)[j] \in Part
        /\ \A i \in Part : InverseOf(st.p)[st.p[i]] = i
    BY <1>1, InversePerm, PermsFacts
  <2>6. CASE s # c
    <3>1. section[k] = got[k]
      BY <1>2, <2>1, <2>6 DEF CutSlice
    <3>2. /\ Scatter(got[k], st.p) \in Perms(Part)
          /\ \A i \in Part : Scatter(got[k], st.p)[st.p[i]] = got[k][i]
      BY <1>1, <2>4, ScatterPerm
    <3>3. \A j \in Part : Scatter(got[k], st.p)[j] = st.b[s][j]
      BY <2>4, <2>5, <3>2
    <3>4. Scatter(got[k], st.p) = st.b[s]
      BY <1>1, <3>2, <3>3 DEF Perms
    <3> QED
      BY <2>2, <2>6, <3>1, <3>4
  <2>7. CASE s = c
    <3> DEFINE last == Relabel(got[k], sp)
    <3>1. section[k] = last
      BY <1>2, <2>1, <2>7 DEF CutSlice
    <3>2. last \in Perms(Part) /\ \A i \in Part : last[i] = got[k][sp[i]]
      BY <2>4, RelabelPerm
    <3>3. t = PermAppend(Prepend(sp, st.inv), st.p)
      BY <2>1 DEF CutPerm, Translated
    <3>4. /\ Prepend(sp, st.inv) \in Perms(Part)
          /\ \A i \in Part : Prepend(sp, st.inv)[i] = sp[st.inv[i]]
      BY <1>1, PrependPerm
    <3>5. t \in Perms(Part) /\ \A i \in Part : t[i] = st.p[Prepend(sp, st.inv)[i]]
      BY <1>1, <3>3, <3>4, AppendPerm
    <3> HIDE DEF last, t
    <3>6. /\ Scatter(last, st.p) \in Perms(Part)
          /\ \A i \in Part : Scatter(last, st.p)[st.p[i]] = last[i]
      BY <1>1, <3>2, ScatterPerm
    <3>7. /\ Relabel(st.b[s], t) \in Perms(Part)
          /\ \A i \in Part : Relabel(st.b[s], t)[i] = st.b[s][t[i]]
      BY <1>1, <3>5, RelabelPerm
    <3>8. /\ \A i \in Part : st.inv[st.p[i]] = i
          /\ \A i \in Part : st.p[i] \in Part /\ sp[i] \in Part
      BY <1>1, PermsFacts DEF Good
    <3>9. \A i \in Part : Scatter(last, st.p)[st.p[i]] = Relabel(st.b[s], t)[st.p[i]]
      BY <2>4, <3>2, <3>4, <3>5, <3>6, <3>7, <3>8
    <3>10. \A j \in Part : Scatter(last, st.p)[j] = Relabel(st.b[s], t)[j]
      BY <2>5, <3>9
    <3>11. Scatter(last, st.p) = Relabel(st.b[s], t)
      BY <3>6, <3>7, <3>10 DEF Perms
    <3> QED
      BY <2>2, <2>7, <3>1, <3>11
  <2> QED
    BY <2>6, <2>7
<1>5. CASE s + NSlice \notin f .. f + n - 1 /\ s \in f .. f + n - 1
  <2>1. s - f \in 0 .. n - 1 /\ f + (s - f) = s
    BY <1>5
  <2>2. stored[s] = section[s - f]
    BY <1>3a, <1>5 DEF StoreSection
  <2>3. got[s - f] = st.b[s]
    BY <1>3, <2>1 DEF GetSlice
  <2>4. CASE s = f + n - 1
    <3>1. ~(f + n > NSlice) /\ s = c /\ t = sp
      BY <2>4 DEF CutSlice, CutPerm
    <3> QED
      BY <1>2, <2>2, <2>3, <2>4, <3>1
  <2>5. CASE s # f + n - 1
    <3>1. s # c /\ s - f \in 0 .. n - 2
      BY <1>5, <2>5 DEF CutSlice
    <3> QED
      BY <1>2, <2>2, <2>3, <3>1
  <2> QED
    BY <2>4, <2>5
<1>6. CASE s + NSlice \notin f .. f + n - 1 /\ s \notin f .. f + n - 1
  <2>1. s # c
    BY <1>6 DEF CutSlice
  <2> QED
    BY <1>3a, <1>6, <2>1 DEF StoreSection
<1> QED
  BY <1>4, <1>5, <1>6

LEMMA PutBeadsIsCut ==
  ASSUME NEW st, Good(st), NEW f \in FirstSlices, NEW n \in 2 .. NSlice + 1,
         NEW sp \in Perms(Part), NEW st2,
         st2 = PutBeads(st, f, Sampled(GetBeads(st, f, n), n, sp), n, sp)
  PROVE  CutBy(st.b, st.p, st2.b, st2.p, CutSlice(f, n), CutPerm(st, f, n, sp))
<1> DEFINE c == CutSlice(f, n)
           t == CutPerm(st, f, n, sp)
           stored == StoreSection(st, f, Sampled(GetBeads(st, f, n), n, sp), n)
           cut == [s \in Slice |-> IF s >= c THEN Relabel(st.b[s], t) ELSE st.b[s]]
<1>1. /\ st = [b |-> st.b, p |-> st.p, inv |-> st.inv]
      /\ st.p \in Perms(Part) /\ st.inv \in Perms(Part)
      /\ \A s \in Slice : st.b[s] \in Perms(Part)
      /\ DOMAIN st.b = Slice
  BY DEF Good
<1>2. t \in Perms(Part) /\ c \in Slice
  BY CutPermGood, CutSliceGood DEF FirstSlices
<1>3. \A s \in Slice : stored[s] = IF s = c THEN Relabel(st.b[s], t) ELSE st.b[s]
  BY StoredIs
<1>4. stored = [s \in Slice |-> stored[s]]
  BY DEF StoreSection
<1>5. CASE IsIdentity(sp)
  <2>1. \A i \in Part : sp[i] = i
    BY <1>5 DEF IsIdentity, Perms
  <2>2. \A i \in Part : t[i] = i
    <3>1. CASE f + n > NSlice
      <4>1. /\ Prepend(sp, st.inv) \in Perms(Part)
            /\ \A i \in Part : Prepend(sp, st.inv)[i] = sp[st.inv[i]]
        BY <1>1, PrependPerm
      <4>2. \A i \in Part : t[i] = st.p[Prepend(sp, st.inv)[i]]
        BY <1>1, <3>1, <4>1, AppendPerm DEF CutPerm, Translated
      <4>3. \A i \in Part : st.inv[st.p[i]] = i /\ st.p[i] \in Part /\ st.inv[i] \in Part
        BY <1>1, PermsFacts DEF Good
      <4>4. \A j \in Part : \E i \in Part : st.p[i] = j
        BY <1>1, PermsFacts
      <4> HIDE DEF t
      <4>5. \A i \in Part : t[st.p[i]] = st.p[i]
        BY <2>1, <4>1, <4>2, <4>3
      <4> QED
        BY <4>4, <4>5
    <3>2. CASE ~(f + n > NSlice)
      BY <2>1, <3>2 DEF CutPerm
    <3> QED
      BY <3>1, <3>2
  <2> HIDE DEF t, c, stored
  <2>3. ASSUME NEW s \in Slice PROVE Relabel(st.b[s], t) = st.b[s]
    <3>1. \A i \in Part : Relabel(st.b[s], t)[i] = st.b[s][t[i]]
      BY <1>1, <1>2, RelabelPerm
    <3>2. Relabel(st.b[s], t) \in [Part -> Part] /\ st.b[s] \in [Part -> Part]
      BY <1>1, <1>2, RelabelPerm DEF Perms
    <3> QED
      BY <2>2, <3>1, <3>2
  <2>4. stored = cut
    BY <1>3, <1>4, <2>3
  <2>5. Prepend(st.p, t) = st.p
    <3>1. \A i \in Part : Prepend(st.p, t)[i] = st.p[t[i]]
      BY <1>1, <1>2, PrependPerm
    <3>2. Prepend(st.p, t) \in [Part -> Part] /\ st.p \in [Part -> Part]
      BY <1>1, <1>2, PrependPerm DEF Perms
    <3> QED
      BY <2>2, <3>1, <3>2
  <2>6. st2 = [st EXCEPT !.b = stored]
    BY <1>5 DEF PutBeads, stored
  <2>7. st2.b = stored /\ st2.p = st.p
    BY <1>1, <2>6
  <2> QED
    BY <2>4, <2>5, <2>7 DEF CutBy, t, c
<1>6. CASE ~IsIdentity(sp)
  <2> DEFINE after == IF f + n > NSlice THEN f + n - NSlice ELSE f + n
             kept == [s \in Slice |-> IF s >= after THEN Relabel(stored[s], t)
                                      ELSE stored[s]]
  <2>1. st2 = [b |-> kept, p |-> Prepend(st.p, t), inv |-> InverseOf(Prepend(st.p, t))]
    BY <1>6 DEF PutBeads, CutPerm
  <2>2. after = c + 1 /\ c \in Int
    BY NSliceAssumption DEF CutSlice, FirstSlices
  <2> HIDE DEF t, c, stored, after
  <2>3. ASSUME NEW s \in Slice
        PROVE  (IF s >= after THEN Relabel(stored[s], t) ELSE stored[s])
                 = IF s >= c THEN Relabel(st.b[s], t) ELSE st.b[s]
    BY <1>3, <2>2, <2>3, NSliceAssumption DEF Slice
  <2>4. kept = cut
    BY <2>3
  <2>5. st2.b = kept /\ st2.p = Prepend(st.p, t)
    BY <2>1
  <2> QED
    BY <2>4, <2>5 DEF CutBy, t, c
<1> QED
  BY <1>5, <1>6

(* One section: one place where beads are re-joined.                       *)
LEMMA SectionRejoins ==
  ASSUME NEW st, Good(st), NEW f \in FirstSlices, NEW n \in 2 .. NSlice + 1,
         NEW sp \in Perms(Part), NEW q \in Perms(Part), Conjugate(sp, q), NEW st2,
         st2 = PutBeads(st, f, Sampled(GetBeads(st, f, n), n, sp), n, sp)
  PROVE  /\ Before(CutSlice(f, n)) \in Slice
         /\ \A s \in Slice \ {Before(CutSlice(f, n))} :
              LinkFn(st2.b, st2.p)[s] = LinkFn(st.b, st.p)[s]
         /\ RejoinedBy(LinkFn(st.b, st.p)[Before(CutSlice(f, n))],
                       LinkFn(st2.b, st2.p)[Before(CutSlice(f, n))], q)
<1> DEFINE c == CutSlice(f, n)
           t == CutPerm(st, f, n, sp)
<1>1. c \in Slice /\ t \in Perms(Part) /\ Conjugate(t, sp)
  BY CutSliceGood, CutPermGood DEF FirstSlices
<1>2. st.b \in Slices /\ st.p \in Perms(Part)
  BY DEF Good, Slices
<1>3. CutBy(st.b, st.p, st2.b, st2.p, c, t)
  BY PutBeadsIsCut
<1> HIDE DEF c, t
<1>4. Conjugate(t, q)
  <2>1. PICK u \in Perms(Part) : \A i \in Part : t[u[i]] = u[sp[i]]
    BY <1>1 DEF Conjugate
  <2>2. PICK v \in Perms(Part) : \A i \in Part : sp[v[i]] = v[q[i]]
    BY DEF Conjugate
  <2> DEFINE w == Prepend(u, v)
  <2>3. w \in Perms(Part) /\ \A i \in Part : w[i] = u[v[i]]
    BY PrependPerm
  <2>4. \A i \in Part : v[i] \in Part /\ q[i] \in Part
    BY PermsFacts
  <2> HIDE DEF w
  <2>5. \A i \in Part : t[w[i]] = w[q[i]]
    BY <2>1, <2>2, <2>3, <2>4
  <2> QED
    BY <2>3, <2>5 DEF Conjugate
<1>5. Before(c) \in Slice
  BY <1>1, NSliceAssumption DEF Before, Slice
<1>6. \A s \in Slice \ {Before(c)} :
        LinkFn(st2.b, st2.p)[s] = LinkFn(st.b, st.p)[s]
  BY <1>1, <1>2, <1>3, CutLeavesOthers
<1>7. RejoinedBy(LinkFn(st.b, st.p)[Before(c)], LinkFn(st2.b, st2.p)[Before(c)], q)
  BY <1>1, <1>2, <1>3, <1>4, CutRejoins
<1> QED
  BY <1>5, <1>6, <1>7 DEF c

(* The second of two sections half a path apart is put back with its labels *)
(* translated as if it had been fetched after the first was put back.      *)
LEMMA SecondPermutationGood ==
  ASSUME NEW p1 \in Perms(Part), NEW p2 \in Perms(Part)
  PROVE  /\ SecondPermutation(p2, p1) \in Perms(Part)
         /\ \A i \in Part : p1[SecondPermutation(p2, p1)[i]] = p2[p1[i]]
         /\ Conjugate(SecondPermutation(p2, p1), p2)
<1> DEFINE front == Prepend(p2, p1)
           back == InverseOf(p1)
           s2 == SecondPermutation(p2, p1)
<1>1. front \in Perms(Part) /\ \A i \in Part : front[i] = p2[p1[i]]
  BY PrependPerm
<1>2. /\ back \in Perms(Part)
      /\ \A j \in Part : p1[back[j]] = j
      /\ \A j \in Part : back[j] \in Part /\ p2[j] \in Part
  BY InversePerm, PermsFacts
<1>3. s2 = PermAppend(front, back)
  BY DEF SecondPermutation
<1> HIDE DEF front, back, s2
<1>4. s2 \in Perms(Part) /\ \A i \in Part : s2[i] = back[front[i]]
  BY <1>1, <1>2, <1>3, AppendPerm
<1>5. \A i \in Part : front[i] \in Part
  BY <1>1, PermsFacts
<1>6. \A i \in Part : p1[s2[i]] = p2[p1[i]]
  BY <1>1, <1>2, <1>4, <1>5
<1>7. \A i \in Part : s2[back[i]] = back[p2[i]]
  BY <1>1, <1>2, <1>4
<1>8. Conjugate(s2, p2)
  BY <1>2, <1>7 DEF Conjugate
<1> QED
  BY <1>4, <1>6, <1>8 DEF s2

LEMMA FetchedAfterCut ==
  ASSUME NEW st, Good(st), NEW st1, NSlice % 2 = 0,
         NEW g \in -1 .. (NSlice \div 2) - 2, NEW n \in 2 .. (NSlice \div 2) + 1,
         NEW p1 \in Perms(Part), NEW k \in 0 .. n - 1,
         CutBy(st.b, st.p, st1.b, st1.p, CutSlice(g, n), p1)
  PROVE  GetSlice(st1, g + (NSlice \div 2) + k)
           = Relabel(GetSlice(st, g + (NSlice \div 2) + k), p1)
<1> DEFINE s == g + (NSlice \div 2) + k
<1> SUFFICES GetSlice(st1, s) = Relabel(GetSlice(st, s), p1)
  OBVIOUS
<1> USE NSliceAssumption DEF Slice
<1>1. /\ CutSlice(g, n) = g + n - 1
      /\ s >= CutSlice(g, n) /\ s \in Nat
      /\ (s >= NSlice => s - NSlice \in Slice /\ s - NSlice < CutSlice(g, n))
  BY DEF CutSlice
<1>2. /\ st1.b = [r \in Slice |-> IF r >= CutSlice(g, n) THEN Relabel(st.b[r], p1)
                                  ELSE st.b[r]]
      /\ st1.p = Prepend(st.p, p1)
  BY DEF CutBy
<1> HIDE DEF s
<1>3. CASE s < NSlice
  BY <1>1, <1>2, <1>3 DEF GetSlice
<1>4. CASE s >= NSlice
  <2> DEFINE r == s - NSlice
  <2>1. r \in Slice /\ st1.b[r] = st.b[r]
    BY <1>1, <1>2, <1>4
  <2>2. st.b[r] \in Perms(Part) /\ st.p \in Perms(Part)
    BY <2>1 DEF Good
  <2>3. /\ GetSlice(st1, s) = Relabel(st.b[r], Prepend(st.p, p1))
        /\ GetSlice(st, s) = Relabel(st.b[r], st.p)
    BY <1>1, <1>2, <1>4, <2>1 DEF GetSlice
  <2>4. Prepend(st.p, p1) \in Perms(Part) /\ \A i \in Part : Prepend(st.p, p1)[i] = st.p[p1[i]]
    BY <2>2, PrependPerm
  <2>5. /\ GetSlice(st1, s) \in Perms(Part)
        /\ \A i \in Part : GetSlice(st1, s)[i] = st.b[r][Prepend(st.p, p1)[i]]
    BY <2>2, <2>3, <2>4, RelabelPerm
  <2>6. /\ GetSlice(st, s) \in Perms(Part)
        /\ \A i \in Part : GetSlice(st, s)[i] = st.b[r][st.p[i]]
    BY <2>2, <2>3, RelabelPerm
  <2>7. /\ Relabel(GetSlice(st, s), p1) \in Perms(Part)
        /\ \A i \in Part : Relabel(GetSlice(st, s), p1)[i] = GetSlice(st, s)[p1[i]]
    BY <2>6, RelabelPerm
  <2>8. \A i \in Part : p1[i] \in Part
    BY PermsFacts
  <2> HIDE DEF r
  <2>9. \A i \in Part : GetSlice(st1, s)[i] = Relabel(GetSlice(st, s), p1)[i]
    BY <2>4, <2>5, <2>6, <2>7, <2>8
  <2> QED
    BY <2>5, <2>7, <2>9 DEF Perms
<1> QED
  BY <1>1, <1>3, <1>4

LEMMA SecondSection ==
  ASSUME NEW st, Good(st), NEW st1, NSlice % 2 = 0,
         NEW g \in -1 .. (NSlice \div 2) - 2, NEW n \in 2 .. (NSlice \div 2) + 1,
         NEW p1 \in Perms(Part), NEW p2 \in Perms(Part), NEW h, h = g + (NSlice \div 2),
         CutBy(st.b, st.p, st1.b, st1.p, CutSlice(g, n), p1)
  PROVE  [k \in 0 .. n - 1 |-> Relabel(Sampled(GetBeads(st, h, n), n, p2)[k], p1)]
           = Sampled(GetBeads(st1, h, n), n, SecondPermutation(p2, p1))
<1> DEFINE q2 == SecondPermutation(p2, p1)
           got == GetBeads(st, h, n)
           got1 == GetBeads(st1, h, n)
           lhs == [k \in 0 .. n - 1 |-> Relabel(Sampled(got, n, p2)[k], p1)]
           rhs == Sampled(got1, n, q2)
<1>0. n \in Nat /\ n - 1 \in 0 .. n - 1 /\ h \in Int
  BY NSliceAssumption
<1>1. \A k \in 0 .. n - 1 : got1[k] = Relabel(got[k], p1)
  BY FetchedAfterCut DEF GetBeads
<1>2. ASSUME NEW k \in 0 .. n - 1
      PROVE  got[k] \in Perms(Part)
  <2>1. h + k \in -NSlice .. (2 * NSlice) - 1
    BY NSliceAssumption
  <2> QED
    BY <2>1, GetSliceGood DEF GetBeads
<1>3. /\ DOMAIN got = 0 .. n - 1 /\ DOMAIN got1 = 0 .. n - 1
      /\ got = [k \in 0 .. n - 1 |-> got[k]] /\ got1 = [k \in 0 .. n - 1 |-> got1[k]]
  BY DEF GetBeads
<1>4. lhs = [k \in 0 .. n - 1 |-> lhs[k]] /\ rhs = [k \in 0 .. n - 1 |-> rhs[k]]
  BY <1>3 DEF Sampled
<1> SUFFICES lhs = rhs
  OBVIOUS
<1> SUFFICES ASSUME NEW k \in 0 .. n - 1 PROVE lhs[k] = rhs[k]
  BY <1>4
<1>5. CASE k # n - 1
  <2>1. Sampled(got, n, p2)[k] = got[k] /\ rhs[k] = got1[k]
    BY <1>3, <1>5 DEF Sampled
  <2> QED
    BY <1>1, <2>1
<1>6. CASE k = n - 1
  <2>1. /\ Sampled(got, n, p2)[k] = Relabel(got[k], p2)
        /\ rhs[k] = Relabel(got1[k], q2)
    BY <1>0, <1>3, <1>6 DEF Sampled
  <2> DEFINE x == got[k]
             l1 == Relabel(x, p2)
             r1 == Relabel(x, p1)
  <2>2. x \in Perms(Part) /\ lhs[k] = Relabel(l1, p1) /\ rhs[k] = Relabel(r1, q2)
    BY <1>1, <1>2, <2>1
  <2>3. /\ q2 \in Perms(Part)
        /\ \A i \in Part : p1[q2[i]] = p2[p1[i]]
        /\ \A i \in Part : p1[i] \in Part /\ q2[i] \in Part
    BY SecondPermutationGood, PermsFacts
  <2> HIDE DEF x, q2, lhs, rhs
  <2>4. l1 \in Perms(Part) /\ \A i \in Part : l1[i] = x[p2[i]]
    BY <2>2, RelabelPerm
  <2>5. r1 \in Perms(Part) /\ \A i \in Part : r1[i] = x[p1[i]]
    BY <2>2, RelabelPerm
  <2> HIDE DEF l1, r1
  <2>6. Relabel(l1, p1) \in Perms(Part) /\ \A i \in Part : Relabel(l1, p1)[i] = l1[p1[i]]
    BY <2>4, RelabelPerm
  <2>7. Relabel(r1, q2) \in Perms(Part) /\ \A i \in Part : Relabel(r1, q2)[i] = r1[q2[i]]
    BY <2>3, <2>5, RelabelPerm
  <2>8. \A i \in Part : Relabel(l1, p1)[i] = Relabel(r1, q2)[i]
    BY <2>3, <2>4, <2>5, <2>6, <2>7
  <2> QED
    BY <2>2, <2>6, <2>7, <2>8 DEF Perms
<1> QED
  BY <1>5, <1>6

(* The second half of putDoubleBeads, after the section at x made st1 of st. *)
SecondPut(st, st1, y, n, p1, p2) ==
  PutBeads(st1, y, [k \in 0 .. n - 1 |-> Relabel(Sampled(GetBeads(st, y, n), n, p2)[k], p1)],
           n, SecondPermutation(p2, p1))

RejoinedTwice(st, st2, p1, p2) ==
  \E c, d \in Slice :
    /\ HalfPath(c, d)
    /\ \A s \in Slice \ {c, d} : LinkFn(st2.b, st2.p)[s] = LinkFn(st.b, st.p)[s]
    /\ RejoinedBy(LinkFn(st.b, st.p)[c], LinkFn(st2.b, st2.p)[c], p1)
    /\ RejoinedBy(LinkFn(st.b, st.p)[d], LinkFn(st2.b, st2.p)[d], p2)

(* A double section: two places half a path apart, each re-joined by the   *)
(* permutation of its own section.                                         *)
LEMMA DoubleRejoins ==
  ASSUME NEW st, Good(st), NSlice % 2 = 0,
         NEW g \in -1 .. (NSlice \div 2) - 2, NEW n \in 2 .. (NSlice \div 2) + 1,
         NEW p1 \in Perms(Part), NEW p2 \in Perms(Part), NEW h, h = g + (NSlice \div 2),
         n \in SectionSizes, NEW st1, NEW st2,
         st1 = PutBeads(st, g, Sampled(GetBeads(st, g, n), n, p1), n, p1),
         st2 = SecondPut(st, st1, h, n, p1, p2)
  PROVE  RejoinedTwice(st, st2, p1, p2)
<1> DEFINE c == Before(CutSlice(g, n))
           d == Before(CutSlice(h, n))
           q2 == SecondPermutation(p2, p1)
<1>1. /\ g \in FirstSlices /\ h \in FirstSlices /\ n \in 2 .. NSlice + 1
      /\ CutPerm(st, g, n, p1) = p1
  BY NSliceAssumption DEF FirstSlices, CutPerm
<1>2. q2 \in Perms(Part) /\ Conjugate(q2, p2) /\ Conjugate(p1, p1)
  <2>1. Identity(Part) \in Perms(Part) /\ \A i \in Part : Identity(Part)[i] = i
    BY IdentityPerm DEF Identity
  <2>2. \A i \in Part : p1[i] \in Part
    BY PermsFacts
  <2>3. Conjugate(p1, p1)
    BY <2>1, <2>2 DEF Conjugate
  <2> QED
    BY <2>3, SecondPermutationGood
<1>3. CutBy(st.b, st.p, st1.b, st1.p, CutSlice(g, n), p1)
  BY <1>1, PutBeadsIsCut
<1>4. Good(st1)
  <2>1. Sampled(GetBeads(st, g, n), n, p1) \in Sections(n)
    <3>1. \A k \in 0 .. n - 1 : g + k \in -NSlice .. (2 * NSlice) - 1
      BY NSliceAssumption
    <3>2. GetBeads(st, g, n) \in Sections(n)
      BY <3>1, GetSliceGood DEF GetBeads, Sections
    <3>3. n - 1 \in 0 .. n - 1
      OBVIOUS
    <3>4. Relabel(GetBeads(st, g, n)[n - 1], p1) \in Perms(Part)
      BY <3>2, <3>3, RelabelPerm DEF Sections
    <3> QED
      BY <3>2, <3>4 DEF Sampled, Sections
  <2> QED
    BY <1>1, <2>1, PutBeadsGood DEF FirstSlices
<1>5. [k \in 0 .. n - 1 |-> Relabel(Sampled(GetBeads(st, h, n), n, p2)[k], p1)]
        = Sampled(GetBeads(st1, h, n), n, q2)
  BY <1>3, SecondSection
<1> HIDE DEF q2
<1>6. st2 = PutBeads(st1, h, Sampled(GetBeads(st1, h, n), n, q2), n, q2)
  BY <1>5 DEF q2, SecondPut
<1>7. /\ c \in Slice
      /\ \A s \in Slice \ {c} : LinkFn(st1.b, st1.p)[s] = LinkFn(st.b, st.p)[s]
      /\ RejoinedBy(LinkFn(st.b, st.p)[c], LinkFn(st1.b, st1.p)[c], p1)
  BY <1>1, <1>2, SectionRejoins
<1>8. /\ d \in Slice
      /\ \A s \in Slice \ {d} : LinkFn(st2.b, st2.p)[s] = LinkFn(st1.b, st1.p)[s]
      /\ RejoinedBy(LinkFn(st1.b, st1.p)[d], LinkFn(st2.b, st2.p)[d], p2)
  BY <1>1, <1>2, <1>4, <1>6, SectionRejoins
<1>9. HalfPath(c, d) /\ c # d
  BY NSliceAssumption DEF HalfPath, Before, CutSlice
<1> HIDE DEF c, d
<1>10. LinkFn(st2.b, st2.p)[c] = LinkFn(st1.b, st1.p)[c]
       /\ LinkFn(st1.b, st1.p)[d] = LinkFn(st.b, st.p)[d]
  BY <1>7, <1>8, <1>9
<1>11. \A s \in Slice \ {c, d} : LinkFn(st2.b, st2.p)[s] = LinkFn(st.b, st.p)[s]
  BY <1>7, <1>8
<1> QED
  BY <1>7, <1>8, <1>9, <1>10, <1>11 DEF RejoinedTwice

-----------------------------------------------------------------------------
(* A shift renumbers the links and changes none, over the end of the array *)
(* as well.                                                                *)
LEMMA RotatedLinks ==
  ASSUME NEW st, Good(st), NEW k \in 0 .. NSlice, NEW s \in Slice,
         Rotated(st, k) \in Slices
  PROVE  LinkFn(Rotated(st, k), st.p)[s] = LinkFn(st.b, st.p)[(s + k) % NSlice]
<1> DEFINE s2 == (s + k) % NSlice
           b2 == Rotated(st, k)
           t == IF s + k < NSlice THEN Identity(Part) ELSE st.p
<1> USE NSliceAssumption DEF Slice
<1>1. /\ st.b \in Slices /\ st.p \in Perms(Part)
      /\ \A i \in Part : st.p[i] \in Part
  BY PermsFacts DEF Good, Slices
<1>2. s2 = (IF s + k < NSlice THEN s + k ELSE s + k - NSlice) /\ s2 \in Slice
  OBVIOUS
<1>3. t \in Perms(Part) /\ \A i \in Part : t[i] = (IF s + k < NSlice THEN i ELSE st.p[i])
  BY <1>1, IdentityPerm DEF Identity
<1>4. \A r \in Slice : b2[r] = GetSlice(st, r + k)
  BY DEF Rotated
<1>5. ASSUME NEW r \in 0 .. (2 * NSlice) - 1, NEW i \in Part
      PROVE  GetSlice(st, r)[i] = IF r < NSlice THEN st.b[r][i]
                                  ELSE st.b[r - NSlice][st.p[i]]
  <2>1. CASE r < NSlice
    BY <2>1 DEF GetSlice
  <2>2. CASE r >= NSlice
    <3>1. r - NSlice \in Slice /\ st.b[r - NSlice] \in Perms(Part)
      BY <1>1, <2>2 DEF Slices
    <3>2. GetSlice(st, r) = Relabel(st.b[r - NSlice], st.p)
      BY <2>2 DEF GetSlice
    <3> QED
      BY <1>1, <2>2, <3>1, <3>2, RelabelPerm
  <2> QED
    BY <2>1, <2>2
<1> HIDE DEF b2, t, s2
<1>6. \A i \in Part : b2[s][i] = st.b[s2][t[i]]
  BY <1>2, <1>3, <1>4, <1>5
<1>7. \A i \in Part : After(b2, st.p, s, i) = After(st.b, st.p, s2, t[i])
  <2>1. CASE s < NSlice - 1
    <3>1. s + 1 \in Slice /\ s + 1 + k \in 0 .. (2 * NSlice) - 1
      BY <2>1
    <3>2. \A i \in Part : b2[s + 1][i] = IF s + 1 + k < NSlice THEN st.b[s + 1 + k][i]
                                          ELSE st.b[s + 1 + k - NSlice][st.p[i]]
      BY <1>4, <1>5, <3>1
    <3> QED
      BY <1>2, <1>3, <2>1, <3>2 DEF After
  <2>2. CASE s = NSlice - 1
    <3>1. 0 \in Slice /\ k \in 0 .. (2 * NSlice) - 1
      OBVIOUS
    <3>2. \A i \in Part : b2[0][st.p[i]] = IF k < NSlice THEN st.b[k][st.p[i]]
                                          ELSE st.b[k - NSlice][st.p[st.p[i]]]
      BY <1>1, <1>4, <1>5, <3>1
    <3> QED
      BY <1>2, <1>3, <2>2, <3>2 DEF After
  <2> QED
    BY <2>1, <2>2
<1> QED
  BY SMTT(30), <1>1, <1>2, <1>3, <1>6, <1>7, SameLink DEF b2, s2

-----------------------------------------------------------------------------
(* The mapping of the arrays to the ring, now and after a step.            *)
LEMMA WorldLinkIs ==
  /\ WorldLink = LinkFn(beads, permutation)
  /\ WorldLink' = LinkFn(beads', permutation')
<1>1. WorldLink = LinkFn(beads, permutation)
  BY DEF WorldLink, LinkFn, LabelOf
<1>2. WorldLink' = LinkFn(beads', permutation')
  BY DEF WorldLink, LinkFn, LabelOf
<1> QED
  BY <1>1, <1>2

LEMMA BecomesState ==
  ASSUME NEW st, Become(st)
  PROVE  WorldLink' = LinkFn(st.b, st.p)
BY WorldLinkIs DEF Become

(* One place re-joined is a step of the ring.                              *)
LEMMA OneCutIsResample ==
  ASSUME NEW c \in Slice, NEW sp \in Exchanges,
         \A s \in Slice \ {c} : WorldLink'[s] = WorldLink[s],
         RejoinedBy(WorldLink[c], WorldLink'[c], sp)
  PROVE  Ring!Resample
<1>1. \A s \in Slice : WorldLink'[s] # WorldLink[s] => s = c
  OBVIOUS
<1>2. Ring!Rejoined(WorldLink[c], WorldLink'[c])
  BY DEF Ring!Rejoined, RejoinedBy, Ring!Perms, Perms
<1> QED
  BY <1>1, <1>2 DEF Ring!Resample, Ring!Slice, Slice

LEMMA TwoCutsAreResample ==
  ASSUME NEW c \in Slice, NEW d \in Slice, HalfPath(c, d), DoubleAction,
         NEW sp1 \in Exchanges, NEW sp2 \in Exchanges,
         \A s \in Slice \ {c, d} : WorldLink'[s] = WorldLink[s],
         RejoinedBy(WorldLink[c], WorldLink'[c], sp1),
         RejoinedBy(WorldLink[d], WorldLink'[d], sp2)
  PROVE  Ring!Resample
<1>1. \A s \in Slice : WorldLink'[s] # WorldLink[s] => s = c \/ s = d
  OBVIOUS
<1>2. /\ Ring!Rejoined(WorldLink[c], WorldLink'[c])
      /\ Ring!Rejoined(WorldLink[d], WorldLink'[d])
  BY DEF Ring!Rejoined, RejoinedBy, Ring!Perms, Perms
<1>3. Ring!HalfApart(c, d) /\ Ring!HalfApart(d, c)
  BY NSliceAssumption DEF Ring!HalfApart, HalfPath, Slice
<1> QED
  BY <1>1, <1>2, <1>3 DEF Ring!Resample, Ring!Slice, Slice

LEMMA SectionStep ==
  ASSUME IInv, Section \/ MiddleSection \/ NonZeroSection
  PROVE  Ring!Resample
<1>1. PICK f \in FirstSlices, n \in SectionSizes, sp \in Exchanges :
        SectionRun(f, n, sp)
  BY SomeFirstSlice DEF Section, MiddleSection, NonZeroSection
<1> DEFINE st2 == PutBeads(State, f, Sampled(GetBeads(State, f, n), n, sp), n, sp)
           c == Before(CutSlice(f, n))
<1>2. Good(State) /\ n \in 2 .. NSlice + 1 /\ sp \in Perms(Part)
  BY SectionAssumption, ExchangesAssumption DEF IInv
<1>3. Become(st2)
  BY <1>1 DEF SectionRun
<1>4. Conjugate(sp, sp)
  <2>1. Identity(Part) \in Perms(Part) /\ \A i \in Part : Identity(Part)[i] = i
    BY IdentityPerm DEF Identity
  <2>2. \A i \in Part : sp[i] \in Part
    BY <1>2, PermsFacts
  <2> QED
    BY <2>1, <2>2 DEF Conjugate
<1>5. /\ c \in Slice
      /\ \A s \in Slice \ {c} :
           LinkFn(st2.b, st2.p)[s] = LinkFn(State.b, State.p)[s]
      /\ RejoinedBy(LinkFn(State.b, State.p)[c], LinkFn(st2.b, st2.p)[c], sp)
  BY <1>2, <1>4, SectionRejoins
<1>6. WorldLink = LinkFn(State.b, State.p) /\ WorldLink' = LinkFn(st2.b, st2.p)
  BY <1>3, WorldLinkIs, BecomesState DEF State
<1> HIDE DEF st2, c
<1> QED
  BY <1>5, <1>6, OneCutIsResample

LEMMA DoubleSectionStep ==
  ASSUME IInv, DoubleSection
  PROVE  Ring!Resample
<1>1. PICK f \in DoubleFirstSlices, n \in DoubleSizes, sp1 \in Exchanges, sp2 \in Exchanges :
        DoubleSectionRun(f, n, sp1, sp2)
  BY DEF DoubleSection
<1> DEFINE half == NSlice \div 2
           o == OtherSection(f)
           got(x) == GetBeads(State, x, n)
           stored == PutDoubleBeads(State, f, Sampled(got(f), n, sp1), sp1,
                                           o, Sampled(got(o), n, sp2), sp2, n)
<1>2. /\ Good(State) /\ DoubleAction /\ NSlice % 2 = 0
      /\ n \in SectionSizes /\ n \in 2 .. half + 1
      /\ sp1 \in Perms(Part) /\ sp2 \in Perms(Part)
  BY SectionAssumption, ExchangesAssumption, DoubleAssumption, NSliceAssumption
     DEF IInv, DoubleSection, DoubleSizes
<1>3. /\ f \in -1 .. NSlice - 2
      /\ f < half - 1 => o = f + half
      /\ f >= half - 1 => o \in -1 .. half - 2 /\ f = o + half
  BY <1>2, NSliceAssumption DEF DoubleFirstSlices, OtherSection
<1>4. Become(stored)
  BY <1>1 DEF DoubleSectionRun
<1>5. WorldLink = LinkFn(State.b, State.p) /\ WorldLink' = LinkFn(stored.b, stored.p)
  BY <1>4, WorldLinkIs, BecomesState DEF State
<1> DEFINE Put1(x, p) == PutBeads(State, x, Sampled(got(x), n, p), n, p)
           Put2(st1, y, p1, p2) == SecondPut(State, st1, y, n, p1, p2)
<1>6. ASSUME NEW x \in -1 .. half - 2, NEW y, y = x + half,
             NEW p1 \in Exchanges, NEW p2 \in Exchanges,
             stored = Put2(Put1(x, p1), y, p1, p2)
      PROVE  Ring!Resample
  <2>1. p1 \in Perms(Part) /\ p2 \in Perms(Part)
    BY ExchangesAssumption
  <2>2. RejoinedTwice(State, stored, p1, p2)
    <3> DEFINE st1 == Put1(x, p1)
    <3>1. st1 = PutBeads(State, x, Sampled(got(x), n, p1), n, p1)
      OBVIOUS
    <3>2. stored = Put2(st1, y, p1, p2)
      BY <1>6
    <3>3. /\ NSlice % 2 = 0 /\ n \in SectionSizes /\ Good(State)
          /\ x \in -1 .. (NSlice \div 2) - 2 /\ n \in 2 .. (NSlice \div 2) + 1
          /\ y = x + (NSlice \div 2)
      BY <1>2, <1>6
    <3>4. stored = SecondPut(State, st1, y, n, p1, p2)
      BY <3>2
    <3> HIDE DEF st1, stored, Put1, Put2, half
    <3> QED
      BY <2>1, <3>1, <3>3, <3>4, DoubleRejoins DEF got
  <2> HIDE DEF stored
  <2> QED
    BY <1>2, <1>5, <2>2, TwoCutsAreResample DEF RejoinedTwice
<1>7. CASE f < half - 1
  <2>1. stored = Put2(Put1(f, sp1), o, sp1, sp2)
    BY <1>7 DEF PutDoubleBeads, SecondPut
  <2>2. f \in -1 .. half - 2 /\ o = f + half
    BY <1>3, <1>7, NSliceAssumption
  <2> HIDE DEF stored, Put1, Put2, o, half
  <2> QED
    BY <1>6, <2>1, <2>2
<1>8. CASE ~(f < half - 1)
  <2>1. stored = Put2(Put1(o, sp2), f, sp2, sp1)
    BY <1>8 DEF PutDoubleBeads, SecondPut
  <2>2. o \in -1 .. half - 2 /\ f = o + half
    BY <1>3, <1>8, NSliceAssumption
  <2> HIDE DEF stored, Put1, Put2, o, half
  <2> QED
    BY <1>6, <2>1, <2>2
<1> QED
  BY <1>7, <1>8

LEMMA ShiftStep ==
  ASSUME IInv, NEW k \in 0 .. MaxShift, Shift(k)
  PROVE  \E j \in Ring!Slice : Ring!Rotate(j)
<1>1. Good(State) /\ k \in 0 .. NSlice /\ Rotated(State, k) \in Slices
  BY MaxShiftAssumption, NSliceAssumption, RotatedGood DEF IInv, Slices
<1>2. WorldLink = LinkFn(State.b, State.p) /\ WorldLink' = LinkFn(Rotated(State, k), State.p)
  BY WorldLinkIs DEF Shift, State
<1>3. \A s \in Slice : WorldLink'[s] = WorldLink[(s + k) % NSlice]
  BY <1>1, <1>2, RotatedLinks
<1> DEFINE j == k % NSlice
<1>4. j \in Slice /\ \A s \in Slice : (s + k) % NSlice = (s + j) % NSlice
  BY <1>1, NSliceAssumption DEF Slice
<1> HIDE DEF j
<1>5. Ring!Rotate(j)
  BY <1>3, <1>4 DEF Ring!Rotate, Ring!Slice, Slice
<1> QED
  BY <1>4, <1>5 DEF Ring!Slice, Slice

LEMMA ClearStep ==
  ASSUME IInv, ClearPermutation
  PROVE  Ring!Reclose
<1> USE NSliceAssumption DEF Slice
<1>1. beads \in Slices /\ Identity(Part) \in Perms(Part)
  BY IdentityPerm DEF IInv, Good, State, Slices
<1>2. WorldLink = LinkFn(beads, permutation) /\ WorldLink' = LinkFn(beads, Identity(Part))
  BY WorldLinkIs DEF ClearPermutation
<1>3. ASSUME NEW s \in Slice, s # NSlice - 1
      PROVE  WorldLink'[s] = WorldLink[s]
  BY <1>2, <1>3 DEF LinkFn
<1>4. WorldLink'[NSlice - 1] \in Perms(Part)
  BY <1>1, <1>2, LinkFnPerm
<1> QED
  BY <1>3, <1>4 DEF Ring!Reclose, Ring!Slice, Ring!Perms, Perms

LEMMA InitStep == Init => Ring!RingInit
<1> SUFFICES ASSUME Init PROVE Ring!RingInit
  OBVIOUS
<1> USE NSliceAssumption DEF Slice
<1>1. \A s \in Slice, x \in Part : LabelOf(s, x) = x
  BY DEF Init, LabelOf, Identity
<1>2. \A s \in Slice, x \in Part : WorldLink[s][x] = x
  BY <1>1 DEF Init, WorldLink, Identity
<1>3. WorldLink = [s \in Slice |-> [x \in Part |-> WorldLink[s][x]]]
  BY DEF WorldLink
<1>4. WorldLink = [s \in Slice |-> [x \in Part |-> x]]
  BY <1>2, <1>3
<1> QED
  BY <1>4 DEF Ring!RingInit, Ring!Slice, Ring!Identity

LEMMA RingStep == IInv /\ [Next]_vars => [Ring!RingNext]_WorldLink
<1> SUFFICES ASSUME IInv, [Next]_vars
             PROVE  Ring!RingNext \/ WorldLink' = WorldLink
  OBVIOUS
<1>1. CASE Section \/ MiddleSection \/ NonZeroSection
  BY <1>1, SectionStep DEF Ring!RingNext
<1>2. CASE DoubleSection
  BY <1>2, DoubleSectionStep DEF Ring!RingNext
<1>3. ASSUME NEW k \in 0 .. MaxShift, Shift(k)
      PROVE  Ring!RingNext
  BY <1>3, ShiftStep DEF Ring!RingNext
<1>4. CASE ClearPermutation
  BY <1>4, ClearStep DEF Ring!RingNext
<1>5. CASE UNCHANGED vars
  BY <1>5, WorldLinkIs DEF vars
<1> QED
  BY <1>1, <1>2, <1>3, <1>4, <1>5 DEF Next

(* Every operation of SerialPaths (base/SerialPaths.cc) does to the        *)
(* worldlines what the ring allows: a section re-joins beads at one place, *)
(* a double section at two, half a path apart, a shift moves the origin of *)
(* time, and clearPermutation closes the worldlines anew.                  *)
THEOREM Refinement == Spec => ImplementsRing
<1>1. Spec => Ring!RingInit /\ [][Ring!RingNext]_WorldLink
  BY InitStep, RingStep, Inductive, PTL DEF Spec
<1> QED
  BY <1>1 DEF ImplementsRing, Ring!RingSpec
=============================================================================
