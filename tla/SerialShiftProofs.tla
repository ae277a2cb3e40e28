------------------------- MODULE SerialShiftProofs -------------------------
(***************************************************************************)
(* SerialPaths::shift moves every slice by exactly its argument, for every *)
(* number of slices, size of the buffers and length of the shift.          *)
(***************************************************************************)
EXTENDS SerialShift, DataLemmas

-----------------------------------------------------------------------------
(* Powers of the permutation.                                              *)
Maps == [Part -> Part]
Step(f) == P!Prepend(f, permutation)

LEMMA StepType ==
  ASSUME permutation \in Maps, NEW f \in Maps
  PROVE  Step(f) \in Maps /\ \A i \in Part : Step(f)[i] = f[permutation[i]]
BY DEF Step, Maps, P!Prepend

LEMMA IdentityType == P!Identity(Part) \in Maps
BY DEF Maps, P!Identity

(* The first n + 1 powers. *)
UpTo(g, n) == /\ g \in [0 .. n -> Maps]
              /\ g[0] = P!Identity(Part)
              /\ \A i \in 1 .. n : g[i] = Step(g[i - 1])
PowersExist(n) == \E g : UpTo(g, n)

LEMMA OneMorePower ==
  ASSUME permutation \in Maps, NEW n \in Nat, PowersExist(n)
  PROVE  PowersExist(n + 1)
<1>1. PICK g : UpTo(g, n)
  BY DEF PowersExist
<1> DEFINE h == [i \in 0 .. n + 1 |-> IF i = n + 1 THEN Step(g[n]) ELSE g[i]]
<1>2. \A i \in 0 .. n : g[i] \in Maps
  BY <1>1 DEF UpTo
<1>3. h \in [0 .. n + 1 -> Maps]
  BY <1>2, StepType
<1>4. h[0] = P!Identity(Part)
  BY <1>1 DEF UpTo
<1>5. ASSUME NEW i \in 1 .. n + 1
      PROVE  h[i] = Step(h[i - 1])
  <2>1. CASE i = n + 1
    BY <2>1
  <2>2. CASE i # n + 1
    <3>1. i \in 1 .. n /\ h[i] = g[i] /\ h[i - 1] = g[i - 1]
      BY <2>2
    <3> QED
      BY <1>1, <3>1 DEF UpTo
  <2> QED
    BY <2>1, <2>2
<1> HIDE DEF h
<1>6. UpTo(h, n + 1)
  BY <1>3, <1>4, <1>5 DEF UpTo
<1> QED
  BY <1>6 DEF PowersExist

LEMMA AllPowersExist ==
  ASSUME permutation \in Maps
  PROVE  \A n \in Nat : PowersExist(n)
<1> DEFINE T == {n \in Nat : ~PowersExist(n)}
<1> SUFFICES ASSUME T # {} PROVE FALSE
  OBVIOUS
<1>1. PICK m \in T : \A n \in T : m <= n
  <2>1. T \in SUBSET Nat
    OBVIOUS
  <2> HIDE DEF T
  <2> QED
    BY <2>1, LeastOf
<1>2. m # 0
  <2>1. UpTo([i \in 0 .. 0 |-> P!Identity(Part)], 0)
    BY IdentityType DEF UpTo
  <2> QED
    BY <2>1 DEF PowersExist
<1>3. m - 1 \in Nat /\ PowersExist(m - 1)
  BY <1>1, <1>2
<1>4. PowersExist((m - 1) + 1)
  BY <1>3, OneMorePower
<1> QED
  BY <1>4

LEMMA PowersAgree ==
  ASSUME NEW n \in Nat, NEW g, UpTo(g, n), NEW m \in Nat, NEW h, UpTo(h, m), n <= m
  PROVE  \A i \in 0 .. n : g[i] = h[i]
<1> DEFINE T == {i \in 0 .. n : g[i] # h[i]}
<1> SUFFICES ASSUME T # {} PROVE FALSE
  OBVIOUS
<1>1. PICK i \in T : \A j \in T : i <= j
  <2>1. T \in SUBSET Nat
    OBVIOUS
  <2> HIDE DEF T
  <2> QED
    BY <2>1, LeastOf
<1>2. i # 0
  BY DEF UpTo
<1>3. i \in 1 .. n /\ i \in 1 .. m /\ g[i - 1] = h[i - 1]
  BY <1>1, <1>2
<1>4. g[i] = h[i]
  BY <1>3 DEF UpTo
<1> QED
  BY <1>4

IsPower(f) ==
  f = [n \in Nat |-> IF n = 0 THEN P!Identity(Part) ELSE P!Prepend(f[n - 1], permutation)]

(* The recursive definition of Power has a solution.                       *)
LEMMA PowerIsDefined ==
  ASSUME permutation \in Maps
  PROVE  IsPower(Power)
<1> DEFINE G(n) == CHOOSE g : UpTo(g, n)
           F == [n \in Nat |-> G(n)[n]]
<1>1. \A n \in Nat : UpTo(G(n), n)
  BY AllPowersExist DEF PowersExist
<1> HIDE DEF G
<1>2. F[0] = P!Identity(Part)
  BY <1>1 DEF UpTo
<1>3. ASSUME NEW n \in Nat, n # 0
      PROVE  F[n] = Step(F[n - 1])
  <2>1. n - 1 \in Nat /\ n \in 1 .. n /\ n - 1 <= n /\ n - 1 \in 0 .. n - 1
    BY <1>3
  <2>2. UpTo(G(n), n) /\ UpTo(G(n - 1), n - 1)
    BY <1>1, <2>1
  <2>3. G(n - 1)[n - 1] = G(n)[n - 1]
    BY <2>1, <2>2, PowersAgree
  <2>4. G(n)[n] = Step(G(n)[n - 1])
    BY <2>1, <2>2 DEF UpTo
  <2> QED
    BY <2>1, <2>3, <2>4
<1>4. IsPower(F)
  <2>1. F = [n \in Nat |-> F[n]]
    OBVIOUS
  <2> HIDE DEF F
  <2>2. \A n \in Nat : F[n] = IF n = 0 THEN P!Identity(Part)
                                       ELSE P!Prepend(F[n - 1], permutation)
    BY <1>2, <1>3 DEF Step
  <2> QED
    BY <2>1, <2>2 DEF IsPower
<1> HIDE DEF F
<1> QED
  BY <1>4 DEF Power, IsPower

PowerLaws == /\ Power[0] = P!Identity(Part)
             /\ \A n \in Nat : /\ Power[n] \in Maps
                               /\ Power[n + 1] = Step(Power[n])

LEMMA PowerLawsHold ==
  ASSUME permutation \in Maps
  PROVE  PowerLaws
<1>1. IsPower(Power)
  BY PowerIsDefined
<1>2. Power[0] = P!Identity(Part)
  BY <1>1 DEF IsPower
<1>3. ASSUME NEW n \in Nat
      PROVE  Power[n + 1] = Step(Power[n])
  <2>1. n + 1 \in Nat /\ n + 1 # 0 /\ (n + 1) - 1 = n
    OBVIOUS
  <2> QED
    BY <1>1, <2>1 DEF IsPower, Step
<1> DEFINE T == {n \in Nat : Power[n] \notin Maps}
<1>4. ASSUME T # {} PROVE FALSE
  <2>1. PICK m \in T : \A n \in T : m <= n
    <3>1. T \in SUBSET Nat
      OBVIOUS
    <3> HIDE DEF T
    <3> QED
      BY <1>4, <3>1, LeastOf
  <2>2. m # 0
    BY <1>2, IdentityType
  <2>3. m - 1 \in Nat /\ Power[m - 1] \in Maps
    BY <2>1, <2>2
  <2>4. Power[(m - 1) + 1] \in Maps
    BY <1>3, <2>3, StepType
  <2> QED
    BY <2>4
<1> QED
  BY <1>2, <1>3, <1>4 DEF PowerLaws

-----------------------------------------------------------------------------
(* Passing the end of the array.                                           *)
LEMMA OneRound ==
  ASSUME NEW a \in Nat, NEW n \in Nat \ {0}
  PROVE  (a + n) % n = a % n /\ (a + n) \div n = (a \div n) + 1 /\ a \div n \in Nat
<1>1. (a + n) \div n = (a \div n) + 1 /\ a \div n \in Nat
  OBVIOUS
<1>2. a = n * (a \div n) + (a % n)
  OBVIOUS
<1>3. a + n \in Nat
  OBVIOUS
<1>4. a + n = n * ((a + n) \div n) + ((a + n) % n)
  BY <1>3
<1>5. n * ((a \div n) + 1) = n * (a \div n) + n
  BY <1>1
<1>6. n * ((a + n) \div n) = n * (a \div n) + n
  BY <1>1, <1>5
<1>7. a % n \in Nat /\ (a + n) % n \in Nat /\ n * (a \div n) \in Nat
  BY <1>1
<1> QED
  BY <1>1, <1>2, <1>4, <1>6, <1>7

LEMMA NoRound ==
  ASSUME NEW a \in Nat, NEW n \in Nat \ {0}, a < n
  PROVE  a % n = a /\ a \div n = 0
OBVIOUS

LEMMA SliceBounds == NSlice \in Nat \ {0} /\ BufferSlices - 1 \in 1 .. NSlice - 1
BY BufferAssumption

(* A slice read across the end of the array is the slice further on.       *)
LEMMA TargetWraps ==
  ASSUME permutation \in Maps, NEW a \in Nat, NEW k \in Nat
  PROVE  P!Relabel(Target(a, k), permutation) = Target(a + NSlice, k)
<1> DEFINE m == (a + k) \div NSlice
<1>1. /\ (a + NSlice) + k = (a + k) + NSlice
      /\ ((a + k) + NSlice) % NSlice = (a + k) % NSlice
      /\ ((a + k) + NSlice) \div NSlice = m + 1 /\ m \in Nat
  <2>1. a + k \in Nat /\ NSlice \in Nat \ {0} /\ (a + NSlice) + k = (a + k) + NSlice
    BY SliceBounds
  <2> QED
    BY <2>1, OneRound
<1> HIDE DEF m
<1>2. Power[m] \in Maps /\ Power[m + 1] = Step(Power[m])
  BY <1>1, PowerLawsHold DEF PowerLaws
<1>3. \A i \in Part : Power[m + 1][i] = Power[m][permutation[i]]
  BY <1>2, StepType
<1>4. Target(a + NSlice, k)
        = [i \in Part |-> <<(a + k) % NSlice, Power[m + 1][i]>>]
  BY <1>1 DEF Target
<1>5. Target(a, k) = [i \in Part |-> <<(a + k) % NSlice, Power[m][i]>>]
  BY DEF Target, m
<1>6. \A i \in Part : permutation[i] \in Part
  BY DEF Maps
<1>7. P!Relabel(Target(a, k), permutation)
        = [i \in Part |-> <<(a + k) % NSlice, Power[m][permutation[i]]>>]
  BY <1>5, <1>6 DEF P!Relabel
<1> QED
  BY <1>3, <1>4, <1>7

LEMMA TargetMoves ==
  ASSUME NEW a \in Nat, NEW j \in Nat, NEW k \in Nat
  PROVE  Target(a + j, k) = Target(a, k + j)
<1>1. (a + j) + k = a + (k + j)
  OBVIOUS
<1> QED
  BY <1>1 DEF Target

LEMMA TargetStart ==
  ASSUME permutation \in Maps, NEW s \in Slice
  PROVE  Target(s, 0) = [i \in Part |-> <<s, i>>]
<1>1. s + 0 = s /\ s % NSlice = s /\ s \div NSlice = 0
  BY SliceBounds, NoRound DEF Slice
<1>2. \A i \in Part : Power[0][i] = i
  BY PowerLawsHold DEF PowerLaws, P!Identity
<1> QED
  BY <1>1, <1>2 DEF Target

-----------------------------------------------------------------------------
Done == total - ishift

ShiftTypes ==
  /\ permutation \in Maps
  /\ total \in Nat /\ ishift \in 0 .. total
  /\ pc \in {"call", "loop", "done"}

Rewriting ==
  /\ ishift > 0
  /\ islice \in 1 - nshift .. NSlice - 1 - nshift
  /\ \A s \in Slice : beads[s] = Target(s, IF s > islice + nshift THEN Done + nshift
                                                                  ELSE Done)
  /\ \A j \in 0 .. nshift : buffer1[j] = Target(islice + nshift + j, Done)

ShiftInv ==
  /\ ShiftTypes
  /\ pc = "call" => \A s \in Slice : beads[s] = Target(s, Done)
  /\ pc = "loop" => Rewriting
  /\ pc = "done" => \A s \in Slice : beads[s] = Target(s, total)

LEMMA ShiftSize ==
  ASSUME ShiftTypes, ishift > 0
  PROVE  nshift \in 1 .. BufferSlices - 1 /\ nshift <= ishift
BY SliceBounds DEF ShiftTypes, nshift

LEMMA ShiftInit == Init => ShiftInv
<1> SUFFICES ASSUME Init PROVE ShiftInv
  OBVIOUS
<1>1. ShiftTypes
  BY ShiftsAssumption DEF Init, ShiftTypes, Maps, P!Perms
<1>2. Done = 0
  BY <1>1 DEF Init, Done, ShiftTypes
<1>3. ASSUME NEW s \in Slice
      PROVE  beads[s] = Target(s, Done)
  <2>1. beads[s] = [i \in Part |-> <<s, i>>]
    BY DEF Init, Marked
  <2> QED
    BY <1>1, <1>2, <2>1, TargetStart DEF ShiftTypes
<1> QED
  BY <1>1, <1>3 DEF Init, ShiftInv

(* The first getBeads of a call reads on across the end of the array.      *)
LEMMA ShiftCall == ShiftInv /\ Call => ShiftInv'
<1> SUFFICES ASSUME ShiftInv, Call PROVE ShiftInv'
  OBVIOUS
<1>1. /\ ShiftTypes /\ \A s \in Slice : beads[s] = Target(s, Done)
      /\ UNCHANGED <<beads, permutation, ishift, total>>
  BY DEF ShiftInv, Call
<1>2. /\ nshift' = nshift /\ Done' = Done /\ Done \in Nat
      /\ \A s, k \in Int : Target(s, k)' = Target(s, k)
  BY <1>1 DEF nshift, Done, Target, Power, ShiftTypes
<1>3. CASE ishift = 0
  <2>1. Done = total /\ pc' = "done"
    BY <1>1, <1>3 DEF Call, Done, ShiftTypes
  <2>2. \A s \in Slice : beads'[s] = Target(s, total)'
    BY <1>1, <1>2, <2>1, SliceBounds DEF Slice, ShiftTypes
  <2>3. ShiftTypes'
    BY <1>1, <2>1 DEF ShiftTypes, Maps
  <2> QED
    BY <1>1, <2>1, <2>2, <2>3 DEF ShiftInv
<1>4. CASE ishift # 0
  <2>1. /\ pc' = "loop" /\ islice' = NSlice - 1 - nshift
        /\ buffer1' = P!GetBeads(P!State, NSlice - 1, BufferSlices)
    BY <1>4 DEF Call
  <2>2. nshift \in 1 .. BufferSlices - 1 /\ nshift <= ishift
    BY <1>1, <1>4, ShiftSize DEF ShiftTypes
  <2>3. ASSUME NEW j \in 0 .. nshift
        PROVE  buffer1'[j] = Target(NSlice - 1 + j, Done)
    <3>1. j \in 0 .. BufferSlices - 1
      BY <2>2, SliceBounds
    <3>2. buffer1'[j] = P!GetSlice(P!State, NSlice - 1 + j)
      BY <2>1, <3>1 DEF P!GetBeads
    <3>3. CASE j = 0
      <4>1. NSlice - 1 + j \in Slice /\ NSlice - 1 + j < NSlice /\ ~(NSlice - 1 + j < 0)
        BY <3>3, SliceBounds DEF Slice
      <4>2. buffer1'[j] = beads[NSlice - 1 + j]
        BY <3>2, <4>1 DEF P!GetSlice, P!State
      <4> QED
        BY <1>1, <4>1, <4>2
    <3>4. CASE j # 0
      <4>1. j - 1 \in Slice /\ ~(NSlice - 1 + j < NSlice) /\ ~(NSlice - 1 + j < 0)
            /\ (NSlice - 1 + j) - NSlice = j - 1 /\ (j - 1) + NSlice = NSlice - 1 + j
            /\ j - 1 \in Nat
        BY <2>2, <3>4, SliceBounds DEF Slice
      <4>2. buffer1'[j] = P!Relabel(beads[j - 1], permutation)
        BY <3>2, <4>1 DEF P!GetSlice, P!State
      <4>3. beads[j - 1] = Target(j - 1, Done)
        BY <1>1, <4>1
      <4> QED
        BY <1>1, <1>2, <4>1, <4>2, <4>3, TargetWraps DEF ShiftTypes
    <3> QED
      BY <3>3, <3>4
  <2>4. Rewriting'
    <3>1. ishift' > 0 /\ islice' \in 1 - nshift .. NSlice - 1 - nshift
      BY <1>1, <1>4, <2>1, <2>2, SliceBounds DEF ShiftTypes
    <3>2. islice' + nshift = NSlice - 1
      BY <2>1, <2>2, SliceBounds
    <3>3. \A s \in Slice : ~(s > NSlice - 1) /\ s \in Int
      BY SliceBounds DEF Slice
    <3>4. \A s \in Slice : beads'[s] = Target(s, Done)'
      BY <1>1, <1>2, <3>3
    <3>5. \A j \in 0 .. nshift : buffer1'[j] = Target(NSlice - 1 + j, Done)'
      BY <1>2, <2>2, <2>3, SliceBounds
    <3> QED
      BY <1>2, <3>1, <3>2, <3>3, <3>4, <3>5 DEF Rewriting
  <2>5. ShiftTypes'
    BY <1>1, <2>1 DEF ShiftTypes, Maps
  <2> QED
    BY <2>1, <2>4, <2>5 DEF ShiftInv
<1> QED
  BY <1>3, <1>4

(* Slices put back: labels from the buffer, no wrap.                       *)
LEMMA PutIs ==
  ASSUME NEW f \in Int, NEW first \in Int, NEW n \in Int, NEW s \in Slice
  PROVE  PutSlices(f, first, n)[s] = IF s \in f + first .. f + first + n - 1
                                     THEN buffer1[s - f] ELSE beads[s]
BY DEF PutSlices

(* One round of the loop of shift: the section of buffer1 enters one slice *)
(* further on, after the next one has been read.                           *)
LEMMA ShiftLoop == ShiftInv /\ Loop => ShiftInv'
<1> SUFFICES ASSUME ShiftInv, Loop PROVE ShiftInv'
  OBVIOUS
<1>1. /\ ShiftTypes /\ Rewriting /\ pc' = "loop" /\ islice > 0
      /\ islice' = islice - nshift
      /\ UNCHANGED <<permutation, ishift, total>>
  BY DEF ShiftInv, Loop
<1>2. /\ nshift' = nshift /\ Done' = Done /\ Done \in Nat
      /\ \A s, k \in Int : Target(s, k)' = Target(s, k)
  BY <1>1 DEF nshift, Done, Target, Power, ShiftTypes
<1>3. nshift \in 1 .. BufferSlices - 1 /\ nshift <= ishift
  BY <1>1, ShiftSize DEF Rewriting
<1>4. NSlice \in Nat /\ nshift \in Nat \ {0} /\ islice \in 1 .. NSlice - 1 - nshift
      /\ \A s \in Slice : s \in 0 .. NSlice - 1
  BY <1>1, <1>3, SliceBounds DEF Rewriting, Slice
<1>5. ASSUME NEW j \in 0 .. nshift
      PROVE  buffer1'[j] = Target(islice + j, Done)
  <2>1. j \in 0 .. BufferSlices - 1
    BY <1>3, SliceBounds
  <2>2. buffer1'[j] = P!GetSlice(P!State, islice + j)
    BY <2>1 DEF Loop, P!GetBeads
  <2>3. islice + j \in Slice /\ islice + j < NSlice /\ ~(islice + j < 0)
        /\ ~(islice + j > islice + nshift)
    BY <1>4 DEF Slice
  <2>4. buffer1'[j] = beads[islice + j]
    BY <2>2, <2>3 DEF P!GetSlice, P!State
  <2> QED
    BY <1>1, <2>3, <2>4 DEF Rewriting
<1>6. ASSUME NEW s \in Slice
      PROVE  beads'[s] = Target(s, IF s > islice THEN Done + nshift ELSE Done)
  <2>1. beads'[s] = IF s \in islice + 1 .. islice + 1 + nshift - 1
                    THEN buffer1[s - islice] ELSE beads[s]
    BY DEF Loop, PutSlices
  <2>2. CASE s > islice + nshift
    <3>1. beads'[s] = beads[s] /\ s > islice
      BY <1>4, <2>1, <2>2
    <3> QED
      BY <1>1, <2>2, <3>1 DEF Rewriting
  <2>3. CASE s > islice /\ ~(s > islice + nshift)
    <3>1. s - islice \in 0 .. nshift /\ islice + nshift + (s - islice) = s + nshift
      BY <1>4, <2>3
    <3>2. beads'[s] = buffer1[s - islice]
      BY <1>4, <2>1, <2>3
    <3>3. beads'[s] = Target(s + nshift, Done)
      BY <1>1, <3>1, <3>2 DEF Rewriting
    <3>4. Target(s + nshift, Done) = Target(s, Done + nshift)
      BY <1>2, <1>4, TargetMoves
    <3> QED
      BY <2>3, <3>3, <3>4
  <2>4. CASE ~(s > islice)
    <3>1. beads'[s] = beads[s] /\ ~(s > islice + nshift)
      BY <1>4, <2>1, <2>4
    <3> QED
      BY <1>1, <2>4, <3>1 DEF Rewriting
  <2> QED
    BY <2>2, <2>3, <2>4
<1>7. Rewriting'
  <2>1. PICK at \in Int : at = islice
    BY <1>4
  <2>2. ishift' > 0 /\ islice' \in 1 - nshift .. NSlice - 1 - nshift
        /\ islice' + nshift = at
    BY <1>1, <1>4, <2>1 DEF Rewriting
  <2>3. \A s \in Slice : beads'[s] = Target(s, IF s > at THEN Done + nshift ELSE Done)
    BY <1>6, <2>1
  <2>4. \A s \in Slice : beads'[s] = Target(s, IF s > at THEN Done + nshift ELSE Done)'
    BY <1>2, <1>4, <2>3
  <2>5. \A j \in 0 .. nshift : buffer1'[j] = Target(at + j, Done)
    BY <1>5, <2>1
  <2>6. \A j \in 0 .. nshift : buffer1'[j] = Target(at + j, Done)'
    BY <1>2, <1>4, <2>1, <2>5
  <2> QED
    BY <1>2, <2>2, <2>4, <2>6 DEF Rewriting
<1>8. ShiftTypes'
  BY <1>1 DEF ShiftTypes, Maps
<1> QED
  BY <1>1, <1>7, <1>8 DEF ShiftInv

(* The last putBeads of a call, and the recursion for what remains.        *)
LEMMA ShiftFinish == ShiftInv /\ Finish => ShiftInv'
<1> SUFFICES ASSUME ShiftInv, Finish PROVE ShiftInv'
  OBVIOUS
<1>1. /\ ShiftTypes /\ Rewriting /\ islice <= 0
      /\ ishift' = ishift - nshift
      /\ pc' = IF ishift' > 0 THEN "call" ELSE "done"
      /\ UNCHANGED <<permutation, total>>
  BY DEF ShiftInv, Finish
<1>2. nshift \in 1 .. BufferSlices - 1 /\ nshift <= ishift
  BY <1>1, ShiftSize DEF Rewriting
<1>3. /\ Done' = Done + nshift /\ Done \in Nat /\ nshift \in Nat \ {0}
      /\ \A s, k \in Int : Target(s, k)' = Target(s, k)
  BY <1>1, <1>2, SliceBounds DEF Done, Target, Power, ShiftTypes
<1>4. NSlice \in Nat /\ islice \in 1 - nshift .. NSlice - 1 - nshift
      /\ \A s \in Slice : s \in 0 .. NSlice - 1
  BY <1>1, <1>3, SliceBounds DEF Rewriting, Slice
<1>5. ASSUME NEW s \in Slice
      PROVE  beads'[s] = Target(s, Done + nshift)
  <2>1. beads'[s] = IF s \in islice + -islice .. islice + -islice + (nshift + islice + 1) - 1
                    THEN buffer1[s - islice] ELSE beads[s]
    BY <1>1, <1>3, <1>4, PutIs DEF Finish
  <2>2. CASE s > islice + nshift
    <3>1. beads'[s] = beads[s]
      BY <1>3, <1>4, <2>1, <2>2
    <3> QED
      BY <1>1, <2>2, <3>1 DEF Rewriting
  <2>3. CASE ~(s > islice + nshift)
    <3>1. s - islice \in 0 .. nshift /\ islice + nshift + (s - islice) = s + nshift
      BY <1>1, <1>3, <1>4, <2>3
    <3>2. beads'[s] = buffer1[s - islice]
      BY <1>1, <1>3, <1>4, <2>1, <2>3
    <3>3. beads'[s] = Target(s + nshift, Done)
      BY <1>1, <3>1, <3>2 DEF Rewriting
    <3>4. Target(s + nshift, Done) = Target(s, Done + nshift)
      BY <1>3, <1>4, TargetMoves
    <3> QED
      BY <3>3, <3>4
  <2> QED
    BY <2>2, <2>3
<1>6. \A s \in Slice : beads'[s] = Target(s, Done)'
  BY <1>3, <1>4, <1>5
<1>7. ShiftTypes'
  BY <1>1, <1>2, SliceBounds DEF ShiftTypes, Maps
<1>8. pc' = "done" => Done' = total'
  BY <1>1, <1>7 DEF Done, ShiftTypes
<1> QED
  BY <1>1, <1>6, <1>7, <1>8 DEF ShiftInv

LEMMA ShiftInductive == Spec => []ShiftInv
<1>1. ShiftInv /\ [Next]_shiftVars => ShiftInv'
  <2> SUFFICES ASSUME ShiftInv, [Next]_shiftVars PROVE ShiftInv'
    OBVIOUS
  <2>1. CASE UNCHANGED shiftVars
    <3>1. /\ UNCHANGED <<beads, permutation, buffer1, islice, ishift, total, pc>>
          /\ nshift' = nshift /\ Done' = Done
          /\ \A s, k : Target(s, k)' = Target(s, k)
      BY <2>1 DEF shiftVars, nshift, Done, Target, Power
    <3>2. ShiftTypes'
      BY <3>1 DEF ShiftInv, ShiftTypes, Maps
    <3>3. Rewriting' <=> Rewriting
      BY <3>1 DEF Rewriting
    <3> QED
      BY <3>1, <3>2, <3>3 DEF ShiftInv
  <2> QED
    BY <2>1, ShiftCall, ShiftLoop, ShiftFinish DEF Next
<1> QED
  BY <1>1, ShiftInit, PTL DEF Spec

(* A finished shift has moved every slice exactly the requested distance:  *)
(* the slice that stands in place s came from s + ishift, with its labels  *)
(* carried through every passage over the end.                             *)
THEOREM ShiftCorrect == Spec => []ShiftIsRotation
<1>1. ShiftInv => ShiftIsRotation
  BY DEF ShiftInv, ShiftIsRotation
<1> QED
  BY <1>1, ShiftInductive, PTL

(* The loop of shift never overwrites a slice it has still to read.        *)
THEOREM RewriteCorrect == Spec => []RewriteIsOrdered
<1>1. ShiftInv => RewriteIsOrdered
  <2> SUFFICES ASSUME ShiftInv, pc = "loop" PROVE RewriteIsOrdered
    BY DEF RewriteIsOrdered
  <2>1. ShiftTypes /\ Rewriting
    BY DEF ShiftInv
  <2>2. nshift \in 1 .. BufferSlices - 1
    BY <2>1, ShiftSize DEF Rewriting
  <2>3. \A j \in 0 .. BufferSlices - 1 : j <= nshift => j \in 0 .. nshift
    BY <2>2, SliceBounds
  <2> QED
    BY <2>1, <2>3 DEF Rewriting, RewriteIsOrdered, Done
<1> QED
  BY <1>1, ShiftInductive, PTL
=============================================================================
