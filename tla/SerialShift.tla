---------------------------- MODULE SerialShift ----------------------------
(***************************************************************************)
(* SerialPaths::shift in the pieces the code does it in: the array is      *)
(* rewritten in place from its end to its start, through two buffers of    *)
(* BufferSlices slices, and a shift longer than the buffers is repeated    *)
(* with what remains.  SerialPaths models the same call as one step        *)
(* (Rotated); here every slice is marked with where it came from.          *)
(***************************************************************************)
EXTENDS Integers

CONSTANTS Part, NSlice,
          BufferSlices,   \* slices of buffer1 and buffer2: min(nslice, 1000)
          Shifts          \* the arguments of shift

(* With one slice per buffer nshift is 0 and the recursion has no end.     *)
ASSUME BufferAssumption == /\ NSlice \in Nat
                           /\ BufferSlices \in 2 .. NSlice
ASSUME ShiftsAssumption == Shifts \subseteq Nat

VARIABLES beads, permutation, inversePermutation,
          buffer1,
          islice,     \* the loop variable of shift
          ishift,     \* the argument of the current, possibly nested, call
          total,      \* the argument of the outermost call
          pc

shiftVars == <<beads, permutation, inversePermutation, buffer1, islice,
               ishift, total, pc>>

Slice == 0 .. NSlice - 1

P == INSTANCE SerialPaths
       WITH SectionSizes <- {}, Exchanges <- {}, MaxShift <- 0, DoubleAction <- FALSE

nshift == IF ishift > BufferSlices - 1 THEN BufferSlices - 1 ELSE ishift

PutSlicesTooEarly(f, first, n) ==
  [s \in Slice |-> IF s \in f + first - 1 .. f + first + n - 2
                   THEN buffer1[s - f] ELSE beads[s]]

(* putBeads(f, buffer1, identity, first, n) without wrapping round.        *)
PutSlices(f, first, n) ==
  [s \in Slice |-> IF s \in f + first .. f + first + n - 1
                   THEN buffer1[s - f] ELSE beads[s]]

Marked == [s \in Slice |-> [i \in Part |-> <<s, i>>]]

Init == /\ beads = Marked
        /\ permutation \in P!Perms(Part)
        /\ inversePermutation = P!InverseOf(permutation)
        /\ total \in Shifts /\ ishift = total
        /\ buffer1 = [k \in 0 .. BufferSlices - 1 |-> Marked[0]]
        /\ islice = 0
        /\ pc = "call"

(* Without the early return for a shift of 0.                              *)
CallZero == /\ pc = "call"
            /\ buffer1' = P!GetBeads(P!State, NSlice - 1, BufferSlices)
            /\ islice' = NSlice - 1 - nshift
            /\ pc' = "loop"
            /\ UNCHANGED <<beads, permutation, inversePermutation, ishift, total>>

Call == /\ pc = "call"
        /\ IF ishift = 0
           THEN pc' = "done" /\ UNCHANGED <<buffer1, islice>>
           ELSE /\ buffer1' = P!GetBeads(P!State, NSlice - 1, BufferSlices)
                /\ islice' = NSlice - 1 - nshift
                /\ pc' = "loop"
        /\ UNCHANGED <<beads, permutation, inversePermutation, ishift, total>>

Loop == /\ pc = "loop" /\ islice > 0
        /\ buffer1' = P!GetBeads(P!State, islice, BufferSlices)
        /\ beads' = PutSlices(islice, 1, nshift)
        /\ islice' = islice - nshift
        /\ UNCHANGED <<permutation, inversePermutation, ishift, total, pc>>

(* Without the nested call for what remains.                               *)
FinishOnce == /\ pc = "loop" /\ islice <= 0
              /\ beads' = PutSlices(islice, -islice, nshift + islice + 1)
              /\ pc' = "done"
              /\ UNCHANGED <<permutation, inversePermutation, buffer1, islice,
                             ishift, total>>

Finish == /\ pc = "loop" /\ islice <= 0
          /\ beads' = PutSlices(islice, -islice, nshift + islice + 1)
          /\ ishift' = ishift - nshift
          /\ pc' = IF ishift' > 0 THEN "call" ELSE "done"
          /\ UNCHANGED <<permutation, inversePermutation, buffer1, islice, total>>

Next == Call \/ Loop \/ Finish \/ (pc = "done" /\ UNCHANGED shiftVars)

Spec == Init /\ [][Next]_shiftVars /\ WF_shiftVars(Next)

-----------------------------------------------------------------------------
(* permutation applied n times *)
Power[n \in Nat] ==
  IF n = 0 THEN P!Identity(Part) ELSE P!Prepend(Power[n - 1], permutation)

(* What stands in slice s after k slices of shifting: the slice k further  *)
(* on, its labels followed through each passage over the end of the array. *)
Target(s, k) ==
  [i \in Part |-> <<(s + k) % NSlice, Power[(s + k) \div NSlice][i]>>]

(* A finished shift has moved every slice exactly the requested distance,  *)
(* for shifts shorter and longer than the buffers and than the path.       *)
ShiftIsRotation == pc = "done" => \A s \in Slice : beads[s] = Target(s, total)

(* In the middle of the in-place rewrite nothing that is still needed has  *)
(* been overwritten: beyond islice+nshift the array is new, up to there it *)
(* is old, and buffer1 holds the old slices the next put takes.            *)
RewriteIsOrdered ==
  pc = "loop" =>
    LET k == total - ishift   \* shifted by the calls before this one
        at == islice + nshift
    IN /\ \A s \in Slice : beads[s] = Target(s, IF s > at THEN k + nshift ELSE k)
       /\ \A j \in 0 .. BufferSlices - 1 :
            j <= nshift => buffer1[j] = Target(at + j, k)

(* Every shift ends. *)
ShiftTerminates == <>(pc = "done")
=============================================================================
