----------------------------- MODULE PathRing -----------------------------
(***************************************************************************)
(* What every Paths object promises, whatever array layout it uses: the    *)
(* beads of NSlice imaginary-time slices form closed worldlines.  A bead   *)
(* of slice s is joined to exactly one bead of slice s+1, and the last     *)
(* slice is joined to the first.  Nothing else about labels, permutation   *)
(* arrays or buffers is visible at this level.                             *)
(*                                                                         *)
(* link[s][b] is the bead of slice (s+1) % NSlice that bead b of slice s   *)
(* is joined to.                                                           *)
(***************************************************************************)
EXTENDS Permutations

CONSTANTS Part,       \* the beads of one slice
          NSlice,     \* number of imaginary-time slices
          Exchanges,  \* how one section may re-join the beads at its end
          Double      \* TRUE: sections are put back in pairs half a path apart

VARIABLE link

Slice == 0 .. NSlice - 1

RingTypeOK == link \in [Slice -> Perms(Part)]

RingInit == link = [s \in Slice |-> Identity(Part)]

(* The exchange q is made by labels, which may name the beads in any order.*)
Rejoined(old, new) ==
  \E q \in Exchanges, r \in Perms(Part) : \A i \in Part : new[r[i]] = old[r[q[i]]]

(* Accepted moves re-join beads across the pair of slices at the end of a  *)
(* section, and half a path away if double, and leave every other join     *)
(* alone.                                                                  *)
HalfApart(s, t) == 2 * (s - t) \in {NSlice, -NSlice}

Resample ==
  LET old  == link
      new  == link'
      cuts == {s \in Slice : new[s] # old[s]}
  IN /\ \A s, t \in cuts : s = t \/ (Double /\ HalfApart(s, t))
     /\ \A s \in cuts : Rejoined(old[s], new[s])

(* The origin of imaginary time moves by k slices; no worldline changes.   *)
Rotate(k) ==
  LET old == link
      new == link'
  IN \A s \in Slice : new[s] = old[(s + k) % NSlice]

(* The worldlines are closed anew across the last pair of slices.          *)
Reclose ==
  LET old == link
      new == link'
  IN /\ \A s \in Slice \ {NSlice - 1} : new[s] = old[s]
     /\ new[NSlice - 1] \in Perms(Part)

RingNext == Resample \/ (\E k \in Slice : Rotate(k)) \/ Reclose

RingSpec == RingInit /\ [][RingNext]_link
=============================================================================
