------------------------- MODULE ParallelPathFiles -------------------------
(***************************************************************************)
(* WritePaths and PathReader (algorithm/) on the ranks of ParallelPaths.   *)
(* Rank 0 alone writes: chunk by chunk it writes its first slices, and all *)
(* ranks shift the paths by as much.  Another run, at a temperature that   *)
(* is bfactor times lower, reads the file: rank 0 alone reads, and every   *)
(* rank keeps the slices it owns of its bfactor times longer paths.        *)
(*                                                                         *)
(* In a program, WritePaths is "global", "header" and as many "chunk" as   *)
(* its loop has turns; "read" is PathReader, the beginning of the new run. *)
(* The turns in which WritePaths only counts are left out, and so is the   *)
(* reading of files without a permutation, which WritePaths does not make. *)
(***************************************************************************)
EXTENDS ParallelPaths

CONSTANT BFactor                                     \* bfactor

ASSUME BFactorAssumption == BFactor \in Nat \ {0}
ASSUME ChunkAssumption == NSlice \div NWorker > 3   \* chunks are not empty

VARIABLES file,            \* [permutation, slice], written by rank 0
          nslicePerChunk,  \* on each rank, and
          ichunk,          \* the turn of the loop
          written,         \* the paths when rank 0 began to write
          rbeads, rbuffer, rpermutation   \* the paths of the new run

fileVars == <<file, nslicePerChunk, ichunk, written>>
oldPathVars == <<beads, buffer, permutation>>
newPathVars == <<rbeads, rbuffer, rpermutation>>
allVars == <<vars, fileVars, newPathVars>>

New == INSTANCE ParallelPaths
         WITH NSlice <- BFactor * NSlice, beads <- rbeads, buffer <- rbuffer,
              permutation <- rpermutation

-----------------------------------------------------------------------------
(* The worldlines and the coordinates on each slice.                       *)
Paths ==
  [link  |-> WorldLink,
   coord |-> [g \in 0 .. NSlice - 1 |->
                LET w == Owner(g)
                IN {View(w)[g - ifirst(w)][i] : i \in Part}]]

NewCoord ==
  [g \in 0 .. BFactor * NSlice - 1 |->
     LET w == New!Owner(g) IN {rbeads[w][g - New!ifirst(w)][i] : i \in Part}]

(* The permutations of all ranks together, not the one of rank 0.          *)
FilePermutation == globalPermutation[0]

(* imax - ifirst - 2 as rank 0 computes it and all ranks use it: the last  *)
(* rank may have more slices.                                              *)
ChunkOfRoot == nprocSlice(0) - 3

HeaderRoot ==
  /\ Begins(0, "header")
  /\ file' = [permutation |-> FilePermutation, slice |-> <<>>]
  /\ nslicePerChunk' = [nslicePerChunk EXCEPT ![0] = ChunkOfRoot]
  /\ ichunk' = [ichunk EXCEPT ![0] = 0]
  /\ written' = Paths
  /\ bcast' = Broadcast(ChunkOfRoot)
  /\ Advance(0)
  /\ UNCHANGED <<pathVars, nextSrc, chan, newPathVars>>

HeaderOther(w) ==
  /\ w # 0 /\ Begins(w, "header") /\ bcast[w] # <<>>
  /\ nslicePerChunk' = [nslicePerChunk EXCEPT ![w] = Head(bcast[w])]
  /\ ichunk' = [ichunk EXCEPT ![w] = 0]
  /\ bcast' = Listened(w)
  /\ Advance(w)
  /\ UNCHANGED <<pathVars, nextSrc, chan, file, written, newPathVars>>

FullChunk(w) == nslicePerChunk[w]
LastSlice(w) ==
  LET left == NSlice - ichunk[w] * nslicePerChunk[w]
  IN IF left > nslicePerChunk[w] THEN nslicePerChunk[w] ELSE left

(* One turn of the loop: rank 0 writes, all ranks begin to shift.          *)
Chunk(w) ==
  /\ Begins(w, "chunk")
  /\ file' = IF w # 0 THEN file
             ELSE [file EXCEPT !.slice =
                     @ \o [k \in 1 .. LastSlice(0) |-> beads[0][k]]]
  /\ ichunk' = [ichunk EXCEPT ![w] = @ + 1]
  /\ BeginShift(w, LastSlice(w))
  /\ UNCHANGED <<nslicePerChunk, written, bcast, newPathVars>>

-----------------------------------------------------------------------------
(* Where the k-th copy of the last slice of the file goes in the new paths,*)
(* the last copy first.                                                    *)
Ascending(k) == NSlice - 1 + (k - 1) * NSlice
Descending(k) == NSlice - 1 + (BFactor - k) * NSlice

(* putBeads of all slices but the last, each at its bfactor places; no     *)
(* labels change.  Slice g of the file is its entry g + 1.                 *)
Unpermuted(w, content) ==
  [j \in New!Stored(w) |->
     LET g == (j + New!ifirst(w)) % NSlice
     IN IF j \in 1 .. New!nprocSlice(w) /\ g # NSlice - 1 THEN content.slice[g + 1]
                                                         ELSE rbeads[w][j]]

(* What clearPermutation has left.                                         *)
Cleared == Identity(Part)

(* putBeads of the last slice with the permutation of the file, at those   *)
(* of its places that rank w owns; clearPermutation has gone before.       *)
Permuted(w, content) ==
  LET last == [k \in {0} |-> content.slice[NSlice]]
      put[k \in 0 .. BFactor] ==
        IF k = 0 THEN [b |-> Unpermuted(w, content), p |-> Cleared]
        ELSE IF New!Owner(Descending(k)) # w THEN put[k - 1]
        ELSE [b |-> New!PutBeads(put[k - 1].b, w, Descending(k) - New!ifirst(w),
                                 last, 1, content.permutation),
              p |-> Prepend(put[k - 1].p, content.permutation)]
  IN put[BFactor]

(* setBuffers at the end of PathReader::run begins ...                     *)
NoRefresh(w, slices) == Advance(w) /\ UNCHANGED chan
Refresh(w, slices) ==
  /\ Post(w, Prev(w), 1, "first", slices[1])
  /\ Block(w, "recvFirst")

(* ... when every slice has arrived in a Bcast of its own and was put in   *)
(* its place; no rank does anything else between these broadcasts.         *)
Keep(w, content) ==
  LET kept == Permuted(w, content)
  IN /\ rbeads' = [rbeads EXCEPT ![w] = kept.b]
     /\ rpermutation' = [rpermutation EXCEPT ![w] = kept.p]
     /\ Refresh(w, kept.b)
     /\ UNCHANGED <<rbuffer, pathVars, nextSrc, fileVars>>

(* The new run starts when the old one has ended.                          *)
Restarted == \A v \in Worker : Op(v) \in {"read", "done"}

ReadRoot == /\ Begins(0, "read") /\ Restarted
            /\ bcast' = Broadcast(file)
            /\ Keep(0, file)

ReadOther(w) == /\ w # 0 /\ Begins(w, "read") /\ bcast[w] # <<>>
                /\ bcast' = Listened(w)
                /\ Keep(w, Head(bcast[w]))

(* The rest of setBuffers, on the new paths.                               *)
SetBuffers(w) == /\ Op(w) = "read"
                 /\ New!RecvFirst(w) \/ New!SendLast(w) \/ New!RecvLast(w)
                 /\ UNCHANGED <<oldPathVars, fileVars>>

OldStep(w) == /\ Op(w) # "read"
              /\ Step(w)
              /\ UNCHANGED <<fileVars, newPathVars>>

-----------------------------------------------------------------------------
FilesInit ==
  /\ Init
  /\ file = [permutation |-> Identity(Part), slice |-> <<>>]
  /\ nslicePerChunk = [w \in Worker |-> 0]
  /\ ichunk = [w \in Worker |-> 0]
  /\ written = Paths
  /\ rbeads = [w \in Worker |-> [j \in New!Stored(w) |-> NoSlice]]
  /\ rbuffer = rbeads
  /\ rpermutation = [w \in Worker |-> Identity(Part)]

FilesStep(w) == \/ w = 0 /\ HeaderRoot
                \/ HeaderOther(w)
                \/ Chunk(w)
                \/ w = 0 /\ ReadRoot
                \/ ReadOther(w)
                \/ SetBuffers(w)
                \/ OldStep(w)

FilesNext == (\E w \in Worker : FilesStep(w)) \/ (Done /\ UNCHANGED allVars)

FilesSpec == FilesInit /\ [][FilesNext]_allVars

-----------------------------------------------------------------------------
(* All ranks have come to the same place of the program, after op.         *)
AllAfter(op) ==
  /\ \A v, w \in Worker : pc[w] = "ready" /\ ip[v] = ip[w]
  /\ ip[0] > 1 /\ program[ip[0] - 1] = op

(* While rank 0 writes, the shifts of all ranks add up to one turn: when   *)
(* the loop is over the paths are as they were, each slice where it was.   *)
WritingChangesNothing ==
  AllAfter("chunk") /\ ichunk[0] * nslicePerChunk[0] >= NSlice => Paths = written

(* What the ranks hold after reading are the paths that were written,      *)
(* bfactor times one after the other: all coordinates, joined as they      *)
(* were, the end of each copy to the start of the next, although the file  *)
(* has one permutation where the ranks had one each.                       *)
ReadIsWritten ==
  AllAfter("read") =>
    /\ New!WorldLink = [g \in New!Ring!Slice |-> written.link[g % NSlice]]
    /\ NewCoord = [g \in New!Ring!Slice |-> written.coord[g % NSlice]]

(* After the read, as after a section, a rank that goes on sums the links  *)
(* of the current paths across its boundary.                               *)
SumSeesRead ==
  (\A v \in Worker : Op(v) = "done" \/ (Op(v) = "read" /\ pc[v] # "ready"))
    => New!SumSeesWorldlines
=============================================================================
