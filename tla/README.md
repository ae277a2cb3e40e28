# A TLA+ model of pi-qmc

pi-qmc samples imaginary-time paths of quantum particles. The program is an
XML-described tree of algorithms that act on one `Paths` object: samplers move
pieces of the worldlines, estimators read them, shifts move the origin of time,
and MPI ranks share one path. The numerical work (actions, propagators, grids)
is open in this model; the bookkeeping around it is what is specified here:
which bead stands under which label on which slice of which rank, how an
accepted permutation is propagated, what is cached, and in which order ranks
exchange it all. A mistake there does not crash. It joins the wrong worldlines
and biases every average.

All source paths below are relative to `src/src/`.

## 1. The system

### Components

| component | state | operations | where it gets hard |
|---|---|---|---|
| `util/Permutation`, `base/Beads.h` | an array of labels | `prepend`, `append`, `setToInverse`, copies through a permutation | products do not commute; in-place updates |
| `base/SerialPaths` | beads, permutation, cached inverse, a buffer | `getBeads`, `putBeads`, `putDoubleBeads`, `shift`, `clearPermutation`, `sumOverLinks` | sections that wrap, two sections put back one after the other, in-place shift |
| `base/ParallelPaths` | per rank: beads with two buffer slices, second array, permutation | `putBeads`, `setBuffers`, `shift`, `getGlobalPermutation` | ranks at different speeds, one message tag, collective calls |
| `base/DoubleParallelPaths` | the same for two halves of the path | the same | last rank joined to the other half of rank 0 |
| `advancer/SectionChooser`, `DoubleSectionChooser`, `MiddleSectionChooser`, `NonZeroSectionChooser` | section beads, section permutation | `run` | choose, sample, put back, refresh |
| `advancer/MultiLevelSampler` | moving beads, moving index, acceptance counts | `run`, `tryMove` | moves abandoned on any level, delayed rejection |
| `advancer/DoubleMLSampler` | the same twice | `run`, `tryMove` | two sections, one decision |
| `advancer/WalkingChooser` | table of propagators and its row sums, chosen labels, `prob` | `init`, `choosePermutation`, `iSearch` | detailed balance; stale table |
| other particle and permutation choosers | chosen labels | `choosePermutation`, `chooseParticles` | distinct labels |
| `fixednode/FixedNodeAction`, `FreeParticleNodes` | determinants, distances, inverse matrices per slice, old and new | `initialize`, `getActionDifference`, `acceptLastMove` | values of another configuration |
| `algorithm/WorkerShifter` | none | `run` | broadcast, then shift |
| `advancer/DisplaceMoveSampler` and its double | displacements, gathered permutations | `run`, `tryMove` | one decision by all ranks |
| `advancer/ModelSampler`, `SpinModelSampler` | discrete model state | `run`, `tryMove` | action choices that follow the state |
| `algorithm/Loop`, `Measure`, `Collect` | counters, clock | `run` | ranks that leave a timed loop at different times |
| `algorithm/WritePaths`, `PathReader` | files | `run` | the shifts while writing must add up to one turn on every rank; one permutation in the file, one per rank in memory |
| `stats/EstimatorManager`, accumulators, `AccRejEstimator`, `BlitzArrayBlkdEst` | sums, norms, counts, buffers of reductions | `Measure`, `averageOverClones`, `writeStep` | reductions over workers, then clones; who starts the next block from zero; no clone ahead of the block rank 0 writes |
| `action/`, `estimator/`, `spin/`, `emarate/`, `util/` numerics | floating point tables | sums over links | numerical, not modelled |
| `parser/`, `demo/`, `main.cc` | the algorithm tree | construction | executed once |

### How they interact

`Loop` runs its children in order. A section chooser fetches a section from
`Paths` (`getBeads`), resets the section permutation, lets each action
initialise itself on the section, runs its samplers, stores the section
(`putBeads`) and refreshes the buffer slices (`setBuffers`). A sampler knows
only the section: it leaves moved beads in between two fixed ends, and a
permutation that says how the labels of the last slice were re-joined.
`putBeads` is responsible for every other slice. Estimators read links through
`sumOverLinks`. `WorkerShifter` moves the origin so that other slices become
the fixed ends.

There are no threads. Concurrency is between MPI ranks that run the same tree;
they meet in `Sendrecv`, `Send`/`Recv`, `Bcast`, `Reduce` and `Barrier` only.
There is no recovery: a crash ends the run, and a new one starts from the file
`WritePaths` left, which `PathReader` spreads over its ranks.

## 2. Modules

| module | models | key properties |
|---|---|---|
| `Permutations` | `util/Permutation.cc` and the copies of `Beads.h` | used by all |
| `PathRing` | abstract: closed worldlines, re-joined at one place by a section (at two places half a path apart by a double one), rotated by a shift | refined by the three storage modules |
| `SerialPaths` | `base/SerialPaths.cc` with the four section choosers that call it | `NoBeadLost`, `InverseIsCurrent`, `SumSeesWorldlines`, `ImplementsRing` |
| `SerialShift` | the loop and recursion inside `SerialPaths::shift` | `ShiftIsRotation`, `RewriteIsOrdered`, `ShiftTerminates` |
| `Ranks` | the MPI ranks: programs, messages, broadcasts, barriers | used by the modules of ranks |
| `ParallelPaths` | `base/ParallelPaths.cc` on several ranks, message by message | `ImplementsRing`, `SumSeesWorldlines`, `ShiftSendsFreshSlices`, `NoCrossTalk`, `GlobalPermutationIsAround`, `EveryRankFinishes` |
| `DoubleParallelPaths` | `base/DoubleParallelPaths.cc`: every rank holds a piece of each half of the path | `ImplementsRing`, `SumSeesWorldlines`, `GlobalPermutationIsAround` |
| `DisplaceMoveSampler` | `advancer/DisplaceMoveSampler.cc`, its double and their movers, on several ranks | `WorldlinesMoveRigidly`, `ProposalsAgree`, `PermutingStay`, `EveryRankFinishes` |
| `ParallelPathFiles` | `algorithm/WritePaths.cc` and `algorithm/PathReader.cc` over `ParallelPaths` | `WritingChangesNothing`, `ReadIsWritten`, `SumSeesRead` |
| `MultiLevelSampler` | `advancer/MultiLevelSampler.cc` inside one section | `SectionMatchesPermutation`, `NoHalfMove`, `AccRejChain`, `TableIsFresh` |
| `DoubleMLSampler` | `advancer/DoubleMLSampler.cc` with `FixedNodeAction` and the matrix updates of `FreeParticleNodes` | `AcceptedIsTested`, `ReferenceIsCurrent`, `InverseIsCurrent` |
| `WalkingChooser` | `advancer/WalkingChooser.cc` on top of `MultiLevelSampler`: table, walk, search, acceptance of a cycle | `WalkIsReversible` |
| `Clones` | `stats/MPIManager.cc`: clones of workers, three communicators, `Reduce`, `Bcast`, `Barrier` | used by the next three |
| `Statistics` | `Measure`, `Collect`, `EstimatorManager` and five kinds of estimators | stated in `Simulation` |
| `ModelSampler` | `advancer/ModelSampler.cc` and `base/EnumeratedModelState.cc` on the workers of a clone | stated in `Simulation` |
| `Simulation` | the loops of a whole run on all ranks over the two modules above | `WrittenIsAverage`, `AcceptancesAreCounted`, `NoCloneAhead`, `WorkersAgreeOnModel`, `CollectivesMatch`, `EveryRankFinishes` |
| `DataLemmas` | lemmas about permutations, queues and sums; induction and bisection | section 5 |
| `SerialPathsProofs`, `SerialShiftProofs`, `ParallelPathsProofs`, `DisplaceMoveSamplerProofs`, `MultiLevelSamplerProofs`, `DoubleMLSamplerProofs`, `SimulationProofs` | theorems | section 5 |
| `MC*` | constants for TLC | |

### How state corresponds to code

A slice is a function from labels to beads. In `SerialPaths`, `PathRing` and
`DoubleParallelPaths` the properties ask who is joined to whom, and a bead is
little more than its identity. `ParallelPaths` adds a version that a sampler
increases when it moves the bead, so that an out-of-date copy differs from the
original. In the samplers a bead is the identity of the bead it replaces and
the trial that produced it. Determinants, distances and matrices of
`FixedNodeAction` are represented by the configuration they were computed from,
and a value that is no configuration's is `Wrong`; a matrix update is right only
when it starts from the inverse of the configuration the section has. In
`DisplaceMoveSampler` a displacement is a name: whose random numbers it came
from and in which move.

`link`, the variable of `PathRing`, is recovered from each layout by reading
labels along the arrays and through the permutation (`WorldLink`). On several
ranks it is read from owned slices only, through `View`: between the barrier of
a shift and the exchange of the two arrays some ranks already have the new array
in place and others still keep it in `buffer`.

`SectionMatchesPermutation` and `SectionsMatchPermutations` are the contract
between samplers and storage. The storage modules use it as their operator
`Sampled`; the sampler modules show that their samplers meet it. That is how
the modules compose without a product state space.

`ParallelPathFiles` extends `ParallelPaths` and adds a second instance of it,
`New`, for the run that reads the file: the same ranks with `bfactor` times as
many slices. The permutation it writes is the one the messages of
`getGlobalPermutation` have put together, not a derived quantity.

In `WalkingChooser` the propagators of the table are even integers, and a draw
is an odd integer below their sum, so that no draw meets a bound of an interval,
as no real number does with any probability. The chance to propose a cycle is
counted, draw by draw, through the modelled search. The species of the walk is
all particles.

In `Statistics` a number is the bag of what it was summed from: which rank
measured it, when, what it was divided by and in which partition it was counted.
A sum that holds a measurement twice, of another block, or with a wrong norm is
another bag. What the code leaves unset on ranks that are not the root of a
reduction stays in the bag as what it is, an earlier content.

An action is one handler with everything it does up to the next point where
another actor can interfere. In serial code that is a whole `run` of a chooser
(`SectionRun`), or one level of a move where the order of levels is what
matters. In parallel code it is the stretch between two blocking MPI calls.

### Messages

`chan[v][w][tag]` is the FIFO of point-to-point messages from `v` to `w`: MPI
keeps their order for one communicator, source and tag, and all calls here use
the worker communicator. `ParallelPaths` uses tag 1 for everything,
`DoubleParallelPaths` 1 and 2, the displacement samplers 1 and 111; their
`Reduce` to rank 0 is a channel of its own. `bcast[w]` holds broadcasts of rank
0 not yet received.

`Clones` has collective calls only. `contrib[comm][r]` is what rank `r` has
given to the reductions of a communicator and the root has not taken yet,
`bcast[r]` the broadcasts it has not received, `entered` counts barriers. Each
entry carries the name of its call: MPI matches calls by their order alone, and
`CollectivesMatch` says that the order matches the names. A call on the
communicator of the clones by a rank that is not in it aborts the run.

MPI may buffer a send or make it wait for its receiver. The next-state
relations let every send return at once, so that safety holds for the ranks
that run furthest ahead of each other; the fairness conditions promise a step
only when it does not rely on a buffer (`Unbuffered`): the earlier sends of the
rank were received, or the rank is inside a `Sendrecv`, whose receive does not
wait for its own send. `EveryRankFinishes` therefore holds without buffering.

## 3. Runs

| run | what it asks | bounds |
|---|---|---|
| `serial` | labels, permutation and inverse under sections, double sections, shifts and `clearPermutation`; refinement of `PathRing` | 3 particles, 4 slices, sections of 3 and 5, pair exchanges |
| `serial_shift` | the in-place rewrite of `shift`, its recursion and its end | 7 slices, buffers of 4, shifts 0..16, all permutations of 3 |
| `parallel` | sections, shifts and `getGlobalPermutation` at every relative speed: current slices, no message taken for another, refinement of `PathRing`, order of composition, no rank waits for ever | 3 ranks, 3 particles, 2 + 2 + 3 slices, three programs |
| `double_parallel` | the same for both halves of a double path, with the seam on the last rank | 2 ranks, 3 particles, 10 slices: 2 and 3 of each half |
| `displace` | whole worldlines move, by the same amount on every rank, or not at all; ranks leave a trial together | 3 ranks, 3 particles, two moves of one or two of them |
| `parallel_files` | writing changes nothing, what is read is what was written, boundary slices included | 2 ranks, 2 particles, 5 + 6 slices, read into 16 + 17 |
| `multilevel` | what two samplers leave for `putBeads`, their statistics, the age of the table, detailed balance of the cycles | 4 particles, 2 levels, a walker of 3-cycles and pair exchanges, two trials each |
| `fixed_node` | four samplers on two sections with full determinants; two samplers with matrix updates, with and without the nodal action | 4 particles, 3 of the species; two levels and two trials with matrix updates |
| `fixed_node_cycles` | matrix updates and permutations (violated) | one walking sampler |
| `fixed_node_all` | particles of all species on both sections (violated) | one sampler |
| `displace_double` | permuting particles stay, with double paths (violated) | 2 ranks, 2 particles |
| `statistics` | what rank 0 writes is the average of exactly the measurements of its block, acceptances are neither lost nor counted twice, no clone is ahead, workers agree on the model, every collective call meets its own kind, every rank finishes | 2 clones of 2 workers, 3 of 1, 2 of 1, 1 of 2 and of 3; up to 3 blocks of up to 2 measurements; 3 models; counted and timed loops |

Why these bounds are enough to be interesting. Three particles are the fewest
with permutations that do not commute. Four serial slices let a section of 3
wrap at either end, and one of 5 close on itself. Three ranks make the order of
composition matter and let two neighbours of a rank be at different places; with
two ranks, in `parallel_files` and `double_parallel`, both neighbours are the
same rank, whose messages could be mistaken for each other, and the last rank
has the remainder, so that the ranks differ in length. Eleven slices in chunks
of two leave a last chunk of one. Seven slices with buffers of four make `shift`
call itself up to four times with a last piece shorter than the others. Two
levels are the fewest where a trial can be given up half way, two trials per
sampler the fewest where one trial sees what another left behind.

Four particles are the fewest for which the search of `WalkingChooser` bisects,
and leave one out of its 3-cycles; the propagators are such that a cycle and its
inverse, or two cycles, are never equally likely. Three clones, or three workers,
let two ranks be at different distances from a third, two of each let a rank be
root of one communicator and not of the other; two blocks show what is carried
from one to the next, and a third what is carried twice. One list of estimators
has `accrej` first, which makes no call among the workers when it is evaluated.

The bounds on counters: the length of `Programs` bounds what the ranks do,
`nrepeat` and the list of samplers bound the trials of a section, `MaxShift` the
shifts, `nblock` and `nmeasure` of an input the blocks and measurements. `SerialPaths` has no bound, its state space is finite.

## 4. Fairness and deadlock

`ParallelPaths` and `DisplaceMoveSampler` assume weak fairness of each rank's
`Progress`: a rank whose MPI call can return without relying on buffers does
return. That is the progress MPI guarantees, and ranks do nothing else than run.
`SerialShift` assumes weak fairness of its only process, a sequential program
that keeps executing. `Simulation` assumes the same of each rank's `Progress`: the rank takes its next
step if no broadcast or contribution of its own is still on the way
(`NothingPending`), so that the finish of all ranks does not depend on a root
that runs ahead. `EveryRankFinishes` of `Simulation` names the two ways in which
a run may not finish: an accumulator on more than one worker, which aborts
(section 6), and a timed loop whose ranks read their clocks differently
(`Disagreed`). No other module needs fairness; their properties are safety
properties.

Deadlock is checked in every passing run; programs that have ended stutter by an
explicit disjunct of the next-state relation.

## 5. Proofs

Every theorem holds for all values of the constants that satisfy the named
assumptions of its module, which TLC evaluates in the runs.

### Serial storage

`SerialPathsProofs` proves for every number of particles and slices, any
section sizes the assumptions allow and any set of exchanges:

* `Inductive`: every slice of `beads`, `permutation` and `inversePermutation`
  are bijections and the two permutations are inverse to each other. This is
  stronger than `TypeOK`, and has to be: that a section may be stored under
  permuted labels and read back through the inverse is only true of bijections.
* `TypeCorrect`, `BeadsConserved`, `InverseCorrect`: `TypeOK`, `NoBeadLost` and
  `InverseIsCurrent` follow.
* `SumsCorrect`: `SumSeesWorldlines` follows too. In any state that satisfies the
  invariant, reading the closing links by the cached inverse gives the same set
  as following the labels through the permutation (`SummedLinksGood`).

The argument goes one level below the actions. `DataLemmas` shows that
products, inverses, `Relabel` and `Scatter` of bijections are bijections.
`SerialPathsProofs` shows that `GetSlice`, `StoreSection`, `Sampled`,
`PutBeads` and `PutDoubleBeads` preserve a predicate on path states, and the
proof of each action is then one line. The assumption that carries most is that
`Exchanges` are permutations, which is what `SectionMatchesPermutation` and
`SectionsMatchPermutations` say of the samplers.

Its last part proves `Refinement`: `Spec => Ring!Spec`, that is,
`ImplementsRing`. However a section lies, storing it comes to one thing: from
some slice on all slices are relabelled by one permutation, and the permutation
of the path with them (`CutBy`). `CutLeavesOthers` shows that such a step leaves
every link but those into that slice alone, `CutRejoins` that it re-joins those
by a permutation of the same cycle structure as the sampled one (`Conjugate`),
which is what the abstract ring may do. A double section is two cuts in a row;
`SecondSection` shows that the second, relabelled by the first, is again a cut
with the conjugated permutation. `RotatedLinks` is the step of a shift.

`SerialShiftProofs` proves `ShiftCorrect` and `RewriteCorrect`: `ShiftIsRotation`
and `RewriteIsOrdered` for any number of slices, buffer and shift. The
invariant says, slice by slice, which of them hold their final value, which
their old one and which are in the buffer; the laws of powers of the
permutation it needs are proved from their recursive definition first.

### Ranks

`ParallelPathsProofs` proves four invariants of `ParallelPaths`, and that it
implements the abstract ring, for any number of ranks, particles and slices, any
program, any section lengths, exchanges and shifts up to `MaxShift`:

* `MessagesUnderstood` (`NoCrossTalk`): with one tag for everything, no call
  ever receives the message of another one.
* `LinksAreCurrent` (`SumSeesWorldlines`): a rank that samples or measures has
  a current copy of the slice before its first one.
* `ShiftsSendCurrentSlices` (`ShiftSendsFreshSlices`) and `TypeCorrect`
  (`TypeOK`).

None of the four is inductive, and they cannot be shown one after the other:
what a copy holds depends on the message it came in, and which message that is
on how far the ranks are apart. `Invariance` shows `IInv`, in four parts.

`Course` says how far apart ranks may be, for every turn of the program: in a
section a rank is held up by its neighbours only, in a shift and for the global
permutation by all. It mentions no message. What is on the way then follows from
where the ranks are: by `FirstOut`, `LastOut`, `PermOut`, `GlobalOut` and
`ShiftOut` each channel holds at most one last slice and one other message, in
an order that `Early` decides (`Queue`); with two ranks these come from and go
to the same rank. `Delivery` says that the contents are those slices and
permutations as their sender has them still. `Copies` says that the two buffer
slices of each rank are what their owner has under the labels the permutation
gives, the upper one unless it is about to be received (`Refreshing`); in a
shift this is said of `View`, and `Buffers` that the array assembled is the
shifted one. `Held` is the type of all this. The `n` of `Fine(n)` is the shift
of the turn, which rank 0 draws anew each time and which no variable keeps. Each
action has a lemma of its own (`SectionRunStep` .. `RecvGlobalStep`), with one
step per part.

`Refinement` proves `ImplementsRing`: `Spec => Ring!RingSpec`. The links of the
ring are read from the slices each rank owns; `LinksAtPlaces` shows that they are
as well what lies between two neighbouring slices of one array (`Linked`), the
copy of the slice before included, because that copy is current (`Lower`). So
every link is between two slices under the same labels, and no label has to be
carried from one rank to the next. `CutRing` and `RotatedRing` then say what has
to be seen of a step. `SectionRunRing`: storing a section relabels all slices of
the array from its last one on, which leaves every link alone but the one into
that slice. `LeaveBarrierRing`: the first rank out of a shift's barrier turns the
ring by as many slices as rank 0 has drawn, since by `Buffers` every rank has
assembled its new array by then; the other ranks leaving change nothing
(`BarrierViews`). All other steps leave all links alone, receiving into a copy
among them. `Reclose` of the ring is never needed. The invariant is `RingInv`,
which adds to `IInv` that the beads of every slice in both arrays have names of
their own (`Full`).

`GlobalPermutation` proves `GlobalPermutationIsAround`. While rank 0 gathers,
`Gathering` says that it holds the product of the permutations of the ranks
heard so far, as these ranks have them now; `GatheredStay`: none of them can
begin another section before rank 0 has broadcast. `WayFollows` exhibits the
slices met when a worldline is followed rank by rank, and `FollowsOnce` shows
that the recursive function of `Around` can be no other.

`DisplaceMoveSamplerProofs` proves `ProposalsAlwaysAgree`,
`WorldlinesAlwaysRigid` and `PermutingAlwaysStay` under `~Double /\ ~Collective`.
Neither condition can be dropped: `displace_double` and
`MCDisplaceCollective.cfg` (section 6) violate the properties. The invariant has
three parts. `Protocol` lists the phases a rank can be in as rank 0 sees it
(`Phase`: late, fresh, sent, taken, unaware, waiting, informed, tried) with the
content of its channels in each; `Agreement` says that ranks which go for a
decision were told the same vector and labels of the same worldlines; `Moved`
says what has been displaced: owned slices, their copies at both ends, and no
worldline that permutes. `Along` follows labels from rank to rank, and that rank
0 gets its own labels back is what the rejection test of `run` is for.

### Samplers

`DataLemmas` provides the induction. The library's induction theorem takes an
operator as its parameter, which the provers cannot instantiate; `LeastOf`, every
set of natural numbers has a least element, takes a set, and serves instead. From
it follows `EverySliceCovered`: every slice strictly between the ends of a
section is an odd multiple of a power of two below its length, the stride of a
level.
The only facts about powers used are `2^0 = 1` and `2^(n+1) = 2 * 2^n`
(`PowerAssumption` of the sampler modules).

`MultiLevelSamplerProofs` proves `SectionCorrect`, `MovesAreWhole`,
`ChainCorrect`, `TableCorrect` and `TypeCorrect` for any list of samplers, any
number of levels and trials. The invariant behind them says what the arrays of
moving beads hold in the middle of a trial: the ends of the section under the
labels chosen, and beads of this trial on every level already made. Without it
`NoHalfMove` is not inductive, because nothing else links a slice to the level
on which it was moved.

`DoubleMLSamplerProofs` proves `SectionsCorrect`, for every set-up, and, under
`Careful`, `MovesAreTested`, `ReferenceCorrect` and `InverseCorrect`. `Careful`
is what `FixedNodeAction` takes for granted of an input file: a sampler of both
sections moves particles of the species only or none of them; with matrix
updates the species moves on one section only and without permutations. The
runs `fixed_node_all` and `fixed_node_cycles` show that neither half of the
condition can be dropped. The invariant, `NodeInv`, adds to the one of the
single sampler that values of the slices a level moved were computed from the
moved beads, and that the values, distances and inverses kept are those of the
section.

### Statistics

`SimulationProofs` proves `ClonesKeepStep` (`NoCloneAhead`) for any number of
clones, workers and blocks, timed loops and aborted runs included. The
invariant relates, for the first worker of each clone, the barriers it has
entered to the block it is in and to the blocks rank 0 has written.

Its second part proves `WorkersAgree` (`WorkersAgreeOnModel`) and `CallsMatch`
(`CollectivesMatch`), also for any list of estimators and any number of models.
MPI matches the calls of a communicator by their order alone, a root may be far
ahead of the ranks it tells and far behind those that contribute to it, and
which calls there are in a turn depends on what was proposed and decided in it.
Neither property is inductive. The invariant, `CallInv`, gives every call a place,
the turn (or block) and the call in it: `tellPlace` for broadcasts, `callPlace`
for reductions over the workers, `averagePlace` for those over the clones.
`Sync` says of the queue between two ranks that it holds, in order, what the
calls at the places between reader and writer say, and that the reader has not
passed a call the writer has not made; `SyncWrite`, `SyncRead` and two lemmas for
steps without a call are all that is known of queues. What is said is
history that no variable keeps: that there are functions `S`, `J` and `X` from
turns to the model state a clone is in, its proposal and whether that is
rejected, such that every worker knows its part of them (`Knows`), with `S`
following from the others (`Follows`) in all turns the first worker has decided.
A step of the first worker extends them at its own place (`Later`), where no
other worker has been yet; every other step leaves them alone. The calls of a
turn are then the same for all workers because the test that leaves `tryMove`
early is made of `S` and `J` only. `CallInv` includes `BlockInv`, the invariant
of the barriers.

Its third part proves `AcceptancesCounted` (`AcceptancesAreCounted`). `CountInv`
adds up what the ranks have counted and what is in their queues to rank 0
(`Held`); a move adds one to a term, a rank that sends its count moves it from
one summand of its term to the other, and rank 0 takes one message out of every
other term and adds them all to its own. That no queue is empty when it does is
in the guard, and that no term is added twice in the sums: `DataLemmas` shows,
with induction over finite sets as a fact about sets (`SetInduction`), that the
fold of the community modules is a sum with the laws one expects (`FoldIsSum`,
`SumTake`, `SumAdds`, `SumTail`).

Its fourth part proves `AveragesWritten` (`WrittenIsAverage`), the most a user
relies on: what is written of a block is the mean over exactly the measurements
of that block, although the ranks are at different places of it, and of the next
one, all the time. A quantity is a bag of terms; `Weights` is the bag with one
term for each rank and measurement of a set, `TermsUnion`, `WeightsOver` and
`WeightsIn` are the laws of adding, dividing and partitioning such bags, and
`WeightsFold` says that the fold over the messages of the other ranks is the
union of what they stand for. The invariant, `DataInv`, follows the data through
four hands. `LocalSum`: the first worker of a clone has, of every estimator, what
all its workers measured since its last average, `Window`, where an estimator
earlier in the list has already seen one measurement more. `Brings`: what is in
its queue to rank 0 is, for each average it has passed and rank 0 has not, its
sum over the whole of that block (`Report`); this is `Sync` of the second part
again, said of the data. `Global`: what rank 0 keeps after an average is the mean
of all clones, and for an array of all blocks so far. `BlockIs`: what was written
stays what it was. `Clock` ties the measurements a rank has made to the counters
of the two loops. A term carries the model state of its measurement, so all of
this would be disturbed by a change of the state; `Settled` says from when on it
cannot be, and `StateStays` that it is not. That the workers of a clone give the
same measurement of the same turn comes from `CallInv`.

The theorem is about inputs that list no kind of estimator twice (`Distinct`).
The program has an object, with stores of its own, for every estimator; the
model names a store by the kind of its estimator, and two of a kind would share
it. The other theorems hold for every list.

### Only model-checked

All properties of `DoubleParallelPaths` and `ParallelPathFiles`, and
`WalkIsReversible`. Liveness (`ShiftTerminates`, `EveryRankFinishes`) is out of
reach of the prover used, and so is what the recursive function of
`WalkIsReversible` computes. The others are not: `ParallelPathsProofs` shows
the way for both modules, whose worldlines and files go over the same messages,
but every rank of `DoubleParallelPaths` has two arrays of slices and two
permutations to follow, and the invariant would be one of all four.

## 6. Disagreements found

1. `fixednode/FreeParticleNodes.cc:1028`: accepting a move updates the inverse
   matrices of the slices between the ends; a permutation changes the matrix of
   the last slice as well. Run `fixed_node_cycles`.
2. `fixednode/FixedNodeAction.cc:52`: whether the action is concerned is decided
   by the particles moving on section 1. Run `fixed_node_all`.
3. `advancer/DisplaceMoveSampler.cc:45` gathers `getPermutation()` of the ranks
   to find permuting particles; `base/DoubleParallelPaths.h:77` returns the
   permutation of the first half. The comment of the sampler (line 70) says that
   moves of permuting particles are rejected. Run `displace_double`.

Seen while modelling and not among the runs:

* `advancer/CollectiveMover.cc:59` does not broadcast what it draws, as
  `UniformMover.cc:38` does, so that a worldline moves differently on each rank.
  `tlc -config MCDisplaceCollective.cfg MCDisplace.tla` shows it.
* The scalars' `averageOverClones` (`stats/SimpleScalarAccumulator.cpp`,
  `stats/PartitionedScalarAccumulator.cpp`) reduces on the communicator of the
  clones on every worker, but only the first worker of a clone is in it. With
  more than one worker MPI aborts the run. `Clones` models it, and
  `EveryRankFinishes` excuses it.
* The guard of `advancer/ModelSampler.cc:61` against a proposal out of range asks
  for two contrary conditions and never holds. Proposals are in range all the
  same, as `WorkersAgreeOnModel` shows.
* `stats/AccRejEstimator.h:11` carries a `@bug` about results of parallel runs
  that `averageOverClones` has resolved since; `AcceptancesAreCounted` holds.
* With a `timeout` each rank of a `Loop` reads its own clock
  (`algorithm/Loop.h:53`), and ranks may disagree about one more turn.
* Two `Collect` elements in one input create the report file twice.
* `PairChooser` may draw a particle twice when both its walks are over one
  species, and `MultiSpeciesParticleChooser` whenever it draws more than one.

Known to the source and not modelled: `base/SerialPaths.cc:175` says of the
relabelling after a permuted section `//BUG with aux beads!!!!`; beads are
modelled without their auxiliary beads.

Two comments in `base/ParallelPaths.h:107` and `base/DoubleParallelPaths.h:74`
call `getGlobalPermutation` a placeholder that is not correct for MPI; the
implementation is, as `GlobalPermutationIsAround` shows for both classes.

## 7. Not modelled, and why

Actions, estimators, node models other than free particles, spin, EMARate and
the utilities below `util/` are floating point formulas without state that
outlives a call; the samplers allow every outcome of them. Parsing, report
formats, startup and demos run once or only format output.

`SpinModelSampler` is left out: on several workers each rank draws its own
particle and may return before a reduction the others enter, so that there is no
outcome a model could promise. The collective section samplers move all beads of
a section along one smooth function and leave the labels alone; without
coordinates that is the identity section of the storage modules. `StructReader`,
the movie file and files without a permutation are left out of the path files,
`putDoubleBeads` of `ParallelPaths` because nothing calls it.

Most lines of the repository are the vendored libraries below `contrib/` (blitz,
gtest), generated operator tables and numerical code. None of them carries
state of this program, and no definition here stands for any of their lines.

Limits the program relies on without checking them are assumptions here:

* `MaxShiftAssumption`: a shift is at most the slices of a rank.
* Sections fit a rank; `FirstSlices` is empty otherwise.
* `HalfTestAssumption`: a slice number is of the first half when it is below
  `nprocSlice + 2` on its rank; with few slices and unequal ranks that test
  would take the wrong half.
* `ChunkAssumption`: a rank has more than three slices when paths are written,
  or `WritePaths` would make empty chunks.
* `EstimatorAssumption`: an input file has at least one estimator.

And one limit is of the model: it names what an estimator stores by the kind of
the estimator, so that no input here lists two of a kind (`Distinct`).


Each of the program's is listed with its line under the hazards.

## 8. Plan

Done: the storage classes, serial and on ranks; the section choosers; both
multilevel samplers and the walk that proposes permutations; the displacement
samplers; the path files; the statistics of a whole run; theorems about all that
runs on one rank, about the messages, copies and worldlines of `ParallelPaths`,
the agreement of the ranks in `DisplaceMoveSampler`, and all safety properties of
`Simulation`. Left open:

1. Theorems: the copies and worldlines of `DoubleParallelPaths`; the path files.
2. `clearPermutation` of `DoubleParallelPaths`, and reading path files into it.
3. The displacement form of `FixedNodeAction`, together with
   `DoubleDisplaceMoveSampler` on one rank.
