----------------------------- MODULE Statistics -----------------------------
(***************************************************************************)
(* Estimators over the workers and clones of a run (stats/): Measure       *)
(* evaluates them, Collect has EstimatorManager::writeStep average them    *)
(* over the clones and write a block.  Five kinds of them:                 *)
(*   "accumulator"  scalars with a SimpleScalarAccumulator                 *)
(*   "partitioned"  scalars with a PartitionedScalarAccumulator over the   *)
(*                  states of the model                                    *)
(*   "scalar"       scalars that keep etot and enorm themselves            *)
(*   "array"        histograms, BlitzArrayBlkdEst                          *)
(*   "accrej"       counts of trials and acceptances, AccRejEstimator      *)
(*                                                                         *)
(* A quantity is a bag of terms <<r, k, d, i>>: what rank r contributed in *)
(* its k-th measurement, divided by d and counted in partition i.  Every   *)
(* rank counts one slice.                                                  *)
(***************************************************************************)
EXTENDS Clones, Bags, Functions

VARIABLES est,       \* est[r]: position in the list of estimators
          measured,  \* measured[r]: measurements r has completed
          scalar,    \* scalar[kind][r]: value, sum and norm
          array,     \* array[r]: value, norm, accumvalue and accumnorm
          naccept,   \* AccRejEstimator::naccept of each rank
          ntrial,    \* AccRejEstimator::ntrial of each rank
          modelState,\* EnumeratedModelState of each rank, a PartitionWeight
          written    \* the blocks rank 0 has written, oldest first

statVars == <<est, measured, scalar, array, naccept, ntrial, written>>

Accumulators == {"accumulator", "partitioned"}
ScalarKind == Accumulators \cup {"scalar"}
Kind == ScalarKind \cup {"array", "accrej"}

ASSUME EstimatorAssumption ==
  \A i \in Inputs : i.estimators \in Seq(Kind) /\ i.estimators # <<>>

Measured(r, k) == SetToBag({<<r, k, 1, 0>>})
Garbage(r) == Measured(r, 0)           \* what an unset buffer may hold
NaN == SetToBag({<<0, 0, 0, 0>>})

Over(q, n) ==
  IF n = 0 THEN NaN
  ELSE [t \in {[u EXCEPT ![3] = @ * n] : u \in DOMAIN q} |->
          q[[t EXCEPT ![3] = @ \div n]]]
InPartition(q, i) ==
  [t \in {[u EXCEPT ![4] = i] : u \in DOMAIN q} |-> q[[t EXCEPT ![4] = 0]]]

(* The sum over the other members of comm of field f of what they gave.    *)
SumOfBags(comm, r, f) ==
  FoldFunctionOnSet(LAMBDA p, q : p (+) q, EmptyBag,
    [s \in Rank |-> IF s \in Others(comm, r) THEN Contribution(comm, s)[f] ELSE EmptyBag],
    Others(comm, r))
SumOfCounts(comm, r, f) ==
  FoldFunctionOnSet(LAMBDA m, n : m + n, 0,
    [s \in Rank |-> IF s \in Others(comm, r) THEN Contribution(comm, s)[f] ELSE 0],
    Others(comm, r))

StatisticsInit ==
  /\ est = [r \in Rank |-> 1]
  /\ measured = [r \in Rank |-> 0]
  /\ scalar = [kind \in ScalarKind |-> [r \in Rank |->
                 [value |-> EmptyBag, sum |-> EmptyBag, norm |-> 0]]]
  /\ array = [r \in Rank |-> [value |-> EmptyBag, norm |-> 0,
                              accum |-> EmptyBag, accumnorm |-> 0]]
  /\ naccept = [r \in Rank |-> 0]
  /\ ntrial = [r \in Rank |-> 0]
  /\ written = <<>>

TryingMove(r) == ntrial' = [ntrial EXCEPT ![r] = @ + 1]
MoveAccepted(r) == naccept' = [naccept EXCEPT ![r] = @ + 1]

Estimator(r) == input.estimators[est[r]]

(* The loops over the estimators end by going to another place.            *)
NextEstimator(r, after) ==
  IF est[r] < Len(input.estimators)
  THEN est' = [est EXCEPT ![r] = @ + 1] /\ UNCHANGED at
  ELSE est' = [est EXCEPT ![r] = 1] /\ Goto(r, after)

-----------------------------------------------------------------------------
(* Measure::run, one estimator: sum over the links of the rank, Reduce the *)
(* sum and the number of slices over the workers, and add the value to the *)
(* block; the partitioned accumulators weigh it by the state of the model. *)
Weighted(kind, r, q) ==
  IF kind = "partitioned" THEN InPartition(q, modelState[r]) ELSE q
Stored(kind, r, q) ==
  scalar' = [scalar EXCEPT ![kind][r].sum = @ (+) Weighted(kind, r, q),
                           ![kind][r].norm = @ + 1]

(* A worker that is not the root stores what is in its own buffer.         *)
EvaluateOther(r) ==
  /\ at[r] = "measure" /\ ~isCloneMain(r) /\ Estimator(r) # "accrej"
  /\ Contribute("worker", r, Estimator(r),
                [sum |-> Measured(r, measured[r] + 1), nslice |-> 1])
  /\ IF Estimator(r) = "array" THEN UNCHANGED scalar
     ELSE scalar' = [scalar EXCEPT ![Estimator(r)][r].sum = Garbage(r),
                                   ![Estimator(r)][r].norm = @ + 1]
  /\ NextEstimator(r, "endTurn")
  /\ UNCHANGED <<array, measured, naccept, ntrial, written,
                 input, bcast, entered, aborted>>

EvaluateRoot(r) ==
  /\ at[r] = "measure" /\ isCloneMain(r) /\ Estimator(r) # "accrej"
  /\ AllContributed("worker", r)
  /\ LET nslice == 1 + SumOfCounts("worker", r, "nslice")
         total  == Measured(r, measured[r] + 1) (+) SumOfBags("worker", r, "sum")
         q      == Over(total, nslice)
     IN IF Estimator(r) = "array"
        THEN /\ array' = [array EXCEPT ![r].value = @ (+) q, ![r].norm = @ + 1]
             /\ UNCHANGED scalar
        ELSE Stored(Estimator(r), r, q) /\ UNCHANGED array
  /\ Combine("worker", r)
  /\ NextEstimator(r, "endTurn")
  /\ UNCHANGED <<measured, naccept, ntrial, written,
                 input, bcast, entered, aborted>>

(* AccRejEstimator::evaluate does nothing.                                 *)
EvaluateAccRej(r) ==
  /\ at[r] = "measure" /\ Estimator(r) = "accrej"
  /\ NextEstimator(r, "endTurn")
  /\ UNCHANGED <<measured, scalar, array, naccept, ntrial, written,
                 input, contrib, bcast, entered, aborted>>

-----------------------------------------------------------------------------
(* averageOverClones of a scalar: calculateTotal (or calcValue), reset,    *)
(* Reduce over the clones, divide by their number.                         *)
Total(kind, r) == Over(scalar[kind][r].sum, scalar[kind][r].norm)
(* The value of the block; the first form forgets to begin anew.           *)
NoReset(kind, r, q) == scalar' = [scalar EXCEPT ![kind][r].value = q]
Reset(kind, r, q) ==
  scalar' = [scalar EXCEPT ![kind][r] = [value |-> q, sum |-> EmptyBag, norm |-> 0]]

(* averageOverClones of the accumulators reduces on every rank, that of    *)
(* ScalarEstimator on the first workers.                                   *)
Reduces(kind, r) == kind \in Accumulators \/ isCloneMain(r)

AverageScalar(r) ==
  LET kind == Estimator(r) IN
  /\ at[r] = "average" /\ kind \in ScalarKind
  /\ \/ /\ ~Reduces(kind, r)
        /\ Reset(kind, r, Total(kind, r))
        /\ NextEstimator(r, "write")
        /\ UNCHANGED <<contrib, aborted>>
     \/ /\ Reduces(kind, r) /\ ~IsMember("clone", r)
        /\ aborted' = TRUE
        /\ UNCHANGED <<scalar, contrib, at, est>>
     \/ /\ isCloneMain(r) /\ ~isMain(r)
        /\ Reset(kind, r, Over(Total(kind, r), nclone))
        /\ Contribute("clone", r, kind, [sum |-> Total(kind, r)])
        /\ NextEstimator(r, "write")
        /\ UNCHANGED aborted
     \/ /\ isMain(r) /\ AllContributed("clone", r)
        /\ Reset(kind, r, Over(Total(kind, r) (+) SumOfBags("clone", r, "sum"), nclone))
        /\ Combine("clone", r)
        /\ NextEstimator(r, "write")
        /\ UNCHANGED aborted
  /\ UNCHANGED <<measured, array, naccept, ntrial, written, input, bcast, entered>>

(* BlitzArrayBlkdEst::averageOverClones: norm and value are reduced among  *)
(* the first workers; every rank then adds the block to its running        *)
(* average.                                                                *)
Accumulated(r, q, n) ==
  array' = [array EXCEPT ![r] = [value |-> EmptyBag, norm |-> 0,
              accum |-> @.accum (+) Over(q, n), accumnorm |-> @.accumnorm + 1]]

AverageArray(r) ==
  /\ at[r] = "average" /\ Estimator(r) = "array"
  /\ IF isMain(r)
     THEN /\ AllContributed("clone", r)
          /\ Accumulated(r, array[r].value (+) SumOfBags("clone", r, "value"),
                            array[r].norm + SumOfCounts("clone", r, "norm"))
          /\ Combine("clone", r)
     ELSE /\ Accumulated(r, array[r].value, array[r].norm)
          /\ IF isCloneMain(r)
             THEN Contribute("clone", r, "array",
                             [value |-> array[r].value, norm |-> array[r].norm])
             ELSE UNCHANGED contrib
  /\ NextEstimator(r, "write")
  /\ UNCHANGED <<measured, scalar, naccept, ntrial, written,
                 input, bcast, entered, aborted>>

(* naccept=0, ntrial=0 after the Reduce, and in the first form not.        *)
NotZeroed(n) == n
Zeroed(n) == 0

(* AccRejEstimator::averageOverClones: the counts of all ranks go to rank  *)
(* 0 and stay there; sum is zero on every other rank.                      *)
AverageAccRej(r) ==
  /\ at[r] = "average" /\ Estimator(r) = "accrej"
  /\ IF isMain(r)
     THEN /\ AllContributed("world", r)
          /\ naccept' = [naccept EXCEPT ![r] = @ + SumOfCounts("world", r, "naccept")]
          /\ ntrial' = [ntrial EXCEPT ![r] = @ + SumOfCounts("world", r, "ntrial")]
          /\ Combine("world", r)
     ELSE /\ Contribute("world", r, "accrej",
                        [naccept |-> naccept[r], ntrial |-> ntrial[r]])
          /\ naccept' = [naccept EXCEPT ![r] = Zeroed(@)]
          /\ ntrial' = [ntrial EXCEPT ![r] = Zeroed(@)]
  /\ NextEstimator(r, "write")
  /\ UNCHANGED <<measured, scalar, array, written, input, bcast, entered, aborted>>

-----------------------------------------------------------------------------
(* What the report builders get of an estimator.  normalize and            *)
(* unnormalize enclose the writing of an array.                            *)
Reported(kind) ==
  CASE kind \in ScalarKind -> scalar[kind][0].value
    [] kind = "array"      -> Over(array[0].accum, array[0].accumnorm)
    [] kind = "accrej"     -> <<naccept[0], ntrial[0]>>

(* The end of writeStep: rank 0 writes, then all ranks pass the barrier of *)
(* their clone and the first workers that of the clones.                   *)
WriteStep(r) ==
  /\ at[r] = "write"
  /\ written' = IF isMain(r) THEN Append(written, [kind \in Kind |-> Reported(kind)])
                             ELSE written
  /\ Enter("worker", r)
  /\ Goto(r, "workerBarrier")
  /\ UNCHANGED <<est, measured, scalar, array, naccept, ntrial,
                 input, contrib, bcast, aborted>>

(* Who enters the second barrier; in the first form nobody.                *)
OwnCloneOnly(r) == FALSE
ThenCloneBarrier(r) == isCloneMain(r)

LeaveWorkerBarrier(r) ==
  /\ at[r] = "workerBarrier" /\ BarrierOpens("worker", r)
  /\ IF ThenCloneBarrier(r) THEN Enter("clone", r) /\ Goto(r, "cloneBarrier")
                            ELSE UNCHANGED entered /\ Goto(r, "endBlock")
  /\ UNCHANGED <<statVars, input, contrib, bcast, aborted>>

LeaveCloneBarrier(r) ==
  /\ at[r] = "cloneBarrier" /\ BarrierOpens("clone", r)
  /\ Goto(r, "endBlock")
  /\ UNCHANGED <<statVars, input, contrib, bcast, entered, aborted>>
=============================================================================
