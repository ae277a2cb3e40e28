-------------------------- MODULE SimulationProofs --------------------------
(***************************************************************************)
(* The barriers at the end of EstimatorManager::writeStep, and the         *)
(* collective calls of ModelSampler::tryMove, Measure::run and             *)
(* averageOverClones, for every number of clones, workers, blocks,         *)
(* measurements, estimators and models.                                    *)
(*                                                                         *)
(* MPI matches the calls of a communicator by their order alone.  The      *)
(* second part gives every call a place in the run, the turn or block and  *)
(* the call in it, and finds in each queue what the rank that wrote it has *)
(* made and the one that reads it has not.                                 *)
(*                                                                         *)
(* The third part adds up the accepted moves that the ranks count and      *)
(* those on their way to rank 0.                                           *)
(*                                                                         *)
(* The fourth part follows the measurements: as bags of terms through the  *)
(* sums of the first workers and the queues of the clones to the blocks    *)
(* rank 0 writes.                                                          *)
(***************************************************************************)
EXTENDS Simulation, DataLemmas

(* Where a rank has written its block, and where it has passed the barrier *)
(* of the clones.                                                          *)
Passed == {"endBlock", "done"}
Counting == Passed \cup {"cloneBarrier"}
Ended == Counting \cup {"workerBarrier"}

Before == {"sample", "proposal", "decide", "decision", "newState", "measure",
           "endTurn", "average", "write"}

CloneType ==
  /\ input \in Inputs
  /\ at \in [Rank -> Before \cup Ended]
  /\ block \in [Rank -> Nat]
  /\ entered \in [{"worker", "clone"} -> [Rank -> Nat]]
  /\ \E S : written \in Seq(S)

(* The first worker of a clone has entered the barrier once in each block  *)
(* it has ended, and passed it only after rank 0 had written.              *)
InStep(r) ==
  /\ entered["clone"][r] = IF at[r] \in Counting THEN block[r] ELSE block[r] - 1
  /\ at[r] \in Passed => block[r] <= Len(written)
  /\ block[r] <= Len(written) + 1

Written == Len(written) = IF at[0] \in Ended THEN block[0] ELSE block[0] - 1

BlockInv == /\ CloneType
            /\ \A r \in Rank : isCloneMain(r) => InStep(r)
            /\ Written

(* Rank 0 is the first worker of the first clone.                          *)
LEMMA FirstRank == input \in Inputs => 0 \in Rank /\ isCloneMain(0)
<1> SUFFICES ASSUME input \in Inputs PROVE 0 \in Rank /\ isCloneMain(0)
  OBVIOUS
<1>1. nworker \in Nat \ {0} /\ nclone \in Nat \ {0}
  BY RankAssumption DEF nworker, nclone
<1>2. nworker * nclone \in Nat \ {0}
  BY <1>1
<1>3. 0 % nworker = 0
  BY <1>1
<1> QED
  BY <1>2, <1>3 DEF Rank, isCloneMain, workerID

(* The ranks begin with no barrier entered and nothing written.            *)
LEMMA BlockInit == Init => BlockInv
<1> SUFFICES ASSUME Init PROVE BlockInv
  OBVIOUS
<1>1. /\ input \in Inputs /\ at = [r \in Rank |-> FirstStep]
      /\ block = [r \in Rank |-> 1] /\ written = <<>>
      /\ entered = [c \in {"worker", "clone"} |-> [r \in Rank |-> 0]]
      /\ FirstStep \in {"sample", "measure"}
  BY DEF Init, ClonesInit, StatisticsInit, FirstStep
<1>2. written \in Seq({}) /\ Len(written) = 0
  BY <1>1
<1>3. 0 \in Rank
  BY <1>1, FirstRank
<1>4. CloneType
  <2>1. \E S : written \in Seq(S)
    BY <1>2
  <2>2. at \in [Rank -> Before \cup Ended]
    BY <1>1 DEF Before
  <2>3. block \in [Rank -> Nat] /\ entered \in [{"worker", "clone"} -> [Rank -> Nat]]
    BY <1>1
  <2> QED
    BY <1>1, <2>1, <2>2, <2>3 DEF CloneType
<1>5. \A r \in Rank : InStep(r)
  BY <1>1, <1>2 DEF InStep, Counting, Passed
<1>6. Written
  BY <1>1, <1>2, <1>3 DEF Written, Ended, Counting, Passed
<1> QED
  BY <1>4, <1>5, <1>6 DEF BlockInv

(* All steps but those of the end of a block: a rank that has not ended    *)
(* its block goes to another place before the end.                         *)
Quiet(r) == /\ UNCHANGED <<input, block, entered, written>>
            /\ \/ UNCHANGED at
               \/ /\ at[r] \notin Ended
                  /\ \E where \in Before : at' = [at EXCEPT ![r] = where]

(* A step that passes no barrier and writes nothing keeps the invariant.   *)
LEMMA QuietStep ==
  ASSUME BlockInv, NEW r \in Rank, Quiet(r)
  PROVE  BlockInv'
<1>1. UNCHANGED <<input, block, entered, written>> /\ Rank' = Rank
      /\ \A s : isCloneMain(s)' = isCloneMain(s)
  BY DEF Quiet, Rank, nworker, nclone, isCloneMain, workerID
<1>2. /\ at' \in [Rank -> Before \cup Ended]
      /\ \A s \in Rank : at'[s] = at[s] \/ (at[s] \notin Ended /\ at'[s] \notin Ended)
  BY DEF Quiet, BlockInv, CloneType, Before, Ended, Counting, Passed
<1>3. CloneType'
  BY <1>1, <1>2 DEF BlockInv, CloneType
<1>4. ASSUME NEW s \in Rank, InStep(s)
      PROVE  InStep(s)'
  BY <1>1, <1>2, <1>4 DEF InStep, Ended, Counting
<1>5. Written'
  <2>1. 0 \in Rank
    BY FirstRank DEF BlockInv, CloneType
  <2> QED
    BY <1>1, <1>2, <2>1 DEF BlockInv, Written
<1> QED
  BY <1>1, <1>3, <1>4, <1>5 DEF BlockInv

(* A rank may go anywhere before the barriers.                             *)
LEMMA Going ==
  ASSUME NEW r \in Rank, NEW where, where \in Before, at[r] \notin Ended,
         Goto(r, where), UNCHANGED <<input, block, entered, written>>
  PROVE  Quiet(r)
BY DEF Quiet, Goto

(* The first place of a turn is before the barriers.                       *)
LEMMA Places ==
  FirstStep \in Before /\ Before \cap Ended = {}
BY DEF Before, Ended, Counting, Passed, FirstStep

(* So may it in the loops over the estimators.                             *)
LEMMA ToNextEstimator ==
  ASSUME NEW r \in Rank, NEW where, where \in Before, at[r] \in {"measure", "average"},
         NextEstimator(r, where), UNCHANGED <<input, block, entered, written>>
  PROVE  Quiet(r)
<1>1. at[r] \notin Ended
  BY DEF Ended, Counting, Passed
<1> QED
  BY <1>1, Going DEF NextEstimator, Quiet

(* ModelSampler, the measurements, the averages and the inner Loop.        *)
LEMMA TryMoveQuiet ==
  ASSUME NEW r \in Rank, TryMove(r), UNCHANGED block
  PROVE  Quiet(r)
<1> USE DEF Before, Ended, Counting, Passed
<1>1. ASSUME NEW j, Propose(r, j)
      PROVE  Quiet(r)
  BY <1>1, Going DEF Propose
<1>2. CASE RecvState(r)
  BY <1>2, Going DEF RecvState, statVars
<1>3. CASE RecvProposal(r)
  BY <1>3, Going DEF RecvProposal, statVars
<1>4. ASSUME NEW reject \in BOOLEAN, Decide(r, reject)
      PROVE  Quiet(r)
  BY <1>4, Going DEF Decide
<1>5. CASE RecvDecision(r)
  BY <1>5, Going DEF RecvDecision, statVars
<1>6. CASE RecvNewState(r)
  BY <1>6, Going DEF RecvNewState, statVars
<1> QED
  BY <1>1, <1>2, <1>3, <1>4, <1>5, <1>6 DEF TryMove

(* Measuring passes no barrier.                                            *)
LEMMA MeasureQuiet ==
  ASSUME NEW r \in Rank, UNCHANGED block,
         EvaluateOther(r) \/ EvaluateRoot(r) \/ EvaluateAccRej(r)
  PROVE  Quiet(r)
<1>1. /\ NextEstimator(r, "endTurn") /\ at[r] = "measure"
      /\ UNCHANGED <<input, entered, written>>
  BY DEF EvaluateOther, EvaluateRoot, EvaluateAccRej
<1> QED
  BY <1>1, ToNextEstimator DEF Before

(* Averaging passes no barrier.                                            *)
LEMMA AverageQuiet ==
  ASSUME NEW r \in Rank, UNCHANGED block,
         AverageScalar(r) \/ AverageArray(r) \/ AverageAccRej(r)
  PROVE  Quiet(r)
<1>1. CASE AverageScalar(r)
  <2>1. /\ at[r] = "average" /\ UNCHANGED <<input, entered, written>>
        /\ NextEstimator(r, "write") \/ UNCHANGED at
    BY <1>1 DEF AverageScalar
  <2> QED
    BY <2>1, ToNextEstimator DEF Quiet, Before
<1>2. CASE AverageArray(r) \/ AverageAccRej(r)
  <2>1. /\ at[r] = "average" /\ UNCHANGED <<input, entered, written>>
        /\ NextEstimator(r, "write")
    BY <1>2 DEF AverageArray, AverageAccRej
  <2> QED
    BY <2>1, ToNextEstimator DEF Before
<1> QED
  BY <1>1, <1>2

(* The inner Loop passes no barrier.                                       *)
LEMMA EndTurnQuiet ==
  ASSUME NEW r \in Rank, EndTurn(r)
  PROVE  Quiet(r)
<1>1. /\ UNCHANGED <<input, block, entered, written>> /\ at[r] = "endTurn"
      /\ Goto(r, FirstStep) \/ Goto(r, "average")
  BY DEF EndTurn
<1>2. at[r] \notin Ended
  BY <1>1 DEF Ended, Counting, Passed
<1> QED
  BY <1>1, <1>2, Places, Going DEF Before

-----------------------------------------------------------------------------
(* The end of a block.                                                     *)
LEMMA EndBlockStep ==
  ASSUME BlockInv, NEW r \in Rank, NEW more \in BOOLEAN, EndBlock(r, more)
  PROVE  BlockInv'
<1>1. /\ UNCHANGED <<input, entered, written>> /\ at[r] = "endBlock"
      /\ Rank' = Rank /\ \A s : isCloneMain(s)' = isCloneMain(s)
      /\ \/ block' = [block EXCEPT ![r] = @ + 1] /\ at' = [at EXCEPT ![r] = FirstStep]
         \/ block' = block /\ at' = [at EXCEPT ![r] = "done"]
  BY DEF EndBlock, Goto, statVars, Rank, nworker, nclone, isCloneMain, workerID
<1>2. FirstStep \in Before /\ FirstStep \notin Ended /\ 0 \in Rank
  BY Places, FirstRank DEF BlockInv, CloneType
<1>3. /\ at \in [Rank -> Before \cup Ended] /\ block \in [Rank -> Nat]
      /\ entered \in [{"worker", "clone"} -> [Rank -> Nat]]
      /\ Len(written) \in Nat
  BY LenProperties DEF BlockInv, CloneType
<1>4. CloneType'
  <2>1. at' \in [Rank -> Before \cup Ended]
    BY <1>1, <1>2, <1>3 DEF Ended, Counting, Passed
  <2>2. block' \in [Rank -> Nat]
    BY <1>1, <1>3
  <2>3. \E S : written' \in Seq(S)
    BY <1>1 DEF BlockInv, CloneType
  <2> QED
    BY <1>1, <1>3, <2>1, <2>2, <2>3 DEF BlockInv, CloneType
<1>5. ASSUME NEW s \in Rank, isCloneMain(s)
      PROVE  InStep(s)'
  <2>1. InStep(s)
    BY <1>5 DEF BlockInv
  <2>2. CASE s # r
    <3>1. at'[s] = at[s] /\ block'[s] = block[s]
      BY <1>1, <1>3, <2>2
    <3> QED
      BY <1>1, <2>1, <3>1 DEF InStep
  <2>3. CASE s = r
    <3>1. entered["clone"][r] = block[r] /\ block[r] <= Len(written)
      BY <1>1, <2>1, <2>3 DEF InStep, Counting, Passed
    <3>2. block[r] \in Nat /\ block'[r] \in Nat
      BY <1>1, <1>3
    <3>3. \/ block'[r] = block[r] + 1 /\ at'[r] = FirstStep
          \/ block'[r] = block[r] /\ at'[r] = "done"
      BY <1>1, <1>3
    <3> QED
      BY <1>1, <1>2, <1>3, <2>3, <3>1, <3>2, <3>3 DEF InStep, Ended, Counting, Passed
  <2> QED
    BY <2>2, <2>3
<1>6. Written'
  <2>1. CASE r # 0
    <3>1. at'[0] = at[0] /\ block'[0] = block[0]
      BY <1>1, <1>2, <1>3, <2>1
    <3> QED
      BY <1>1, <3>1 DEF BlockInv, Written
  <2>2. CASE r = 0
    <3>1. Len(written) = block[0]
      BY <1>1, <2>2 DEF BlockInv, Written, Ended, Counting, Passed
    <3>2. \/ block'[0] = block[0] + 1 /\ at'[0] = FirstStep
          \/ block'[0] = block[0] /\ at'[0] = "done"
      BY <1>1, <1>3, <2>2
    <3> QED
      BY <1>1, <1>2, <1>3, <3>1, <3>2 DEF Written, Ended, Counting, Passed
  <2> QED
    BY <2>1, <2>2
<1> QED
  BY <1>1, <1>4, <1>5, <1>6 DEF BlockInv

(* A rank that is not the one that moves on remains in step.               *)
LEMMA OthersInStep ==
  ASSUME BlockInv, NEW s \in Rank, isCloneMain(s), at'[s] = at[s],
         block'[s] = block[s], entered'["clone"][s] = entered["clone"][s],
         Len(written') \in Nat, Len(written') >= Len(written)
  PROVE  InStep(s)'
<1>1. InStep(s)
  BY DEF BlockInv, CloneType
<1>2. Len(written) \in Nat /\ block[s] \in Nat
  BY LenProperties DEF BlockInv, CloneType
<1> QED
  BY <1>1, <1>2 DEF InStep

(* Writing and entering the first barrier.                                 *)
LEMMA WriteStepStep ==
  ASSUME BlockInv, NEW r \in Rank, WriteStep(r), UNCHANGED block
  PROVE  BlockInv'
<1>1. /\ UNCHANGED <<input, block>> /\ at[r] = "write"
      /\ at' = [at EXCEPT ![r] = "workerBarrier"]
      /\ entered' = [entered EXCEPT !["worker"][r] = @ + 1]
      /\ Rank' = Rank /\ \A s : isCloneMain(s)' = isCloneMain(s)
      /\ r # 0 => written' = written
      /\ r = 0 => \E x : written' = Append(written, x)
  BY DEF WriteStep, Goto, Enter, isMain, Rank, nworker, nclone, isCloneMain, workerID
<1>2. /\ at \in [Rank -> Before \cup Ended] /\ block \in [Rank -> Nat]
      /\ entered \in [{"worker", "clone"} -> [Rank -> Nat]]
      /\ 0 \in Rank
  BY FirstRank DEF BlockInv, CloneType
<1>3. PICK S : written \in Seq(S)
  BY DEF BlockInv, CloneType
<1>4. /\ \E T : written' \in Seq(T)
      /\ Len(written) \in Nat
      /\ Len(written') = IF r = 0 THEN Len(written) + 1 ELSE Len(written)
  <2>1. CASE r = 0
    <3>1. PICK x : written' = Append(written, x)
      BY <1>1, <2>1
    <3>2. written \in Seq(S \cup {x})
      BY <1>3
    <3>3. written' \in Seq(S \cup {x}) /\ Len(written') = Len(written) + 1
          /\ Len(written) \in Nat
      BY <3>1, <3>2
    <3> QED
      BY <2>1, <3>3
  <2>2. CASE r # 0
    BY <1>1, <1>3, <2>2
  <2> QED
    BY <2>1, <2>2
<1>5. entered' \in [{"worker", "clone"} -> [Rank -> Nat]]
      /\ entered'["clone"] = entered["clone"]
  BY <1>1, <1>2
<1>6. at' \in [Rank -> Before \cup Ended] /\ at'[r] = "workerBarrier"
  BY <1>1, <1>2 DEF Ended
<1>7. CloneType'
  BY <1>1, <1>2, <1>4, <1>5, <1>6 DEF BlockInv, CloneType
<1>8. ASSUME NEW s \in Rank, isCloneMain(s)
      PROVE  InStep(s)'
  <2>1. CASE s # r
    <3>1. at'[s] = at[s] /\ block'[s] = block[s]
          /\ entered'["clone"][s] = entered["clone"][s]
      BY <1>1, <1>2, <1>5, <2>1
    <3>2. Len(written') \in Nat /\ Len(written') >= Len(written)
      BY <1>4
    <3> QED
      BY <1>8, <3>1, <3>2, OthersInStep
  <2>2. CASE s = r
    <3>1. InStep(r) /\ block[r] \in Nat
      BY <1>2, <1>8, <2>2 DEF BlockInv
    <3>2. entered["clone"][r] = block[r] - 1 /\ block[r] <= Len(written) + 1
      BY <1>1, <3>1 DEF InStep, Counting, Passed
    <3> QED
      BY <1>1, <1>4, <1>5, <1>6, <2>2, <3>1, <3>2 DEF InStep, Counting, Passed
  <2> QED
    BY <2>1, <2>2
<1>9. Written'
  <2>1. CASE r # 0
    <3>1. at'[0] = at[0]
      BY <1>1, <1>2, <2>1
    <3> QED
      BY <1>1, <1>4, <2>1, <3>1 DEF BlockInv, Written
  <2>2. CASE r = 0
    <3>1. Len(written) = block[0] - 1 /\ block[0] \in Nat
      BY <1>1, <1>2, <2>2 DEF BlockInv, Written, Ended, Counting, Passed
    <3> QED
      BY <1>1, <1>4, <1>6, <2>2, <3>1 DEF Written, Ended
  <2> QED
    BY <2>1, <2>2
<1> QED
  BY <1>1, <1>7, <1>8, <1>9 DEF BlockInv

(* workerComm->Barrier(), after which a first worker enters the other.     *)
LEMMA LeaveWorkerBarrierStep ==
  ASSUME BlockInv, NEW r \in Rank, LeaveWorkerBarrier(r), UNCHANGED block
  PROVE  BlockInv'
<1>1. /\ UNCHANGED <<input, block, written>> /\ at[r] = "workerBarrier"
      /\ Rank' = Rank /\ \A s : isCloneMain(s)' = isCloneMain(s)
      /\ IF isCloneMain(r)
         THEN /\ entered' = [entered EXCEPT !["clone"][r] = @ + 1]
              /\ at' = [at EXCEPT ![r] = "cloneBarrier"]
         ELSE entered' = entered /\ at' = [at EXCEPT ![r] = "endBlock"]
  BY DEF LeaveWorkerBarrier, ThenCloneBarrier, Goto, Enter, statVars, Rank, nworker,
         nclone, isCloneMain, workerID
<1>2. /\ at \in [Rank -> Before \cup Ended] /\ block \in [Rank -> Nat]
      /\ entered \in [{"worker", "clone"} -> [Rank -> Nat]]
      /\ 0 \in Rank /\ isCloneMain(0) /\ Len(written) \in Nat
  BY FirstRank, LenProperties DEF BlockInv, CloneType
<1>3. /\ entered' \in [{"worker", "clone"} -> [Rank -> Nat]]
      /\ at' \in [Rank -> Before \cup Ended]
      /\ \A s \in Rank : s # r => /\ entered'["clone"][s] = entered["clone"][s]
                                  /\ at'[s] = at[s]
      /\ isCloneMain(r) => /\ entered'["clone"][r] = entered["clone"][r] + 1
                           /\ at'[r] = "cloneBarrier"
  <2>1. CASE isCloneMain(r)
    <3> DEFINE row == [entered["clone"] EXCEPT ![r] = @ + 1]
    <3>1. row \in [Rank -> Nat] /\ row[r] = entered["clone"][r] + 1
          /\ \A s \in Rank : s # r => row[s] = entered["clone"][s]
      BY <1>2
    <3>2. entered' = [entered EXCEPT !["clone"] = row]
      BY <1>1, <2>1
    <3> HIDE DEF row
    <3>3. entered' \in [{"worker", "clone"} -> [Rank -> Nat]]
          /\ entered'["clone"] = row
      BY <1>2, <3>1, <3>2
    <3> QED
      BY <1>1, <1>2, <2>1, <3>1, <3>3 DEF Ended, Counting
  <2>2. CASE ~isCloneMain(r)
    BY <1>1, <1>2, <2>2 DEF Ended, Counting, Passed
  <2> QED
    BY <2>1, <2>2
<1>4. CloneType'
  BY <1>1, <1>2, <1>3 DEF BlockInv, CloneType
<1>5. ASSUME NEW s \in Rank, isCloneMain(s)
      PROVE  InStep(s)'
  <2>1. CASE s # r
    <3>1. at'[s] = at[s] /\ block'[s] = block[s] /\ written' = written
          /\ entered'["clone"][s] = entered["clone"][s]
      BY <1>1, <1>3, <2>1
    <3> QED
      BY <1>2, <1>5, <3>1, OthersInStep
  <2>2. CASE s = r
    <3>1. InStep(r) /\ block[r] \in Nat
      BY <1>2, <1>5, <2>2 DEF BlockInv
    <3>2. entered["clone"][r] = block[r] - 1 /\ block[r] <= Len(written) + 1
      BY <1>1, <3>1 DEF InStep, Counting, Passed
    <3> QED
      BY <1>1, <1>3, <1>5, <2>2, <3>1, <3>2 DEF InStep, Counting, Passed
  <2> QED
    BY <2>1, <2>2
<1>6. Written'
  <2>1. at'[0] \in Ended <=> at[0] \in Ended
    <3>1. CASE r = 0
      BY <1>1, <1>2, <1>3, <3>1 DEF Ended, Counting
    <3>2. CASE r # 0
      BY <1>2, <1>3, <3>2
    <3> QED
      BY <3>1, <3>2
  <2> QED
    BY <1>1, <2>1 DEF BlockInv, Written
<1> QED
  BY <1>1, <1>4, <1>5, <1>6 DEF BlockInv

(* cloneComm->Barrier(): rank 0 has entered it as often as this rank, and  *)
(* had written each time.                                                  *)
LEMMA LeaveCloneBarrierStep ==
  ASSUME BlockInv, NEW r \in Rank, LeaveCloneBarrier(r), UNCHANGED block
  PROVE  BlockInv'
<1>1. /\ UNCHANGED <<input, block, entered, written>> /\ at[r] = "cloneBarrier"
      /\ Rank' = Rank /\ \A s : isCloneMain(s)' = isCloneMain(s)
      /\ at' = [at EXCEPT ![r] = "endBlock"]
  BY DEF LeaveCloneBarrier, Goto, statVars, Rank, nworker, nclone, isCloneMain, workerID
<1>2. /\ at \in [Rank -> Before \cup Ended] /\ block \in [Rank -> Nat]
      /\ 0 \in Rank /\ isCloneMain(0) /\ Len(written) \in Nat
  BY FirstRank, LenProperties DEF BlockInv, CloneType
<1>3. /\ at' \in [Rank -> Before \cup Ended] /\ at'[r] = "endBlock"
      /\ \A s \in Rank : s # r => at'[s] = at[s]
  BY <1>1, <1>2 DEF Ended, Counting, Passed
<1>4. CloneType'
  BY <1>1, <1>3 DEF BlockInv, CloneType
<1>5. entered["clone"][0] >= entered["clone"][r]
  <2>1. 0 \in Members("clone", r)
    BY <1>2 DEF Members
  <2> QED
    BY <2>1 DEF LeaveCloneBarrier, BarrierOpens
<1>6. entered["clone"][0] <= Len(written)
  <2>1. InStep(0) /\ block[0] \in Nat
    BY <1>2 DEF BlockInv
  <2> QED
    BY <1>2, <2>1 DEF BlockInv, InStep, Written, Ended
<1>7. ASSUME NEW s \in Rank, isCloneMain(s)
      PROVE  InStep(s)'
  <2>1. CASE s # r
    <3>1. at'[s] = at[s] /\ block'[s] = block[s] /\ written' = written
          /\ entered'["clone"][s] = entered["clone"][s]
      BY <1>1, <1>3, <2>1
    <3> QED
      BY <1>2, <1>7, <3>1, OthersInStep
  <2>2. CASE s = r
    <3>1. InStep(r) /\ block[r] \in Nat
      BY <1>2, <1>7, <2>2 DEF BlockInv
    <3>2. entered["clone"][r] = block[r]
      BY <1>1, <3>1 DEF InStep, Counting
    <3>3. block[r] <= Len(written)
      BY <1>2, <1>5, <1>6, <3>1, <3>2 DEF BlockInv, CloneType
    <3> QED
      BY <1>1, <1>2, <1>3, <2>2, <3>1, <3>2, <3>3 DEF InStep, Counting, Passed
  <2> QED
    BY <2>1, <2>2
<1>8. Written'
  <2>1. at'[0] \in Ended <=> at[0] \in Ended
    BY <1>1, <1>2, <1>3 DEF Ended, Counting, Passed
  <2> QED
    BY <1>1, <2>1 DEF BlockInv, Written
<1> QED
  BY <1>1, <1>4, <1>7, <1>8 DEF BlockInv

-----------------------------------------------------------------------------
(* A stutter keeps the invariant.                                          *)
LEMMA BlockStutter == BlockInv /\ UNCHANGED vars => BlockInv'
<1> SUFFICES ASSUME BlockInv, UNCHANGED vars PROVE BlockInv'
  OBVIOUS
<1>1. UNCHANGED <<input, at, block, entered, written>> /\ Rank' = Rank
      /\ \A s : isCloneMain(s)' = isCloneMain(s)
  BY DEF vars, cloneVars, statVars, loopVars, Rank, nworker, nclone, isCloneMain, workerID
<1> QED
  BY <1>1 DEF BlockInv, CloneType, InStep, Written

(* Every step keeps the invariant.                                         *)
LEMMA BlockNext == BlockInv /\ [Next]_vars => BlockInv'
<1> SUFFICES ASSUME BlockInv, NEW r \in Rank, Step(r) PROVE BlockInv'
  BY BlockStutter DEF Next
<1>1. CASE EndTurn(r)
  BY <1>1, EndTurnQuiet, QuietStep
<1>2. ASSUME NEW more \in BOOLEAN, EndBlock(r, more)
      PROVE  BlockInv'
  BY <1>2, EndBlockStep
<1>3. CASE TryMove(r) /\ UNCHANGED <<block, turn, found>>
  BY <1>3, TryMoveQuiet, QuietStep
<1>4. CASE (EvaluateOther(r) \/ EvaluateRoot(r) \/ EvaluateAccRej(r)) /\ UNCHANGED loopVars
  BY <1>4, MeasureQuiet, QuietStep DEF loopVars
<1>5. CASE (AverageScalar(r) \/ AverageArray(r) \/ AverageAccRej(r)) /\ UNCHANGED loopVars
  BY <1>5, AverageQuiet, QuietStep DEF loopVars
<1>6. CASE WriteStep(r) /\ UNCHANGED loopVars
  BY <1>6, WriteStepStep DEF loopVars
<1>7. CASE LeaveWorkerBarrier(r) /\ UNCHANGED loopVars
  BY <1>7, LeaveWorkerBarrierStep DEF loopVars
<1>8. CASE LeaveCloneBarrier(r) /\ UNCHANGED loopVars
  BY <1>8, LeaveCloneBarrierStep DEF loopVars
<1> QED
  BY <1>1, <1>2, <1>3, <1>4, <1>5, <1>6, <1>7, <1>8 DEF Step

(* "Avoid a race condition" (EstimatorManager.cc): no clone runs into a    *)
(* block beyond the one rank 0 has yet to write, with or without clocks.   *)
THEOREM ClonesKeepStep == Spec => []NoCloneAhead
<1>1. BlockInv => NoCloneAhead
  BY DEF BlockInv, InStep, NoCloneAhead
<1> QED
  BY <1>1, BlockInit, BlockNext, PTL DEF Spec

-----------------------------------------------------------------------------
(* Places in the run of a rank: a turn (or a block) and a call in it.      *)
Place == Nat \X Nat
Less(p, q) == p[1] < q[1] \/ (p[1] = q[1] /\ p[2] < q[2])

(* The places of P from lo on, before hi.                                  *)
Span(P, lo, hi) == {p \in P : ~Less(p, lo) /\ Less(p, hi)}

(* The queue q holds what K says of the places in D, in their order, as    *)
(* far as the fields F go and K says anything of them.                     *)
Agree(F, x, y) == \A f \in F \cap DOMAIN y : x[f] = y[f]
Lists(F, q, K, D) ==
  /\ \E T : q \in Seq(T)
  /\ \E A \in Seq(D) : /\ Len(A) = Len(q)
                       /\ \A i, j \in 1 .. Len(q) : i < j => Less(A[i], A[j])
                       /\ \A d \in D : \E i \in 1 .. Len(q) : A[i] = d
                       /\ \A i \in 1 .. Len(q) : Agree(F, q[i], K[A[i]])

(* Between a reader at lo and a writer at hi: q holds what was written and *)
(* not read, and the reader has not overtaken the writer.                  *)
Sync(F, q, P, K, lo, hi) == /\ P \subseteq Place /\ lo \in Place /\ hi \in Place
                            /\ Lists(F, q, K, Span(P, lo, hi))
                            /\ Span(P, hi, lo) = {}

(* From a to b there is no place of P, or a only.                          *)
Nothing(P, a, b) == b \in Place /\ ~Less(b, a) /\ Span(P, a, b) = {}
Only(P, a, b) == b \in Place /\ Less(a, b) /\ Span(P, a, b) = {a}

(* The places are in one order,                                            *)
LEMMA LessOrder ==
  ASSUME NEW p \in Place, NEW q \in Place
  PROVE  /\ ~Less(p, p)
         /\ Less(p, q) => ~Less(q, p)
         /\ ~Less(p, q) /\ ~Less(q, p) => p = q
         /\ \A w \in Place : /\ Less(p, q) /\ Less(q, w) => Less(p, w)
                             /\ Less(p, w) => Less(p, q) \/ Less(q, w)
<1>1. /\ p[1] \in Nat /\ p[2] \in Nat /\ q[1] \in Nat /\ q[2] \in Nat
      /\ p = <<p[1], p[2]>> /\ q = <<q[1], q[2]>>
  BY DEF Place
<1>2. \A w \in Place : w[1] \in Nat /\ w[2] \in Nat
  BY DEF Place
<1>3. ~Less(p, q) /\ ~Less(q, p) => p = q
  BY <1>1 DEF Less
<1> QED
  BY <1>1, <1>2, <1>3 DEF Less

-----------------------------------------------------------------------------
(* An empty queue holds nothing and nothing else does,                     *)
LEMMA ListsNone ==
  ASSUME NEW F, NEW K, NEW q
  PROVE  Lists(F, q, K, {}) <=> q = <<>>
<1>1. ASSUME q = <<>>
      PROVE  Lists(F, q, K, {})
  <2>1. q \in Seq({}) /\ Len(q) = 0
    BY <1>1
  <2>2. (\E T : q \in Seq(T)) /\ 1 .. Len(q) = {}
    BY <2>1
  <2> QED
    BY <2>1, <2>2 DEF Lists
<1>2. ASSUME Lists(F, q, K, {})
      PROVE  q = <<>>
  <2>1. PICK T : q \in Seq(T)
    BY <1>2 DEF Lists
  <2>3. PICK A \in Seq({}) : Len(A) = Len(q)
    BY <1>2 DEF Lists
  <2>2. Len(A) = 0
    <3>1. Len(A) \in Nat /\ \A i \in 1 .. Len(A) : A[i] \in {}
      BY <2>3
    <3>2. Len(A) > 0 => 1 \in 1 .. Len(A)
      BY <3>1
    <3> QED
      BY <3>1, <3>2
  <2> QED
    BY <2>1, <2>2, <2>3, EmptySeq
<1> QED
  BY <1>1, <1>2

(* a message for a later place comes to the end of it,                     *)
LEMMA ListsAppend ==
  ASSUME NEW F, NEW K, NEW D \in SUBSET Place, NEW q, NEW p \in Place, NEW x,
         Lists(F, q, K, D), Agree(F, x, K[p]), \A d \in D : Less(d, p)
  PROVE  Lists(F, Append(q, x), K, D \cup {p})
<1>0. PICK T : q \in Seq(T)
  BY DEF Lists
<1>1. PICK A \in Seq(D) :
                  /\ Len(A) = Len(q)
                  /\ \A i, j \in 1 .. Len(q) : i < j => Less(A[i], A[j])
                  /\ \A d \in D : \E i \in 1 .. Len(q) : A[i] = d
                  /\ \A i \in 1 .. Len(q) : Agree(F, q[i], K[A[i]])
  BY DEF Lists
<1> DEFINE n == Len(q)
           B == Append(A, p)
           z == Append(q, x)
<1>2. n \in Nat /\ q \in Seq(T \cup {x}) /\ A \in Seq(D \cup {p})
  BY <1>0, <1>1
<1>3. /\ z \in Seq(T \cup {x}) /\ B \in Seq(D \cup {p}) /\ Len(z) = n + 1 /\ Len(B) = n + 1
      /\ z[n + 1] = x /\ B[n + 1] = p
      /\ \A i \in 1 .. n : z[i] = q[i] /\ B[i] = A[i] /\ A[i] \in D
  BY <1>1, <1>2
<1> HIDE DEF n, B, z
<1>4. \A i \in 1 .. n + 1 : i \in 1 .. n \/ i = n + 1
  BY <1>2
<1>5. ASSUME NEW i \in 1 .. n + 1, NEW j \in 1 .. n + 1, i < j
      PROVE  Less(B[i], B[j])
  <2>1. i \in 1 .. n
    BY <1>2, <1>5
  <2>2. CASE j = n + 1
    BY <1>3, <2>1, <2>2
  <2>3. CASE j \in 1 .. n
    BY <1>1, <1>3, <1>5, <2>1, <2>3 DEF n
  <2> QED
    BY <1>4, <2>2, <2>3
<1>6. ASSUME NEW d \in D \cup {p}
      PROVE  \E i \in 1 .. n + 1 : B[i] = d
  <2>1. CASE d = p
    <3>1. B[n + 1] = d
      BY <1>3, <2>1
    <3>2. n + 1 \in 1 .. n + 1
      BY <1>2
    <3> QED
      BY <3>1, <3>2
  <2>2. CASE d \in D
    <3>1. PICK i \in 1 .. n : A[i] = d
      BY <1>1, <2>2 DEF n
    <3>2. B[i] = d
      BY <1>3, <3>1
    <3>3. i \in 1 .. n + 1
      BY <1>2, <3>1
    <3> QED
      BY <3>2, <3>3
  <2> QED
    BY <2>1, <2>2
<1>7. \A i \in 1 .. n + 1 : Agree(F, z[i], K[B[i]])
  BY <1>1, <1>3, <1>4 DEF n
<1>8. Lists(F, z, K, D \cup {p})
  <2>1. \E U : z \in Seq(U)
    BY <1>3
  <2>2. \A i, j \in 1 .. Len(z) : i < j => Less(B[i], B[j])
    BY <1>3, <1>5
  <2>3. \A d \in D \cup {p} : \E i \in 1 .. Len(z) : B[i] = d
    BY <1>3, <1>6
  <2>4. \A i \in 1 .. Len(z) : Agree(F, z[i], K[B[i]])
    BY <1>3, <1>7
  <2>5. B \in Seq(D \cup {p}) /\ Len(B) = Len(z)
    BY <1>3
  <2> QED
    BY <2>1, <2>2, <2>3, <2>4, <2>5 DEF Lists
<1> QED
  BY <1>8 DEF z

(* the first one is for the first place,                                   *)
LEMMA ListsTail ==
  ASSUME NEW F, NEW K, NEW D \in SUBSET Place, NEW q, NEW p \in D,
         Lists(F, q, K, D), \A d \in D : ~Less(d, p)
  PROVE  q # <<>> /\ Agree(F, Head(q), K[p]) /\ Lists(F, Tail(q), K, D \ {p})
<1>0. PICK T : q \in Seq(T)
  BY DEF Lists
<1>1. PICK A \in Seq(D) :
                  /\ Len(A) = Len(q)
                  /\ \A i, j \in 1 .. Len(q) : i < j => Less(A[i], A[j])
                  /\ \A d \in D : \E i \in 1 .. Len(q) : A[i] = d
                  /\ \A i \in 1 .. Len(q) : Agree(F, q[i], K[A[i]])
  BY DEF Lists
<1> DEFINE n == Len(q)
           B == Tail(A)
           z == Tail(q)
<1>2. PICK k \in 1 .. n : A[k] = p
  BY <1>1
<1>3. n \in Nat /\ n >= 1 /\ 1 \in 1 .. n /\ \A i \in 1 .. n : A[i] \in D
  BY SMTT(30), <1>0, <1>1, <1>2
<1>4. k = 1
  <2>1. CASE k # 1
    <3>1. Less(A[1], A[k]) /\ A[1] \in D
      BY SMTT(30), <1>1, <1>3, <1>2, <2>1
    <3> QED
      BY <1>2, <3>1
  <2> QED
    BY <2>1
<1>5. /\ q # <<>> /\ A # <<>> /\ Head(q) = q[1]
      /\ z \in Seq(T) /\ B \in Seq(D) /\ Len(z) = n - 1 /\ Len(B) = n - 1
      /\ \A i \in 1 .. n - 1 : z[i] = q[i + 1] /\ B[i] = A[i + 1]
  BY <1>0, <1>1, <1>3
<1> HIDE DEF n, B, z
<1>6. \A i \in 1 .. n - 1 : i + 1 \in 1 .. n /\ 1 < i + 1
  BY <1>3
<1>7. \A i \in 1 .. n - 1 : B[i] \in D \ {p}
  <2> SUFFICES ASSUME NEW i \in 1 .. n - 1 PROVE B[i] \in D \ {p}
    OBVIOUS
  <2>1. Less(A[1], A[i + 1]) /\ A[i + 1] \in D
    BY <1>1, <1>3, <1>6 DEF n
  <2>2. ~Less(p, p)
    BY LessOrder
  <2> QED
    BY <1>2, <1>4, <1>5, <2>1, <2>2
<1>8. B \in Seq(D \ {p})
  BY <1>5, <1>7
<1>9. ASSUME NEW i \in 1 .. n - 1, NEW j \in 1 .. n - 1, i < j
      PROVE  Less(B[i], B[j])
  <2>1. i + 1 < j + 1
    BY <1>9
  <2> QED
    BY <1>1, <1>5, <1>6, <2>1 DEF n
<1>10. ASSUME NEW d \in D \ {p}
       PROVE  \E i \in 1 .. n - 1 : B[i] = d
  <2>1. PICK j \in 1 .. n : A[j] = d
    BY <1>1 DEF n
  <2>2. j # 1
    BY <1>2, <1>4, <2>1
  <2>3. j - 1 \in 1 .. n - 1 /\ (j - 1) + 1 = j
    BY <1>3, <2>2
  <2> QED
    BY <1>5, <2>1, <2>3
<1>11. \A i \in 1 .. n - 1 : Agree(F, z[i], K[B[i]])
  BY <1>1, <1>5, <1>6 DEF n
<1>12. Lists(F, z, K, D \ {p})
  <2>1. \E U : z \in Seq(U)
    BY <1>5
  <2>2. \A i, j \in 1 .. Len(z) : i < j => Less(B[i], B[j])
    BY <1>5, <1>9
  <2>3. \A d \in D \ {p} : \E i \in 1 .. Len(z) : B[i] = d
    BY <1>5, <1>10
  <2>4. \A i \in 1 .. Len(z) : Agree(F, z[i], K[B[i]])
    BY <1>5, <1>11
  <2>5. Len(B) = Len(z)
    BY <1>5
  <2> QED
    BY <1>8, <2>1, <2>2, <2>3, <2>4, <2>5 DEF Lists
<1>13. Agree(F, Head(q), K[p])
  <2>1. Agree(F, q[1], K[A[1]])
    BY <1>1, <1>3
  <2> QED
    BY <1>2, <1>4, <1>5, <2>1
<1> QED
  BY <1>5, <1>12, <1>13 DEF z

(* and only what is said of its places matters.                            *)
LEMMA ListsAgree ==
  ASSUME NEW F, NEW K, NEW L, NEW D, NEW q, Lists(F, q, K, D),
         \A d \in D : K[d] = L[d]
  PROVE  Lists(F, q, L, D)
<1>0. PICK T : q \in Seq(T)
  BY DEF Lists
<1>1. PICK A \in Seq(D) :
                  /\ Len(A) = Len(q)
                  /\ \A i, j \in 1 .. Len(q) : i < j => Less(A[i], A[j])
                  /\ \A d \in D : \E i \in 1 .. Len(q) : A[i] = d
                  /\ \A i \in 1 .. Len(q) : Agree(F, q[i], K[A[i]])
  BY DEF Lists
<1>2. \A i \in 1 .. Len(q) : A[i] \in D
  BY <1>1
<1>3. ASSUME NEW i \in 1 .. Len(q)
      PROVE  Agree(F, q[i], L[A[i]])
  <2>1. Agree(F, q[i], K[A[i]]) /\ K[A[i]] = L[A[i]]
    BY <1>1, <1>2
  <2> QED
    BY <2>1
<1> QED
  BY <1>0, <1>1, <1>3 DEF Lists

-----------------------------------------------------------------------------
(* A reader has not gone past a writer who is about to write.              *)
LEMMA SyncPlace ==
  ASSUME NEW F, NEW q, NEW P, NEW K, NEW lo, NEW hi, Sync(F, q, P, K, lo, hi), hi \in P
  PROVE  ~Less(hi, lo)
BY LessOrder DEF Sync, Span

(* The writer may pass places without a call,                              *)
LEMMA SyncWriterIdle ==
  ASSUME NEW F, NEW q, NEW P, NEW K, NEW lo, NEW hi, NEW h,
         Sync(F, q, P, K, lo, hi), Nothing(P, hi, h)
  PROVE  Sync(F, q, P, K, lo, h)
<1>1. /\ P \subseteq Place /\ lo \in Place /\ hi \in Place /\ h \in Place
      /\ ~Less(h, hi)
  BY DEF Sync, Nothing
<1>2. Span(P, lo, h) = Span(P, lo, hi)
  BY <1>1, LessOrder DEF Sync, Nothing, Span
<1>3. Span(P, h, lo) = {}
  BY <1>1, LessOrder DEF Sync, Span
<1> QED
  BY <1>1, <1>2, <1>3 DEF Sync

(* and so may the reader;                                                  *)
LEMMA SyncReaderIdle ==
  ASSUME NEW F, NEW q, NEW P, NEW K, NEW lo, NEW hi, NEW l,
         Sync(F, q, P, K, lo, hi), Nothing(P, lo, l)
  PROVE  Sync(F, q, P, K, l, hi)
<1>1. /\ P \subseteq Place /\ lo \in Place /\ hi \in Place /\ l \in Place
      /\ ~Less(l, lo)
  BY DEF Sync, Nothing
<1>2. Span(P, l, hi) = Span(P, lo, hi)
  BY <1>1, LessOrder DEF Sync, Nothing, Span
<1>3. Span(P, hi, l) = {}
  BY <1>1, LessOrder DEF Sync, Nothing, Span
<1> QED
  BY <1>1, <1>2, <1>3 DEF Sync

(* a writer writes what its place says,                                    *)
LEMMA SyncWrite ==
  ASSUME NEW F, NEW q, NEW P, NEW K, NEW lo, NEW hi, NEW h, NEW x,
         Sync(F, q, P, K, lo, hi), Only(P, hi, h), Agree(F, x, K[hi])
  PROVE  Sync(F, Append(q, x), P, K, lo, h)
<1>1. /\ P \subseteq Place /\ lo \in Place /\ hi \in Place /\ h \in Place
      /\ Less(hi, h) /\ hi \in P
  BY DEF Sync, Only, Span
<1>2. ~Less(hi, lo)
  BY <1>1, SyncPlace
<1>3. Span(P, lo, h) = Span(P, lo, hi) \cup {hi}
  <2>1. \A p \in P : Less(p, h) /\ ~Less(p, hi) => p = hi
    BY DEF Only, Span
  <2> QED
    BY <1>1, <1>2, <2>1, LessOrder DEF Span
<1>4. Span(P, h, lo) = {}
  BY <1>1, LessOrder DEF Sync, Span
<1>5. Lists(F, Append(q, x), K, Span(P, lo, hi) \cup {hi})
  <2>1. \A d \in Span(P, lo, hi) : Less(d, hi)
    BY DEF Span
  <2>2. Span(P, lo, hi) \in SUBSET Place
    BY <1>1 DEF Span
  <2> QED
    BY <1>1, <2>1, <2>2, ListsAppend DEF Sync
<1> QED
  BY <1>1, <1>3, <1>4, <1>5 DEF Sync

(* and a reader reads what its place says.                                 *)
LEMMA SyncRead ==
  ASSUME NEW F, NEW q, NEW P, NEW K, NEW lo, NEW hi, NEW l,
         Sync(F, q, P, K, lo, hi), Only(P, lo, l), q # <<>>
  PROVE  Agree(F, Head(q), K[lo]) /\ Sync(F, Tail(q), P, K, l, hi)
<1>1. /\ P \subseteq Place /\ lo \in Place /\ hi \in Place /\ l \in Place
      /\ Less(lo, l) /\ lo \in P
  BY DEF Sync, Only, Span
<1>2. Span(P, lo, hi) # {}
  BY ListsNone DEF Sync
<1>3. lo \in Span(P, lo, hi) /\ Less(lo, hi)
  <2>1. PICK p \in P : ~Less(p, lo) /\ Less(p, hi)
    BY <1>2 DEF Span
  <2>2. Less(lo, hi)
    BY <1>1, <2>1, LessOrder
  <2> QED
    BY <1>1, <2>2, LessOrder DEF Span
<1>4. \A d \in Span(P, lo, hi) : ~Less(d, lo)
  BY DEF Span
<1>5. Span(P, lo, hi) \in SUBSET Place
  BY <1>1 DEF Span
<1>6. Agree(F, Head(q), K[lo]) /\ Lists(F, Tail(q), K, Span(P, lo, hi) \ {lo})
  <2>1. Lists(F, q, K, Span(P, lo, hi))
    BY DEF Sync
  <2> HIDE DEF Lists
  <2> QED
    BY <1>3, <1>4, <1>5, <2>1, ListsTail
<1>7. \A p \in P : Less(p, l) /\ ~Less(p, lo) => p = lo
  BY DEF Only, Span
<1>8. Span(P, l, hi) = Span(P, lo, hi) \ {lo}
  <2>1. ASSUME NEW p \in Span(P, l, hi)
        PROVE  p \in Span(P, lo, hi) \ {lo}
    BY <1>1, LessOrder DEF Span
  <2>2. ASSUME NEW p \in Span(P, lo, hi) \ {lo}
        PROVE  p \in Span(P, l, hi)
    BY <1>7 DEF Span
  <2> QED
    BY <2>1, <2>2
<1>9. Span(P, hi, l) = {}
  BY <1>1, <1>3, <1>7, LessOrder DEF Span
<1> QED
  BY <1>1, <1>6, <1>8, <1>9 DEF Sync

(* What changes from the place b on is not noticed before.                 *)
LEMMA SyncAgree ==
  ASSUME NEW F, NEW q, NEW P, NEW K, NEW lo, NEW hi, NEW Q, NEW L, NEW b \in Place,
         Sync(F, q, P, K, lo, hi), Q \subseteq Place, ~Less(b, lo), ~Less(b, hi),
         \A p \in Place : Less(p, b) => /\ p \in P <=> p \in Q
                                        /\ p \in P => K[p] = L[p]
  PROVE  Sync(F, q, Q, L, lo, hi)
<1>1. P \subseteq Place /\ lo \in Place /\ hi \in Place
  BY DEF Sync
<1>2. \A p \in Place : Less(p, lo) \/ Less(p, hi) => Less(p, b)
  BY <1>1, LessOrder
<1>3. Span(Q, lo, hi) = Span(P, lo, hi) /\ Span(Q, hi, lo) = Span(P, hi, lo)
  BY <1>1, <1>2 DEF Span
<1>4. \A d \in Span(P, lo, hi) : K[d] = L[d]
  BY <1>1, <1>2 DEF Span
<1>5. Lists(F, q, L, Span(P, lo, hi))
  BY <1>4, ListsAgree DEF Sync
<1> QED
  BY <1>1, <1>3, <1>5 DEF Sync

-----------------------------------------------------------------------------
(* Who stays passes no call;                                               *)
LEMMA NothingSame ==
  ASSUME NEW P \in SUBSET Place, NEW a \in Place
  PROVE  Nothing(P, a, a)
BY LessOrder DEF Nothing, Span

(* who goes on by one passes the call at its place if there is one there,  *)
LEMMA NextPlace ==
  ASSUME NEW P \in SUBSET Place, NEW t \in Nat, NEW k \in Nat
  PROVE  IF <<t, k>> \in P THEN Only(P, <<t, k>>, <<t, k + 1>>)
                           ELSE Nothing(P, <<t, k>>, <<t, k + 1>>)
<1>1. /\ <<t, k>> \in Place /\ <<t, k + 1>> \in Place
      /\ Less(<<t, k>>, <<t, k + 1>>) /\ ~Less(<<t, k + 1>>, <<t, k>>)
      /\ ~Less(<<t, k>>, <<t, k>>)
  BY DEF Place, Less
<1>2. ASSUME NEW p \in P, ~Less(p, <<t, k>>), Less(p, <<t, k + 1>>)
      PROVE  p = <<t, k>>
  <2>1. p = <<p[1], p[2]>> /\ p[1] \in Nat /\ p[2] \in Nat
    BY DEF Place
  <2>2. p[1] = t /\ p[2] = k
    BY <1>2, <2>1 DEF Less
  <2> QED
    BY <2>1, <2>2
<1> QED
  BY <1>1, <1>2 DEF Only, Nothing, Span

(* and so does who leaves the last one of a turn.                          *)
LEMMA NextTurn ==
  ASSUME NEW P \in SUBSET Place, NEW t \in Nat, NEW k \in Nat,
         \A i \in Nat : i > k => <<t, i>> \notin P
  PROVE  IF <<t, k>> \in P THEN Only(P, <<t, k>>, <<t + 1, 0>>)
                           ELSE Nothing(P, <<t, k>>, <<t + 1, 0>>)
<1>1. /\ <<t, k>> \in Place /\ <<t + 1, 0>> \in Place
      /\ Less(<<t, k>>, <<t + 1, 0>>) /\ ~Less(<<t + 1, 0>>, <<t, k>>)
      /\ ~Less(<<t, k>>, <<t, k>>)
  BY DEF Place, Less
<1>2. ASSUME NEW p \in P, ~Less(p, <<t, k>>), Less(p, <<t + 1, 0>>)
      PROVE  p = <<t, k>>
  <2>1. p = <<p[1], p[2]>> /\ p[1] \in Nat /\ p[2] \in Nat
    BY DEF Place
  <2>2. p[1] = t /\ p[2] >= k
    BY <1>2, <2>1 DEF Less
  <2>3. ~(p[2] > k)
    BY <2>1, <2>2
  <2>4. p[2] = k
    BY <2>1, <2>2, <2>3
  <2> QED
    BY <2>1, <2>2, <2>4
<1> QED
  BY <1>1, <1>2 DEF Only, Nothing, Span

-----------------------------------------------------------------------------
(* Where a rank is among the broadcasts of its clone, among the reductions *)
(* over the workers, and among the averages over the clones.               *)
tellPlace(r) ==
  <<measured[r] + (IF at[r] \in {"measure", "endTurn"} THEN 1 ELSE 0),
    CASE at[r] = "proposal" -> 1 [] at[r] \in {"decide", "decision"} -> 2
      [] at[r] = "newState" -> 3 [] OTHER -> 0>>
callPlace(r) ==
  CASE at[r] \in {"decision", "newState", "measure"} -> <<measured[r], est[r]>>
    [] at[r] = "endTurn" -> <<measured[r] + 1, 0>>
    [] OTHER -> <<measured[r], 0>>
averagePlace(r) ==
  CASE at[r] = "average" -> <<block[r], est[r]>>
    [] at[r] \in Ended \cup {"write"} -> <<block[r] + 1, 0>>
    [] OTHER -> <<block[r], 0>>

(* A clone is in state S[u] before its turn u, proposes J[u] and rejects   *)
(* it if X[u]; what it tells and calls then.                               *)
NEst == Len(input.estimators)
Reduced(e) == e \in 1 .. NEst /\ input.estimators[e] # "accrej"
Tested(S, J, u) == input.sampler /\ ~Returns(S[u], J[u])
TellPlaces(S, J, X) ==
  {p \in Place : /\ input.sampler
                 /\ \/ p[2] = 0 \/ p[2] = 1
                    \/ p[2] = 2 /\ Tested(S, J, p[1])
                    \/ p[2] = 3 /\ Tested(S, J, p[1]) /\ ~X[p[1]]}
Tells(S, J, X) ==
  [p \in Place |->
     CASE p[2] = 0 -> [call |-> "state", data |-> S[p[1]]]
       [] p[2] = 1 -> [call |-> "proposal", data |-> J[p[1]]]
       [] p[2] = 2 -> [call |-> "reject", data |-> X[p[1]]]
       [] OTHER    -> [call |-> "state", data |-> J[p[1]]]]
CallPlaces(S, J) ==
  {p \in Place : (p[2] = 0 /\ Tested(S, J, p[1])) \/ Reduced(p[2])}
AveragePlaces(comm) ==
  {p \in Place : p[2] \in 1 .. NEst
                 /\ (input.estimators[p[2]] = "accrej" <=> comm = "world")}
Calls == [p \in Place |->
            [call |-> IF p[2] = 0 THEN "action" ELSE input.estimators[p[2]]]]

(* What worker s gives: to an estimator what it has measured in the turn.  *)
Gifts(s) ==
  [p \in Place |->
     IF p[2] = 0 THEN [call |-> "action"]
     ELSE [call |-> input.estimators[p[2]],
           data |-> [sum |-> Measured(s, p[1] + 1), nslice |-> 1]]]

Follows(S, J, X, u) == S[u + 1] = IF Tested(S, J, u) /\ ~X[u] THEN J[u] ELSE S[u]

(* What a rank knows of its turn.                                          *)
Knows(s, S, J, X) ==
  /\ modelState[s] = CASE at[s] \in {"measure", "endTurn"} -> S[measured[s] + 1]
                       [] at[s] = "newState" -> J[measured[s]]
                       [] OTHER -> S[measured[s]]
  /\ at[s] \in {"proposal", "decide", "decision", "newState"} => imodel[s] = S[measured[s]]
  /\ at[s] \in {"decide", "decision", "newState"} =>
       jmodel[s] = J[measured[s]] /\ Tested(S, J, measured[s])
  /\ at[s] = "newState" => ~X[measured[s]]

Hears(r, s, S, J, X) ==
  Sync({"call", "data"}, bcast[s], TellPlaces(S, J, X), Tells(S, J, X),
       tellPlace(s), tellPlace(r))
Gives(r, s, S, J) ==
  Sync({"call", "data"}, contrib["worker"][s], CallPlaces(S, J), Gifts(s),
       callPlace(r), callPlace(s))

Fine(r, S, J, X) ==
  /\ S \in [Nat -> 0 .. NModel - 1] /\ J \in [Nat -> 0 .. NModel - 1]
  /\ X \in [Nat -> BOOLEAN]
  /\ ~input.sampler => S = [u \in Nat |-> 0]
  /\ bcast[r] = <<>>
  /\ \A u \in Nat : Less(<<u, 3>>, tellPlace(r)) => Follows(S, J, X, u)
  /\ \A s \in Members("worker", r) : Knows(s, S, J, X)
  /\ \A s \in Others("worker", r) : Hears(r, s, S, J, X) /\ Gives(r, s, S, J)
CloneFine(r) == \E S, J, X : Fine(r, S, J, X)

Meets(comm, s) ==
  Sync({"call"}, contrib[comm][s], AveragePlaces(comm), Calls,
       averagePlace(0), averagePlace(s))

Typed ==
  /\ est \in [Rank -> Nat] /\ measured \in [Rank -> Nat]
  /\ DOMAIN modelState = Rank /\ DOMAIN imodel = Rank /\ DOMAIN jmodel = Rank
  /\ DOMAIN bcast = Rank /\ DOMAIN contrib = Comm
  /\ \A c \in Comm : DOMAIN contrib[c] = Rank

Course(r) ==
  /\ est[r] \in 1 .. NEst
  /\ at[r] \notin {"measure", "average"} => est[r] = 1
  /\ at[r] \in {"sample", "proposal", "decide", "decision", "newState"} => input.sampler
  /\ at[r] \in {"proposal", "decision", "newState"} => ~isCloneMain(r)
  /\ at[r] = "decide" => isCloneMain(r)

CallInv ==
  /\ BlockInv /\ Typed
  /\ \A r \in Rank : Course(r)
  /\ \A r \in Rank : isCloneMain(r) => CloneFine(r)
  /\ \A comm \in {"clone", "world"} : \A s \in Others(comm, 0) : Meets(comm, s)

-----------------------------------------------------------------------------
(* The ranks of a clone and its first worker.                              *)
LEMMA FirstWorker ==
  ASSUME input \in Inputs, NEW r \in Rank
  PROVE  /\ RootOf("worker", r) \in Rank /\ isCloneMain(RootOf("worker", r))
         /\ r \in Members("worker", RootOf("worker", r))
         /\ r = RootOf("worker", r) <=> isCloneMain(r)
         /\ \A s \in Rank : cloneID(s) = cloneID(r)
                              => RootOf("worker", s) = RootOf("worker", r)
         /\ \A s \in Rank : isCloneMain(s) /\ r \in Members("worker", s)
                              => s = RootOf("worker", r)
<1> DEFINE n == nworker
           c == cloneID(r)
<1>1. n \in Nat \ {0} /\ nclone \in Nat \ {0}
  BY RankAssumption DEF nworker, nclone
<1>2. /\ r \in Nat /\ r < n * nclone /\ c \in Nat /\ r % n \in 0 .. n - 1
      /\ r = n * c + (r % n)
  BY <1>1 DEF Rank, cloneID
<1>3. c * n \in Nat /\ c * n <= r
  BY <1>1, <1>2
<1>4. (c * n) % n = 0 /\ (c * n) \div n = c
  <2>1. ASSUME NEW k \in Nat, NEW q \in Nat, NEW e \in Nat, k > 0, e < k
        PROVE  (k * q + e) \div k = q /\ (k * q + e) % k = e
    BY <2>1
  <2> HIDE DEF n, c
  <2>4. n \in Nat /\ n > 0 /\ c \in Nat /\ 0 \in Nat
    BY <1>1, <1>2
  <2>5. 0 < n
    BY <2>4
  <2>2. (n * c + 0) \div n = c /\ (n * c + 0) % n = 0
    BY <2>1, <2>4, <2>5
  <2>3. n * c + 0 = c * n
    BY <2>4
  <2> QED
    BY <2>2, <2>3
<1>5. c * n \in Rank
  BY <1>1, <1>2, <1>3 DEF Rank
<1>6. r = c * n <=> r % n = 0
  BY <1>1, <1>2
<1>7. ASSUME NEW s \in Rank, s % n = 0, cloneID(s) = c
      PROVE  s = c * n
  <2>1. s \in Nat /\ s = n * (s \div n) + (s % n)
    BY <1>1 DEF Rank
  <2> QED
    BY <1>1, <1>2, <1>7, <2>1 DEF cloneID
<1> QED
  BY <1>4, <1>5, <1>6, <1>7 DEF RootOf, Members, isCloneMain, workerID, cloneID

(* The places of a rank are places.                                        *)
LEMMA PlacesOf ==
  ASSUME BlockInv, Typed, NEW r \in Rank
  PROVE  /\ tellPlace(r) \in Place /\ callPlace(r) \in Place /\ averagePlace(r) \in Place
         /\ measured[r] \in Nat /\ est[r] \in Nat /\ block[r] \in Nat
<1>1. measured[r] \in Nat /\ est[r] \in Nat /\ block[r] \in Nat
  BY DEF Typed, BlockInv, CloneType
<1>2. tellPlace(r) \in Place
  BY <1>1 DEF tellPlace, Place
<1>3. callPlace(r) \in Place
  BY <1>1 DEF callPlace, Place
<1>4. averagePlace(r) \in Place
  BY <1>1 DEF averagePlace, Place
<1> QED
  BY <1>1, <1>2, <1>3, <1>4

(* There is an estimator.                                                  *)
LEMMA EstimatorCount ==
  ASSUME input \in Inputs
  PROVE  NEst \in Nat /\ NEst >= 1
<1>1. input.estimators \in Seq(Kind) /\ input.estimators # <<>>
  BY EstimatorAssumption
<1> QED
  BY <1>1 DEF NEst

-----------------------------------------------------------------------------
(* Workers that know what their clone does agree on it.                    *)
LEMMA InvAgrees == CallInv => WorkersAgreeOnModel
<1> SUFFICES ASSUME CallInv, NEW r \in Rank, NEW s \in Rank
             PROVE  /\ modelState[r] \in 0 .. NModel - 1
                    /\ cloneID(r) = cloneID(s) /\ measured[r] = measured[s] /\ at[r] = at[s]
                       => CASE at[r] \in {"measure", "endTurn"} -> modelState[r] = modelState[s]
                            [] at[r] \in {"decision", "newState"} ->
                                 imodel[r] = imodel[s] /\ jmodel[r] = jmodel[s]
                            [] OTHER -> TRUE
  BY DEF WorkersAgreeOnModel
<1> DEFINE m == RootOf("worker", r)
<1>1. input \in Inputs
  BY DEF CallInv, BlockInv, CloneType
<1>2. m \in Rank /\ isCloneMain(m) /\ r \in Members("worker", m)
  BY <1>1, FirstWorker
<1>3. PICK S, J, X : Fine(m, S, J, X)
  BY <1>2 DEF CallInv, CloneFine
<1>4. Knows(r, S, J, X)
  BY <1>2, <1>3 DEF Fine
<1>5. measured[r] \in Nat /\ measured[r] + 1 \in Nat
  BY PlacesOf DEF CallInv
<1>6. modelState[r] \in 0 .. NModel - 1
  <2>1. modelState[r] \in {S[measured[r] + 1], J[measured[r]], S[measured[r]]}
    BY <1>4 DEF Knows
  <2> QED
    BY <1>3, <1>5, <2>1 DEF Fine
<1>7. ASSUME cloneID(r) = cloneID(s)
      PROVE  Knows(s, S, J, X)
  <2>1. s \in Members("worker", m)
    BY <1>1, <1>7, FirstWorker
  <2> QED
    BY <1>3, <2>1 DEF Fine
<1> HIDE DEF m
<1>8. ASSUME cloneID(r) = cloneID(s), measured[r] = measured[s], at[r] = at[s],
             at[r] \in {"measure", "endTurn"}
      PROVE  modelState[r] = modelState[s]
  BY <1>4, <1>7, <1>8 DEF Knows
<1>9. ASSUME cloneID(r) = cloneID(s), measured[r] = measured[s], at[r] = at[s],
             at[r] \in {"decision", "newState"}
      PROVE  imodel[r] = imodel[s] /\ jmodel[r] = jmodel[s]
  BY <1>4, <1>7, <1>9 DEF Knows
<1> QED
  BY <1>6, <1>8, <1>9

(* The calls are at places.                                                *)
LEMMA PlacesSets ==
  ASSUME NEW S, NEW J, NEW X, NEW comm
  PROVE  /\ TellPlaces(S, J, X) \in SUBSET Place /\ CallPlaces(S, J) \in SUBSET Place
         /\ AveragePlaces(comm) \in SUBSET Place
BY DEF TellPlaces, CallPlaces, AveragePlaces

(* The next message to a rank is the one it waits for.                     *)
LEMMA HeardCall ==
  ASSUME CallInv, NEW r \in Rank, NEW s \in Rank, NEW S, NEW J, NEW X, Hears(r, s, S, J, X),
         Knows(s, S, J, X), ~isCloneMain(s), Told(s)
  PROVE  /\ input.sampler
         /\ tellPlace(s) \in TellPlaces(S, J, X)
         /\ Message(s).call = Tells(S, J, X)[tellPlace(s)].call
         /\ Message(s).data = Tells(S, J, X)[tellPlace(s)].data
<1> DEFINE P == TellPlaces(S, J, X)
           K == Tells(S, J, X)
           lo == tellPlace(s)
           hi == tellPlace(r)
<1>1. lo \in Place /\ Course(s)
  BY PlacesOf DEF CallInv
<1>2. input.sampler
  <2>1. CASE ~input.sampler
    <3>1. Span(P, lo, hi) = {}
      BY <2>1 DEF TellPlaces, Span
    <3>2. Lists({"call", "data"}, bcast[s], K, Span(P, lo, hi))
      BY DEF Hears, Sync
    <3>3. Lists({"call", "data"}, bcast[s], K, {})
      BY <3>1, <3>2
    <3> HIDE DEF P, K, lo, hi
    <3>4. bcast[s] = <<>>
      BY <3>3, ListsNone
    <3> QED
      BY <3>4 DEF Told
  <2> QED
    BY <2>1
<1>3. lo \in P
  <2>1. measured[s] \in Nat
    BY PlacesOf DEF CallInv
  <2> QED
    BY <1>1, <1>2, <2>1 DEF TellPlaces, tellPlace, Knows, Course
<1>4. \E l : Only(P, lo, l)
  <2> HIDE DEF lo
  <2>1. PICK t \in Nat, k \in Nat : lo = <<t, k>>
    BY <1>1 DEF Place
  <2>2. P \in SUBSET Place
    BY PlacesSets
  <2> HIDE DEF P
  <2>3. Only(P, <<t, k>>, <<t, k + 1>>)
    BY <1>3, <2>1, <2>2, NextPlace
  <2> QED
    BY <2>1, <2>3
<1>5. Agree({"call", "data"}, Head(bcast[s]), K[lo])
  <2>1. PICK l : Only(P, lo, l)
    BY <1>4
  <2>2. Sync({"call", "data"}, bcast[s], P, K, lo, hi) /\ bcast[s] # <<>>
    BY DEF Hears, Told
  <2> HIDE DEF P, K, lo, hi
  <2> QED
    BY <2>1, <2>2, SyncRead
<1>6. {"call", "data"} \subseteq DOMAIN K[lo]
  BY <1>1 DEF Tells
<1>7. Head(bcast[s])["call"] = K[lo]["call"] /\ Head(bcast[s])["data"] = K[lo]["data"]
  BY <1>5, <1>6 DEF Agree
<1> QED
  BY <1>2, <1>3, <1>7 DEF Message

(* What is first in a queue was written at the place of its reader.        *)
LEMMA TakenFirst ==
  ASSUME NEW F, NEW q, NEW K, NEW P \in SUBSET Place, NEW lo \in P, NEW hi,
         Sync(F, q, P, K, lo, hi), q # <<>>
  PROVE  Agree(F, Head(q), K[lo])
<1>1. \E l : Only(P, lo, l)
  <2>1. PICK t \in Nat, k \in Nat : lo = <<t, k>>
    BY DEF Place
  <2> QED
    BY <2>1, NextPlace
<1>2. PICK l : Only(P, lo, l)
  BY <1>1
<1> QED
  BY <1>2, SyncRead

(* The next contribution a root takes is to the call it is in,             *)
LEMMA TakenCall ==
  ASSUME NEW q, NEW P \in SUBSET Place, NEW lo \in P, NEW hi,
         Sync({"call"}, q, P, Calls, lo, hi), q # <<>>
  PROVE  Head(q).call = Calls[lo].call
<1>1. Agree({"call"}, Head(q), Calls[lo])
  BY TakenFirst
<1>2. "call" \in {"call"} \cap DOMAIN Calls[lo]
  BY DEF Calls
<1>3. Head(q)["call"] = Calls[lo]["call"]
  BY <1>1, <1>2 DEF Agree
<1> QED
  BY <1>3

(* and what the workers give to an estimator is measured in the same turn. *)
LEMMA TakenGift ==
  ASSUME NEW q, NEW P \in SUBSET Place, NEW lo \in P, NEW hi, NEW s,
         Sync({"call", "data"}, q, P, Gifts(s), lo, hi), q # <<>>
  PROVE  /\ Head(q).call = Calls[lo].call
         /\ lo[2] # 0 => Head(q).data = [sum |-> Measured(s, lo[1] + 1), nslice |-> 1]
<1>1. Agree({"call", "data"}, Head(q), Gifts(s)[lo])
  BY TakenFirst
<1>2. lo \in Place
  OBVIOUS
<1>3. CASE lo[2] = 0
  <2>1. Gifts(s)[lo] = [call |-> "action"] /\ Calls[lo] = [call |-> "action"]
    BY <1>2, <1>3 DEF Gifts, Calls
  <2>2. "call" \in {"call", "data"} \cap DOMAIN Gifts(s)[lo]
    BY <2>1
  <2>3. Head(q)["call"] = Gifts(s)[lo]["call"]
    BY <1>1, <2>2 DEF Agree
  <2> QED
    BY <1>3, <2>1, <2>3
<1>4. CASE lo[2] # 0
  <2> DEFINE d == [sum |-> Measured(s, lo[1] + 1), nslice |-> 1]
  <2>1. /\ Gifts(s)[lo] = [call |-> input.estimators[lo[2]], data |-> d]
        /\ Calls[lo] = [call |-> input.estimators[lo[2]]]
    BY <1>2, <1>4 DEF Gifts, Calls
  <2> HIDE DEF d
  <2>2. {"call", "data"} \subseteq DOMAIN Gifts(s)[lo]
    BY <2>1
  <2>3. Head(q)["call"] = Gifts(s)[lo]["call"] /\ Head(q)["data"] = Gifts(s)[lo]["data"]
    BY <1>1, <2>2 DEF Agree
  <2>4. Head(q).call = Calls[lo].call /\ Head(q).data = d
    BY <2>1, <2>3
  <2> QED
    BY <2>4 DEF d
<1> QED
  BY <1>3, <1>4

(* A root finds the call it is in, a listener the message it waits for.    *)
LEMMA InvMatches == CallInv => CollectivesMatch
<1> SUFFICES ASSUME CallInv, NEW r \in Rank
             PROVE  LET a == Awaited(r) IN
                      /\ r = RootOf(a[1], r) /\ a[2] # "none"
                         => \A s \in Others(a[1], r) :
                              contrib[a[1]][s] # <<>> => Head(contrib[a[1]][s]).call = a[2]
                      /\ Told(r) => Message(r).call =
                           (CASE at[r] = "proposal" -> "proposal"
                              [] at[r] = "decision" -> "reject" [] OTHER -> "state")
  BY DEF CollectivesMatch
<1>1. input \in Inputs /\ Course(r) /\ NEst \in Nat
  BY EstimatorCount DEF CallInv, BlockInv, CloneType
<1>2. /\ measured[r] \in Nat /\ est[r] \in Nat /\ block[r] \in Nat
      /\ est[r] # 0 /\ est[r] \in 1 .. NEst
  BY <1>1, PlacesOf DEF CallInv, Course
<1>3. ASSUME r = RootOf("worker", r), NEW s \in Others("worker", r),
             contrib["worker"][s] # <<>>
      PROVE  /\ at[r] = "decide" => Head(contrib["worker"][s]).call = "action"
             /\ at[r] = "measure" /\ Estimator(r) # "accrej"
                  => Head(contrib["worker"][s]).call = Estimator(r)
  <2>1. isCloneMain(r) /\ r \in Members("worker", r)
    BY <1>1, <1>3, FirstWorker
  <2>2. PICK S, J, X : Fine(r, S, J, X)
    BY <2>1 DEF CallInv, CloneFine
  <2>3. Gives(r, s, S, J) /\ Knows(r, S, J, X)
    BY <1>3, <2>1, <2>2 DEF Fine
  <2>4. CASE at[r] = "decide"
    <3>1. callPlace(r) = <<measured[r], 0>>
      BY <2>4 DEF callPlace
    <3>2. callPlace(r) \in CallPlaces(S, J) /\ Calls[callPlace(r)].call = "action"
      BY <1>2, <2>3, <2>4, <3>1 DEF CallPlaces, Knows, Calls, Place
    <3> QED
      BY <1>3, <2>3, <2>4, <3>2, TakenGift, PlacesSets DEF Gives
  <2>5. CASE at[r] = "measure" /\ Estimator(r) # "accrej"
    <3>1. callPlace(r) = <<measured[r], est[r]>>
      BY <2>5 DEF callPlace
    <3>2. callPlace(r) \in CallPlaces(S, J) /\ Calls[callPlace(r)].call = Estimator(r)
      BY <1>2, <2>5, <3>1 DEF CallPlaces, Calls, Place, Reduced, Estimator
    <3> QED
      BY <1>3, <2>3, <2>5, <3>2, TakenGift, PlacesSets DEF Gives
  <2> QED
    BY <2>4, <2>5
<1>4. ASSUME r = 0, at[r] = "average", NEW comm \in {"clone", "world"},
             comm = "world" <=> Estimator(r) = "accrej",
             NEW s \in Others(comm, r), contrib[comm][s] # <<>>
      PROVE  Head(contrib[comm][s]).call = Estimator(r)
  <2>1. Meets(comm, s)
    BY <1>4 DEF CallInv
  <2>2. averagePlace(0) = <<block[r], est[r]>>
    <3>1. averagePlace(r) = <<block[r], est[r]>>
      BY <1>4 DEF averagePlace, Ended, Counting, Passed
    <3> QED
      BY <1>4, <3>1
  <2>3. averagePlace(0) \in AveragePlaces(comm)
        /\ Calls[averagePlace(0)].call = Estimator(r)
    BY <1>2, <1>4, <2>2 DEF AveragePlaces, Calls, Place, Estimator
  <2> QED
    BY <1>4, <2>1, <2>3, TakenCall, PlacesSets DEF Meets
<1>5. ASSUME Told(r)
      PROVE  Message(r).call = (CASE at[r] = "proposal" -> "proposal"
                                  [] at[r] = "decision" -> "reject" [] OTHER -> "state")
  <2> DEFINE m == RootOf("worker", r)
  <2>1. m \in Rank /\ isCloneMain(m) /\ r \in Members("worker", m)
    BY <1>1, FirstWorker
  <2>2. PICK S, J, X : Fine(m, S, J, X)
    BY <2>1 DEF CallInv, CloneFine
  <2>3. r # m
    BY <1>5, <2>2 DEF Fine, Told
  <2>4. ~isCloneMain(r) /\ Hears(m, r, S, J, X) /\ Knows(r, S, J, X)
    BY <1>1, <2>1, <2>2, <2>3, FirstWorker DEF Fine, Others
  <2>5. /\ tellPlace(r) \in TellPlaces(S, J, X)
        /\ Message(r).call = Tells(S, J, X)[tellPlace(r)].call
    BY <1>5, <2>1, <2>4, HeardCall
  <2>6. /\ tellPlace(r) \in Place /\ at[r] # "decide"
        /\ tellPlace(r)[2] = CASE at[r] = "proposal" -> 1 [] at[r] = "decision" -> 2
                               [] at[r] = "newState" -> 3 [] OTHER -> 0
    BY <1>1, <2>4, <2>5 DEF tellPlace, TellPlaces, Course
  <2> QED
    BY <2>5, <2>6 DEF Tells
<1>6. CASE at[r] = "decide"
  <2>1. Awaited(r)[1] = "worker" /\ Awaited(r)[2] = "action"
    BY <1>6 DEF Awaited
  <2> QED
    BY <1>3, <1>5, <1>6, <2>1
<1>7. CASE at[r] = "measure" /\ Estimator(r) # "accrej"
  <2>1. Awaited(r)[1] = "worker" /\ Awaited(r)[2] = Estimator(r)
    BY <1>7 DEF Awaited
  <2> QED
    BY <1>3, <1>5, <1>7, <2>1
<1>8. CASE at[r] = "average"
  <2> DEFINE comm == IF Estimator(r) = "accrej" THEN "world" ELSE "clone"
  <2>1. Awaited(r)[1] = comm /\ Awaited(r)[2] = Estimator(r)
    BY <1>8 DEF Awaited
  <2>2. comm \in {"clone", "world"} /\ (comm = "world" <=> Estimator(r) = "accrej")
        /\ RootOf(comm, r) = 0
    BY DEF RootOf
  <2> HIDE DEF comm
  <2> QED
    BY <1>4, <1>5, <1>8, <2>1, <2>2
<1>9. CASE at[r] \notin {"decide", "average"}
           /\ ~(at[r] = "measure" /\ Estimator(r) # "accrej")
  <2>1. Awaited(r)[2] = "none"
    BY <1>9 DEF Awaited
  <2> QED
    BY <1>5, <2>1
<1> QED
  BY <1>6, <1>7, <1>8, <1>9

-----------------------------------------------------------------------------
(* What is between two ranks after a step: broadcasts,                     *)
LEMMA HearsNext ==
  ASSUME NEW r, NEW s, NEW S, NEW J, NEW X
  PROVE  Hears(r, s, S, J, X)' <=>
           Sync({"call", "data"}, bcast'[s], TellPlaces(S, J, X)', Tells(S, J, X),
                tellPlace(s)', tellPlace(r)')
BY DEF Hears, Tells

(* reductions over the workers,                                            *)
LEMMA GivesNext ==
  ASSUME NEW r, NEW s, NEW S, NEW J
  PROVE  Gives(r, s, S, J)' <=>
           Sync({"call", "data"}, contrib'["worker"][s], CallPlaces(S, J)', Gifts(s)',
                callPlace(r)', callPlace(s)')
BY DEF Gives

(* averages over the clones.                                               *)
LEMMA MeetsNext ==
  ASSUME NEW comm, NEW s
  PROVE  Meets(comm, s)' <=>
           Sync({"call"}, contrib'[comm][s], AveragePlaces(comm)', Calls',
                averagePlace(0)', averagePlace(s)')
BY DEF Meets

(* The input file fixes the ranks, the calls and their places.             *)
LEMMA SameInput ==
  ASSUME UNCHANGED input, NEW S, NEW J, NEW X, NEW comm, NEW u, NEW r
  PROVE  /\ Rank' = Rank /\ NEst' = NEst /\ Calls' = Calls /\ Gifts(r)' = Gifts(r)
         /\ Members(comm, r)' = Members(comm, r) /\ Others(comm, r)' = Others(comm, r)
         /\ isCloneMain(r)' = isCloneMain(r) /\ RootOf(comm, r)' = RootOf(comm, r)
         /\ TellPlaces(S, J, X)' = TellPlaces(S, J, X)
         /\ CallPlaces(S, J)' = CallPlaces(S, J)
         /\ AveragePlaces(comm)' = AveragePlaces(comm)
         /\ Follows(S, J, X, u)' = Follows(S, J, X, u)
         /\ Tested(S, J, u)' = Tested(S, J, u)
<1>1. Rank' = Rank /\ NEst' = NEst /\ Calls' = Calls /\ Gifts(r)' = Gifts(r)
      /\ isCloneMain(r)' = isCloneMain(r) /\ RootOf(comm, r)' = RootOf(comm, r)
  BY DEF Rank, NEst, Calls, Gifts, Measured, isCloneMain, workerID, nworker, nclone, RootOf,
         cloneID
<1>2. Members(comm, r)' = Members(comm, r) /\ Others(comm, r)' = Others(comm, r)
  BY DEF Others, Members, Rank, isCloneMain, workerID, nworker, nclone, cloneID
<1>3. \A v : Tested(S, J, v)' = Tested(S, J, v)
  BY DEF Tested, Returns, Invalid, AwayFromTarget
<1>4. Follows(S, J, X, u)' = Follows(S, J, X, u)
  BY <1>3 DEF Follows
<1>5. TellPlaces(S, J, X)' = TellPlaces(S, J, X)
  BY <1>3 DEF TellPlaces
<1>6. CallPlaces(S, J)' = CallPlaces(S, J) /\ AveragePlaces(comm)' = AveragePlaces(comm)
  BY <1>3 DEF CallPlaces, AveragePlaces, Reduced, NEst
<1> QED
  BY <1>1, <1>2, <1>3, <1>4, <1>5, <1>6

(* A rank that is where it was, and knows what it knew.                    *)
Stays(s) ==
  /\ at'[s] = at[s] /\ measured'[s] = measured[s] /\ est'[s] = est[s]
  /\ block'[s] = block[s] /\ modelState'[s] = modelState[s]
  /\ imodel'[s] = imodel[s] /\ jmodel'[s] = jmodel[s]

(* It is at the same places,                                               *)
LEMMA StaysPlaces ==
  ASSUME NEW s, Stays(s)
  PROVE  /\ tellPlace(s)' = tellPlace(s) /\ callPlace(s)' = callPlace(s)
         /\ averagePlace(s)' = averagePlace(s)
<1>1. tellPlace(s)' = tellPlace(s)
  BY DEF Stays, tellPlace
<1>2. callPlace(s)' = callPlace(s)
  BY DEF Stays, callPlace
<1>3. averagePlace(s)' = averagePlace(s)
  BY DEF Stays, averagePlace, Ended, Counting, Passed
<1> QED
  BY <1>1, <1>2, <1>3

(* After a step too the places are places.                                 *)
LEMMA PlacesNext ==
  ASSUME BlockInv', Typed', UNCHANGED input, NEW r \in Rank
  PROVE  /\ tellPlace(r)' \in Place /\ callPlace(r)' \in Place
         /\ averagePlace(r)' \in Place /\ measured'[r] \in Nat
<1>1. measured'[r] \in Nat /\ est'[r] \in Nat /\ block'[r] \in Nat
  BY SameInput DEF Typed, BlockInv, CloneType
<1>2. tellPlace(r)' \in Place
  BY <1>1 DEF tellPlace, Place
<1>3. callPlace(r)' \in Place
  BY <1>1 DEF callPlace, Place
<1>4. averagePlace(r)' \in Place
  BY <1>1 DEF averagePlace, Place
<1> QED
  BY <1>1, <1>2, <1>3, <1>4

(* A rank that stays knows what it knew,                                   *)
LEMMA StaysKnows ==
  ASSUME UNCHANGED input, NEW s, Stays(s), NEW S, NEW J, NEW X, Knows(s, S, J, X)
  PROVE  Knows(s, S, J, X)'
<1>2. \A v : Tested(S, J, v)' <=> Tested(S, J, v)
  BY DEF Tested, Returns, Invalid, AwayFromTarget
<1> QED
  BY <1>2 DEF Stays, Knows

(* and is on its course.                                                   *)
LEMMA StaysCourse ==
  ASSUME UNCHANGED input, NEW s, Stays(s), Course(s)
  PROVE  Course(s)'
BY SameInput DEF Stays, Course

(* No other rank than x moves.                                             *)
Alone(x) == UNCHANGED input /\ \A s \in Rank \ {x} : Stays(s)
SameQueues(s) == bcast'[s] = bcast[s] /\ contrib'["worker"][s] = contrib["worker"][s]

(* A clone none of whose workers moves is as it was.                       *)
LEMMA CloneStays ==
  ASSUME UNCHANGED input, NEW r \in Rank, CloneFine(r), r \in Members("worker", r),
         \A s \in Members("worker", r) : Stays(s) /\ SameQueues(s)
  PROVE  CloneFine(r)'
<1>1. PICK S, J, X : Fine(r, S, J, X)
  BY DEF CloneFine
<1>2. \A u : Follows(S, J, X, u)' = Follows(S, J, X, u)
  BY SameInput
<1>3. /\ tellPlace(r)' = tellPlace(r) /\ callPlace(r)' = callPlace(r) /\ bcast'[r] = bcast[r]
      /\ Members("worker", r)' = Members("worker", r)
      /\ Others("worker", r)' = Others("worker", r)
  BY StaysPlaces, SameInput DEF SameQueues
<1>4. ASSUME NEW s \in Members("worker", r)
      PROVE  Knows(s, S, J, X)'
  BY <1>1, StaysKnows DEF Fine
<1>5. ASSUME NEW s \in Others("worker", r)
      PROVE  Hears(r, s, S, J, X)' /\ Gives(r, s, S, J)'
  <2>1. /\ tellPlace(s)' = tellPlace(s) /\ callPlace(s)' = callPlace(s) /\ SameQueues(s)
    BY StaysPlaces DEF Others
  <2>2. /\ TellPlaces(S, J, X)' = TellPlaces(S, J, X)
        /\ CallPlaces(S, J)' = CallPlaces(S, J) /\ Gifts(s)' = Gifts(s)
    BY SameInput
  <2>3. Hears(r, s, S, J, X) /\ Gives(r, s, S, J)
    BY <1>1 DEF Fine
  <2>4. Hears(r, s, S, J, X)'
    BY <1>3, <2>1, <2>2, <2>3, HearsNext DEF Hears, SameQueues
  <2>5. Gives(r, s, S, J)'
    BY <1>3, <2>1, <2>2, <2>3, GivesNext DEF Gives, SameQueues
  <2> QED
    BY <2>4, <2>5
<1>6. Fine(r, S, J, X)'
  BY <1>1, <1>2, <1>3, <1>4, <1>5 DEF Fine
<1> QED
  BY <1>6 DEF CloneFine

-----------------------------------------------------------------------------
(* At the same place there is nothing to read.                             *)
LEMMA SyncStart ==
  ASSUME NEW F, NEW P \in SUBSET Place, NEW K, NEW a \in Place
  PROVE  Sync(F, <<>>, P, K, a, a)
<1>1. Span(P, a, a) = {}
  BY DEF Span
<1>2. Lists(F, <<>>, K, {})
  BY ListsNone
<1> QED
  BY <1>1, <1>2 DEF Sync

(* In the beginning all ranks are at the first place, in model state 0.    *)
LEMMA CallsInit == Init => CallInv
<1> SUFFICES ASSUME Init PROVE CallInv
  OBVIOUS
<1>1. BlockInv
  BY BlockInit
<1>2. input \in Inputs /\ FirstStep \in {"sample", "measure"}
      /\ (FirstStep = "sample" <=> input.sampler)
  BY DEF Init, ClonesInit, FirstStep
<1>3. Typed
  BY DEF Typed, Init, ClonesInit, StatisticsInit, ModelInit
<1>4. ASSUME NEW r \in Rank
      PROVE  /\ at[r] = FirstStep /\ est[r] = 1 /\ measured[r] = 0 /\ block[r] = 1
             /\ modelState[r] = 0 /\ bcast[r] = <<>>
             /\ \A c \in Comm : contrib[c][r] = <<>>
  BY DEF Init, ClonesInit, StatisticsInit, ModelInit
<1>5. ASSUME NEW r \in Rank
      PROVE  Course(r)
  <2>1. 1 \in 1 .. NEst
    BY <1>2, EstimatorCount
  <2> QED
    BY <1>2, <1>4, <2>1 DEF Course
<1>6. 0 \in Rank
  BY <1>2, FirstRank
<1>7. ASSUME NEW r \in Rank, NEW s \in Rank
      PROVE  /\ tellPlace(s) = tellPlace(r) /\ callPlace(s) = callPlace(r)
             /\ averagePlace(s) = averagePlace(r)
             /\ \A u \in Nat : Less(<<u, 3>>, tellPlace(r)) => u = 0
  <2>1. tellPlace(s) = tellPlace(r)
    BY <1>4 DEF tellPlace
  <2>2. callPlace(s) = callPlace(r)
    BY <1>4 DEF callPlace
  <2>3. averagePlace(s) = averagePlace(r)
    BY <1>4 DEF averagePlace, Ended, Counting, Passed
  <2>4. \A u \in Nat : Less(<<u, 3>>, tellPlace(r)) => u = 0
    BY <1>2, <1>4 DEF tellPlace, Less
  <2> QED
    BY <2>1, <2>2, <2>3, <2>4
<1>8. ASSUME NEW r \in Rank
      PROVE  CloneFine(r)
  <2> DEFINE S == [u \in Nat |-> 0]
             X == [u \in Nat |-> TRUE]
  <2>1. /\ S \in [Nat -> 0 .. NModel - 1] /\ X \in [Nat -> BOOLEAN]
        /\ \A u \in Nat : S[u] = 0 /\ S[u + 1] = 0 /\ X[u] = TRUE
    BY ModelAssumption
  <2>2. ASSUME NEW s \in Members("worker", r)
        PROVE  Knows(s, S, S, X)
    <3>1. s \in Rank
      BY DEF Members
    <3> HIDE DEF S, X
    <3> QED
      BY <1>2, <1>4, <2>1, <3>1 DEF Knows
  <2>3. ASSUME NEW s \in Others("worker", r)
        PROVE  Hears(r, s, S, S, X) /\ Gives(r, s, S, S)
    <3>1. s \in Rank
      BY DEF Others, Members
    <3> HIDE DEF S, X
    <3>2. /\ TellPlaces(S, S, X) \in SUBSET Place /\ CallPlaces(S, S) \in SUBSET Place
          /\ tellPlace(r) \in Place /\ callPlace(r) \in Place
      BY <1>1, <1>3, PlacesSets, PlacesOf
    <3>3. Hears(r, s, S, S, X)
      BY <1>4, <1>7, <3>1, <3>2, SyncStart DEF Hears
    <3>4. Gives(r, s, S, S)
      BY <1>4, <1>7, <3>1, <3>2, SyncStart DEF Gives, Comm
    <3> QED
      BY <3>3, <3>4
  <2>4. ASSUME NEW u \in Nat
        PROVE  Follows(S, S, X, u)
    BY <2>1 DEF Follows
  <2>5. Fine(r, S, S, X)
    BY <1>4, <2>1, <2>2, <2>3, <2>4 DEF Fine
  <2> QED
    BY <2>5 DEF CloneFine
<1>9. ASSUME NEW comm \in {"clone", "world"}, NEW s \in Others(comm, 0)
      PROVE  Meets(comm, s)
  <2>1. s \in Rank
    BY DEF Others, Members
  <2>2. AveragePlaces(comm) \in SUBSET Place /\ averagePlace(0) \in Place
    BY <1>1, <1>3, <1>6, PlacesSets, PlacesOf
  <2>3. averagePlace(s) = averagePlace(0)
    BY <1>6, <1>7, <2>1
  <2> QED
    BY <1>4, <2>1, <2>2, <2>3, SyncStart DEF Meets, Comm
<1> QED
  BY <1>1, <1>3, <1>5, <1>8, <1>9 DEF CallInv

-----------------------------------------------------------------------------
(* A step of x preserves the invariant when it does so for its clone and   *)
(* for the averages.                                                       *)
LEMMA OneRankMoves ==
  ASSUME CallInv, BlockInv', Typed', NEW x \in Rank, Alone(x), Course(x)',
         NEW m, m = RootOf("worker", x), CloneFine(m)',
         \A s \in Rank : cloneID(s) # cloneID(x) => SameQueues(s),
         \A comm \in {"clone", "world"} : \A s \in Others(comm, 0) : Meets(comm, s)'
  PROVE  CallInv'
<1>1. UNCHANGED input /\ input \in Inputs
  BY DEF Alone, CallInv, BlockInv, CloneType
<1>2. Rank' = Rank /\ \A r : isCloneMain(r)' = isCloneMain(r)
  BY <1>1, SameInput
<1>3. \A comm : Others(comm, 0)' = Others(comm, 0)
  BY <1>1, SameInput
<1>4. ASSUME NEW r \in Rank
      PROVE  Course(r)'
  BY <1>1, StaysCourse DEF Alone, CallInv
<1>5. ASSUME NEW r \in Rank, isCloneMain(r), r # m
      PROVE  CloneFine(r)'
  <2>1. cloneID(x) # cloneID(r)
    <3>1. cloneID(x) = cloneID(r) => x \in Members("worker", r)
      BY DEF Members
    <3> QED
      BY <1>1, <1>5, <3>1, FirstWorker
  <2>2. \A s \in Members("worker", r) : Stays(s) /\ SameQueues(s)
    BY <2>1 DEF Members, Alone
  <2>3. r \in Members("worker", r) /\ CloneFine(r)
    BY <1>5 DEF Members, CallInv
  <2> QED
    BY <1>1, <2>2, <2>3, CloneStays
<1>6. \A r \in Rank : isCloneMain(r) => CloneFine(r)'
  BY <1>5
<1> QED
  BY <1>2, <1>3, <1>4, <1>6 DEF CallInv

(* Where there are no calls the places do not matter.                      *)
LEMMA SyncNothing ==
  ASSUME NEW F, NEW q, NEW K, NEW lo, NEW hi, NEW l \in Place, NEW h \in Place,
         Sync(F, q, {}, K, lo, hi)
  PROVE  Sync(F, q, {}, K, l, h)
<1>1. Span({}, lo, hi) = {} /\ Span({}, l, h) = {} /\ Span({}, h, l) = {}
  BY DEF Span
<1> QED
  BY <1>1 DEF Sync

(* Steps outside of ModelSampler: nothing is told, and the places in       *)
(* ModelSampler change only where it is not run.                           *)
Silent(x) == /\ UNCHANGED bcast
             /\ input.sampler => tellPlace(x)' = tellPlace(x)
KeepsKnowing(x) ==
  \A S, J, X : Knows(x, S, J, X) /\ (~input.sampler => S = [u \in Nat |-> 0])
                 => Knows(x, S, J, X)'

(* Such a step keeps a clone fine if its reductions are.                   *)
LEMMA SilentClone ==
  ASSUME CallInv, BlockInv', Typed', NEW x \in Rank, Alone(x), NEW m,
         m = RootOf("worker", x), Silent(x), KeepsKnowing(x),
         \A S, J, X : Fine(m, S, J, X) => \A s \in Others("worker", m) : Gives(m, s, S, J)'
  PROVE  CloneFine(m)'
<1>1. UNCHANGED input /\ input \in Inputs /\ Rank' = Rank
  BY SameInput DEF Alone, CallInv, BlockInv, CloneType
<1>2. m \in Rank /\ isCloneMain(m)
  BY <1>1, FirstWorker
<1>3. PICK S, J, X : Fine(m, S, J, X)
  BY <1>2 DEF CallInv, CloneFine
<1>4. /\ Members("worker", m)' = Members("worker", m)
      /\ Others("worker", m)' = Others("worker", m)
      /\ TellPlaces(S, J, X)' = TellPlaces(S, J, X)
      /\ \A u : Follows(S, J, X, u)' = Follows(S, J, X, u)
  BY <1>1, SameInput
<1>5. \A s \in Rank : /\ tellPlace(s)' \in Place
                      /\ input.sampler => tellPlace(s)' = tellPlace(s)
  <2>1. \A s \in Rank : tellPlace(s)' \in Place
    BY <1>1, PlacesNext
  <2> QED
    BY <2>1, StaysPlaces DEF Alone, Silent
<1>6. ASSUME NEW s \in Others("worker", m)
      PROVE  Hears(m, s, S, J, X)'
  <2>1. Hears(m, s, S, J, X) /\ s \in Rank /\ bcast'[s] = bcast[s]
    BY <1>3 DEF Fine, Others, Members, Silent
  <2>2. CASE input.sampler
    BY <1>2, <1>4, <1>5, <2>1, <2>2, HearsNext DEF Hears
  <2>3. CASE ~input.sampler
    <3>1. TellPlaces(S, J, X) = {}
      BY <2>3 DEF TellPlaces
    <3>2. Sync({"call", "data"}, bcast[s], {}, Tells(S, J, X), tellPlace(s), tellPlace(m))
      BY <2>1, <3>1 DEF Hears
    <3>3. Sync({"call", "data"}, bcast[s], {}, Tells(S, J, X), tellPlace(s)', tellPlace(m)')
      BY <1>2, <1>5, <2>1, <3>2, SyncNothing
    <3> QED
      BY <1>4, <2>1, <3>1, <3>3, HearsNext
  <2> QED
    BY <2>2, <2>3
<1>7. ASSUME NEW s \in Members("worker", m)
      PROVE  Knows(s, S, J, X)'
  <2>1. Knows(s, S, J, X) /\ s \in Rank /\ (~input.sampler => S = [u \in Nat |-> 0])
    BY <1>3 DEF Fine, Members
  <2> QED
    BY <1>1, <2>1, StaysKnows DEF Alone, KeepsKnowing
<1>8. ASSUME NEW u \in Nat, Less(<<u, 3>>, tellPlace(m)')
      PROVE  Follows(S, J, X, u)'
  <2>1. CASE input.sampler
    BY <1>2, <1>3, <1>4, <1>5, <1>8, <2>1 DEF Fine
  <2>2. CASE ~input.sampler
    <3>1. S[u + 1] = 0 /\ S[u] = 0 /\ ~Tested(S, J, u)
      BY <1>3, <2>2 DEF Fine, Tested
    <3> QED
      BY <1>4, <3>1 DEF Follows
  <2> QED
    BY <2>1, <2>2
<1>9. bcast'[m] = <<>>
  BY <1>3 DEF Fine, Silent
<1>10. \A s \in Others("worker", m) : Gives(m, s, S, J)'
  BY <1>3
<1>11. Fine(m, S, J, X)'
  <2>1. /\ S \in [Nat -> 0 .. NModel - 1] /\ J \in [Nat -> 0 .. NModel - 1]
        /\ X \in [Nat -> BOOLEAN]
        /\ ~input'.sampler => S = [u \in Nat |-> 0]
    BY <1>1, <1>3 DEF Fine
  <2>2. \A u \in Nat : Less(<<u, 3>>, tellPlace(m)') => Follows(S, J, X, u)'
    BY <1>8
  <2>3. \A s \in Members("worker", m)' : Knows(s, S, J, X)'
    BY <1>4, <1>7
  <2>4. \A s \in Others("worker", m)' : Hears(m, s, S, J, X)' /\ Gives(m, s, S, J)'
    BY <1>4, <1>6, <1>10
  <2> QED
    BY <1>9, <2>1, <2>2, <2>3, <2>4 DEF Fine
<1> QED
  BY <1>11 DEF CloneFine

-----------------------------------------------------------------------------
(* The reductions over the workers.                                        *)
LEMMA NoCall ==
  ASSUME CallInv, NEW x \in Rank, Alone(x), NEW m, m = RootOf("worker", x),
         NEW S, NEW J, NEW X, Fine(m, S, J, X), NEW s \in Others("worker", m),
         contrib'["worker"][s] = contrib["worker"][s],
         Nothing(CallPlaces(S, J), callPlace(x), callPlace(x)')
  PROVE  Gives(m, s, S, J)'
<1>1. /\ Gifts(s)' = Gifts(s) /\ CallPlaces(S, J)' = CallPlaces(S, J)
      /\ input \in Inputs
  BY SameInput DEF Alone, CallInv, BlockInv, CloneType
<1>2. m \in Rank /\ s \in Rank /\ s # m
  BY <1>1, FirstWorker DEF Others, Members
<1>3. \A r \in Rank \ {x} : callPlace(r)' = callPlace(r)
  BY StaysPlaces DEF Alone
<1>4. Sync({"call", "data"}, contrib["worker"][s], CallPlaces(S, J), Gifts(s),
           callPlace(m), callPlace(s))
  BY DEF Fine, Gives
<1>5. Sync({"call", "data"}, contrib["worker"][s], CallPlaces(S, J), Gifts(s),
           callPlace(m)', callPlace(s)')
  <2>1. CASE s = x
    BY <1>2, <1>3, <1>4, <2>1, SyncWriterIdle
  <2>2. CASE m = x
    BY <1>2, <1>3, <1>4, <2>2, SyncReaderIdle
  <2>3. CASE s # x /\ m # x
    BY <1>2, <1>3, <1>4, <2>3
  <2> QED
    BY <2>1, <2>2, <2>3
<1> QED
  BY <1>1, <1>5, GivesNext

(* A worker gives its part of the reduction it is at,                      *)
LEMMA CallGiven ==
  ASSUME CallInv, NEW x \in Rank, Alone(x), NEW m, m = RootOf("worker", x),
         NEW S, NEW J, NEW X, Fine(m, S, J, X), x # m, NEW c,
         contrib'["worker"][x] = Append(contrib["worker"][x], c),
         Agree({"call", "data"}, c, Gifts(x)[callPlace(x)]),
         Only(CallPlaces(S, J), callPlace(x), callPlace(x)')
  PROVE  Gives(m, x, S, J)'
<1>1. /\ Gifts(x)' = Gifts(x) /\ CallPlaces(S, J)' = CallPlaces(S, J)
      /\ input \in Inputs
  BY SameInput DEF Alone, CallInv, BlockInv, CloneType
<1>2. m \in Rank /\ x \in Others("worker", m)
  BY <1>1, FirstWorker DEF Others
<1>3. callPlace(m)' = callPlace(m)
  BY <1>2, StaysPlaces DEF Alone
<1>4. Sync({"call", "data"}, contrib["worker"][x], CallPlaces(S, J), Gifts(x),
           callPlace(m), callPlace(x))
  BY <1>2 DEF Fine, Gives
<1>6. Sync({"call", "data"}, Append(contrib["worker"][x], c), CallPlaces(S, J), Gifts(x),
           callPlace(m), callPlace(x)')
  BY <1>4, SyncWrite
<1> QED
  BY <1>1, <1>3, <1>6, GivesNext

(* and the first worker takes all of them.                                 *)
LEMMA CallTaken ==
  ASSUME CallInv, NEW x \in Rank, Alone(x), x = RootOf("worker", x),
         NEW S, NEW J, NEW X, Fine(x, S, J, X), NEW s \in Others("worker", x),
         contrib["worker"][s] # <<>>,
         contrib'["worker"][s] = Tail(contrib["worker"][s]),
         Only(CallPlaces(S, J), callPlace(x), callPlace(x)')
  PROVE  Gives(x, s, S, J)'
<1>1. Gifts(s)' = Gifts(s) /\ CallPlaces(S, J)' = CallPlaces(S, J) /\ s \in Rank /\ s # x
  BY SameInput DEF Alone, Others, Members
<1>2. callPlace(s)' = callPlace(s)
  BY <1>1, StaysPlaces DEF Alone
<1>3. Sync({"call", "data"}, contrib["worker"][s], CallPlaces(S, J), Gifts(s),
           callPlace(x), callPlace(s))
  BY DEF Fine, Gives
<1>4. Sync({"call", "data"}, Tail(contrib["worker"][s]), CallPlaces(S, J), Gifts(s),
           callPlace(x)', callPlace(s))
  BY <1>3, SyncRead
<1> QED
  BY <1>1, <1>2, <1>4, GivesNext

-----------------------------------------------------------------------------
(* The averages over the clones.                                           *)
LEMMA NoAverage ==
  ASSUME CallInv, NEW x \in Rank, Alone(x), NEW comm \in {"clone", "world"},
         NEW s \in Others(comm, 0), contrib'[comm][s] = contrib[comm][s],
         s = x \/ 0 = x => Nothing(AveragePlaces(comm), averagePlace(x), averagePlace(x)')
  PROVE  Meets(comm, s)'
<1>1. /\ Calls' = Calls /\ AveragePlaces(comm)' = AveragePlaces(comm)
      /\ 0 \in Rank /\ s \in Rank /\ s # 0
  BY SameInput, FirstRank DEF Alone, CallInv, BlockInv, CloneType, Others, Members
<1>2. \A r \in Rank \ {x} : averagePlace(r)' = averagePlace(r)
  BY StaysPlaces DEF Alone
<1>3. Sync({"call"}, contrib[comm][s], AveragePlaces(comm), Calls, averagePlace(0),
           averagePlace(s))
  BY DEF CallInv, Meets
<1>4. Sync({"call"}, contrib[comm][s], AveragePlaces(comm), Calls, averagePlace(0)',
           averagePlace(s)')
  <2>1. CASE s = x
    BY <1>1, <1>2, <1>3, <2>1, SyncWriterIdle
  <2>2. CASE 0 = x
    <3>1. averagePlace(s)' = averagePlace(s)
      BY <1>1, <1>2, <2>2
    <3>2. Nothing(AveragePlaces(comm), averagePlace(0), averagePlace(0)')
      BY <2>2
    <3> QED
      BY <1>3, <3>1, <3>2, SyncReaderIdle
  <2>3. CASE s # x /\ 0 # x
    BY <1>1, <1>2, <1>3, <2>3
  <2> QED
    BY <2>1, <2>2, <2>3
<1> QED
  BY <1>1, <1>4, MeetsNext

(* A rank gives its part of the average it is at,                          *)
LEMMA AverageGiven ==
  ASSUME CallInv, NEW x \in Rank, Alone(x), NEW comm \in {"clone", "world"},
         x \in Others(comm, 0), NEW c,
         contrib'[comm][x] = Append(contrib[comm][x], c),
         c.call = Calls[averagePlace(x)].call,
         Only(AveragePlaces(comm), averagePlace(x), averagePlace(x)')
  PROVE  Meets(comm, x)'
<1>1. /\ Calls' = Calls /\ AveragePlaces(comm)' = AveragePlaces(comm)
      /\ 0 \in Rank /\ x # 0
  BY SameInput, FirstRank DEF Alone, CallInv, BlockInv, CloneType, Others, Members
<1>2. averagePlace(0)' = averagePlace(0)
  BY <1>1, StaysPlaces DEF Alone
<1>3. Sync({"call"}, contrib[comm][x], AveragePlaces(comm), Calls, averagePlace(0),
           averagePlace(x))
  BY DEF CallInv, Meets
<1>4. Agree({"call"}, c, Calls[averagePlace(x)])
  BY DEF Agree
<1>5. Sync({"call"}, Append(contrib[comm][x], c), AveragePlaces(comm), Calls,
           averagePlace(0), averagePlace(x)')
  BY <1>3, <1>4, SyncWrite
<1> QED
  BY <1>1, <1>2, <1>5, MeetsNext

(* and rank 0 takes all of them.                                           *)
LEMMA AverageTaken ==
  ASSUME CallInv, Alone(0), NEW comm \in {"clone", "world"},
         NEW s \in Others(comm, 0), contrib[comm][s] # <<>>,
         contrib'[comm][s] = Tail(contrib[comm][s]),
         Only(AveragePlaces(comm), averagePlace(0), averagePlace(0)')
  PROVE  Meets(comm, s)'
<1>1. Calls' = Calls /\ AveragePlaces(comm)' = AveragePlaces(comm) /\ s \in Rank /\ s # 0
  BY SameInput DEF Alone, Others, Members
<1>2. averagePlace(s)' = averagePlace(s)
  BY <1>1, StaysPlaces DEF Alone
<1>3. Sync({"call"}, contrib[comm][s], AveragePlaces(comm), Calls, averagePlace(0),
           averagePlace(s))
  BY DEF CallInv, Meets
<1>4. Sync({"call"}, Tail(contrib[comm][s]), AveragePlaces(comm), Calls,
           averagePlace(0)', averagePlace(s))
  BY <1>3, SyncRead
<1> QED
  BY <1>1, <1>2, <1>4, MeetsNext

-----------------------------------------------------------------------------
(* A Reduce appends to one queue on a rank that is not the root,           *)
LEMMA Contributed ==
  ASSUME Typed, NEW comm \in Comm, NEW x \in Rank, NEW call, NEW data,
         Contribute(comm, x, call, data)
  PROVE  /\ DOMAIN contrib' = Comm /\ \A c \in Comm : DOMAIN contrib'[c] = Rank
         /\ contrib'[comm][x] = Append(contrib[comm][x], [call |-> call, data |-> data])
         /\ \A s \in Rank : s # x => contrib'[comm][s] = contrib[comm][s]
         /\ \A c \in Comm : c # comm => contrib'[c] = contrib[c]
BY DEF Typed, Contribute

(* and takes the first of each on the root.                                *)
LEMMA Combined ==
  ASSUME Typed, NEW comm \in Comm, NEW x \in Rank, Combine(comm, x)
  PROVE  /\ DOMAIN contrib' = Comm /\ \A c \in Comm : DOMAIN contrib'[c] = Rank
         /\ \A s \in Others(comm, x) : contrib'[comm][s] = Tail(contrib[comm][s])
         /\ \A s \in Rank : s \notin Others(comm, x) => contrib'[comm][s] = contrib[comm][s]
         /\ \A c \in Comm : c # comm => contrib'[c] = contrib[c]
<1>1. \A s \in Others(comm, x) : s \in Rank
  BY DEF Others, Members, Comm
<1> QED
  BY <1>1 DEF Typed, Combine

(* The loops over the estimators.                                          *)
LEMMA EstimatorMoves ==
  ASSUME CallInv, NEW x \in Rank, NEW after, NextEstimator(x, after),
         UNCHANGED <<input, measured, block, modelVars>>, at[x] # after
  PROVE  /\ Alone(x) /\ est' \in [Rank -> Nat] /\ measured' \in [Rank -> Nat]
         /\ DOMAIN modelState' = Rank /\ DOMAIN imodel' = Rank /\ DOMAIN jmodel' = Rank
         /\ NEst \in Nat /\ est[x] \in 1 .. NEst
         /\ \/ est[x] < NEst /\ est'[x] = est[x] + 1 /\ at'[x] = at[x]
            \/ est[x] = NEst /\ est'[x] = 1 /\ at'[x] = after
<1>1. /\ est \in [Rank -> Nat] /\ measured \in [Rank -> Nat] /\ Course(x)
      /\ at \in [Rank -> Before \cup Ended] /\ input \in Inputs
      /\ DOMAIN modelState = Rank /\ DOMAIN imodel = Rank /\ DOMAIN jmodel = Rank
  BY DEF CallInv, Typed, BlockInv, CloneType
<1>2. NEst \in Nat /\ est[x] \in 1 .. NEst
  BY <1>1, EstimatorCount DEF Course
<1>3. \/ est[x] < NEst /\ est' = [est EXCEPT ![x] = @ + 1] /\ at' = at
      \/ ~(est[x] < NEst) /\ est' = [est EXCEPT ![x] = 1] /\ at' = [at EXCEPT ![x] = after]
  BY DEF NextEstimator, Goto, NEst
<1>4. est[x] < NEst \/ est[x] = NEst
  BY <1>2
<1>5. est' \in [Rank -> Nat]
  BY <1>1, <1>3
<1>6. /\ \A s \in Rank \ {x} : est'[s] = est[s] /\ at'[s] = at[s]
      /\ \/ est[x] < NEst /\ est'[x] = est[x] + 1 /\ at'[x] = at[x]
         \/ est[x] = NEst /\ est'[x] = 1 /\ at'[x] = after
  BY <1>1, <1>2, <1>3, <1>4
<1>7. Alone(x)
  BY <1>6 DEF Alone, Stays, modelVars
<1> QED
  BY <1>1, <1>2, <1>5, <1>6, <1>7 DEF modelVars

-----------------------------------------------------------------------------
(* Measure::run.                                                           *)
LEMMA Measuring ==
  ASSUME CallInv, NEW x \in Rank, at[x] = "measure", NextEstimator(x, "endTurn"),
         UNCHANGED <<input, measured, block, modelVars, bcast>>
  PROVE  /\ Alone(x) /\ Course(x)' /\ Silent(x) /\ KeepsKnowing(x)
         /\ averagePlace(x)' = averagePlace(x)
         /\ callPlace(x) = <<measured[x], est[x]>>
         /\ \A S, J : IF Reduced(est[x])
                      THEN Only(CallPlaces(S, J), callPlace(x), callPlace(x)')
                      ELSE Nothing(CallPlaces(S, J), callPlace(x), callPlace(x)')
<1>1. /\ Alone(x) /\ NEst \in Nat /\ est[x] \in 1 .. NEst
      /\ \/ est[x] < NEst /\ est'[x] = est[x] + 1 /\ at'[x] = "measure"
         \/ est[x] = NEst /\ est'[x] = 1 /\ at'[x] = "endTurn"
  BY EstimatorMoves
<1>2. NEst' = NEst /\ measured'[x] = measured[x] /\ block'[x] = block[x]
      /\ modelState' = modelState
  BY SameInput DEF modelVars
<1>3. measured[x] \in Nat /\ Course(x) /\ est[x] > 0
  BY <1>1, PlacesOf DEF CallInv
<1>4. Course(x)'
  <2>1. isCloneMain(x)' = isCloneMain(x)
    BY SameInput
  <2>2. est'[x] \in 1 .. NEst
    BY <1>1
  <2> QED
    BY <1>1, <1>2, <2>1, <2>2 DEF Course
<1>5. Silent(x)
  <2>1. tellPlace(x)' = tellPlace(x)
    BY <1>1, <1>2 DEF tellPlace
  <2> QED
    BY <2>1 DEF Silent
<1>6. KeepsKnowing(x)
  BY <1>1, <1>2 DEF KeepsKnowing, Knows
<1>7. averagePlace(x)' = averagePlace(x)
  BY <1>1, <1>2 DEF averagePlace, Ended, Counting, Passed
<1>8. ASSUME NEW S, NEW J
      PROVE  IF Reduced(est[x])
             THEN Only(CallPlaces(S, J), callPlace(x), callPlace(x)')
             ELSE Nothing(CallPlaces(S, J), callPlace(x), callPlace(x)')
  <2>1. CallPlaces(S, J) \in SUBSET Place
    BY PlacesSets
  <2>2. callPlace(x) = <<measured[x], est[x]>>
    BY DEF callPlace
  <2>3. Reduced(est[x]) <=> <<measured[x], est[x]>> \in CallPlaces(S, J)
    BY <1>1, <1>3 DEF CallPlaces, Place
  <2>4. \A i \in Nat : i > NEst => <<measured[x], i>> \notin CallPlaces(S, J)
    BY <1>1 DEF CallPlaces, Reduced
  <2>5. CASE est[x] < NEst
    <3>1. callPlace(x)' = <<measured[x], est[x] + 1>>
      BY <1>1, <1>2, <2>5 DEF callPlace
    <3> QED
      BY <1>1, <1>3, <2>1, <2>2, <2>3, <3>1, NextPlace
  <2>6. CASE est[x] = NEst
    <3>1. callPlace(x)' = <<measured[x] + 1, 0>>
      BY <1>1, <1>2, <2>6 DEF callPlace
    <3> QED
      BY <1>1, <1>3, <2>1, <2>2, <2>3, <2>4, <2>6, <3>1, NextTurn
  <2> QED
    BY <1>1, <2>5, <2>6
<1> QED
  BY <1>1, <1>4, <1>5, <1>6, <1>7, <1>8 DEF callPlace

(* The averages are not disturbed by a call of the workers.                *)
LEMMA WorkerCallOnly ==
  ASSUME CallInv, NEW x \in Rank, Alone(x), averagePlace(x)' = averagePlace(x),
         contrib'["clone"] = contrib["clone"], contrib'["world"] = contrib["world"]
  PROVE  \A comm \in {"clone", "world"} : \A s \in Others(comm, 0) : Meets(comm, s)'
<1>1. averagePlace(x) \in Place
  BY PlacesOf DEF CallInv
<1>2. \A comm : Nothing(AveragePlaces(comm), averagePlace(x), averagePlace(x)')
  BY <1>1, PlacesSets, NothingSame
<1> QED
  BY <1>2, NoAverage

(* AccumulatorEstimators and others reduce over the workers in evaluate,   *)
(* AccRejEstimator does not.                                               *)
LEMMA MeasureCalls ==
  ASSUME CallInv, BlockInv', NEW x \in Rank, UNCHANGED loopVars, UNCHANGED modelVars,
         EvaluateOther(x) \/ EvaluateRoot(x) \/ EvaluateAccRej(x)
  PROVE  CallInv'
<1>0. PICK m : m = RootOf("worker", x)
  OBVIOUS
<1>1. /\ at[x] = "measure" /\ NextEstimator(x, "endTurn")
      /\ UNCHANGED <<input, measured, block, modelVars, bcast>>
  BY DEF EvaluateOther, EvaluateRoot, EvaluateAccRej, loopVars
<1>2. /\ Alone(x) /\ Course(x)' /\ Silent(x) /\ KeepsKnowing(x)
      /\ averagePlace(x)' = averagePlace(x)
      /\ callPlace(x) = <<measured[x], est[x]>>
      /\ \A S, J : IF Reduced(est[x])
                   THEN Only(CallPlaces(S, J), callPlace(x), callPlace(x)')
                   ELSE Nothing(CallPlaces(S, J), callPlace(x), callPlace(x)')
  BY <1>1, Measuring
<1>3. /\ est' \in [Rank -> Nat] /\ measured' \in [Rank -> Nat] /\ est[x] \in 1 .. NEst
      /\ DOMAIN modelState' = Rank /\ DOMAIN imodel' = Rank /\ DOMAIN jmodel' = Rank
      /\ NEst \in Nat
  BY <1>1, EstimatorMoves
<1>4. /\ input \in Inputs /\ Typed /\ Rank' = Rank /\ measured[x] \in Nat
      /\ "worker" \in Comm /\ "clone" \in Comm /\ "world" \in Comm
  BY <1>1, SameInput, PlacesOf DEF CallInv, BlockInv, CloneType, Comm
<1>5. /\ Reduced(est[x]) <=> Estimator(x) # "accrej"
      /\ Calls[callPlace(x)].call = Estimator(x)
  BY <1>2, <1>3, <1>4 DEF Reduced, Estimator, Calls, Place
<1>6. /\ m \in Rank /\ isCloneMain(m) /\ x \in Members("worker", m)
      /\ x = m <=> isCloneMain(x)
      /\ \A s \in Rank : cloneID(s) = cloneID(x) <=> s \in Members("worker", m)
  BY <1>0, <1>4, FirstWorker DEF Members
<1>7. /\ DOMAIN contrib' = Comm /\ \A c \in Comm : DOMAIN contrib'[c] = Rank
      /\ contrib'["clone"] = contrib["clone"] /\ contrib'["world"] = contrib["world"]
      /\ \A s \in Rank : cloneID(s) # cloneID(x) => SameQueues(s)
      /\ \A S, J, X : Fine(m, S, J, X) => \A s \in Others("worker", m) : Gives(m, s, S, J)'
  <2>1. CASE EvaluateOther(x)
    <3>1. PICK data : /\ Contribute("worker", x, Estimator(x), data)
                      /\ data = [sum |-> Measured(x, measured[x] + 1), nslice |-> 1]
      BY <2>1 DEF EvaluateOther
    <3>2. ~isCloneMain(x) /\ Reduced(est[x])
      BY <1>5, <2>1 DEF EvaluateOther
    <3> DEFINE c == [call |-> Estimator(x), data |-> data]
    <3>3. /\ DOMAIN contrib' = Comm /\ \A d \in Comm : DOMAIN contrib'[d] = Rank
          /\ contrib'["worker"][x] = Append(contrib["worker"][x], c)
          /\ \A s \in Rank : s # x => contrib'["worker"][s] = contrib["worker"][s]
          /\ \A d \in Comm : d # "worker" => contrib'[d] = contrib[d]
      BY <1>4, <3>1, Contributed
    <3>4. Agree({"call", "data"}, c, Gifts(x)[callPlace(x)])
      <4>1. Gifts(x)[callPlace(x)] = c
        BY <1>2, <1>3, <1>4, <3>1 DEF Gifts, Place, Estimator
      <4> QED
        BY <4>1 DEF Agree
    <3> HIDE DEF c
    <3>5. ASSUME NEW S, NEW J, NEW X, Fine(m, S, J, X), NEW s \in Others("worker", m)
          PROVE  Gives(m, s, S, J)'
      <4>1. s \in Rank
        BY DEF Others, Members
      <4>2. Only(CallPlaces(S, J), callPlace(x), callPlace(x)')
        BY <1>2, <3>2
      <4>3. CASE s = x
        BY <1>2, <1>6, <3>2, <3>3, <3>4, <3>5, <4>2, <4>3, CallGiven, <1>0
      <4>4. CASE s # x
        <5>1. x # m
          BY <1>6, <3>2
        <5>2. callPlace(s)' = callPlace(s) /\ callPlace(m)' = callPlace(m)
          BY <1>2, <1>6, <4>1, <4>4, <5>1, StaysPlaces DEF Alone
        <5>3. CallPlaces(S, J)' = CallPlaces(S, J) /\ Gifts(s)' = Gifts(s)
          BY <1>1, SameInput
        <5>4. Gives(m, s, S, J)
          BY <3>5 DEF Fine
        <5> QED
          BY <3>3, <4>1, <4>4, <5>2, <5>3, <5>4, GivesNext DEF Gives
      <4> QED
        BY <4>3, <4>4
    <3> QED
      BY <1>1, <1>4, <3>3, <3>5 DEF SameQueues
  <2>2. CASE EvaluateRoot(x)
    <3>1. /\ Combine("worker", x) /\ AllContributed("worker", x) /\ isCloneMain(x)
          /\ Reduced(est[x])
      BY <1>5, <2>2 DEF EvaluateRoot
    <3>2. /\ DOMAIN contrib' = Comm /\ \A c \in Comm : DOMAIN contrib'[c] = Rank
          /\ \A s \in Others("worker", x) : contrib'["worker"][s] = Tail(contrib["worker"][s])
          /\ \A s \in Rank : s \notin Others("worker", x)
                               => contrib'["worker"][s] = contrib["worker"][s]
          /\ \A c \in Comm : c # "worker" => contrib'[c] = contrib[c]
      BY <1>4, <3>1, Combined
    <3>3. ASSUME NEW S, NEW J, NEW X, Fine(m, S, J, X), NEW s \in Others("worker", m)
          PROVE  Gives(m, s, S, J)'
      <4>1. Only(CallPlaces(S, J), callPlace(x), callPlace(x)') /\ x = m
            /\ contrib["worker"][s] # <<>>
        BY <1>2, <1>6, <3>1, <3>3 DEF AllContributed
      <4> QED
        BY <1>0, <1>2, <3>2, <3>3, <4>1, CallTaken
    <3>4. \A s \in Rank : cloneID(s) # cloneID(x) => s \notin Others("worker", x)
      BY DEF Others, Members
    <3> QED
      BY <1>1, <1>4, <3>2, <3>3, <3>4 DEF SameQueues
  <2>3. CASE EvaluateAccRej(x)
    <3>1. contrib' = contrib /\ ~Reduced(est[x])
      BY <1>5, <2>3 DEF EvaluateAccRej
    <3>2. ASSUME NEW S, NEW J, NEW X, Fine(m, S, J, X), NEW s \in Others("worker", m)
          PROVE  Gives(m, s, S, J)'
      <4>1. Nothing(CallPlaces(S, J), callPlace(x), callPlace(x)')
        BY <1>2, <3>1
      <4> QED
        BY <1>0, <1>2, <3>1, <3>2, <4>1, NoCall
    <3> QED
      BY <1>1, <1>4, <3>1, <3>2 DEF SameQueues, Typed
  <2> QED
    BY <2>1, <2>2, <2>3
<1>8. Typed'
  BY <1>1, <1>3, <1>4, <1>7 DEF Typed
<1>9. CloneFine(m)'
  BY <1>0, <1>2, <1>7, <1>8, SilentClone
<1>10. \A comm \in {"clone", "world"} : \A s \in Others(comm, 0) : Meets(comm, s)'
  BY <1>2, <1>7, WorkerCallOnly
<1> QED
  BY <1>2, <1>7, <1>8, <1>9, <1>10, <1>0, OneRankMoves

-----------------------------------------------------------------------------
(* Nothing the invariant is about has changed.                             *)
LEMMA CallsStay ==
  ASSUME CallInv, BlockInv',
         UNCHANGED <<input, at, contrib, bcast, est, measured, block, modelVars>>
  PROVE  CallInv'
<1>1. input \in Inputs /\ 0 \in Rank
  BY FirstRank DEF CallInv, BlockInv, CloneType
<1>2. Rank' = Rank
  BY SameInput
<1>3. \A r \in Rank : Stays(r) /\ SameQueues(r)
  BY DEF Stays, SameQueues, modelVars
<1>4. Typed'
  BY <1>2 DEF Typed, CallInv, modelVars
<1>5. \A r \in Rank : Course(r)'
  BY <1>3, StaysCourse DEF CallInv
<1>6. ASSUME NEW r \in Rank, isCloneMain(r)
      PROVE  CloneFine(r)'
  <2>1. r \in Members("worker", r) /\ \A s \in Members("worker", r) : s \in Rank
    BY DEF Members
  <2> QED
    BY <1>3, <1>6, <2>1, CloneStays DEF CallInv
<1>7. ASSUME NEW comm \in {"clone", "world"}, NEW s \in Others(comm, 0)
      PROVE  Meets(comm, s)'
  <2>1. Calls' = Calls /\ AveragePlaces(comm)' = AveragePlaces(comm)
    BY SameInput
  <2>2. averagePlace(s)' = averagePlace(s) /\ averagePlace(0)' = averagePlace(0)
    <3>1. s \in Rank
      BY DEF Others, Members
    <3> QED
      BY <1>1, <1>3, <3>1, StaysPlaces
  <2>3. Meets(comm, s)
    BY DEF CallInv
  <2> QED
    BY <2>1, <2>2, <2>3, MeetsNext DEF Meets
<1>8. \A r : isCloneMain(r)' = isCloneMain(r)
  BY SameInput
<1>9. \A comm : Others(comm, 0)' = Others(comm, 0)
  BY SameInput
<1> QED
  BY <1>2, <1>4, <1>5, <1>6, <1>7, <1>8, <1>9 DEF CallInv

-----------------------------------------------------------------------------
(* averageOverClones.                                                      *)
LEMMA Averaging ==
  ASSUME CallInv, NEW x \in Rank, at[x] = "average", NextEstimator(x, "write"),
         UNCHANGED <<input, measured, block, modelVars, bcast>>
  PROVE  /\ Alone(x) /\ Course(x)' /\ Silent(x) /\ KeepsKnowing(x)
         /\ callPlace(x)' = callPlace(x)
         /\ averagePlace(x) = <<block[x], est[x]>>
         /\ \A comm \in {"clone", "world"} :
              IF Estimator(x) = "accrej" <=> comm = "world"
              THEN Only(AveragePlaces(comm), averagePlace(x), averagePlace(x)')
              ELSE Nothing(AveragePlaces(comm), averagePlace(x), averagePlace(x)')
<1>1. /\ Alone(x) /\ NEst \in Nat /\ est[x] \in 1 .. NEst
      /\ \/ est[x] < NEst /\ est'[x] = est[x] + 1 /\ at'[x] = "average"
         \/ est[x] = NEst /\ est'[x] = 1 /\ at'[x] = "write"
  BY EstimatorMoves
<1>2. NEst' = NEst /\ measured'[x] = measured[x] /\ block'[x] = block[x]
      /\ modelState' = modelState
  BY SameInput DEF modelVars
<1>3. measured[x] \in Nat /\ block[x] \in Nat /\ Course(x) /\ est[x] > 0
  BY <1>1, PlacesOf DEF CallInv
<1>4. Course(x)'
  <2>1. isCloneMain(x)' = isCloneMain(x)
    BY SameInput
  <2>2. est'[x] \in 1 .. NEst
    BY <1>1
  <2> QED
    BY <1>1, <1>2, <2>1, <2>2 DEF Course
<1>5. Silent(x)
  <2>1. tellPlace(x)' = tellPlace(x)
    BY <1>1, <1>2 DEF tellPlace
  <2> QED
    BY <2>1 DEF Silent
<1>6. KeepsKnowing(x)
  BY <1>1, <1>2 DEF KeepsKnowing, Knows
<1>7. callPlace(x)' = callPlace(x)
  BY <1>1, <1>2 DEF callPlace
<1>8. averagePlace(x) = <<block[x], est[x]>>
  BY DEF averagePlace, Ended, Counting, Passed
<1>9. ASSUME NEW comm \in {"clone", "world"}
      PROVE  IF Estimator(x) = "accrej" <=> comm = "world"
             THEN Only(AveragePlaces(comm), averagePlace(x), averagePlace(x)')
             ELSE Nothing(AveragePlaces(comm), averagePlace(x), averagePlace(x)')
  <2>1. AveragePlaces(comm) \in SUBSET Place
    BY PlacesSets
  <2>2. (Estimator(x) = "accrej" <=> comm = "world")
          <=> <<block[x], est[x]>> \in AveragePlaces(comm)
    BY <1>1, <1>3 DEF AveragePlaces, Place, Estimator
  <2>3. \A i \in Nat : i > NEst => <<block[x], i>> \notin AveragePlaces(comm)
    BY <1>1 DEF AveragePlaces
  <2>4. CASE est[x] < NEst
    <3>1. averagePlace(x)' = <<block[x], est[x] + 1>>
      BY <1>1, <1>2, <2>4 DEF averagePlace, Ended, Counting, Passed
    <3> QED
      BY <1>1, <1>3, <1>8, <2>1, <2>2, <3>1, NextPlace
  <2>5. CASE est[x] = NEst
    <3>1. averagePlace(x)' = <<block[x] + 1, 0>>
      BY <1>1, <1>2, <2>5 DEF averagePlace, Ended, Counting, Passed
    <3> QED
      BY <1>1, <1>3, <1>8, <2>1, <2>2, <2>3, <2>5, <3>1, NextTurn
  <2> QED
    BY <1>1, <2>4, <2>5
<1> QED
  BY <1>1, <1>4, <1>5, <1>6, <1>7, <1>8, <1>9

(* What a rank does in averageOverClones, unless the run is aborted: it is *)
(* not concerned, gives its part to rank 0 or is rank 0 and takes them.    *)
AverageEffect(x, comm) ==
  \/ contrib' = contrib /\ comm = "clone" /\ ~isCloneMain(x)
  \/ x \in Others(comm, 0) /\ \E data : Contribute(comm, x, Estimator(x), data)
  \/ x = 0 /\ AllContributed(comm, x) /\ Combine(comm, x)

(* On a rank that is not in the communicator the run is aborted and        *)
(* nothing else changes.                                                   *)
LEMMA AverageActions ==
  ASSUME NEW x \in Rank, UNCHANGED loopVars, UNCHANGED modelVars,
         AverageScalar(x) \/ AverageArray(x) \/ AverageAccRej(x)
  PROVE  \/ UNCHANGED <<input, at, contrib, bcast, est, measured, block, modelVars>>
         \/ /\ at[x] = "average" /\ NextEstimator(x, "write")
            /\ UNCHANGED <<input, measured, block, modelVars, bcast>>
            /\ AverageEffect(x, IF Estimator(x) = "accrej" THEN "world" ELSE "clone")
<1>1. /\ x # 0 => x \in Others("world", 0)
      /\ x # 0 /\ isCloneMain(x) => x \in Others("clone", 0)
  BY DEF Others, Members
<1>2. CASE AverageScalar(x)
  <2>1. Estimator(x) # "accrej" /\ UNCHANGED <<input, measured, bcast, block>>
        /\ at[x] = "average"
    BY <1>2 DEF AverageScalar, ScalarKind, Accumulators, loopVars
  <2>2. \/ UNCHANGED <<at, est, contrib>>
        \/ NextEstimator(x, "write") /\ AverageEffect(x, "clone")
    BY <1>1, <1>2 DEF AverageScalar, AverageEffect, Reduces, isMain
  <2> QED
    BY <2>1, <2>2
<1>3. CASE AverageArray(x)
  <2>1. Estimator(x) # "accrej" /\ UNCHANGED <<input, measured, bcast, block>>
        /\ at[x] = "average" /\ NextEstimator(x, "write")
    BY <1>3 DEF AverageArray, loopVars
  <2>2. AverageEffect(x, "clone")
    BY <1>1, <1>3 DEF AverageArray, AverageEffect, isMain
  <2> QED
    BY <2>1, <2>2
<1>4. CASE AverageAccRej(x)
  <2>1. Estimator(x) = "accrej" /\ UNCHANGED <<input, measured, bcast, block>>
        /\ at[x] = "average" /\ NextEstimator(x, "write")
    BY <1>4 DEF AverageAccRej, loopVars
  <2>2. AverageEffect(x, "world")
    BY <1>1, <1>4, <2>1 DEF AverageAccRej, AverageEffect, isMain
  <2> QED
    BY <2>1, <2>2
<1> QED
  BY <1>2, <1>3, <1>4

(* averageOverClones: first workers reduce to rank 0, for AccRejEstimator  *)
(* all ranks do.                                                           *)
LEMMA AverageCalls ==
  ASSUME CallInv, BlockInv', NEW x \in Rank, UNCHANGED loopVars, UNCHANGED modelVars,
         AverageScalar(x) \/ AverageArray(x) \/ AverageAccRej(x)
  PROVE  CallInv'
<1> SUFFICES ASSUME at[x] = "average", NextEstimator(x, "write"),
                    UNCHANGED <<input, measured, block, modelVars, bcast>>,
                    AverageEffect(x, IF Estimator(x) = "accrej" THEN "world" ELSE "clone")
             PROVE  CallInv'
  BY AverageActions, CallsStay
<1>0. PICK m : m = RootOf("worker", x)
  OBVIOUS
<1>1. PICK comm \in {"clone", "world"} :
        comm = IF Estimator(x) = "accrej" THEN "world" ELSE "clone"
  OBVIOUS
<1>2. /\ Alone(x) /\ Course(x)' /\ Silent(x) /\ KeepsKnowing(x)
      /\ callPlace(x)' = callPlace(x)
      /\ averagePlace(x) = <<block[x], est[x]>>
      /\ Only(AveragePlaces(comm), averagePlace(x), averagePlace(x)')
      /\ \A c \in {"clone", "world"} :
           c # comm => Nothing(AveragePlaces(c), averagePlace(x), averagePlace(x)')
  BY <1>1, Averaging
<1>3. /\ est' \in [Rank -> Nat] /\ measured' \in [Rank -> Nat] /\ est[x] \in 1 .. NEst
      /\ DOMAIN modelState' = Rank /\ DOMAIN imodel' = Rank /\ DOMAIN jmodel' = Rank
      /\ NEst \in Nat
  BY EstimatorMoves
<1>4. /\ input \in Inputs /\ Typed /\ Rank' = Rank /\ block[x] \in Nat
      /\ comm \in Comm /\ "worker" \in Comm /\ comm # "worker"
      /\ {"clone", "world"} \in SUBSET (Comm \ {"worker"})
  BY <1>1, SameInput, PlacesOf DEF CallInv, BlockInv, CloneType, Comm
<1>5. Calls[averagePlace(x)].call = Estimator(x)
  BY <1>2, <1>3, <1>4 DEF Estimator, Calls, Place
<1>6. AverageEffect(x, comm)
  BY <1>1
<1>7. /\ DOMAIN contrib' = Comm /\ \A c \in Comm : DOMAIN contrib'[c] = Rank
      /\ \A c \in Comm : c # comm => contrib'[c] = contrib[c]
  <2>1. CASE contrib' = contrib
    BY <1>4, <2>1 DEF Typed
  <2>2. ASSUME NEW data, Contribute(comm, x, Estimator(x), data)
        PROVE  /\ DOMAIN contrib' = Comm /\ \A c \in Comm : DOMAIN contrib'[c] = Rank
               /\ \A c \in Comm : c # comm => contrib'[c] = contrib[c]
    BY <1>4, <2>2, Contributed
  <2>3. CASE Combine(comm, x)
    BY <1>4, <2>3, Combined
  <2> QED
    BY <1>6, <2>1, <2>2, <2>3 DEF AverageEffect
<1>8. contrib'["worker"] = contrib["worker"] /\ \A s : SameQueues(s)
  BY <1>4, <1>7 DEF SameQueues
<1>9. Typed'
  BY <1>3, <1>4, <1>7 DEF Typed
<1>10. CloneFine(m)'
  <2>1. ASSUME NEW S, NEW J, NEW X, Fine(m, S, J, X), NEW s \in Others("worker", m)
        PROVE  Gives(m, s, S, J)'
    <3>1. Nothing(CallPlaces(S, J), callPlace(x), callPlace(x)')
      BY <1>2, PlacesSets, PlacesOf, NothingSame DEF CallInv
    <3> QED
      BY <1>0, <1>2, <1>8, <2>1, <3>1, NoCall
  <2> QED
    BY <1>0, <1>2, <1>9, <2>1, SilentClone
<1>11. ASSUME NEW c \in {"clone", "world"}, NEW s \in Others(c, 0)
       PROVE  Meets(c, s)'
  <2>1. CASE c # comm
    <3>1. contrib'[c][s] = contrib[c][s]
      BY <1>4, <1>7, <2>1
    <3> QED
      BY <1>2, <2>1, <3>1, NoAverage
  <2>2. CASE c = comm
    <3>1. s \in Rank /\ s # 0 /\ 0 \in Rank /\ isCloneMain(0)
      BY <1>4, FirstRank DEF Others, Members
    <3>2. CASE contrib' = contrib /\ comm = "clone" /\ ~isCloneMain(x)
      <4>1. s # x /\ 0 # x
        BY <2>2, <3>1, <3>2 DEF Others, Members
      <4> QED
        BY <1>2, <3>2, <4>1, NoAverage
    <3>3. ASSUME x \in Others(comm, 0), NEW data, Contribute(comm, x, Estimator(x), data)
          PROVE  Meets(c, s)'
      <4> DEFINE e == [call |-> Estimator(x), data |-> data]
      <4>1. /\ contrib'[comm][x] = Append(contrib[comm][x], e)
            /\ \A i \in Rank : i # x => contrib'[comm][i] = contrib[comm][i]
        BY <1>4, <3>3, Contributed
      <4>2. e.call = Calls[averagePlace(x)].call /\ x # 0
        BY <1>5, <3>3 DEF Others
      <4> HIDE DEF e
      <4>3. CASE s = x
        BY <1>2, <2>2, <3>3, <4>1, <4>2, <4>3, AverageGiven
      <4>4. CASE s # x
        <5>1. contrib'[c][s] = contrib[c][s]
          BY <2>2, <3>1, <4>1, <4>4
        <5> QED
          BY <1>2, <4>2, <4>4, <5>1, NoAverage
      <4> QED
        BY <4>3, <4>4
    <3>4. CASE x = 0 /\ AllContributed(comm, x) /\ Combine(comm, x)
      <4>1. contrib[comm][s] # <<>> /\ contrib'[comm][s] = Tail(contrib[comm][s])
        BY <1>4, <2>2, <3>4, Combined DEF AllContributed
      <4> QED
        BY <1>2, <2>2, <3>4, <4>1, AverageTaken
    <3> QED
      BY <1>6, <3>2, <3>3, <3>4 DEF AverageEffect
  <2> QED
    BY <2>1, <2>2
<1> QED
  BY <1>0, <1>2, <1>8, <1>9, <1>10, <1>11, OneRankMoves

-----------------------------------------------------------------------------
(* A rank goes on without a call.                                          *)
LEMMA Walks ==
  ASSUME CallInv, BlockInv', NEW x \in Rank, Alone(x), Course(x)', KeepsKnowing(x),
         UNCHANGED <<contrib, bcast, est, modelVars>>, measured' \in [Rank -> Nat],
         input.sampler => tellPlace(x)' = tellPlace(x),
         \A S, J : Nothing(CallPlaces(S, J), callPlace(x), callPlace(x)'),
         \A comm : Nothing(AveragePlaces(comm), averagePlace(x), averagePlace(x)')
  PROVE  CallInv'
<1>0. PICK m : m = RootOf("worker", x)
  OBVIOUS
<1>1. Rank' = Rank /\ Typed
  BY SameInput DEF Alone, CallInv
<1>2. Typed'
  BY <1>1 DEF Typed, modelVars
<1>3. \A s : SameQueues(s)
  BY DEF SameQueues
<1>4. Silent(x)
  BY DEF Silent
<1>5. ASSUME NEW S, NEW J, NEW X, Fine(m, S, J, X), NEW s \in Others("worker", m)
      PROVE  Gives(m, s, S, J)'
  <2>1. contrib'["worker"][s] = contrib["worker"][s]
        /\ Nothing(CallPlaces(S, J), callPlace(x), callPlace(x)')
    OBVIOUS
  <2> QED
    BY <1>0, <1>5, <2>1, NoCall
<1>6. CloneFine(m)'
  BY <1>0, <1>2, <1>4, <1>5, SilentClone
<1>7. ASSUME NEW comm \in {"clone", "world"}, NEW s \in Others(comm, 0)
      PROVE  Meets(comm, s)'
  <2>1. contrib'[comm][s] = contrib[comm][s]
    OBVIOUS
  <2> QED
    BY <2>1, NoAverage
<1> QED
  BY <1>0, <1>2, <1>3, <1>6, <1>7, OneRankMoves

(* The first step of a turn is at the place where the last one ended: no   *)
(* call is left out.                                                       *)
LEMMA FirstPlace ==
  ASSUME NEW t \in Nat, NEW S, NEW J
  PROVE  /\ Nothing(CallPlaces(S, J), <<t, 0>>, <<t, 0>>)
         /\ ~input.sampler => Nothing(CallPlaces(S, J), <<t, 0>>, <<t, 1>>)
<1>1. CallPlaces(S, J) \in SUBSET Place /\ <<t, 0>> \in Place
  BY PlacesSets DEF Place
<1>2. ~input.sampler => <<t, 0>> \notin CallPlaces(S, J)
  BY DEF CallPlaces, Tested, Reduced
<1>3. 0 \in Nat /\ 0 + 1 = 1
  OBVIOUS
<1> QED
  BY <1>1, <1>2, <1>3, NothingSame, NextPlace

(* No average comes before the first estimator.                            *)
LEMMA AverageFirst ==
  ASSUME NEW b \in Nat, NEW comm
  PROVE  /\ Nothing(AveragePlaces(comm), <<b, 0>>, <<b, 0>>)
         /\ Nothing(AveragePlaces(comm), <<b, 0>>, <<b, 1>>)
<1>1. AveragePlaces(comm) \in SUBSET Place /\ <<b, 0>> \in Place
  BY PlacesSets DEF Place
<1>2. <<b, 0>> \notin AveragePlaces(comm)
  BY DEF AveragePlaces
<1>3. 0 \in Nat /\ 0 + 1 = 1
  OBVIOUS
<1> QED
  BY <1>1, <1>2, <1>3, NothingSame, NextPlace

(* Without a ModelSampler the turn begins with Measure.                    *)
LEMMA FirstStepIs ==
  FirstStep = (IF input.sampler THEN "sample" ELSE "measure")
BY DEF FirstStep

-----------------------------------------------------------------------------
(* The end of writeStep.                                                   *)
LEMMA WritesCalls ==
  ASSUME CallInv, BlockInv', NEW x \in Rank, UNCHANGED loopVars, UNCHANGED modelVars,
         WriteStep(x) \/ LeaveWorkerBarrier(x) \/ LeaveCloneBarrier(x)
  PROVE  CallInv'
<1>1. /\ at[x] \in {"write", "workerBarrier", "cloneBarrier"}
      /\ \E where \in {"workerBarrier", "cloneBarrier", "endBlock"} : Goto(x, where)
      /\ UNCHANGED <<input, contrib, bcast, est, measured, block>>
  BY DEF WriteStep, LeaveWorkerBarrier, LeaveCloneBarrier, statVars, loopVars
<1>2. /\ at \in [Rank -> Before \cup Ended] /\ measured \in [Rank -> Nat] /\ Course(x)
      /\ measured[x] \in Nat /\ block[x] \in Nat /\ est[x] \in Nat
  BY PlacesOf DEF CallInv, BlockInv, CloneType, Typed
<1>3. /\ at'[x] \in {"workerBarrier", "cloneBarrier", "endBlock"}
      /\ \A s \in Rank \ {x} : at'[s] = at[s]
  BY <1>1, <1>2 DEF Goto
<1>4. Alone(x)
  BY <1>1, <1>3 DEF Alone, Stays, modelVars
<1>5. Course(x)'
  <2>1. isCloneMain(x)' = isCloneMain(x) /\ NEst' = NEst
    BY <1>1, SameInput
  <2> QED
    BY <1>1, <1>2, <1>3, <2>1 DEF Course
<1>6. KeepsKnowing(x)
  BY <1>1, <1>3 DEF KeepsKnowing, Knows, modelVars
<1>7. tellPlace(x)' = tellPlace(x)
  BY <1>1, <1>3 DEF tellPlace
<1>8. callPlace(x)' = callPlace(x) /\ callPlace(x) = <<measured[x], 0>>
  BY <1>1, <1>3 DEF callPlace
<1>9. averagePlace(x)' = averagePlace(x) /\ averagePlace(x) = <<block[x] + 1, 0>>
  BY <1>1, <1>3 DEF averagePlace, Ended, Counting, Passed
<1>10. /\ \A S, J : Nothing(CallPlaces(S, J), callPlace(x), callPlace(x)')
       /\ \A comm : Nothing(AveragePlaces(comm), averagePlace(x), averagePlace(x)')
       /\ measured' \in [Rank -> Nat]
  <2>1. block[x] + 1 \in Nat
    BY <1>2
  <2>2. \A S, J : Nothing(CallPlaces(S, J), callPlace(x), callPlace(x)')
    BY <1>2, <1>8, FirstPlace
  <2>3. \A comm : Nothing(AveragePlaces(comm), averagePlace(x), averagePlace(x)')
    BY <1>9, <2>1, AverageFirst
  <2> QED
    BY <1>1, <1>2, <2>2, <2>3
<1> QED
  BY <1>1, <1>4, <1>5, <1>6, <1>7, <1>10, Walks

(* The outer Loop.                                                         *)
LEMMA EndBlockCalls ==
  ASSUME CallInv, BlockInv', NEW x \in Rank, NEW more \in BOOLEAN, EndBlock(x, more)
  PROVE  CallInv'
<1>1. /\ at[x] = "endBlock" /\ UNCHANGED <<input, contrib, bcast, est, measured, modelVars>>
      /\ \/ block' = [block EXCEPT ![x] = @ + 1] /\ Goto(x, FirstStep)
         \/ block' = block /\ Goto(x, "done")
  BY DEF EndBlock, statVars
<1>2. /\ at \in [Rank -> Before \cup Ended] /\ measured \in [Rank -> Nat] /\ Course(x)
      /\ block \in [Rank -> Nat]
      /\ measured[x] \in Nat /\ block[x] \in Nat /\ est[x] = 1
  BY <1>1, PlacesOf DEF CallInv, BlockInv, CloneType, Typed, Course
<1>3. /\ \/ block'[x] = block[x] + 1 /\ at'[x] = FirstStep
         \/ block'[x] = block[x] /\ at'[x] = "done"
      /\ \A s \in Rank \ {x} : at'[s] = at[s] /\ block'[s] = block[s]
  BY <1>1, <1>2 DEF Goto
<1>4. Alone(x)
  BY <1>1, <1>3 DEF Alone, Stays, modelVars
<1>5. Course(x)'
  <2>1. isCloneMain(x)' = isCloneMain(x) /\ NEst' = NEst
    BY <1>1, SameInput
  <2> QED
    BY <1>1, <1>2, <1>3, <2>1, FirstStepIs DEF Course
<1>6. KeepsKnowing(x)
  <2> SUFFICES ASSUME NEW S, NEW J, NEW X, Knows(x, S, J, X),
                      ~input.sampler => S = [u \in Nat |-> 0]
               PROVE  Knows(x, S, J, X)'
    BY DEF KeepsKnowing
  <2>1. modelState[x] = S[measured[x]] /\ measured'[x] = measured[x]
        /\ modelState'[x] = modelState[x]
    BY <1>1 DEF Knows, modelVars
  <2>2. ~input.sampler => S[measured[x]] = S[measured[x] + 1]
    BY <1>2
  <2> QED
    BY <1>3, <2>1, <2>2, FirstStepIs DEF Knows
<1>7. input.sampler => tellPlace(x)' = tellPlace(x)
  BY <1>1, <1>3, FirstStepIs DEF tellPlace
<1>8. callPlace(x) = <<measured[x], 0>>
      /\ callPlace(x)' = <<measured[x], IF ~input.sampler /\ at'[x] # "done" THEN 1 ELSE 0>>
  BY <1>1, <1>2, <1>3, FirstStepIs DEF callPlace
<1>9. averagePlace(x)' = averagePlace(x) /\ averagePlace(x) = <<block[x] + 1, 0>>
  BY <1>1, <1>3, FirstStepIs DEF averagePlace, Ended, Counting, Passed
<1>10. /\ \A S, J : Nothing(CallPlaces(S, J), callPlace(x), callPlace(x)')
       /\ \A comm : Nothing(AveragePlaces(comm), averagePlace(x), averagePlace(x)')
       /\ measured' \in [Rank -> Nat]
  <2>1. block[x] + 1 \in Nat
    BY <1>2
  <2>2. \A S, J : Nothing(CallPlaces(S, J), callPlace(x), callPlace(x)')
    BY <1>2, <1>8, FirstPlace
  <2>3. \A comm : Nothing(AveragePlaces(comm), averagePlace(x), averagePlace(x)')
    BY <1>9, <2>1, AverageFirst
  <2> QED
    BY <1>1, <1>2, <2>2, <2>3
<1> QED
  BY <1>1, <1>4, <1>5, <1>6, <1>7, <1>10, Walks

(* The inner Loop.                                                         *)
LEMMA EndTurnCalls ==
  ASSUME CallInv, BlockInv', NEW x \in Rank, EndTurn(x)
  PROVE  CallInv'
<1>1. /\ at[x] = "endTurn" /\ UNCHANGED <<input, contrib, bcast, est, block, modelVars>>
      /\ measured' = [measured EXCEPT ![x] = @ + 1]
      /\ Goto(x, FirstStep) \/ Goto(x, "average")
  BY DEF EndTurn
<1>2. /\ at \in [Rank -> Before \cup Ended] /\ measured \in [Rank -> Nat] /\ Course(x)
      /\ block \in [Rank -> Nat]
      /\ measured[x] \in Nat /\ block[x] \in Nat /\ est[x] = 1
  BY <1>1, PlacesOf DEF CallInv, BlockInv, CloneType, Typed, Course
<1>3. /\ at'[x] \in {FirstStep, "average"} /\ measured'[x] = measured[x] + 1
      /\ \A s \in Rank \ {x} : at'[s] = at[s] /\ measured'[s] = measured[s]
      /\ measured' \in [Rank -> Nat]
  BY <1>1, <1>2 DEF Goto
<1>4. Alone(x)
  BY <1>1, <1>3 DEF Alone, Stays, modelVars
<1>5. Course(x)'
  <2>1. isCloneMain(x)' = isCloneMain(x) /\ NEst' = NEst
    BY <1>1, SameInput
  <2> QED
    BY <1>1, <1>2, <1>3, <2>1, FirstStepIs DEF Course
<1>6. KeepsKnowing(x)
  <2> SUFFICES ASSUME NEW S, NEW J, NEW X, Knows(x, S, J, X),
                      ~input.sampler => S = [u \in Nat |-> 0]
               PROVE  Knows(x, S, J, X)'
    BY DEF KeepsKnowing
  <2>1. modelState[x] = S[measured[x] + 1] /\ modelState'[x] = modelState[x]
    BY <1>1 DEF Knows, modelVars
  <2>2. ~input.sampler => S[measured[x] + 1] = S[measured[x] + 1 + 1]
    BY <1>2
  <2> QED
    BY <1>3, <2>1, <2>2, FirstStepIs DEF Knows
<1>7. input.sampler => tellPlace(x)' = tellPlace(x)
  BY <1>1, <1>2, <1>3, FirstStepIs DEF tellPlace
<1>8. callPlace(x) = <<measured[x] + 1, 0>>
      /\ callPlace(x)' = <<measured[x] + 1,
                           IF ~input.sampler /\ at'[x] # "average" THEN 1 ELSE 0>>
  BY <1>1, <1>2, <1>3, FirstStepIs DEF callPlace
<1>9. averagePlace(x) = <<block[x], 0>>
      /\ averagePlace(x)' = <<block[x], IF at'[x] = "average" THEN 1 ELSE 0>>
  BY <1>1, <1>2, <1>3, FirstStepIs DEF averagePlace, Ended, Counting, Passed
<1>10. /\ \A S, J : Nothing(CallPlaces(S, J), callPlace(x), callPlace(x)')
       /\ \A comm : Nothing(AveragePlaces(comm), averagePlace(x), averagePlace(x)')
  <2>1. measured[x] + 1 \in Nat
    BY <1>2
  <2> QED
    BY <1>2, <1>8, <1>9, <2>1, FirstPlace, AverageFirst
<1> QED
  BY <1>1, <1>3, <1>4, <1>5, <1>6, <1>7, <1>10, Walks

-----------------------------------------------------------------------------
(* A turn of ModelSampler is before the averages of its block.             *)
Sampling == {"sample", "proposal", "decide", "decision", "newState", "measure"}

(* In its turn a rank is before the averages,                              *)
LEMMA AverageWaits ==
  ASSUME NEW x, at[x] \in Sampling, at'[x] \in Sampling, block'[x] = block[x]
  PROVE  averagePlace(x)' = averagePlace(x)
BY DEF averagePlace, Sampling, Ended, Counting, Passed

(* and on its course.                                                      *)
LEMMA SamplingCourse ==
  ASSUME CallInv, NEW x \in Rank, at[x] \in Sampling \ {"measure"},
         at'[x] \in {"measure", IF isCloneMain(x) THEN "decide" ELSE "proposal",
                     IF isCloneMain(x) THEN "decide" ELSE "decision",
                     IF isCloneMain(x) THEN "decide" ELSE "newState"},
         UNCHANGED <<input, est>>
  PROVE  Course(x)' /\ input.sampler /\ est[x] = 1
<1>1. Course(x)
  BY DEF CallInv
<1>2. isCloneMain(x)' = isCloneMain(x) /\ NEst' = NEst
  BY SameInput
<1>3. est[x] = 1 /\ input.sampler
  BY <1>1 DEF Course, Sampling
<1> QED
  BY <1>1, <1>2, <1>3 DEF Course

(* The first worker has told more than what it has been told of: the       *)
(* decision of the turn is made.                                           *)
LEMMA Decided ==
  ASSUME CallInv, NEW m \in Rank, isCloneMain(m), NEW S, NEW J, NEW X, Fine(m, S, J, X),
         NEW t \in Nat, NEW k \in {1, 2, 3}, Less(<<t, k>>, tellPlace(m)),
         k = 1 => ~Tested(S, J, t)
  PROVE  Follows(S, J, X, t)
<1>1. Course(m) /\ measured[m] \in Nat
  BY PlacesOf DEF CallInv
<1>2. m \in Members("worker", m)
  BY DEF Members
<1>3. Knows(m, S, J, X)
  BY <1>2 DEF Fine
<1>4. Less(<<t, 3>>, tellPlace(m))
  <2>1. CASE at[m] = "decide"
    <3>1. tellPlace(m) = <<measured[m], 2>> /\ Tested(S, J, measured[m])
      BY <1>1, <1>3, <2>1 DEF tellPlace, Knows
    <3>2. t < measured[m] \/ (t = measured[m] /\ k < 2)
      BY <3>1 DEF Less
    <3>3. t # measured[m]
      BY <3>1, <3>2
    <3> QED
      BY <3>1, <3>2, <3>3 DEF Less
  <2>2. CASE at[m] # "decide"
    <3>1. tellPlace(m)[2] = 0
      BY <1>1, <2>2 DEF tellPlace, Course
    <3>2. t < tellPlace(m)[1]
      BY <3>1 DEF Less
    <3> QED
      BY <3>2 DEF Less
  <2> QED
    BY <2>1, <2>2
<1> QED
  BY <1>4 DEF Fine

(* A worker that is not the first one moves.                               *)
LEMMA ListenerMoves ==
  ASSUME CallInv, BlockInv', Typed', NEW x \in Rank, Alone(x), Course(x)',
         NEW m, m = RootOf("worker", x), x # m, NEW S, NEW J, NEW X, Fine(m, S, J, X),
         \A s \in Rank \ {x} : SameQueues(s),
         Knows(x, S, J, X)', Hears(m, x, S, J, X)', Gives(m, x, S, J)',
         averagePlace(x)' = averagePlace(x),
         contrib'["clone"] = contrib["clone"], contrib'["world"] = contrib["world"]
  PROVE  CallInv'
<1>1. UNCHANGED input /\ input \in Inputs
  BY DEF Alone, CallInv, BlockInv, CloneType
<1>2. m \in Rank /\ Stays(m) /\ SameQueues(m)
  BY <1>1, FirstWorker DEF Alone
<1>3. /\ Members("worker", m)' = Members("worker", m)
      /\ Others("worker", m)' = Others("worker", m)
      /\ TellPlaces(S, J, X)' = TellPlaces(S, J, X)
      /\ CallPlaces(S, J)' = CallPlaces(S, J) /\ \A s : Gifts(s)' = Gifts(s)
      /\ \A u : Follows(S, J, X, u)' = Follows(S, J, X, u)
  BY <1>1, SameInput
<1>4. tellPlace(m)' = tellPlace(m) /\ callPlace(m)' = callPlace(m)
  BY <1>2, StaysPlaces
<1>5. ASSUME NEW s \in Members("worker", m)
      PROVE  Knows(s, S, J, X)'
  <2>1. Knows(s, S, J, X) /\ s \in Rank
    BY DEF Fine, Members
  <2> QED
    BY <1>1, <2>1, StaysKnows DEF Alone
<1>6. ASSUME NEW s \in Others("worker", m)
      PROVE  Hears(m, s, S, J, X)' /\ Gives(m, s, S, J)'
  <2>1. CASE s = x
    BY <2>1
  <2>2. CASE s # x
    <3>1. Hears(m, s, S, J, X) /\ Gives(m, s, S, J) /\ Stays(s) /\ SameQueues(s)
      BY <2>2 DEF Fine, Others, Members, Alone
    <3>2. tellPlace(s)' = tellPlace(s) /\ callPlace(s)' = callPlace(s)
      BY <3>1, StaysPlaces
    <3>3. Hears(m, s, S, J, X)'
      BY <1>3, <1>4, <3>1, <3>2, HearsNext DEF Hears, SameQueues
    <3>4. Gives(m, s, S, J)'
      BY <1>3, <1>4, <3>1, <3>2, GivesNext DEF Gives, SameQueues
    <3> QED
      BY <3>3, <3>4
  <2> QED
    BY <2>1, <2>2
<1>7. bcast'[m] = <<>>
  BY <1>2 DEF SameQueues, Fine
<1>8. Fine(m, S, J, X)'
  <2>1. /\ S \in [Nat -> 0 .. NModel - 1] /\ J \in [Nat -> 0 .. NModel - 1]
        /\ X \in [Nat -> BOOLEAN]
        /\ ~input'.sampler => S = [u \in Nat |-> 0]
    BY <1>1 DEF Fine
  <2>2. \A u \in Nat : Less(<<u, 3>>, tellPlace(m)') => Follows(S, J, X, u)'
    BY <1>3, <1>4 DEF Fine
  <2>3. \A s \in Members("worker", m)' : Knows(s, S, J, X)'
    BY <1>3, <1>5
  <2>4. \A s \in Others("worker", m)' : Hears(m, s, S, J, X)' /\ Gives(m, s, S, J)'
    BY <1>3, <1>6
  <2> QED
    BY <1>7, <2>1, <2>2, <2>3, <2>4 DEF Fine
<1>9. CloneFine(m)'
  BY <1>8 DEF CloneFine
<1>10. \A s \in Rank : cloneID(s) # cloneID(x) => SameQueues(s)
  OBVIOUS
<1>11. \A comm \in {"clone", "world"} : \A s \in Others(comm, 0) : Meets(comm, s)'
  BY WorkerCallOnly
<1> QED
  BY <1>9, <1>10, <1>11, OneRankMoves

(* What a rank that receives a message has before it: the first worker m   *)
(* of its clone, and a message that is the one for its place.              *)
Listens(x, m, S, J, X) ==
  /\ m = RootOf("worker", x) /\ x # m /\ isCloneMain(m)
  /\ Fine(m, S, J, X) /\ Knows(x, S, J, X) /\ input.sampler
  /\ tellPlace(x) \in TellPlaces(S, J, X)
  /\ Message(x).data = Tells(S, J, X)[tellPlace(x)].data
  /\ Less(tellPlace(x), tellPlace(m))
  /\ \A l : Only(TellPlaces(S, J, X), tellPlace(x), l)
              => Sync({"call", "data"}, bcast'[x], TellPlaces(S, J, X),
                      Tells(S, J, X), l, tellPlace(m))
  /\ bcast' = [bcast EXCEPT ![x] = Tail(@)] /\ DOMAIN bcast = Rank
  /\ x \in Others("worker", m)

(* A message that is received is the one for the place of its receiver.    *)
LEMMA Listening ==
  ASSUME CallInv, NEW x \in Rank, ~isCloneMain(x), at[x] \in Sampling, Told(x), Listened(x)
  PROVE  \E m \in Rank : \E S, J, X : Listens(x, m, S, J, X)
<1> DEFINE m == RootOf("worker", x)
<1>1. input \in Inputs
  BY DEF CallInv, BlockInv, CloneType
<1>2. m \in Rank /\ isCloneMain(m) /\ x # m /\ x \in Members("worker", m)
  BY <1>1, FirstWorker
<1>3. PICK S, J, X : Fine(m, S, J, X)
  BY <1>2 DEF CallInv, CloneFine
<1>4. Hears(m, x, S, J, X) /\ Knows(x, S, J, X)
  BY <1>2, <1>3 DEF Fine, Others
<1> DEFINE P == TellPlaces(S, J, X)
           K == Tells(S, J, X)
<1>5. /\ input.sampler /\ tellPlace(x) \in P
      /\ Message(x).data = K[tellPlace(x)].data
  BY <1>2, <1>4, HeardCall
<1>6. Sync({"call", "data"}, bcast[x], P, K, tellPlace(x), tellPlace(m)) /\ bcast[x] # <<>>
  BY <1>4 DEF Hears, Told
<1>7. bcast' = [bcast EXCEPT ![x] = Tail(@)] /\ DOMAIN bcast = Rank
      /\ bcast'[x] = Tail(bcast[x])
  BY DEF Listened, CallInv, Typed
<1>8. Less(tellPlace(x), tellPlace(m))
  <2>1. tellPlace(x) \in Place /\ tellPlace(m) \in Place /\ P \subseteq Place
    BY <1>6 DEF Sync
  <2>2. Span(P, tellPlace(x), tellPlace(m)) # {}
    <3> HIDE DEF P, K, m
    <3> QED
      BY SMTT(30), <1>6, ListsNone DEF Sync
  <2> QED
    BY <2>1, <2>2, LessOrder DEF Span
<1>9. ASSUME NEW l, Only(P, tellPlace(x), l)
      PROVE  Sync({"call", "data"}, bcast'[x], P, K, l, tellPlace(m))
  <2> HIDE DEF P, K, m
  <2> QED
    BY <1>6, <1>7, <1>9, SyncRead
<1>10. Listens(x, m, S, J, X)
  BY <1>2, <1>3, <1>4, <1>5, <1>7, <1>8, <1>9 DEF Listens, Others
<1> QED
  BY <1>2, <1>10

(* A message is received: x is told of in the place l, next to its own.    *)
LEMMA HearsOn ==
  ASSUME CallInv, NEW x \in Rank, Alone(x), NEW m \in Rank, x # m, NEW S, NEW J, NEW X,
         Sync({"call", "data"}, bcast'[x], TellPlaces(S, J, X), Tells(S, J, X),
              tellPlace(x)', tellPlace(m))
  PROVE  Hears(m, x, S, J, X)'
<1>1. TellPlaces(S, J, X)' = TellPlaces(S, J, X)
  BY SameInput DEF Alone
<1>2. tellPlace(m)' = tellPlace(m)
  BY StaysPlaces DEF Alone
<1> QED
  BY <1>1, <1>2, HearsNext

(* Nothing else changes than what a tryMove assigns.                       *)
LEMMA ListenerTypes ==
  ASSUME CallInv, NEW x \in Rank, UNCHANGED <<input, est, measured, block>>,
         NEW where, Goto(x, where),
         \A s \in Rank \ {x} : /\ modelState'[s] = modelState[s]
                               /\ imodel'[s] = imodel[s] /\ jmodel'[s] = jmodel[s],
         DOMAIN modelState' = Rank, DOMAIN imodel' = Rank, DOMAIN jmodel' = Rank,
         DOMAIN bcast' = Rank, DOMAIN contrib' = Comm,
         \A c \in Comm : DOMAIN contrib'[c] = Rank
  PROVE  Alone(x) /\ Typed' /\ at'[x] = where
<1>1. Rank' = Rank /\ at \in [Rank -> Before \cup Ended] /\ Typed
  BY SameInput DEF CallInv, BlockInv, CloneType
<1>2. at'[x] = where /\ \A s \in Rank \ {x} : at'[s] = at[s]
  BY <1>1 DEF Goto
<1>3. Alone(x)
  BY <1>2 DEF Alone, Stays
<1>4. Typed'
  BY <1>1 DEF Typed
<1> QED
  BY <1>2, <1>3, <1>4

(* A worker takes over the model state of the first one.                   *)
LEMMA RecvStateCalls ==
  ASSUME CallInv, BlockInv', NEW x \in Rank, RecvState(x), UNCHANGED block
  PROVE  CallInv'
<1> USE DEF Sampling
<1>1. /\ at[x] = "sample" /\ ~isCloneMain(x) /\ Told(x) /\ Listened(x)
      /\ imodel' = [imodel EXCEPT ![x] = modelState[x]]
      /\ modelState' = [modelState EXCEPT ![x] = Message(x).data]
      /\ Goto(x, "proposal")
      /\ UNCHANGED <<jmodel, input, contrib, est, measured, block>>
  BY DEF RecvState, SetModelState, statVars
<1>2. PICK m \in Rank : \E S, J, X : Listens(x, m, S, J, X)
  BY <1>1, Listening
<1>3. PICK S, J, X : Listens(x, m, S, J, X)
  BY <1>2
<1>4. /\ Typed /\ measured[x] \in Nat
      /\ TellPlaces(S, J, X) \in SUBSET Place /\ CallPlaces(S, J) \in SUBSET Place
  BY PlacesOf, PlacesSets DEF CallInv
<1>5. /\ imodel'[x] = modelState[x] /\ modelState'[x] = Message(x).data
      /\ Alone(x) /\ Typed' /\ at'[x] = "proposal"
      /\ \A s \in Rank \ {x} : SameQueues(s)
  <2>1. /\ DOMAIN modelState' = Rank /\ DOMAIN imodel' = Rank /\ DOMAIN jmodel' = Rank
        /\ DOMAIN bcast' = Rank /\ DOMAIN contrib' = Comm
        /\ \A c \in Comm : DOMAIN contrib'[c] = Rank
    BY <1>1, <1>3, <1>4 DEF Typed, Listens
  <2>2. /\ imodel'[x] = modelState[x] /\ modelState'[x] = Message(x).data
        /\ \A s \in Rank \ {x} : /\ modelState'[s] = modelState[s] /\ imodel'[s] = imodel[s]
                                 /\ jmodel'[s] = jmodel[s] /\ bcast'[s] = bcast[s]
    BY <1>1, <1>3, <1>4 DEF Typed, Listens
  <2> QED
    BY <1>1, <2>1, <2>2, ListenerTypes DEF SameQueues
<1>6. Course(x)' /\ averagePlace(x)' = averagePlace(x)
  BY <1>1, <1>5, SamplingCourse, AverageWaits
<1>7. tellPlace(x) = <<measured[x], 0>> /\ tellPlace(x)' = <<measured[x], 1>>
  BY <1>1, <1>4, <1>5 DEF tellPlace
<1>8. Message(x).data = S[measured[x]]
  BY <1>3, <1>4, <1>7 DEF Tells, Place, Listens
<1>9. Knows(x, S, J, X)'
  BY <1>1, <1>3, <1>5, <1>8 DEF Knows, Listens
<1>10. Hears(m, x, S, J, X)'
  <2>1. Only(TellPlaces(S, J, X), <<measured[x], 0>>, <<measured[x], 0 + 1>>)
    BY <1>3, <1>4, <1>7, NextPlace DEF Listens
  <2> QED
    BY <1>3, <1>5, <1>7, <2>1, HearsOn DEF Listens
<1>11. Gives(m, x, S, J)'
  <2>1. callPlace(x) = callPlace(x)' /\ callPlace(x) \in Place
    BY <1>1, <1>5, PlacesOf DEF callPlace, CallInv
  <2>2. x \in Others("worker", m) /\ contrib'["worker"][x] = contrib["worker"][x]
    BY <1>1, <1>3 DEF Listens
  <2> QED
    BY <1>3, <1>4, <1>5, <2>1, <2>2, NothingSame, NoCall DEF Listens
<1> QED
  BY <1>1, <1>3, <1>5, <1>6, <1>9, <1>10, <1>11, ListenerMoves DEF Listens

(* The proposal: it is J of the turn, and what it is tested against is S.  *)
LEMMA RecvProposalCalls ==
  ASSUME CallInv, BlockInv', NEW x \in Rank, RecvProposal(x), UNCHANGED block
  PROVE  CallInv'
<1> USE DEF Sampling
<1>0. Course(x) /\ Typed /\ input \in Inputs
  BY DEF CallInv, BlockInv, CloneType
<1>1. /\ at[x] = "proposal" /\ ~isCloneMain(x) /\ Told(x) /\ Listened(x)
      /\ jmodel' = [jmodel EXCEPT ![x] = Message(x).data]
      /\ IF Returns(imodel[x], Message(x).data)
         THEN Goto(x, "measure") /\ UNCHANGED contrib
         ELSE Contribute("worker", x, "action", Message(x).data) /\ Goto(x, "decision")
      /\ UNCHANGED <<modelState, imodel, input, est, measured, block>>
  BY <1>0 DEF RecvProposal, statVars, Course
<1>2. PICK m \in Rank : \E S, J, X : Listens(x, m, S, J, X)
  BY <1>1, Listening
<1>3. PICK S, J, X : Listens(x, m, S, J, X)
  BY <1>2
<1>4. /\ measured[x] \in Nat /\ est[x] = 1
      /\ TellPlaces(S, J, X) \in SUBSET Place /\ CallPlaces(S, J) \in SUBSET Place
      /\ "worker" \in Comm /\ "clone" \in Comm /\ "world" \in Comm
  BY <1>0, <1>1, PlacesOf, PlacesSets DEF CallInv, Course, Comm
<1>5. tellPlace(x) = <<measured[x], 1>> /\ callPlace(x) = <<measured[x], 0>>
  BY <1>1, <1>4 DEF tellPlace, callPlace
<1>6. Message(x).data = J[measured[x]]
  BY <1>3, <1>4, <1>5 DEF Tells, Place, Listens
<1>7. /\ imodel[x] = S[measured[x]] /\ modelState[x] = S[measured[x]] /\ input.sampler
      /\ Tested(S, J, measured[x]) <=> ~Returns(imodel[x], Message(x).data)
  BY <1>1, <1>3, <1>6 DEF Listens, Knows, Tested
<1>8. /\ DOMAIN contrib' = Comm /\ \A c \in Comm : DOMAIN contrib'[c] = Rank
      /\ contrib'["clone"] = contrib["clone"] /\ contrib'["world"] = contrib["world"]
      /\ \A s \in Rank \ {x} : contrib'["worker"][s] = contrib["worker"][s]
  <2>1. CASE Returns(imodel[x], Message(x).data)
    BY <1>0, <1>1, <2>1 DEF Typed
  <2>2. CASE Contribute("worker", x, "action", Message(x).data)
    BY <1>0, <1>4, <2>2, Contributed
  <2> QED
    BY <1>1, <2>1, <2>2
<1>9. PICK where : /\ Goto(x, where)
                   /\ where = IF Tested(S, J, measured[x]) THEN "decision" ELSE "measure"
  BY <1>1, <1>7
<1>10. /\ jmodel'[x] = Message(x).data /\ Alone(x) /\ Typed' /\ at'[x] = where
       /\ \A s \in Rank \ {x} : SameQueues(s)
  <2>1. /\ DOMAIN modelState' = Rank /\ DOMAIN imodel' = Rank /\ DOMAIN jmodel' = Rank
        /\ DOMAIN bcast' = Rank
    BY <1>0, <1>1, <1>3 DEF Typed, Listens
  <2>2. /\ jmodel'[x] = Message(x).data
        /\ \A s \in Rank \ {x} : /\ modelState'[s] = modelState[s] /\ imodel'[s] = imodel[s]
                                 /\ jmodel'[s] = jmodel[s] /\ bcast'[s] = bcast[s]
    BY <1>0, <1>1, <1>3 DEF Typed, Listens
  <2> QED
    BY <1>1, <1>8, <1>9, <2>1, <2>2, ListenerTypes DEF SameQueues
<1>11. Course(x)' /\ averagePlace(x)' = averagePlace(x)
  BY <1>1, <1>9, <1>10, SamplingCourse, AverageWaits
<1>12. callPlace(x)' = <<measured[x], 1>>
  BY <1>1, <1>4, <1>9, <1>10 DEF callPlace
<1>13. <<measured[x], 0>> \in CallPlaces(S, J) <=> Tested(S, J, measured[x])
  BY <1>4 DEF CallPlaces, Place, Reduced
<1>14. CASE Tested(S, J, measured[x])
  <2>1. at'[x] = "decision" /\ tellPlace(x)' = <<measured[x], 2>>
    BY <1>1, <1>4, <1>9, <1>10, <1>14 DEF tellPlace
  <2>2. Knows(x, S, J, X)'
    <3>1. Tested(S, J, measured[x])'
      BY <1>1, <1>14 DEF Tested, Returns, Invalid, AwayFromTarget
    <3> QED
      BY <1>1, <1>6, <1>7, <1>10, <2>1, <3>1 DEF Knows
  <2>3. Hears(m, x, S, J, X)'
    <3>1. <<measured[x], 1>> \in TellPlaces(S, J, X) /\ 1 \in Nat /\ 1 + 1 = 2
      BY <1>3, <1>5 DEF Listens
    <3>2. Only(TellPlaces(S, J, X), <<measured[x], 1>>, <<measured[x], 1 + 1>>)
      BY <1>4, <3>1, NextPlace
    <3> QED
      BY <1>3, <1>5, <1>10, <2>1, <3>1, <3>2, HearsOn DEF Listens
  <2>4. Gives(m, x, S, J)'
    <3> DEFINE c == [call |-> "action", data |-> Message(x).data]
    <3>1. Contribute("worker", x, "action", Message(x).data)
      BY <1>1, <1>7, <1>14
    <3>2. contrib'["worker"][x] = Append(contrib["worker"][x], c)
      BY <1>0, <1>4, <3>1, Contributed
    <3>3. Agree({"call", "data"}, c, Gifts(x)[callPlace(x)])
      BY <1>4, <1>5 DEF Agree, Gifts, Place
    <3>4. Only(CallPlaces(S, J), <<measured[x], 0>>, <<measured[x], 0 + 1>>)
      BY <1>4, <1>13, <1>14, NextPlace
    <3> HIDE DEF c
    <3> QED
      <4>1. m = RootOf("worker", x) /\ x # m /\ Fine(m, S, J, X) /\ Alone(x)
        BY <1>3, <1>10 DEF Listens
      <4>2. Only(CallPlaces(S, J), callPlace(x), callPlace(x)')
        BY <1>5, <1>12, <3>4
      <4> QED
        BY <3>2, <3>3, <4>1, <4>2, CallGiven
  <2> QED
    BY <1>3, <1>8, <1>10, <1>11, <2>2, <2>3, <2>4, ListenerMoves DEF Listens
<1>15. CASE ~Tested(S, J, measured[x])
  <2>1. at'[x] = "measure" /\ tellPlace(x)' = <<measured[x] + 1, 0>>
    BY <1>1, <1>4, <1>9, <1>10, <1>15 DEF tellPlace
  <2>2. S[measured[x] + 1] = S[measured[x]]
    <3>1. Follows(S, J, X, measured[x])
      BY <1>3, <1>4, <1>5, <1>15, Decided DEF Listens
    <3> QED
      BY <1>15, <3>1 DEF Follows
  <2>3. Knows(x, S, J, X)'
    BY <1>1, <1>7, <2>1, <2>2 DEF Knows
  <2>4. Hears(m, x, S, J, X)'
    <3>1. \A i \in Nat : i > 1 => <<measured[x], i>> \notin TellPlaces(S, J, X)
      BY <1>15 DEF TellPlaces
    <3>2. Only(TellPlaces(S, J, X), <<measured[x], 1>>, <<measured[x] + 1, 0>>)
      BY <1>3, <1>4, <1>5, <3>1, NextTurn DEF Listens
    <3> QED
      BY <1>3, <1>5, <1>10, <2>1, <3>2, HearsOn DEF Listens
  <2>5. Gives(m, x, S, J)'
    <3>1. contrib'["worker"][x] = contrib["worker"][x]
      BY <1>1, <1>7, <1>15
    <3>2. Nothing(CallPlaces(S, J), <<measured[x], 0>>, <<measured[x], 0 + 1>>)
      BY <1>4, <1>13, <1>15, NextPlace
    <3> QED
      BY <1>3, <1>5, <1>10, <1>12, <3>1, <3>2, NoCall DEF Listens
  <2> QED
    BY <1>3, <1>8, <1>10, <1>11, <2>3, <2>4, <2>5, ListenerMoves DEF Listens
<1> QED
  BY <1>14, <1>15

(* The decision, and the state that follows when it was not to reject.     *)
LEMMA RecvDecisionCalls ==
  ASSUME CallInv, BlockInv', NEW x \in Rank, RecvDecision(x) \/ RecvNewState(x),
         UNCHANGED block
  PROVE  CallInv'
<1> USE DEF Sampling
<1>0. Course(x) /\ Typed /\ input \in Inputs
  BY DEF CallInv, BlockInv, CloneType
<1>1. /\ at[x] \in {"decision", "newState"} /\ ~isCloneMain(x) /\ Told(x) /\ Listened(x)
      /\ \/ /\ at[x] = "decision" /\ Message(x).data
            /\ Goto(x, "measure") /\ modelState' = modelState
         \/ /\ at[x] = "decision" /\ ~Message(x).data
            /\ Goto(x, "newState") /\ modelState' = [modelState EXCEPT ![x] = jmodel[x]]
         \/ /\ at[x] = "newState"
            /\ Goto(x, "measure") /\ modelState' = [modelState EXCEPT ![x] = Message(x).data]
      /\ UNCHANGED <<imodel, jmodel, input, contrib, est, measured, block>>
  BY <1>0 DEF RecvDecision, RecvNewState, SetModelState, statVars, Course
<1>2. PICK m \in Rank : \E S, J, X : Listens(x, m, S, J, X)
  BY <1>1, Listening
<1>3. PICK S, J, X : Listens(x, m, S, J, X)
  BY <1>2
<1>4. /\ measured[x] \in Nat /\ est[x] = 1
      /\ TellPlaces(S, J, X) \in SUBSET Place /\ CallPlaces(S, J) \in SUBSET Place
  BY <1>0, <1>1, PlacesOf, PlacesSets DEF CallInv, Course
<1> DEFINE t == measured[x]
<1>5. /\ tellPlace(x) = <<t, IF at[x] = "decision" THEN 2 ELSE 3>>
      /\ callPlace(x) = <<t, 1>>
  BY <1>1, <1>4 DEF tellPlace, callPlace
<1>6. /\ jmodel[x] = J[t] /\ imodel[x] = S[t] /\ Tested(S, J, t)
      /\ modelState[x] = IF at[x] = "decision" THEN S[t] ELSE J[t]
      /\ at[x] = "newState" => ~X[t]
      /\ X[t] \in BOOLEAN
  BY <1>1, <1>3, <1>4 DEF Listens, Knows, Fine
<1>7. Message(x).data = IF at[x] = "decision" THEN X[t] ELSE J[t]
  <2>1. Message(x).data = Tells(S, J, X)[tellPlace(x)].data /\ tellPlace(x) \in Place
    BY <1>3, <1>4 DEF Listens
  <2>2. CASE at[x] = "decision"
    <3>1. tellPlace(x) = <<t, 2>>
      BY <1>5, <2>2
    <3>2. Tells(S, J, X)[<<t, 2>>] = [call |-> "reject", data |-> X[t]]
      BY <2>1, <3>1 DEF Tells
    <3> QED
      BY <2>1, <2>2, <3>1, <3>2
  <2>3. CASE at[x] = "newState"
    <3>1. tellPlace(x) = <<t, 3>>
      BY <1>5, <2>3
    <3>2. Tells(S, J, X)[<<t, 3>>] = [call |-> "state", data |-> J[t]]
      BY <2>1, <3>1 DEF Tells
    <3> QED
      BY <2>1, <2>3, <3>1, <3>2
  <2> QED
    BY <1>1, <2>2, <2>3
<1>8. S[t + 1] = IF X[t] THEN S[t] ELSE J[t]
  <2>1. Follows(S, J, X, t)
    <3> DEFINE k == IF at[x] = "decision" THEN 2 ELSE 3
    <3>1. k \in {1, 2, 3} /\ k # 1 /\ Less(<<t, k>>, tellPlace(m))
      BY <1>3, <1>5 DEF Listens
    <3> HIDE DEF k
    <3> QED
      BY <1>3, <1>4, <3>1, Decided DEF Listens
  <2> QED
    BY <1>6, <2>1 DEF Follows
<1>9. PICK where : /\ Goto(x, where)
                   /\ where = IF at[x] = "decision" /\ ~X[t] THEN "newState" ELSE "measure"
  BY <1>1, <1>7
<1>10. /\ Alone(x) /\ Typed' /\ at'[x] = where
       /\ modelState'[x] = IF X[t] THEN S[t] ELSE J[t]
       /\ \A s \in Rank \ {x} : SameQueues(s)
  <2>1. /\ DOMAIN modelState' = Rank /\ DOMAIN imodel' = Rank /\ DOMAIN jmodel' = Rank
        /\ DOMAIN bcast' = Rank /\ DOMAIN contrib' = Comm
        /\ \A c \in Comm : DOMAIN contrib'[c] = Rank
    BY <1>0, <1>1, <1>3 DEF Typed, Listens
  <2>2. \A s \in Rank \ {x} : /\ modelState'[s] = modelState[s] /\ imodel'[s] = imodel[s]
                             /\ jmodel'[s] = jmodel[s] /\ bcast'[s] = bcast[s]
    BY <1>0, <1>1, <1>3 DEF Typed, Listens
  <2>3. modelState'[x] = IF X[t] THEN S[t] ELSE J[t]
    BY <1>0, <1>1, <1>6, <1>7 DEF Typed
  <2> QED
    BY <1>1, <1>9, <2>1, <2>2, <2>3, ListenerTypes DEF SameQueues
<1>11. Course(x)' /\ averagePlace(x)' = averagePlace(x)
  BY <1>1, <1>9, <1>10, SamplingCourse, AverageWaits
<1>12. callPlace(x)' = callPlace(x) /\ callPlace(x) \in Place
  BY <1>1, <1>4, <1>5, <1>9, <1>10 DEF callPlace, Place
<1>13. Gives(m, x, S, J)'
  <2>1. contrib'["worker"][x] = contrib["worker"][x]
    BY <1>1
  <2> QED
    BY <1>3, <1>4, <1>10, <1>12, <2>1, NothingSame, NoCall DEF Listens
<1>14. CASE where = "newState"
  <2>1. /\ at[x] = "decision" /\ ~X[t] /\ tellPlace(x) = <<t, 2>>
        /\ tellPlace(x)' = <<t, 3>>
    BY <1>1, <1>4, <1>5, <1>9, <1>10, <1>14 DEF tellPlace
  <2>2. Knows(x, S, J, X)'
    <3>1. Tested(S, J, t)'
      BY <1>1, <1>6 DEF Tested, Returns, Invalid, AwayFromTarget
    <3> QED
      BY <1>1, <1>6, <1>10, <1>14, <2>1, <3>1 DEF Knows
  <2>3. Hears(m, x, S, J, X)'
    <3>1. <<t, 2>> \in TellPlaces(S, J, X) /\ 2 \in Nat /\ 2 + 1 = 3
      BY <1>3, <2>1 DEF Listens
    <3>2. Only(TellPlaces(S, J, X), <<t, 2>>, <<t, 2 + 1>>)
      BY <1>4, <3>1, NextPlace
    <3> QED
      BY <1>3, <1>10, <2>1, <3>1, <3>2, HearsOn DEF Listens
  <2> QED
    BY <1>1, <1>3, <1>10, <1>11, <1>13, <2>2, <2>3, ListenerMoves DEF Listens
<1>15. CASE where = "measure"
  <2>1. tellPlace(x)' = <<t + 1, 0>> /\ at'[x] = "measure"
    BY <1>1, <1>4, <1>10, <1>15 DEF tellPlace
  <2>2. Knows(x, S, J, X)'
    BY <1>1, <1>8, <1>10, <2>1 DEF Knows
  <2>3. Hears(m, x, S, J, X)'
    <3> DEFINE k == IF at[x] = "decision" THEN 2 ELSE 3
    <3>1. k \in Nat /\ \A i \in Nat : i > k => <<t, i>> \notin TellPlaces(S, J, X)
      BY <1>9, <1>15 DEF TellPlaces
    <3>2. tellPlace(x) = <<t, k>>
      BY <1>5
    <3> HIDE DEF k
    <3>3. Only(TellPlaces(S, J, X), <<t, k>>, <<t + 1, 0>>)
      BY <1>3, <1>4, <3>1, <3>2, NextTurn DEF Listens
    <3> QED
      BY <1>3, <1>10, <2>1, <3>2, <3>3, HearsOn DEF Listens
  <2> QED
    BY <1>1, <1>3, <1>10, <1>11, <1>13, <2>2, <2>3, ListenerMoves DEF Listens
<1> QED
  BY <1>9, <1>14, <1>15

-----------------------------------------------------------------------------
(* The first worker decides something of a turn at its place b: what the   *)
(* clone knew before remains, and so does all that was told and called.    *)
Later(S, J, X, S2, J2, X2, b) ==
  \A u \in Nat : /\ ~Less(b, <<u, 0>>) => S2[u] = S[u]
                 /\ Less(<<u, 1>>, b) => J2[u] = J[u]
                 /\ Less(<<u, 2>>, b) => X2[u] = X[u]
ToldSame(S, J, X, S2, J2, X2, b) ==
  \A p \in Place : Less(p, b) =>
    /\ p \in TellPlaces(S, J, X) <=> p \in TellPlaces(S2, J2, X2)
    /\ p \in TellPlaces(S, J, X) => Tells(S, J, X)[p] = Tells(S2, J2, X2)[p]
CalledSame(S, J, S2, J2, b) ==
  \A p \in Place : Less(p, b) => (p \in CallPlaces(S, J) <=> p \in CallPlaces(S2, J2))

(* What is decided at b changes no call before it,                         *)
LEMMA LaterPlaces ==
  ASSUME NEW b \in Place, b[2] \in {0, 2},
         NEW S, NEW J, NEW X, NEW S2, NEW J2, NEW X2, Later(S, J, X, S2, J2, X2, b)
  PROVE  ToldSame(S, J, X, S2, J2, X2, b) /\ CalledSame(S, J, S2, J2, b)
<1>1. SUFFICES ASSUME NEW p \in Place, Less(p, b)
               PROVE  /\ p \in TellPlaces(S, J, X) <=> p \in TellPlaces(S2, J2, X2)
                      /\ p \in TellPlaces(S, J, X)
                           => Tells(S, J, X)[p] = Tells(S2, J2, X2)[p]
                      /\ p \in CallPlaces(S, J) <=> p \in CallPlaces(S2, J2)
  BY DEF ToldSame, CalledSame
<1>0. PICK t \in Nat, k \in {0, 2} : b = <<t, k>>
  BY DEF Place
<1>2. PICK u \in Nat, i \in Nat : p = <<u, i>>
  BY DEF Place
<1>3. u < t \/ (u = t /\ i < k)
  BY <1>0, <1>1, <1>2 DEF Less
<1>4. S2[u] = S[u] /\ J2[u] = J[u]
  <2>1. ~Less(b, <<u, 0>>) /\ Less(<<u, 1>>, b)
    BY <1>0, <1>3 DEF Less
  <2> QED
    BY <2>1 DEF Later
<1>5. i >= 2 => X2[u] = X[u]
  <2>1. i >= 2 => Less(<<u, 2>>, b)
    BY <1>0, <1>3 DEF Less
  <2> QED
    BY <2>1 DEF Later
<1>6. /\ \A A, B, C : p \in TellPlaces(A, B, C) <=>
                      /\ input.sampler
                      /\ \/ i = 0 \/ i = 1
                         \/ i = 2 /\ Tested(A, B, u)
                         \/ i = 3 /\ Tested(A, B, u) /\ ~C[u]
      /\ \A A, B : p \in CallPlaces(A, B) <=> (i = 0 /\ Tested(A, B, u)) \/ Reduced(i)
      /\ \A A, B, C : Tells(A, B, C)[p] =
           CASE i = 0 -> [call |-> "state", data |-> A[u]]
             [] i = 1 -> [call |-> "proposal", data |-> B[u]]
             [] i = 2 -> [call |-> "reject", data |-> C[u]]
             [] OTHER -> [call |-> "state", data |-> B[u]]
  BY <1>2 DEF TellPlaces, CallPlaces, Tells
<1>7. Tested(S, J, u) <=> Tested(S2, J2, u)
  BY <1>4 DEF Tested
<1>8. p \in TellPlaces(S, J, X) <=> p \in TellPlaces(S2, J2, X2)
  BY <1>5, <1>6, <1>7
<1>9. p \in CallPlaces(S, J) <=> p \in CallPlaces(S2, J2)
  BY <1>6, <1>7
<1>10. p \in TellPlaces(S, J, X) => Tells(S, J, X)[p] = Tells(S2, J2, X2)[p]
  <2>1. ASSUME p \in TellPlaces(S, J, X)
        PROVE  i \in {0, 1, 2, 3} /\ (i = 2 => X2[u] = X[u])
    BY <1>5, <1>6, <2>1
  <2>2. Tells(S, J, X)[p] =
           CASE i = 0 -> [call |-> "state", data |-> S[u]]
             [] i = 1 -> [call |-> "proposal", data |-> J[u]]
             [] i = 2 -> [call |-> "reject", data |-> X[u]]
             [] OTHER -> [call |-> "state", data |-> J[u]]
    BY <1>6
  <2>3. Tells(S2, J2, X2)[p] =
           CASE i = 0 -> [call |-> "state", data |-> S2[u]]
             [] i = 1 -> [call |-> "proposal", data |-> J2[u]]
             [] i = 2 -> [call |-> "reject", data |-> X2[u]]
             [] OTHER -> [call |-> "state", data |-> J2[u]]
    BY <1>6
  <2> QED
    BY <1>4, <2>1, <2>2, <2>3
<1> QED
  BY <1>8, <1>9, <1>10

(* nor what the others know, who have not come to b.                       *)
LEMMA LaterKnows ==
  ASSUME CallInv, BlockInv', Typed', UNCHANGED input, NEW s \in Rank, Stays(s),
         input.sampler, NEW t \in Nat, NEW k \in {0, 2},
         NEW S, NEW J, NEW X, NEW S2, NEW J2, NEW X2,
         Later(S, J, X, S2, J2, X2, <<t, k>>), Knows(s, S, J, X),
         ~Less(<<t, k>>, tellPlace(s))
  PROVE  Knows(s, S2, J2, X2)' /\ ~Less(<<t, k>>, callPlace(s))
<1>1. /\ measured[s] \in Nat /\ est[s] \in Nat /\ Course(s)
  BY PlacesOf DEF CallInv
<1> DEFINE u == measured[s]
<1>2. CASE at[s] \in {"measure", "endTurn"}
  <2>1. tellPlace(s) = <<u + 1, 0>> /\ u + 1 \in Nat
    BY <1>1, <1>2 DEF tellPlace
  <2>2. S2[u + 1] = S[u + 1]
    BY <2>1 DEF Later
  <2>3. u < t
    BY <1>1, <2>1 DEF Less
  <2>4. ~Less(<<t, k>>, callPlace(s))
    BY <1>1, <1>2, <2>1, <2>3 DEF callPlace, Less
  <2> QED
    BY <1>2, <2>2, <2>4 DEF Knows, Stays
<1>3. CASE at[s] \notin {"measure", "endTurn"}
  <2> DEFINE i == CASE at[s] = "proposal" -> 1 [] at[s] \in {"decide", "decision"} -> 2
                    [] at[s] = "newState" -> 3 [] OTHER -> 0
  <2>1. tellPlace(s) = <<u, i>> /\ i \in 0 .. 3
    BY <1>1, <1>3 DEF tellPlace
  <2>2. ~Less(<<t, k>>, <<u, i>>)
    BY <2>1
  <2>3. S2[u] = S[u]
    BY <1>1, <2>1, <2>2 DEF Later, Less
  <2>4. i >= 2 => J2[u] = J[u]
    <3> HIDE DEF i
    <3> QED
      BY <1>1, <2>1, <2>2 DEF Later, Less
  <2>5. i = 3 => X2[u] = X[u]
    <3> HIDE DEF i
    <3> QED
      BY <1>1, <2>1, <2>2 DEF Later, Less
  <2>6. /\ \A v : Tested(S2, J2, v)' <=> Tested(S2, J2, v)
        /\ i >= 2 => (Tested(S2, J2, u) <=> Tested(S, J, u))
    <3>1. \A v : Tested(S2, J2, v)' <=> Tested(S2, J2, v)
      BY DEF Tested, Returns, Invalid, AwayFromTarget
    <3>2. i >= 2 => (Tested(S2, J2, u) <=> Tested(S, J, u))
      <4> HIDE DEF i
      <4> QED
        BY <2>3, <2>4 DEF Tested
    <3> QED
      BY <3>1, <3>2
  <2>7. /\ at[s] \in {"decide", "decision", "newState"} => i >= 2
        /\ at[s] = "newState" => i = 3
    OBVIOUS
  <2>8. Knows(s, S2, J2, X2)'
    <3> HIDE DEF i
    <3> QED
      BY <1>3, <2>3, <2>4, <2>5, <2>6, <2>7 DEF Knows, Stays
  <2>9. ~Less(<<t, k>>, callPlace(s))
    <3>1. \/ callPlace(s) = <<u, 1>> /\ i >= 2
          \/ callPlace(s) = <<u, 0>>
      BY <1>1, <1>3 DEF callPlace, Course
    <3>2. u < t \/ (u = t /\ i <= k)
      <4> HIDE DEF i
      <4> QED
        BY <1>1, <2>1, <2>2 DEF Less
    <3> HIDE DEF i
    <3> QED
      BY <1>1, <2>1, <3>1, <3>2 DEF Less
  <2> QED
    BY <2>8, <2>9
<1> QED
  BY <1>2, <1>3

(* The first worker of a clone moves.                                      *)
LEMMA FirstWorkerMoves ==
  ASSUME CallInv, BlockInv', Typed', NEW x \in Rank, Alone(x), Course(x)', isCloneMain(x),
         averagePlace(x)' = averagePlace(x),
         contrib'["clone"] = contrib["clone"], contrib'["world"] = contrib["world"],
         \A s \in Rank : cloneID(s) # cloneID(x) => SameQueues(s),
         NEW S \in [Nat -> 0 .. NModel - 1], NEW J \in [Nat -> 0 .. NModel - 1],
         NEW X \in [Nat -> BOOLEAN], input.sampler, bcast'[x] = <<>>,
         \A u \in Nat : Less(<<u, 3>>, tellPlace(x)') => Follows(S, J, X, u),
         Knows(x, S, J, X)',
         \A s \in Others("worker", x) :
           Knows(s, S, J, X)' /\ Hears(x, s, S, J, X)' /\ Gives(x, s, S, J)'
  PROVE  CallInv'
<1>1. UNCHANGED input /\ input \in Inputs
  BY DEF Alone, CallInv, BlockInv, CloneType
<1>2. x = RootOf("worker", x)
  BY <1>1, FirstWorker
<1>3. /\ Members("worker", x)' = Members("worker", x)
      /\ Others("worker", x)' = Others("worker", x)
      /\ \A u : Follows(S, J, X, u)' = Follows(S, J, X, u)
      /\ \A s \in Members("worker", x) : s = x \/ s \in Others("worker", x)
  BY <1>1, SameInput DEF Others
<1>4. Fine(x, S, J, X)'
  <2>1. \A u \in Nat : Less(<<u, 3>>, tellPlace(x)') => Follows(S, J, X, u)'
    BY <1>3
  <2>2. \A s \in Members("worker", x)' : Knows(s, S, J, X)'
    BY <1>3
  <2>3. \A s \in Others("worker", x)' : Hears(x, s, S, J, X)' /\ Gives(x, s, S, J)'
    BY <1>3
  <2>4. input'.sampler
    BY <1>1
  <2> QED
    BY <2>1, <2>2, <2>3, <2>4 DEF Fine
<1>5. CloneFine(x)'
  BY <1>4 DEF CloneFine
<1>6. \A comm \in {"clone", "world"} : \A s \in Others(comm, 0) : Meets(comm, s)'
  BY WorkerCallOnly
<1> QED
  BY <1>2, <1>5, <1>6, OneRankMoves

(* One who has been told all that was told before, at the place b.         *)
LEMMA LaterQueues ==
  ASSUME CallInv, BlockInv', Typed', NEW x \in Rank, Alone(x), input.sampler,
         NEW t \in Nat, NEW k \in {0, 2},
         NEW S, NEW J, NEW X, NEW S2, NEW J2, NEW X2, Fine(x, S, J, X),
         Later(S, J, X, S2, J2, X2, <<t, k>>),
         tellPlace(x) = <<t, k>>, <<t, k>> \in TellPlaces(S, J, X), callPlace(x) = <<t, 0>>,
         NEW s \in Others("worker", x)
  PROVE  /\ Knows(s, S2, J2, X2)'
         /\ Sync({"call", "data"}, bcast[s], TellPlaces(S2, J2, X2), Tells(S2, J2, X2),
                 tellPlace(s), <<t, k>>)
         /\ Sync({"call", "data"}, contrib["worker"][s], CallPlaces(S2, J2), Gifts(s), <<t, 0>>,
                 callPlace(s))
         /\ tellPlace(s)' = tellPlace(s) /\ callPlace(s)' = callPlace(s)
<1>1. s \in Rank /\ s # x /\ s \in Members("worker", x)
  BY DEF Others, Members
<1>2. Stays(s) /\ UNCHANGED input
  BY <1>1 DEF Alone
<1>3. /\ Knows(s, S, J, X)
      /\ Sync({"call", "data"}, bcast[s], TellPlaces(S, J, X), Tells(S, J, X),
              tellPlace(s), <<t, k>>)
      /\ Sync({"call", "data"}, contrib["worker"][s], CallPlaces(S, J), Gifts(s),
              <<t, 0>>, callPlace(s))
  BY <1>1 DEF Fine, Hears, Gives
<1>4. ~Less(<<t, k>>, tellPlace(s))
  BY <1>3, SyncPlace
<1>5. Knows(s, S2, J2, X2)' /\ ~Less(<<t, k>>, callPlace(s))
  BY <1>1, <1>2, <1>3, <1>4, LaterKnows
<1>6. <<t, k>> \in Place /\ ~Less(<<t, k>>, <<t, k>>) /\ ~Less(<<t, k>>, <<t, 0>>)
  BY DEF Place, Less
<1>7. /\ TellPlaces(S2, J2, X2) \subseteq Place /\ CallPlaces(S2, J2) \subseteq Place
  BY PlacesSets
<1>8. ToldSame(S, J, X, S2, J2, X2, <<t, k>>) /\ CalledSame(S, J, S2, J2, <<t, k>>)
  <2>1. <<t, k>>[2] \in {0, 2}
    OBVIOUS
  <2> QED
    BY <1>6, <2>1, LaterPlaces
<1>9. Sync({"call", "data"}, bcast[s], TellPlaces(S2, J2, X2), Tells(S2, J2, X2),
           tellPlace(s), <<t, k>>)
  BY <1>3, <1>4, <1>6, <1>7, <1>8, SyncAgree DEF ToldSame
<1>10. Sync({"call", "data"}, contrib["worker"][s], CallPlaces(S2, J2), Gifts(s),
            <<t, 0>>, callPlace(s))
  BY <1>3, <1>5, <1>6, <1>7, <1>8, SyncAgree DEF CalledSame
<1> QED
  BY <1>2, <1>5, <1>9, <1>10, StaysPlaces

(* The messages ms of the first worker x reach the other workers.          *)
LEMMA Sent ==
  ASSUME Typed, NEW x \in Rank, NEW ms, Sends(x, ms)
  PROVE  /\ DOMAIN bcast' = Rank
         /\ \A s \in Others("worker", x) : bcast'[s] = bcast[s] \o ms
         /\ \A s \in Rank : s \notin Others("worker", x) => bcast'[s] = bcast[s]
<1>1. \A s \in Others("worker", x) : s \in Rank
  BY DEF Others, Members
<1> QED
  BY <1>1 DEF Sends

(* A queue after one or two messages were sent at once.                    *)
Ends(p, q, a, b) == /\ p = q \o <<a>> => p = Append(q, a)
                    /\ p = q \o <<a, b>> => p = Append(Append(q, a), b)

(* They come one after the other.                                          *)
LEMMA QueueEnds ==
  ASSUME NEW F, NEW q, NEW P, NEW K, NEW lo, NEW hi, Sync(F, q, P, K, lo, hi),
         NEW p, NEW a, NEW b
  PROVE  Ends(p, q, a, b)
<1>1. PICK T : q \in Seq(T)
  BY DEF Sync, Lists
<1>2. q \in Seq(T \cup {a, b})
  BY <1>1
<1>3. q \o <<a>> = Append(q, a)
  BY <1>2
<1>4. q \o <<a, b>> = Append(Append(q, a), b)
  BY <1>2
<1> QED
  BY <1>3, <1>4 DEF Ends

(* What is told by x, and not heard yet, after its step,                   *)
LEMMA HearsIt ==
  ASSUME NEW x, Alone(x), NEW s, NEW S, NEW J, NEW X, NEW q, q = bcast'[s],
         NEW lo, lo = tellPlace(s)', NEW hi, hi = tellPlace(x)',
         Sync({"call", "data"}, q, TellPlaces(S, J, X), Tells(S, J, X), lo, hi)
  PROVE  Hears(x, s, S, J, X)'
BY SameInput, HearsNext DEF Alone

(* and what is given to x.                                                 *)
LEMMA GivesIt ==
  ASSUME NEW x, Alone(x), NEW s, NEW S, NEW J, NEW q, q = contrib'["worker"][s],
         NEW lo, lo = callPlace(x)', NEW hi, hi = callPlace(s)',
         Sync({"call", "data"}, q, CallPlaces(S, J), Gifts(s), lo, hi)
  PROVE  Gives(x, s, S, J)'
BY SameInput, GivesNext DEF Alone

(* The first worker proposes a model: from here on the proposal of the     *)
(* turn is the one drawn, and the state after it the same unless it is     *)
(* accepted.                                                               *)
LEMMA ProposeCalls ==
  ASSUME CallInv, BlockInv', NEW x \in Rank, NEW j \in Proposals(modelState[x]),
         Propose(x, j), UNCHANGED block
  PROVE  CallInv'
<1> USE DEF Sampling
<1>0. Typed /\ input \in Inputs
  BY DEF CallInv, BlockInv, CloneType
<1>1. /\ at[x] = "sample" /\ isCloneMain(x) /\ Sends(x, ToldBoth(modelState[x], j))
      /\ imodel' = [imodel EXCEPT ![x] = modelState[x]]
      /\ jmodel' = [jmodel EXCEPT ![x] = j]
      /\ UNCHANGED <<modelState, input, contrib, est, measured, block>>
  BY DEF Propose
<1>2. x = RootOf("worker", x) /\ x \in Members("worker", x) /\ x \notin Others("worker", x)
  BY <1>0, <1>1, FirstWorker DEF Others
<1>3. PICK S, J, X : Fine(x, S, J, X)
  BY <1>1 DEF CallInv, CloneFine
<1>4. PICK t : t = measured[x]
  OBVIOUS
<1>5. t \in Nat /\ t + 1 \in Nat
  BY <1>4, PlacesOf DEF CallInv
<1>21. est[x] = 1 /\ input.sampler
  BY <1>1 DEF CallInv, Course
<1>22. modelState[x] = S[t]
  BY <1>1, <1>2, <1>3, <1>4 DEF Fine, Knows
<1>23. /\ S \in [Nat -> 0 .. NModel - 1] /\ J \in [Nat -> 0 .. NModel - 1]
       /\ X \in [Nat -> BOOLEAN] /\ bcast[x] = <<>>
  BY <1>3 DEF Fine
<1>6. j \in 0 .. NModel - 1
  <2>1. modelState[x] \in 0 .. NModel - 1
    BY <1>5, <1>22, <1>23
  <2> QED
    BY <2>1, ModelAssumption DEF Proposals
<1>7. PICK S2 \in [Nat -> 0 .. NModel - 1] :
        S2[t + 1] = S[t] /\ \A u \in Nat : u # t + 1 => S2[u] = S[u]
  <2>1. [S EXCEPT ![t + 1] = S[t]] \in [Nat -> 0 .. NModel - 1]
    BY <1>5, <1>23
  <2> QED
    BY <1>5, <1>23, <2>1
<1>8. PICK J2 \in [Nat -> 0 .. NModel - 1] :
        J2[t] = j /\ \A u \in Nat : u # t => J2[u] = J[u]
  <2>1. [J EXCEPT ![t] = j] \in [Nat -> 0 .. NModel - 1]
    BY <1>5, <1>23, <1>6
  <2> QED
    BY <1>5, <1>23, <2>1
<1>9. S2[t] = S[t] /\ (Tested(S2, J2, t) <=> ~Returns(modelState[x], j))
  BY <1>5, <1>21, <1>22, <1>7, <1>8 DEF Tested
<1>10. PICK where : /\ Goto(x, where)
                    /\ where = IF Tested(S2, J2, t) THEN "decide" ELSE "measure"
  BY <1>9 DEF Propose
<1>11. Later(S, J, X, S2, J2, X, <<t, 0>>)
  <2>1. \A u \in Nat : /\ ~Less(<<t, 0>>, <<u, 0>>) => u # t + 1
                       /\ Less(<<u, 1>>, <<t, 0>>) => u # t
    BY <1>5 DEF Less
  <2> QED
    BY <1>7, <1>8, <2>1 DEF Later
<1>12. /\ Alone(x) /\ Typed' /\ at'[x] = where /\ bcast'[x] = <<>>
       /\ imodel'[x] = modelState[x] /\ jmodel'[x] = j
  <2>1. /\ DOMAIN bcast' = Rank /\ bcast'[x] = bcast[x]
    BY <1>0, <1>1, <1>2, Sent
  <2>2. /\ DOMAIN modelState' = Rank /\ DOMAIN imodel' = Rank /\ DOMAIN jmodel' = Rank
        /\ DOMAIN contrib' = Comm /\ \A c \in Comm : DOMAIN contrib'[c] = Rank
    BY <1>0, <1>1 DEF Typed
  <2>3. /\ imodel'[x] = modelState[x] /\ jmodel'[x] = j
        /\ \A s \in Rank \ {x} : /\ modelState'[s] = modelState[s] /\ imodel'[s] = imodel[s]
                                 /\ jmodel'[s] = jmodel[s]
    BY <1>0, <1>1 DEF Typed
  <2> QED
    BY <1>1, <1>23, <1>10, <2>1, <2>2, <2>3, ListenerTypes
<1>13. Course(x)' /\ averagePlace(x)' = averagePlace(x)
  BY <1>1, <1>10, <1>12, SamplingCourse, AverageWaits
<1>14. /\ tellPlace(x) = <<t, 0>> /\ callPlace(x) = <<t, 0>>
       /\ tellPlace(x)' = IF Tested(S2, J2, t) THEN <<t, 2>> ELSE <<t + 1, 0>>
       /\ callPlace(x)' = IF Tested(S2, J2, t) THEN <<t, 0>> ELSE <<t, 1>>
  <2>1. tellPlace(x) = <<t, 0>> /\ callPlace(x) = <<t, 0>>
    BY <1>1, <1>4, <1>5 DEF tellPlace, callPlace
  <2>4. /\ at'[x] = IF Tested(S2, J2, t) THEN "decide" ELSE "measure"
        /\ measured'[x] = t
    BY <1>1, <1>4, <1>10, <1>12
  <2>2. tellPlace(x)' = IF Tested(S2, J2, t) THEN <<t, 2>> ELSE <<t + 1, 0>>
    BY <1>5, <2>4 DEF tellPlace
  <2>3. callPlace(x)' = IF Tested(S2, J2, t) THEN <<t, 0>> ELSE <<t, 1>>
    BY <1>1, <1>4, <1>5, <1>21, <1>10, <1>12 DEF callPlace
  <2> QED
    BY <2>1, <2>2, <2>3
<1>15. ASSUME NEW u \in Nat, Less(<<u, 3>>, tellPlace(x)')
       PROVE  Follows(S2, J2, X, u)
  <2>1. u < t \/ (u = t /\ ~Tested(S2, J2, t))
    BY <1>5, <1>14, <1>15 DEF Less
  <2>2. CASE u < t
    <3>1. Less(<<u, 3>>, tellPlace(x)) /\ u + 1 \in Nat /\ u + 1 # t + 1 /\ u # t /\ u # t + 1
      BY <1>5, <1>14, <2>2 DEF Less
    <3>2. Follows(S, J, X, u) /\ S2[u + 1] = S[u + 1] /\ S2[u] = S[u] /\ J2[u] = J[u]
      BY <1>3, <1>7, <1>8, <3>1 DEF Fine
    <3> QED
      BY <3>2 DEF Follows, Tested
  <2>3. CASE u = t /\ ~Tested(S2, J2, t)
    BY <1>7, <1>9, <2>3 DEF Follows
  <2> QED
    BY <2>1, <2>2, <2>3
<1>16. Knows(x, S2, J2, X)'
  <2>1. Tested(S2, J2, t)' <=> Tested(S2, J2, t)
    BY <1>1 DEF Tested, Returns, Invalid, AwayFromTarget
  <2> QED
    BY <1>1, <1>4, <1>5, <1>22, <1>7, <1>8, <1>9, <1>10, <1>12, <2>1 DEF Knows
<1>17. ASSUME NEW s \in Others("worker", x)
       PROVE  Knows(s, S2, J2, X)' /\ Hears(x, s, S2, J2, X)' /\ Gives(x, s, S2, J2)'
  <2> DEFINE P == TellPlaces(S2, J2, X)
             K == Tells(S2, J2, X)
             D == CallPlaces(S2, J2)
             F == {"call", "data"}
             a == [call |-> "state", data |-> modelState[x]]
             b == [call |-> "proposal", data |-> j]
  <2>1. /\ Knows(s, S2, J2, X)'
        /\ Sync(F, bcast[s], P, K, tellPlace(s), <<t, 0>>)
        /\ Sync({"call", "data"}, contrib["worker"][s], D, Gifts(s), <<t, 0>>, callPlace(s))
        /\ tellPlace(s)' = tellPlace(s) /\ callPlace(s)' = callPlace(s)
    <3>1. <<t, 0>> \in TellPlaces(S, J, X) /\ 0 \in {0, 2}
      BY <1>5, <1>21 DEF TellPlaces, Place
    <3> QED
      BY ZenonT(40), <1>3, <1>5, <1>21, <1>11, <1>12, <1>14, <3>1, LaterQueues
  <2>2. P \in SUBSET Place /\ D \in SUBSET Place
    BY PlacesSets
  <2>3. bcast'[s] = Append(Append(bcast[s], a), b)
    <3>1. bcast'[s] = bcast[s] \o <<a, b>>
      BY <1>0, <1>1, Sent DEF ToldBoth
    <3> HIDE DEF a, b, F, P, K
    <3>2. Ends(bcast'[s], bcast[s], a, b)
      BY <2>1, QueueEnds
    <3> QED
      BY <3>1, <3>2 DEF Ends
  <2>4. /\ <<t, 0>> \in P /\ <<t, 1>> \in P
        /\ Agree(F, a, K[<<t, 0>>]) /\ Agree(F, b, K[<<t, 1>>])
    <3>1. <<t, 0>> \in P /\ <<t, 1>> \in P /\ <<t, 0>> \in Place /\ <<t, 1>> \in Place
      BY <1>5, <1>21 DEF TellPlaces, Place
    <3>2. K[<<t, 0>>] = a /\ K[<<t, 1>>] = b
      BY <1>5, <1>22, <1>8, <1>9, <3>1 DEF Tells
    <3> HIDE DEF P, K, a, b
    <3> QED
      BY <3>1, <3>2 DEF Agree
  <2>5. <<t, 2>> \in P <=> Tested(S2, J2, t)
    BY <1>5, <1>21 DEF TellPlaces, Place
  <2>6. ~Tested(S2, J2, t) => \A i \in Nat : i > 1 => <<t, i>> \notin P
    BY DEF TellPlaces
  <2>7. <<t, 0>> \in D <=> Tested(S2, J2, t)
    BY <1>5 DEF CallPlaces, Place, Reduced
  <2>8. 0 \in Nat /\ 1 \in Nat /\ 0 + 1 = 1 /\ 1 + 1 = 2
    OBVIOUS
  <2> HIDE DEF P, K, D, F, a, b
  <2>9. PICK h : h = tellPlace(x)'
    OBVIOUS
  <2>10. Only(P, <<t, 0>>, <<t, 1>>) /\ Only(P, <<t, 1>>, h)
    <3>1. Only(P, <<t, 0>>, <<t, 1>>)
      BY <1>5, <2>2, <2>4, <2>8, NextPlace
    <3>2. CASE Tested(S2, J2, t)
      BY <1>5, <1>14, <2>2, <2>4, <2>8, <2>9, <3>1, <3>2, NextPlace
    <3>3. CASE ~Tested(S2, J2, t)
      BY <1>5, <1>14, <2>2, <2>4, <2>6, <2>8, <2>9, <3>1, <3>3, NextTurn
    <3> QED
      BY <3>2, <3>3
  <2>11. Sync(F, bcast'[s], P, K, tellPlace(s), h)
    <3>1. Sync(F, Append(bcast[s], a), P, K, tellPlace(s), <<t, 1>>)
      BY <2>1, <2>4, <2>10, SyncWrite
    <3>2. Sync(F, Append(Append(bcast[s], a), b), P, K, tellPlace(s), h)
      BY <2>4, <2>10, <3>1, SyncWrite
    <3> QED
      BY <2>3, <3>2
  <2>12. Hears(x, s, S2, J2, X)'
    BY <1>12, <2>1, <2>9, <2>11, HearsIt DEF P, K, F
  <2>13. PICK c : c = callPlace(x)'
    OBVIOUS
  <2>14. Nothing(D, <<t, 0>>, c)
    <3>1. CASE Tested(S2, J2, t)
      <4>1. <<t, 0>> \in Place
        BY <1>5 DEF Place
      <4> QED
        BY <1>14, <2>2, <2>13, <3>1, <4>1, NothingSame
    <3>2. CASE ~Tested(S2, J2, t)
      <4>1. c = <<t, 1>>
        BY <1>14, <2>13, <3>2
      <4>2. Nothing(D, <<t, 0>>, <<t, 0 + 1>>)
        BY <1>5, <2>2, <2>7, <3>2, NextPlace
      <4> QED
        BY <4>1, <4>2
    <3> QED
      BY <3>1, <3>2
  <2>15. Gives(x, s, S2, J2)'
    <3>1. Sync({"call", "data"}, contrib["worker"][s], D, Gifts(s), c, callPlace(s))
      BY <2>1, <2>14, SyncReaderIdle
    <3>2. contrib'["worker"][s] = contrib["worker"][s]
      BY <1>1
    <3> QED
      BY <1>12, <2>1, <2>13, <3>1, <3>2, GivesIt DEF D
  <2> QED
    BY <2>1, <2>12, <2>15
<1>18. contrib'["clone"] = contrib["clone"] /\ contrib'["world"] = contrib["world"]
       /\ \A s \in Rank : cloneID(s) # cloneID(x) => SameQueues(s)
  <2>1. \A s \in Rank : cloneID(s) # cloneID(x) => s \notin Others("worker", x)
    BY DEF Others, Members
  <2> QED
    BY <1>0, <1>1, <2>1, Sent DEF SameQueues
<1> QED
  BY <1>1, <1>21, <1>23, <1>7, <1>8, <1>12, <1>13, <1>15, <1>16, <1>17, <1>18, FirstWorkerMoves

(* The first worker decides: the state of the next turn is the proposed    *)
(* one if it did not reject it.                                            *)
LEMMA DecideCalls ==
  ASSUME CallInv, BlockInv', NEW x \in Rank, NEW reject \in BOOLEAN, Decide(x, reject),
         UNCHANGED block
  PROVE  CallInv'
<1> USE DEF Sampling
<1>0. Typed /\ input \in Inputs /\ Course(x) /\ "worker" \in Comm
  BY DEF CallInv, BlockInv, CloneType, Comm
<1>1. /\ at[x] = "decide" /\ AllContributed("worker", x) /\ Combine("worker", x)
      /\ Sends(x, Decision(x, reject)) /\ Goto(x, "measure")
      /\ modelState' = IF reject THEN modelState ELSE [modelState EXCEPT ![x] = jmodel[x]]
      /\ UNCHANGED <<imodel, jmodel, input, est, measured, block>>
  BY DEF Decide, SetModelState
<1>2. /\ isCloneMain(x) /\ x = RootOf("worker", x) /\ x \in Members("worker", x)
      /\ x \notin Others("worker", x)
  BY <1>0, <1>1, FirstWorker DEF Others, Course
<1>3. PICK S, J, X : Fine(x, S, J, X)
  BY <1>2 DEF CallInv, CloneFine
<1>4. PICK t : t = measured[x]
  OBVIOUS
<1>5. t \in Nat /\ t + 1 \in Nat
  BY <1>4, PlacesOf DEF CallInv
<1>6. est[x] = 1 /\ input.sampler
  BY <1>0, <1>1 DEF Course
<1>7. modelState[x] = S[t] /\ jmodel[x] = J[t] /\ Tested(S, J, t) /\ imodel[x] = S[t]
  BY <1>1, <1>2, <1>3, <1>4 DEF Fine, Knows
<1>8. /\ S \in [Nat -> 0 .. NModel - 1] /\ J \in [Nat -> 0 .. NModel - 1]
      /\ X \in [Nat -> BOOLEAN] /\ bcast[x] = <<>>
  BY <1>3 DEF Fine
<1>9. PICK S2 \in [Nat -> 0 .. NModel - 1] :
        /\ S2[t + 1] = IF reject THEN S[t] ELSE J[t]
        /\ \A u \in Nat : u # t + 1 => S2[u] = S[u]
  <2> DEFINE z == IF reject THEN S[t] ELSE J[t]
  <2>1. z \in 0 .. NModel - 1
    BY <1>5, <1>8
  <2> HIDE DEF z
  <2>2. [S EXCEPT ![t + 1] = z] \in [Nat -> 0 .. NModel - 1]
    BY <1>5, <1>8, <2>1
  <2>3. PICK S2 \in [Nat -> 0 .. NModel - 1] :
          S2[t + 1] = z /\ \A u \in Nat : u # t + 1 => S2[u] = S[u]
    BY <1>5, <1>8, <2>2
  <2> QED
    BY <2>3 DEF z
<1>10. PICK X2 \in [Nat -> BOOLEAN] :
         X2[t] = reject /\ \A u \in Nat : u # t => X2[u] = X[u]
  <2>1. [X EXCEPT ![t] = reject] \in [Nat -> BOOLEAN]
    BY <1>5, <1>8
  <2> QED
    BY <1>5, <1>8, <2>1
<1>11. S2[t] = S[t] /\ Tested(S2, J, t)
  BY <1>5, <1>7, <1>9 DEF Tested
<1>12. Later(S, J, X, S2, J, X2, <<t, 2>>)
  <2>1. \A u \in Nat : /\ ~Less(<<t, 2>>, <<u, 0>>) => u # t + 1
                       /\ Less(<<u, 2>>, <<t, 2>>) => u # t
    BY <1>5 DEF Less
  <2> QED
    BY <1>9, <1>10, <2>1 DEF Later
<1>13. /\ DOMAIN contrib' = Comm /\ \A c \in Comm : DOMAIN contrib'[c] = Rank
       /\ \A s \in Others("worker", x) : contrib'["worker"][s] = Tail(contrib["worker"][s])
       /\ \A s \in Rank : s \notin Others("worker", x)
                            => contrib'["worker"][s] = contrib["worker"][s]
       /\ contrib'["clone"] = contrib["clone"] /\ contrib'["world"] = contrib["world"]
  BY <1>0, <1>1, Combined DEF Comm
<1>14. /\ Alone(x) /\ Typed' /\ at'[x] = "measure" /\ bcast'[x] = <<>>
       /\ modelState'[x] = IF reject THEN S[t] ELSE J[t]
  <2>1. /\ DOMAIN bcast' = Rank /\ bcast'[x] = bcast[x]
    BY <1>0, <1>1, <1>2, Sent
  <2>2. /\ DOMAIN modelState' = Rank /\ DOMAIN imodel' = Rank /\ DOMAIN jmodel' = Rank
    BY <1>0, <1>1 DEF Typed
  <2>3. /\ modelState'[x] = IF reject THEN S[t] ELSE J[t]
        /\ \A s \in Rank \ {x} : /\ modelState'[s] = modelState[s] /\ imodel'[s] = imodel[s]
                                 /\ jmodel'[s] = jmodel[s]
    BY <1>0, <1>1, <1>7 DEF Typed
  <2> QED
    BY <1>1, <1>8, <1>13, <2>1, <2>2, <2>3, ListenerTypes
<1>15. Course(x)' /\ averagePlace(x)' = averagePlace(x)
  BY <1>1, <1>14, SamplingCourse, AverageWaits
<1>16. /\ tellPlace(x) = <<t, 2>> /\ callPlace(x) = <<t, 0>>
       /\ tellPlace(x)' = <<t + 1, 0>> /\ callPlace(x)' = <<t, 1>>
  <2>1. tellPlace(x) = <<t, 2>> /\ callPlace(x) = <<t, 0>>
    BY <1>1, <1>4, <1>5 DEF tellPlace, callPlace
  <2>2. tellPlace(x)' = <<t + 1, 0>>
    BY <1>1, <1>4, <1>5, <1>14 DEF tellPlace
  <2>3. callPlace(x)' = <<t, 1>>
    BY <1>1, <1>4, <1>6, <1>14 DEF callPlace
  <2> QED
    BY <2>1, <2>2, <2>3
<1>17. ASSUME NEW u \in Nat, Less(<<u, 3>>, tellPlace(x)')
       PROVE  Follows(S2, J, X2, u)
  <2>1. u < t \/ u = t
    BY <1>5, <1>16, <1>17 DEF Less
  <2>2. CASE u < t
    <3>1. Less(<<u, 3>>, tellPlace(x)) /\ u + 1 \in Nat /\ u + 1 # t + 1 /\ u # t /\ u # t + 1
      BY <1>5, <1>16, <2>2 DEF Less
    <3>2. Follows(S, J, X, u) /\ S2[u + 1] = S[u + 1] /\ S2[u] = S[u] /\ X2[u] = X[u]
      BY <1>3, <1>9, <1>10, <3>1 DEF Fine
    <3> QED
      BY <3>2 DEF Follows, Tested
  <2>3. CASE u = t
    BY <1>9, <1>10, <1>11, <2>3 DEF Follows
  <2> QED
    BY <2>1, <2>2, <2>3
<1>18. Knows(x, S2, J, X2)'
  BY <1>1, <1>4, <1>9, <1>14 DEF Knows
<1>19. ASSUME NEW s \in Others("worker", x)
       PROVE  Knows(s, S2, J, X2)' /\ Hears(x, s, S2, J, X2)' /\ Gives(x, s, S2, J)'
  <2> DEFINE P == TellPlaces(S2, J, X2)
             K == Tells(S2, J, X2)
             D == CallPlaces(S2, J)
             F == {"call", "data"}
             a == [call |-> "reject", data |-> reject]
             b == [call |-> "state", data |-> jmodel[x]]
  <2>1. /\ Knows(s, S2, J, X2)'
        /\ Sync(F, bcast[s], P, K, tellPlace(s), <<t, 2>>)
        /\ Sync({"call", "data"}, contrib["worker"][s], D, Gifts(s), <<t, 0>>, callPlace(s))
        /\ tellPlace(s)' = tellPlace(s) /\ callPlace(s)' = callPlace(s)
    <3>1. <<t, 2>> \in TellPlaces(S, J, X) /\ 2 \in {0, 2}
      BY <1>5, <1>6, <1>7 DEF TellPlaces, Place
    <3> QED
      BY <1>3, <1>5, <1>6, <1>12, <1>14, <1>16, <3>1, LaterQueues
  <2>2. P \in SUBSET Place /\ D \in SUBSET Place
    BY PlacesSets
  <2>3. bcast'[s] = IF reject THEN Append(bcast[s], a) ELSE Append(Append(bcast[s], a), b)
    <3>1. bcast'[s] = IF reject THEN bcast[s] \o <<a>> ELSE bcast[s] \o <<a, b>>
      BY <1>0, <1>1, Sent DEF Decision
    <3> HIDE DEF a, b, F, P, K
    <3>2. Ends(bcast'[s], bcast[s], a, b)
      BY <2>1, QueueEnds
    <3> QED
      BY <3>1, <3>2 DEF Ends
  <2>4. /\ <<t, 2>> \in P /\ (<<t, 3>> \in P <=> ~reject)
        /\ Agree(F, a, K[<<t, 2>>]) /\ Agree(F, b, K[<<t, 3>>])
    <3>1. <<t, 2>> \in P /\ (<<t, 3>> \in P <=> ~reject)
          /\ <<t, 2>> \in Place /\ <<t, 3>> \in Place
      BY <1>5, <1>6, <1>10, <1>11 DEF TellPlaces, Place
    <3>2. K[<<t, 2>>] = a /\ K[<<t, 3>>] = b
      BY <1>7, <1>10, <3>1 DEF Tells
    <3> HIDE DEF P, K, a, b
    <3> QED
      BY <3>1, <3>2 DEF Agree
  <2>5. \A i \in Nat : (i > 3 => <<t, i>> \notin P) /\ (reject /\ i > 2 => <<t, i>> \notin P)
    BY <1>10 DEF TellPlaces
  <2>6. <<t, 0>> \in D
    BY <1>5, <1>11 DEF CallPlaces, Place
  <2>7. 0 \in Nat /\ 2 \in Nat /\ 3 \in Nat /\ 0 + 1 = 1 /\ 2 + 1 = 3
    OBVIOUS
  <2> HIDE DEF P, K, D, F, a, b
  <2>8. Hears(x, s, S2, J, X2)'
    <3>1. CASE reject
      <4>1. Only(P, <<t, 2>>, <<t + 1, 0>>)
        BY <1>5, <2>2, <2>4, <2>5, <2>7, <3>1, NextTurn
      <4>2. Sync(F, Append(bcast[s], a), P, K, tellPlace(s), <<t + 1, 0>>)
        BY <2>1, <2>4, <4>1, SyncWrite
      <4> QED
        BY <1>14, <1>16, <2>1, <2>3, <3>1, <4>2, HearsIt DEF P, K, F
    <3>2. CASE ~reject
      <4>1. Only(P, <<t, 2>>, <<t, 3>>)
        BY <1>5, <2>2, <2>4, <2>7, NextPlace
      <4>2. Only(P, <<t, 3>>, <<t + 1, 0>>)
        BY <1>5, <2>2, <2>4, <2>5, <2>7, <3>2, NextTurn
      <4>3. Sync(F, Append(bcast[s], a), P, K, tellPlace(s), <<t, 3>>)
        BY <2>1, <2>4, <4>1, SyncWrite
      <4>4. Sync(F, Append(Append(bcast[s], a), b), P, K, tellPlace(s), <<t + 1, 0>>)
        BY <2>4, <4>2, <4>3, SyncWrite
      <4> QED
        BY <1>14, <1>16, <2>1, <2>3, <3>2, <4>4, HearsIt DEF P, K, F
    <3> QED
      BY <3>1, <3>2
  <2>9. Gives(x, s, S2, J)'
    <3>1. contrib["worker"][s] # <<>> /\ contrib'["worker"][s] = Tail(contrib["worker"][s])
      BY <1>1, <1>13 DEF AllContributed
    <3>2. Only(D, <<t, 0>>, <<t, 0 + 1>>)
      BY <1>5, <2>2, <2>6, <2>7, NextPlace
    <3>3. Sync({"call", "data"}, Tail(contrib["worker"][s]), D, Gifts(s), <<t, 1>>, callPlace(s))
      BY <2>1, <2>7, <3>1, <3>2, SyncRead
    <3> QED
      BY <1>14, <1>16, <2>1, <3>1, <3>3, GivesIt DEF D
  <2> QED
    BY <2>1, <2>8, <2>9
<1>20. \A s \in Rank : cloneID(s) # cloneID(x) => SameQueues(s)
  <2>1. \A s \in Rank : cloneID(s) # cloneID(x) => s \notin Others("worker", x)
    BY DEF Others, Members
  <2> QED
    BY <1>0, <1>1, <1>13, <2>1, Sent DEF SameQueues
<1> QED
  BY <1>2, <1>6, <1>8, <1>9, <1>10, <1>13, <1>14, <1>15, <1>17, <1>18, <1>19, <1>20,
     FirstWorkerMoves

(* Every step keeps the invariant.                                         *)
LEMMA CallsNext == CallInv /\ [Next]_vars => CallInv'
<1> SUFFICES ASSUME CallInv, [Next]_vars PROVE CallInv'
  OBVIOUS
<1>1. BlockInv'
  BY BlockNext DEF CallInv
<1>2. CASE UNCHANGED vars
  <2>1. UNCHANGED <<input, at, contrib, bcast, est, measured, block, modelVars>>
    BY <1>2 DEF vars, cloneVars, statVars, loopVars
  <2> QED
    BY <1>1, <2>1, CallsStay
<1>3. ASSUME NEW x \in Rank, Step(x)
      PROVE  CallInv'
  <2>1. CASE EndTurn(x)
    BY <1>1, <2>1, EndTurnCalls
  <2>2. CASE \E more \in BOOLEAN : EndBlock(x, more)
    BY <1>1, <2>2, EndBlockCalls
  <2>3. CASE TryMove(x) /\ UNCHANGED <<block, turn, found>>
    <3>1. UNCHANGED block
      BY <2>3
    <3>2. ASSUME NEW j \in Proposals(modelState[x]), Propose(x, j)
          PROVE  CallInv'
      BY <1>1, <3>1, <3>2, ProposeCalls
    <3>3. ASSUME NEW reject \in BOOLEAN, Decide(x, reject)
          PROVE  CallInv'
      BY <1>1, <3>1, <3>3, DecideCalls
    <3>4. CASE RecvState(x)
      BY <1>1, <3>1, <3>4, RecvStateCalls
    <3>5. CASE RecvProposal(x)
      BY <1>1, <3>1, <3>5, RecvProposalCalls
    <3>6. CASE RecvDecision(x) \/ RecvNewState(x)
      BY <1>1, <3>1, <3>6, RecvDecisionCalls
    <3> QED
      BY <2>3, <3>2, <3>3, <3>4, <3>5, <3>6 DEF TryMove
  <2>4. CASE UNCHANGED <<modelVars, loopVars>>
             /\ (EvaluateOther(x) \/ EvaluateRoot(x) \/ EvaluateAccRej(x))
    BY <1>1, <2>4, MeasureCalls
  <2>5. CASE UNCHANGED <<modelVars, loopVars>>
             /\ (AverageScalar(x) \/ AverageArray(x) \/ AverageAccRej(x))
    BY <1>1, <2>5, AverageCalls
  <2>6. CASE UNCHANGED <<modelVars, loopVars>>
             /\ (WriteStep(x) \/ LeaveWorkerBarrier(x) \/ LeaveCloneBarrier(x))
    BY <1>1, <2>6, WritesCalls
  <2> QED
    BY <1>3, <2>1, <2>2, <2>3, <2>4, <2>5, <2>6 DEF Step
<1> QED
  BY <1>2, <1>3 DEF Next

(* However far the workers of a clone run ahead of each other, those that  *)
(* measure the same turn are in the same model state, a valid one, and     *)
(* those that wait for the decision of a move have made the same proposal  *)
(* from the same state: ModelSampler::tryMove broadcasts state, proposal,  *)
(* decision and new state on every path in the order they are received in. *)
THEOREM WorkersAgree == Spec => []WorkersAgreeOnModel
<1>1. Init => CallInv
  BY CallsInit
<1>2. CallInv /\ [Next]_vars => CallInv'
  BY CallsNext
<1>3. CallInv => WorkersAgreeOnModel
  BY InvAgrees
<1> QED
  BY <1>1, <1>2, <1>3, PTL DEF Spec

(* No rank reduces or broadcasts into a call of another kind: in           *)
(* ModelSampler::tryMove, Measure::run and averageOverClones the ranks of  *)
(* a communicator make the same calls in the same order, with any          *)
(* estimators, AccRejEstimator (which calls on another communicator than   *)
(* the others) among them.                                                 *)
THEOREM CallsMatch == Spec => []CollectivesMatch
<1>1. Init => CallInv
  BY CallsInit
<1>2. CallInv /\ [Next]_vars => CallInv'
  BY CallsNext
<1>3. CallInv => CollectivesMatch
  BY InvMatches
<1> QED
  BY <1>1, <1>2, <1>3, PTL DEF Spec

-----------------------------------------------------------------------------
(* Acceptances.  What a rank has given and rank 0 not yet received, and    *)
(* what it has with it.                                                    *)
Moves(q) == [n \in DOMAIN q |-> q[n].data.naccept]
MovesIn(q) == SumOver(Moves(q), DOMAIN q)
Held == [r \in Rank |-> naccept[r] + MovesIn(contrib["world"][r])]

AreMoves(q) == /\ \E T : q \in Seq(T)
               /\ \A n \in 1 .. Len(q) : q[n].data.naccept \in Int

CountInv ==
  /\ naccept \in [Rank -> Int] /\ accepted \in [Rank -> Int]
  /\ \A r \in Rank : AreMoves(contrib["world"][r])
  /\ SumOver(Held, Rank) = SumOver(accepted, Rank)

(* It is the fold of the library.                                          *)
LEMMA FoldIsSum ==
  ASSUME NEW f, NEW S
  PROVE  FoldFunctionOnSet(LAMBDA m, n : m + n, 0, f, S) = SumOver(f, S)
BY Zenon DEF FoldFunctionOnSet, MapThenFoldSet, SumOver, Sums, SomeOf

(* The ranks are finitely many, and rank 0 is one of them.                 *)
LEMMA Ranks == ASSUME input \in Inputs PROVE IsFiniteSet(Rank) /\ 0 \in Rank
<1>1. nworker \in Nat \ {0} /\ nclone \in Nat \ {0}
  BY RankAssumption DEF nworker, nclone
<1>2. nworker * nclone - 1 \in Int
  BY <1>1
<1> QED
  BY <1>2, FirstRank, FS_Interval DEF Rank

(* The invariant says what the property says, in sums instead of folds.    *)
LEMMA CountsAre ==
  ASSUME accepted \in [Rank -> Int], SumOver(Held, Rank) = SumOver(accepted, Rank)
  PROVE  AcceptancesAreCounted
<1>1. DOMAIN accepted = Rank
  OBVIOUS
<1>2. \A f : FoldFunction(LAMBDA m, n : m + n, 0, f) = SumOver(f, DOMAIN f)
  <2> SUFFICES ASSUME NEW f PROVE FoldFunction(LAMBDA m, n : m + n, 0, f) = SumOver(f, DOMAIN f)
    OBVIOUS
  <2>1. FoldFunction(LAMBDA m, n : m + n, 0, f) = FoldFunctionOnSet(LAMBDA m, n : m + n, 0, f, DOMAIN f)
    BY Zenon DEF FoldFunction
  <2> QED
    BY <2>1, FoldIsSum, Zenon
<1>3. \A r : DOMAIN Moves(contrib["world"][r]) = DOMAIN contrib["world"][r]
  BY DEF Moves
<1>4. AcceptancesAreCounted <=>
        FoldFunction(LAMBDA m, n : m + n, 0,
                     [r \in Rank |-> naccept[r] + FoldFunction(LAMBDA m, n : m + n, 0, Moves(contrib["world"][r]))])
          = FoldFunction(LAMBDA m, n : m + n, 0, accepted)
  BY Zenon DEF AcceptancesAreCounted, Moves
<1>5. Held = [r \in Rank |-> naccept[r] + FoldFunction(LAMBDA m, n : m + n, 0, Moves(contrib["world"][r]))]
  BY <1>2, <1>3, Zenon DEF Held, MovesIn
<1>6. DOMAIN Held = Rank
  BY DEF Held
<1> QED
  BY <1>1, <1>2, <1>4, <1>5, <1>6, Zenon

(* The moves of a queue are a number.                                      *)
LEMMA MovesType ==
  ASSUME NEW q, AreMoves(q)
  PROVE  MovesIn(q) \in Int
<1>1. PICK T : q \in Seq(T)
  BY DEF AreMoves
<1>2. DOMAIN q = 1 .. Len(q) /\ Len(q) \in Nat
  BY <1>1
<1>3. IsFiniteSet(DOMAIN q) /\ \A n \in DOMAIN q : Moves(q)[n] \in Int
  <2>1. IsFiniteSet(1 .. Len(q))
    BY <1>2, FS_Interval
  <2>2. \A n \in 1 .. Len(q) : Moves(q)[n] \in Int
    BY <1>2 DEF AreMoves, Moves
  <2> QED
    BY <1>2, <2>1, <2>2
<1> QED
  BY <1>3, SumType DEF MovesIn

(* A contribution sent adds its moves to those of the queue.               *)
LEMMA MovesAppend ==
  ASSUME NEW q, AreMoves(q), NEW x, x.data.naccept \in Int
  PROVE  AreMoves(Append(q, x)) /\ MovesIn(Append(q, x)) = MovesIn(q) + x.data.naccept
<1> DEFINE z == Append(q, x)
           n == Len(q)
<1>1. PICK T : q \in Seq(T)
  BY DEF AreMoves
<1>2. n \in Nat /\ DOMAIN q = 1 .. n /\ q \in Seq(T \cup {x})
  BY <1>1
<1>3. /\ z \in Seq(T \cup {x}) /\ DOMAIN z = 1 .. n + 1 /\ Len(z) = n + 1 /\ z[n + 1] = x
      /\ \A i \in 1 .. n : z[i] = q[i]
  BY <1>2, AppendProperties
<1> HIDE DEF z, n
<1>4. \A i \in 1 .. n + 1 : i \in 1 .. n \/ i = n + 1
  BY <1>2
<1>5. \A i \in 1 .. n + 1 : z[i].data.naccept \in Int
  BY <1>3, <1>4 DEF AreMoves, n
<1>6. /\ \A i \in 1 .. n + 1 : Moves(z)[i] = z[i].data.naccept
      /\ \A i \in 1 .. n : Moves(q)[i] = q[i].data.naccept
  BY <1>2, <1>3 DEF Moves
<1>7. SumOver(Moves(z), 1 .. n + 1) = SumOver(Moves(z), 1 .. n) + Moves(z)[n + 1]
  BY <1>2, <1>5, <1>6, SumNext
<1>8. SumOver(Moves(z), 1 .. n) = SumOver(Moves(q), 1 .. n)
  <2>1. IsFiniteSet(1 .. n)
    BY <1>2, FS_Interval
  <2>2. \A i \in 1 .. n : Moves(z)[i] = Moves(q)[i]
    BY <1>2, <1>3, <1>6
  <2> QED
    BY <2>1, <2>2, SumSame
<1>9. n + 1 \in 1 .. n + 1
  BY <1>2
<1>10. AreMoves(z)
  BY <1>3, <1>5 DEF AreMoves
<1> QED
  BY <1>2, <1>3, <1>6, <1>7, <1>8, <1>9, <1>10 DEF MovesIn, z

(* One received takes them away.                                           *)
LEMMA MovesTail ==
  ASSUME NEW q, AreMoves(q), q # <<>>
  PROVE  /\ AreMoves(Tail(q)) /\ Head(q).data.naccept \in Int
         /\ MovesIn(q) = MovesIn(Tail(q)) + Head(q).data.naccept
<1> DEFINE z == Tail(q)
<1>1. PICK T : q \in Seq(T)
  BY DEF AreMoves
<1>2. Len(q) \in Nat \ {0} /\ DOMAIN q = 1 .. Len(q) /\ Head(q) = q[1]
  BY <1>1
<1>3. PICK n \in Nat : n + 1 = Len(q)
  <2>1. Len(q) - 1 \in Nat /\ (Len(q) - 1) + 1 = Len(q)
    BY <1>2
  <2> QED
    BY <2>1
<1>4. /\ z \in Seq(T) /\ DOMAIN z = 1 .. n /\ Len(z) = n
      /\ \A i \in 1 .. n : z[i] = q[i + 1]
  BY <1>1, <1>3
<1> HIDE DEF z
<1>5. /\ \A i \in 1 .. n + 1 : q[i].data.naccept \in Int
      /\ \A i \in 1 .. n : i + 1 \in 1 .. n + 1
      /\ 1 \in 1 .. n + 1 /\ n \in 0 .. n
  BY <1>3 DEF AreMoves
<1>6. /\ \A i \in 1 .. n : Moves(z)[i] = z[i].data.naccept
      /\ \A i \in 1 .. n + 1 : Moves(q)[i] = q[i].data.naccept
  BY <1>2, <1>3, <1>4 DEF Moves
<1>7. SumOver(Moves(q), 1 .. n + 1) = Moves(q)[1] + SumOver(Moves(z), 1 .. n)
  <2>1. \A i \in 1 .. n + 1 : Moves(q)[i] \in Int
    BY <1>5, <1>6
  <2>2. \A i \in 1 .. n : Moves(z)[i] = Moves(q)[i + 1]
    BY <1>4, <1>5, <1>6
  <2>3. SumsShift(Moves(q), Moves(z), n)
    BY <1>3, <2>1, <2>2, SumTail DEF OneAhead
  <2> QED
    BY <1>5, <2>3 DEF SumsShift
<1>8. AreMoves(z)
  BY <1>4, <1>5 DEF AreMoves
<1>9. MovesIn(z) \in Int
  BY <1>8, MovesType
<1>10. MovesIn(q) = q[1].data.naccept + MovesIn(z) /\ q[1].data.naccept \in Int
  BY <1>2, <1>3, <1>4, <1>5, <1>6, <1>7 DEF MovesIn
<1> QED
  BY <1>2, <1>8, <1>9, <1>10 DEF z

(* What a rank holds is its own count and what is in its queue.            *)
LEMMA HeldIs ==
  ASSUME CountInv, input \in Inputs
  PROVE  \A r \in Rank : /\ MovesIn(contrib["world"][r]) \in Int /\ naccept[r] \in Int
                         /\ Held[r] = naccept[r] + MovesIn(contrib["world"][r])
                         /\ Held[r] \in Int /\ accepted[r] \in Int
BY MovesType DEF CountInv, Held

Accepting(x, d) == /\ naccept' = [naccept EXCEPT ![x] = @ + d]
                   /\ accepted' = [accepted EXCEPT ![x] = @ + d]

(* A move accepted, or not.                                                *)
LEMMA CountsMove ==
  ASSUME CountInv, input \in Inputs, input' = input, contrib'["world"] = contrib["world"],
         NEW x \in Rank, NEW d \in Int, Accepting(x, d)
  PROVE  CountInv'
<1>0. Rank' = Rank
  BY DEF Rank, nworker, nclone
<1>1. naccept' \in [Rank -> Int] /\ accepted' \in [Rank -> Int]
      /\ \A r \in Rank : /\ naccept'[r] = naccept[r] + (IF r = x THEN d ELSE 0)
                         /\ accepted'[r] = accepted[r] + (IF r = x THEN d ELSE 0)
  BY DEF CountInv, Accepting
<1>2. Held' = [r \in Rank |-> naccept'[r] + MovesIn(contrib["world"][r])]
  BY <1>0 DEF Held
<1>3. \A r \in Rank : /\ Held[r] \in Int /\ accepted[r] \in Int
                      /\ Held'[r] = Held[r] + (IF r = x THEN d ELSE 0)
  <2>1. \A i, j, k \in Int : (i + k) + j = (i + j) + k
    OBVIOUS
  <2>2. \A r \in Rank : Held'[r] = (naccept[r] + (IF r = x THEN d ELSE 0)) + MovesIn(contrib["world"][r])
    BY <1>1, <1>2
  <2>3. \A r \in Rank : (IF r = x THEN d ELSE 0) \in Int
    OBVIOUS
  <2> QED
    BY <2>1, <2>2, <2>3, HeldIs
<1>4. SumOver(Held', Rank) = SumOver(Held, Rank) + d
  BY <1>3, Ranks, SumOne
<1>5. SumOver(accepted', Rank) = SumOver(accepted, Rank) + d
  <2>1. \A r \in Rank : /\ accepted[r] \in Int
                        /\ accepted'[r] = accepted[r] + (IF r = x THEN d ELSE 0)
    BY <1>1, <1>3
  <2>2. IsFiniteSet(Rank)
    BY Ranks
  <2> QED
    BY <2>1, <2>2, SumOne
<1> QED
  BY <1>0, <1>1, <1>4, <1>5 DEF CountInv

(* A rank gives its count away.                                            *)
LEMMA CountsGiven ==
  ASSUME CountInv, input \in Inputs, input' = input, accepted' = accepted,
         NEW x \in Rank, NEW m, m.data.naccept = naccept[x],
         naccept' = [naccept EXCEPT ![x] = 0],
         contrib'["world"][x] = Append(contrib["world"][x], m),
         \A s \in Rank : s # x => contrib'["world"][s] = contrib["world"][s]
  PROVE  CountInv'
<1>0. Rank' = Rank
  BY DEF Rank, nworker, nclone
<1>1. naccept' \in [Rank -> Int] /\ naccept'[x] = 0 /\ naccept[x] \in Int
      /\ \A r \in Rank : r # x => naccept'[r] = naccept[r]
  BY DEF CountInv
<1>2. AreMoves(contrib'["world"][x])
      /\ MovesIn(contrib'["world"][x]) = MovesIn(contrib["world"][x]) + naccept[x]
  BY <1>1, MovesAppend DEF CountInv
<1>3. \A r \in Rank : AreMoves(contrib'["world"][r])
  BY <1>2 DEF CountInv
<1>4. Held' = [r \in Rank |-> naccept'[r] + MovesIn(contrib'["world"][r])]
  BY <1>0 DEF Held
<1>5. \A r \in Rank : Held'[r] = Held[r]
  <2>1. CASE \A r \in Rank : r # x => Held'[r] = Held[r]
    <3>1. Held'[x] = 0 + (MovesIn(contrib["world"][x]) + naccept[x])
      BY <1>1, <1>2, <1>4
    <3>2. Held[x] = naccept[x] + MovesIn(contrib["world"][x])
          /\ MovesIn(contrib["world"][x]) \in Int
      BY HeldIs
    <3> QED
      BY <1>1, <2>1, <3>1, <3>2
  <2> QED
    BY <1>1, <1>4, <2>1 DEF Held
<1>6. SumOver(Held', Rank) = SumOver(Held, Rank)
  BY <1>5, Ranks, SumSame
<1> QED
  BY <1>0, <1>1, <1>3, <1>6 DEF CountInv

Heads(S) == [s \in Rank |-> IF s \in S THEN Contribution("world", s)["naccept"] ELSE 0]

(* Rank 0 takes the counts of all.                                         *)
LEMMA CountsTaken ==
  ASSUME CountInv, input \in Inputs, input' = input, accepted' = accepted,
         NEW S, S = Rank \ {0}, \A s \in S : contrib["world"][s] # <<>>,
         naccept' = [naccept EXCEPT ![0] = @ + SumOver(Heads(S), S)],
         \A s \in S : contrib'["world"][s] = Tail(contrib["world"][s]),
         contrib'["world"][0] = contrib["world"][0]
  PROVE  CountInv'
<1>0. Rank' = Rank /\ 0 \in Rank /\ IsFiniteSet(Rank)
  BY Ranks DEF Rank, nworker, nclone
<1> DEFINE h == Heads(S)
<1>1. ASSUME NEW s \in S
      PROVE  /\ AreMoves(contrib'["world"][s]) /\ h[s] \in Int
             /\ MovesIn(contrib["world"][s]) = MovesIn(contrib'["world"][s]) + h[s]
  <2>1. AreMoves(contrib["world"][s]) /\ contrib["world"][s] # <<>>
    BY DEF CountInv
  <2>2. h[s] = Head(contrib["world"][s]).data.naccept
    BY DEF Heads, Contribution
  <2> QED
    BY <2>1, <2>2, MovesTail
<1>2. IsFiniteSet(S) /\ SumOver(h, S) \in Int
  <2>1. IsFiniteSet(S)
    BY <1>0, FS_Subset
  <2> QED
    BY <1>1, <2>1, SumType
<1> HIDE DEF h
<1>3. /\ naccept' \in [Rank -> Int] /\ naccept[0] \in Int
      /\ naccept'[0] = naccept[0] + SumOver(h, S)
      /\ \A s \in S : naccept'[s] = naccept[s]
  BY <1>0, <1>2 DEF CountInv, h
<1>4. \A r \in Rank : AreMoves(contrib'["world"][r])
  BY <1>1 DEF CountInv
<1>5. Held' = [r \in Rank |-> naccept'[r] + MovesIn(contrib'["world"][r])]
  BY <1>0 DEF Held
<1>6. Held'[0] = Held[0] + SumOver(h, S)
  <2>1. /\ Held'[0] = (naccept[0] + SumOver(h, S)) + MovesIn(contrib["world"][0])
        /\ Held[0] = naccept[0] + MovesIn(contrib["world"][0])
    BY <1>0, <1>3, <1>5 DEF Held
  <2>2. MovesIn(contrib["world"][0]) \in Int
    BY <1>0, HeldIs
  <2> QED
    BY <1>2, <1>3, <2>1, <2>2
<1>7. \A s \in S : Held'[s] \in Int /\ h[s] \in Int /\ Held[s] = Held'[s] + h[s]
  <2> SUFFICES ASSUME NEW s \in S
               PROVE  Held'[s] \in Int /\ h[s] \in Int /\ Held[s] = Held'[s] + h[s]
    OBVIOUS
  <2>1. MovesIn(contrib'["world"][s]) \in Int /\ naccept[s] \in Int /\ h[s] \in Int
    BY <1>1, HeldIs, MovesType
  <2>2. /\ Held'[s] = naccept[s] + MovesIn(contrib'["world"][s])
        /\ Held[s] = naccept[s] + (MovesIn(contrib'["world"][s]) + h[s])
    BY <1>1, <1>3, <1>5 DEF Held
  <2> QED
    BY <2>1, <2>2
<1>8. SumOver(Held, S) = SumOver(Held', S) + SumOver(h, S)
  BY <1>2, <1>7, SumAdds
<1>9. /\ SumOver(Held, Rank) = Held[0] + SumOver(Held, S)
      /\ SumOver(Held', Rank) = Held'[0] + SumOver(Held', S)
      /\ Held[0] \in Int /\ SumOver(Held', S) \in Int
  <2>1. \A r \in Rank : Held[r] \in Int
    BY HeldIs
  <2>2. \A r \in Rank : Held'[r] \in Int
    BY <1>2, <1>6, <1>7, <2>1
  <2>3. /\ SumOver(Held, Rank) = Held[0] + SumOver(Held, Rank \ {0})
        /\ SumOver(Held', Rank) = Held'[0] + SumOver(Held', Rank \ {0})
    BY <1>0, <2>1, <2>2, SumTake
  <2>4. SumOver(Held', S) \in Int
    BY <1>2, <1>7, SumType
  <2> QED
    BY <1>0, <2>1, <2>3, <2>4
<1>10. SumOver(Held', Rank) = SumOver(Held, Rank)
  BY <1>2, <1>6, <1>8, <1>9
<1> QED
  BY <1>0, <1>3, <1>4, <1>10 DEF CountInv

-----------------------------------------------------------------------------
(* No move has been accepted at the start, and nothing is on its way.      *)
LEMMA CountsInit == Init => CountInv
<1> SUFFICES ASSUME Init PROVE CountInv
  OBVIOUS
<1>1. /\ naccept = [r \in Rank |-> 0] /\ accepted = [r \in Rank |-> 0]
      /\ input \in Inputs /\ \A r \in Rank : contrib["world"][r] = <<>>
  BY DEF Init, ClonesInit, StatisticsInit, Comm
<1>2. AreMoves(<<>>) /\ MovesIn(<<>>) = 0
  <2>1. DOMAIN <<>> = {} /\ Len(<<>>) = 0 /\ <<>> \in Seq({})
    OBVIOUS
  <2>2. MovesIn(<<>>) = 0
    BY <2>1, SumNone DEF MovesIn
  <2>3. 1 .. 0 = {}
    OBVIOUS
  <2> QED
    BY <2>1, <2>2, <2>3 DEF AreMoves
<1>3. \A r \in Rank : Held[r] = accepted[r]
  BY <1>1, <1>2 DEF Held
<1>4. SumOver(Held, Rank) = SumOver(accepted, Rank)
  BY <1>1, <1>3, Ranks, SumSame
<1>5. \A r \in Rank : AreMoves(contrib["world"][r])
  BY <1>1, <1>2
<1>6. naccept \in [Rank -> Int] /\ accepted \in [Rank -> Int]
  BY <1>1
<1> QED
  BY <1>4, <1>5, <1>6 DEF CountInv

(* Most steps neither accept nor average acceptances.                      *)
LEMMA CountsStay ==
  ASSUME CountInv, UNCHANGED <<input, naccept, accepted>>, contrib'["world"] = contrib["world"]
  PROVE  CountInv'
BY DEF CountInv, Held, Rank, nworker, nclone

(* ModelSampler::tryMove accepts on the rank that counts it.               *)
LEMMA CountsTryMove ==
  ASSUME CallInv, CountInv, NEW x \in Rank, TryMove(x), Counted(x)
  PROVE  CountInv'
<1>0. input \in Inputs /\ naccept \in [Rank -> Int] /\ accepted \in [Rank -> Int]
  BY DEF CallInv, BlockInv, CloneType, CountInv
<1>1. ASSUME naccept' = naccept, input' = input, contrib'["world"] = contrib["world"]
      PROVE  CountInv'
  <2>1. Accepting(x, 0)
    <3>1. accepted' = [accepted EXCEPT ![x] = @ + naccept[x] - naccept[x]]
      BY <1>1 DEF Counted
    <3>2. /\ accepted[x] + naccept[x] - naccept[x] = accepted[x] + 0
          /\ naccept[x] + 0 = naccept[x]
      BY <1>0
    <3>3. accepted' = [accepted EXCEPT ![x] = @ + 0] /\ naccept' = [naccept EXCEPT ![x] = @ + 0]
      BY <1>0, <1>1, <3>1, <3>2
    <3> QED
      BY <3>3 DEF Accepting
  <2> QED
    BY <1>0, <1>1, <2>1, CountsMove
<1>2. \A call, data : Contribute("worker", x, call, data) => contrib'["world"] = contrib["world"]
  BY Contributed DEF CallInv, Comm
<1>3. Combine("worker", x) => contrib'["world"] = contrib["world"]
  BY Combined DEF CallInv, Comm
<1>4. ASSUME NEW j, Propose(x, j)
      PROVE  CountInv'
  BY <1>1, <1>4 DEF Propose
<1>5. CASE RecvState(x) \/ RecvDecision(x) \/ RecvNewState(x)
  BY <1>1, <1>5 DEF RecvState, RecvDecision, RecvNewState, statVars
<1>6. CASE RecvProposal(x)
  BY <1>1, <1>2, <1>6 DEF RecvProposal, statVars
<1>7. ASSUME NEW reject \in BOOLEAN, Decide(x, reject)
      PROVE  CountInv'
  <2>1. input' = input /\ contrib'["world"] = contrib["world"]
    BY <1>3, <1>7 DEF Decide
  <2>2. CASE reject
    <3>1. naccept' = naccept
      BY <1>7, <2>2 DEF Decide
    <3> QED
      BY <1>1, <2>1, <3>1
  <2>3. CASE ~reject
    <3>1. naccept' = [naccept EXCEPT ![x] = @ + 1]
      BY <1>7, <2>3 DEF Decide, MoveAccepted
    <3>2. Accepting(x, 1)
      <4>1. accepted' = [accepted EXCEPT ![x] = @ + naccept'[x] - naccept[x]]
        BY <2>3, <1>0 DEF Counted
      <4>2. naccept'[x] = naccept[x] + 1
        BY <1>0, <3>1
      <4>3. accepted[x] + naccept'[x] - naccept[x] = accepted[x] + 1
        BY <1>0, <4>2
      <4> QED
        BY <1>0, <3>1, <4>1, <4>3 DEF Accepting
    <3> QED
      BY <1>0, <2>1, <3>2, CountsMove
  <2> QED
    BY <2>2, <2>3
<1> QED
  BY <1>4, <1>5, <1>6, <1>7 DEF TryMove

(* averageOverClones: a rank other than 0 sends its count and clears it,   *)
(* and rank 0 adds all it receives to its own: moves change places and     *)
(* none is lost.                                                           *)
LEMMA CountsAverage ==
  ASSUME CallInv, CountInv, NEW x \in Rank, AverageAccRej(x), UNCHANGED loopVars
  PROVE  CountInv'
<1>0. input \in Inputs /\ input' = input /\ accepted' = accepted /\ Typed
  BY DEF CallInv, BlockInv, CloneType, AverageAccRej, loopVars
<1>1. CASE x = 0
  <2> DEFINE S == Rank \ {0}
  <2>1. Others("world", x) = S
    BY <1>1 DEF Others, Members
  <2>2. /\ AllContributed("world", x) /\ Combine("world", x)
        /\ naccept' = [naccept EXCEPT ![0] = @ + SumOfCounts("world", x, "naccept")]
    BY <1>1 DEF AverageAccRej, isMain
  <2>3. SumOfCounts("world", x, "naccept") = SumOver(Heads(S), S)
    BY <2>1, FoldIsSum, Zenon DEF SumOfCounts, Heads
  <2>4. /\ \A s \in S : contrib'["world"][s] = Tail(contrib["world"][s])
        /\ contrib'["world"][0] = contrib["world"][0]
    BY <1>0, <1>1, <2>1, <2>2, Combined DEF Comm
  <2>5. \A s \in S : contrib["world"][s] # <<>>
    BY <2>1, <2>2 DEF AllContributed
  <2> QED
    BY <1>0, <2>2, <2>3, <2>4, <2>5, CountsTaken
<1>2. CASE x # 0
  <2> DEFINE d == [naccept |-> naccept[x], ntrial |-> ntrial[x]]
             m == [call |-> "accrej", data |-> d]
  <2>1. /\ Contribute("world", x, "accrej", d)
        /\ naccept' = [naccept EXCEPT ![x] = 0]
    BY <1>2 DEF AverageAccRej, isMain, Zeroed
  <2>2. m.data.naccept = naccept[x]
    OBVIOUS
  <2>3. /\ contrib'["world"][x] = Append(contrib["world"][x], m)
        /\ \A s \in Rank : s # x => contrib'["world"][s] = contrib["world"][s]
    BY <1>0, <2>1, Contributed DEF Comm
  <2> HIDE DEF m
  <2> QED
    BY <1>0, <2>1, <2>2, <2>3, CountsGiven
<1> QED
  BY <1>1, <1>2

(* Every other step leaves the counts and what is on its way alone.        *)
LEMMA CountsNext == CallInv /\ CountInv /\ [Next]_vars => CountInv'
<1> SUFFICES ASSUME CallInv, CountInv, [Next]_vars PROVE CountInv'
  OBVIOUS
<1>1. CASE UNCHANGED vars
  BY <1>1, CountsStay DEF vars, cloneVars, statVars, loopVars
<1>2. ASSUME NEW x \in Rank, Step(x)
      PROVE  CountInv'
  <2>0. Typed
    BY DEF CallInv
  <2>1. \A comm \in {"worker", "clone"} : \A call, data :
          Contribute(comm, x, call, data) => contrib'["world"] = contrib["world"]
    BY <2>0, Contributed DEF Comm
  <2>2. \A comm \in {"worker", "clone"} : Combine(comm, x) => contrib'["world"] = contrib["world"]
    BY <2>0, Combined DEF Comm
  <2>3. CASE EndTurn(x)
    BY <2>3, CountsStay DEF EndTurn
  <2>4. CASE \E more \in BOOLEAN : EndBlock(x, more)
    BY <2>4, CountsStay DEF EndBlock, statVars
  <2>5. CASE TryMove(x) /\ Counted(x) /\ UNCHANGED <<block, turn, found>>
    BY <2>5, CountsTryMove
  <2>6. CASE UNCHANGED loopVars /\ EvaluateOther(x)
    BY <2>1, <2>6, CountsStay DEF EvaluateOther, loopVars
  <2>7. CASE UNCHANGED loopVars /\ EvaluateRoot(x)
    <3>1. Combine("worker", x) /\ UNCHANGED <<input, naccept>>
      BY <2>7 DEF EvaluateRoot
    <3> QED
      BY <2>2, <2>7, <3>1, CountsStay DEF loopVars
  <2>8. CASE UNCHANGED loopVars /\ EvaluateAccRej(x)
    BY <2>8, CountsStay DEF EvaluateAccRej, loopVars
  <2>9. CASE UNCHANGED loopVars /\ AverageScalar(x)
    <3>1. /\ UNCHANGED <<input, naccept>>
          /\ \/ UNCHANGED contrib
             \/ \E call, data : Contribute("clone", x, call, data)
             \/ Combine("clone", x)
      BY <2>9 DEF AverageScalar
    <3> QED
      BY <2>1, <2>2, <2>9, <3>1, CountsStay DEF loopVars
  <2>10. CASE UNCHANGED loopVars /\ AverageArray(x)
    <3>1. /\ UNCHANGED <<input, naccept>>
          /\ \/ UNCHANGED contrib
             \/ \E call, data : Contribute("clone", x, call, data)
             \/ Combine("clone", x)
      BY <2>10 DEF AverageArray
    <3> QED
      BY <2>1, <2>2, <2>10, <3>1, CountsStay DEF loopVars
  <2>11. CASE UNCHANGED loopVars /\ AverageAccRej(x)
    BY <2>11, CountsAverage
  <2>12. CASE UNCHANGED loopVars /\ (WriteStep(x) \/ LeaveWorkerBarrier(x) \/ LeaveCloneBarrier(x))
    BY <2>12, CountsStay DEF WriteStep, LeaveWorkerBarrier, LeaveCloneBarrier, loopVars, statVars
  <2> QED
    BY <1>2, <2>3, <2>4, <2>5, <2>6, <2>7, <2>8, <2>9, <2>10, <2>11, <2>12 DEF Step
<1> QED
  BY <1>1, <1>2 DEF Next

(* No accepted move is lost or counted twice on its way to rank 0: the     *)
(* counts the ranks hold and those they have sent that rank 0 has not yet  *)
(* received are together the moves ever accepted                           *)
(* (AccRejEstimator::averageOverClones, which resets the counts it sends). *)
THEOREM AcceptancesCounted == Spec => []AcceptancesAreCounted
<1>1. Init => CallInv /\ CountInv
  BY CallsInit, CountsInit
<1>2. (CallInv /\ CountInv) /\ [Next]_vars => (CallInv /\ CountInv)'
  BY CallsNext, CountsNext
<1>3. CallInv /\ CountInv => AcceptancesAreCounted
  BY CountsAre DEF CountInv
<1> QED
  BY <1>1, <1>2, <1>3, PTL DEF Spec

-----------------------------------------------------------------------------
(* Bags.  A term for each pair of P, divided by d, in the partition L says.*)
Terms(P, d, L) == {<<p[1], p[2], d, L[p]>> : p \in P}
Weights(P, d, L) == SetToBag(Terms(P, d, L))

(* A term tells its pair.                                                  *)
LEMMA TermIs ==
  ASSUME NEW P \in SUBSET Place, NEW d, NEW L, NEW t \in Terms(P, d, L)
  PROVE  /\ <<t[1], t[2]>> \in P
         /\ t = <<t[1], t[2], d, L[<<t[1], t[2]>>]>>
<1>1. PICK p \in P : t = <<p[1], p[2], d, L[p]>>
  BY DEF Terms
<1>2. t[1] = p[1] /\ t[2] = p[2] /\ p = <<p[1], p[2]>>
  BY <1>1 DEF Place
<1> QED
  BY <1>1, <1>2

(* Terms of different pairs are different.                                 *)
LEMMA TermsUnion ==
  ASSUME NEW P \in SUBSET Place, NEW Q \in SUBSET Place, P \cap Q = {}, NEW d, NEW L
  PROVE  Weights(P, d, L) (+) Weights(Q, d, L) = Weights(P \cup Q, d, L)
<1> DEFINE A == Terms(P, d, L)
           B == Terms(Q, d, L)
<1>1. A \cap B = {}
  <2> SUFFICES ASSUME NEW t \in A, t \in B PROVE FALSE
    OBVIOUS
  <2>1. <<t[1], t[2]>> \in P /\ <<t[1], t[2]>> \in Q
    BY TermIs
  <2> QED
    BY <2>1
<1>2. Terms(P \cup Q, d, L) = A \cup B
  BY DEF Terms
<1>3. SetToBag(A) (+) SetToBag(B) = SetToBag(A \cup B)
  <2> HIDE DEF A, B
  <2>1. DOMAIN SetToBag(A) = A /\ DOMAIN SetToBag(B) = B
    BY DEF SetToBag
  <2>2. \A e \in A : SetToBag(A)[e] = 1
    BY DEF SetToBag
  <2>3. \A e \in B : SetToBag(B)[e] = 1
    BY DEF SetToBag
  <2>4. \A e \in A \cup B : (IF e \in A THEN SetToBag(A)[e] ELSE 0)
                              + (IF e \in B THEN SetToBag(B)[e] ELSE 0) = 1
    BY <1>1, <2>2, <2>3
  <2>5. SetToBag(A) (+) SetToBag(B)
          = [e \in A \cup B |-> (IF e \in A THEN SetToBag(A)[e] ELSE 0)
                                  + (IF e \in B THEN SetToBag(B)[e] ELSE 0)]
    BY <2>1, Zenon DEF (+)
  <2>6. SetToBag(A \cup B) = [e \in A \cup B |-> 1]
    BY DEF SetToBag
  <2> QED
    BY <2>4, <2>5, <2>6
<1> QED
  BY <1>2, <1>3 DEF Weights

(* Dividing by n.                                                          *)
LEMMA WeightsOver ==
  ASSUME NEW P \in SUBSET Place, NEW d \in Nat \ {0}, NEW n \in Nat \ {0}, NEW L
  PROVE  Over(Weights(P, d, L), n) = Weights(P, d * n, L)
<1>0. PICK D : D = d * n
  OBVIOUS
<1> DEFINE A == Terms(P, d, L)
           B == Terms(P, D, L)
           q == Weights(P, d, L)
<1>1. DOMAIN q = A /\ \A e \in A : q[e] = 1
  BY DEF Weights, SetToBag
<1>2. D \div n = d
  <2>1. \A a \in Nat : (a * n) \div n = a
    OBVIOUS
  <2> QED
    BY <1>0, <2>1
<1>3. ASSUME NEW u \in A
      PROVE  [u EXCEPT ![3] = @ * n] = <<u[1], u[2], D, L[<<u[1], u[2]>>]>>
  <2>1. u = <<u[1], u[2], d, L[<<u[1], u[2]>>]>>
    <3> HIDE DEF A
    <3>1. u \in Terms(P, d, L)
      BY DEF A
    <3> QED
      BY <3>1, TermIs, SMTT(60)
  <2>2. PICK a, b, c : u = <<a, b, d, c>> /\ a = u[1] /\ b = u[2] /\ c = L[<<u[1], u[2]>>]
    BY <2>1
  <2>3. [<<a, b, d, c>> EXCEPT ![3] = @ * n] = <<a, b, D, c>>
    BY <1>0
  <2> QED
    BY <2>2, <2>3
<1>B. ASSUME NEW t \in B
      PROVE  <<t[1], t[2]>> \in P /\ t = <<t[1], t[2], D, L[<<t[1], t[2]>>]>>
  <2> HIDE DEF B
  <2>1. t \in Terms(P, D, L)
    BY DEF B
  <2> QED
    BY <2>1, TermIs, SMTT(60)
<1>4. ASSUME NEW t \in B
      PROVE  [t EXCEPT ![3] = @ \div n] = <<t[1], t[2], d, L[<<t[1], t[2]>>]>>
  <2>1. t = <<t[1], t[2], D, L[<<t[1], t[2]>>]>>
    BY <1>B
  <2>2. PICK a, b, c : t = <<a, b, D, c>> /\ a = t[1] /\ b = t[2] /\ c = L[<<t[1], t[2]>>]
    BY <2>1
  <2>3. [<<a, b, D, c>> EXCEPT ![3] = @ \div n] = <<a, b, D \div n, c>>
    OBVIOUS
  <2> QED
    BY <1>2, <2>2, <2>3
<1>5. {[u EXCEPT ![3] = @ * n] : u \in A} = B
  <2>1. ASSUME NEW u \in A
        PROVE  <<u[1], u[2], D, L[<<u[1], u[2]>>]>> \in B
    <3>1. <<u[1], u[2]>> \in P
      BY TermIs
    <3>2. PICK p \in P : p = <<u[1], u[2]>> /\ p[1] = u[1] /\ p[2] = u[2]
      BY <3>1
    <3> QED
      BY <3>2 DEF Terms
  <2>2. ASSUME NEW t \in B
        PROVE  \E u \in A : t = <<u[1], u[2], D, L[<<u[1], u[2]>>]>>
    <3>1. <<t[1], t[2]>> \in P /\ t = <<t[1], t[2], D, L[<<t[1], t[2]>>]>>
      BY <1>B
    <3>2. PICK p \in P : p = <<t[1], t[2]>> /\ p[1] = t[1] /\ p[2] = t[2]
      BY <3>1
    <3>3. PICK u \in A : u = <<p[1], p[2], d, L[p]>>
      BY DEF Terms
    <3>4. u[1] = p[1] /\ u[2] = p[2]
      BY <3>3
    <3> QED
      BY <3>1, <3>2, <3>4
  <2> HIDE DEF A, B
  <2>3. {[u EXCEPT ![3] = @ * n] : u \in A} = {<<u[1], u[2], D, L[<<u[1], u[2]>>]>> : u \in A}
    <3> DEFINE F(u) == [u EXCEPT ![3] = @ * n]
               G(u) == <<u[1], u[2], D, L[<<u[1], u[2]>>]>>
    <3>1. \A u \in A : F(u) = G(u)
      BY <1>3
    <3> HIDE DEF F, G
    <3>2. {F(u) : u \in A} = {G(u) : u \in A}
      BY <3>1
    <3> QED
      BY <3>2 DEF F, G
  <2> QED
    BY <2>1, <2>2, <2>3, Zenon
<1>6. ASSUME NEW t \in B
      PROVE  q[[t EXCEPT ![3] = @ \div n]] = 1
  <2>1. <<t[1], t[2]>> \in P
    BY TermIs
  <2>2. PICK p \in P : p = <<t[1], t[2]>> /\ p[1] = t[1] /\ p[2] = t[2]
    BY <2>1
  <2>3. <<t[1], t[2], d, L[<<t[1], t[2]>>]>> \in A
    BY <2>2 DEF Terms
  <2> QED
    BY <1>1, <1>4, <2>3
<1>7. Over(q, n) = [t \in {[u EXCEPT ![3] = @ * n] : u \in DOMAIN q} |->
                      q[[t EXCEPT ![3] = @ \div n]]]
  BY DEF Over
<1>8. Over(q, n) = [t \in B |-> 1]
  <2> HIDE DEF q, A, B
  <2> QED
    BY <1>1, <1>5, <1>6, <1>7
<1> QED
  BY <1>0, <1>8 DEF Weights, SetToBag

(* Counting them in partition i.                                           *)
LEMMA WeightsIn ==
  ASSUME NEW P \in SUBSET Place, NEW d, NEW i, NEW L, \A p \in P : L[p] = 0,
         NEW M, \A p \in P : M[p] = i
  PROVE  InPartition(Weights(P, d, L), i) = Weights(P, d, M)
<1> DEFINE A == Terms(P, d, L)
           B == Terms(P, d, M)
           q == Weights(P, d, L)
<1>1. DOMAIN q = A /\ \A e \in A : q[e] = 1
  BY DEF Weights, SetToBag
<1>2. ASSUME NEW u \in A
      PROVE  [u EXCEPT ![4] = i] = <<u[1], u[2], d, i>>
  <2>1. u = <<u[1], u[2], d, L[<<u[1], u[2]>>]>>
    <3> HIDE DEF A
    <3>1. u \in Terms(P, d, L)
      BY DEF A
    <3> QED
      BY <3>1, TermIs, SMTT(60)
  <2>2. PICK a, b, c : u = <<a, b, d, c>> /\ a = u[1] /\ b = u[2]
    BY <2>1
  <2>3. [<<a, b, d, c>> EXCEPT ![4] = i] = <<a, b, d, i>>
    OBVIOUS
  <2> QED
    BY <2>2, <2>3
<1>3. ASSUME NEW t \in B
      PROVE  [t EXCEPT ![4] = 0] = <<t[1], t[2], d, 0>>
  <2>1. t = <<t[1], t[2], d, M[<<t[1], t[2]>>]>>
    <3> HIDE DEF B
    <3>1. t \in Terms(P, d, M)
      BY DEF B
    <3> QED
      BY <3>1, TermIs, SMTT(60)
  <2>2. PICK a, b, c : t = <<a, b, d, c>> /\ a = t[1] /\ b = t[2]
    BY <2>1
  <2>3. [<<a, b, d, c>> EXCEPT ![4] = 0] = <<a, b, d, 0>>
    OBVIOUS
  <2> QED
    BY <2>2, <2>3
<1>4. {[u EXCEPT ![4] = i] : u \in A} = B
  <2>1. ASSUME NEW u \in A
        PROVE  <<u[1], u[2], d, i>> \in B
    <3>1. <<u[1], u[2]>> \in P
      BY TermIs
    <3>2. PICK p \in P : p = <<u[1], u[2]>> /\ p[1] = u[1] /\ p[2] = u[2]
      BY <3>1
    <3> QED
      BY <3>2 DEF Terms
  <2>2. ASSUME NEW t \in B
        PROVE  \E u \in A : t = <<u[1], u[2], d, i>>
    <3>1. PICK p \in P : t = <<p[1], p[2], d, i>>
      BY DEF Terms
    <3>2. PICK u \in A : u = <<p[1], p[2], d, L[p]>>
      BY DEF Terms
    <3>3. u[1] = p[1] /\ u[2] = p[2]
      BY <3>2
    <3> QED
      BY <3>1, <3>3
  <2> HIDE DEF A, B
  <2>3. {[u EXCEPT ![4] = i] : u \in A} = {<<u[1], u[2], d, i>> : u \in A}
    <3> DEFINE F(u) == [u EXCEPT ![4] = i]
               G(u) == <<u[1], u[2], d, i>>
    <3>1. \A u \in A : F(u) = G(u)
      BY <1>2
    <3> HIDE DEF F, G
    <3>2. {F(u) : u \in A} = {G(u) : u \in A}
      BY <3>1
    <3> QED
      BY <3>2 DEF F, G
  <2> QED
    BY <2>1, <2>2, <2>3, Zenon
<1>5. ASSUME NEW t \in B
      PROVE  q[[t EXCEPT ![4] = 0]] = 1
  <2>1. PICK p \in P : t = <<p[1], p[2], d, i>>
    BY DEF Terms
  <2>2. <<p[1], p[2], d, 0>> \in A /\ t[1] = p[1] /\ t[2] = p[2]
    BY <2>1 DEF Terms
  <2> QED
    BY <1>1, <1>3, <2>2
<1>6. InPartition(q, i) = [t \in {[u EXCEPT ![4] = i] : u \in DOMAIN q} |->
                             q[[t EXCEPT ![4] = 0]]]
  BY DEF InPartition
<1>7. InPartition(q, i) = [t \in B |-> 1]
  <2> HIDE DEF q, A, B
  <2> QED
    BY <1>1, <1>4, <1>5, <1>6
<1> QED
  BY <1>7 DEF Weights, SetToBag

(* Only the partitions of the pairs matter,                                *)
LEMMA WeightsSame ==
  ASSUME NEW P, NEW d, NEW L, NEW M, \A p \in P : L[p] = M[p]
  PROVE  Weights(P, d, L) = Weights(P, d, M)
<1>1. Terms(P, d, L) = Terms(P, d, M)
  BY DEF Terms
<1> QED
  BY <1>1 DEF Weights

(* and of no pairs there are no terms.                                     *)
LEMMA WeightsNone ==
  ASSUME NEW d, NEW L
  PROVE  Weights({}, d, L) = EmptyBag
<1>1. Terms({}, d, L) = {}
  BY DEF Terms
<1> QED
  BY <1>1 DEF Weights, EmptyBag

(* A fold over a finite set of ranks.                                      *)
BagSums(g, f, S) ==
  g = [s \in SUBSET S |-> IF s = {} THEN EmptyBag
                          ELSE f[SomeOf(s)] (+) g[s \ {SomeOf(s)}]]
BagOver(f, S) == (CHOOSE g : BagSums(g, f, S))[S]

(* The fold of the model is the sum over a set.                            *)
LEMMA FoldIsBag ==
  ASSUME NEW f, NEW S
  PROVE  FoldFunctionOnSet(LAMBDA p, q : p (+) q, EmptyBag, f, S) = BagOver(f, S)
BY Zenon DEF FoldFunctionOnSet, MapThenFoldSet, BagOver, BagSums, SomeOf

Union(P, S) == UNION {P[s] : s \in S}

(* What the ranks of S give adds up to all of it.                          *)
LEMMA WeightsFold ==
  ASSUME NEW S, IsFiniteSet(S), NEW f, NEW P, NEW d, NEW L,
         \A s \in S : P[s] \in SUBSET Place /\ f[s] = Weights(P[s], d, L),
         \A s, t \in S : s # t => P[s] \cap P[t] = {}
  PROVE  BagOver(f, S) = Weights(Union(P, S), d, L)
<1> DEFINE W(T) == Weights(Union(P, T), d, L)
           h == [T \in SUBSET S |-> W(T)]
<1>1. ASSUME NEW T \in SUBSET S, T # {}
      PROVE  W(T) = f[SomeOf(T)] (+) W(T \ {SomeOf(T)})
  <2>1. PICK x \in T : x = SomeOf(T)
    BY <1>1, SomeOfIs
  <2>2. Union(P, T) = P[x] \cup Union(P, T \ {x})
    BY DEF Union
  <2>3. P[x] \cap Union(P, T \ {x}) = {}
    BY DEF Union
  <2>4. P[x] \in SUBSET Place /\ Union(P, T \ {x}) \in SUBSET Place
    BY DEF Union
  <2>5. Weights(P[x], d, L) (+) Weights(Union(P, T \ {x}), d, L) = W(T)
    <3>1. PICK A, B : A = P[x] /\ B = Union(P, T \ {x})
      OBVIOUS
    <3>2. Weights(A, d, L) (+) Weights(B, d, L) = Weights(A \cup B, d, L)
      <4>1. A \in SUBSET Place /\ B \in SUBSET Place /\ A \cap B = {}
        BY <2>3, <2>4, <3>1
      <4> QED
        BY <4>1, TermsUnion
    <3> QED
      BY <2>2, <3>1, <3>2
  <2> QED
    BY <2>1, <2>5
<1>2. W({}) = EmptyBag
  <2>1. Union(P, {}) = {}
    BY DEF Union
  <2> QED
    BY <2>1, WeightsNone
<1> HIDE DEF W
<1>3. \A T \in SUBSET S : T # {} => T \ {SomeOf(T)} \in SUBSET S
  OBVIOUS
<1>4. BagSums(h, f, S)
  <2>1. \A T \in SUBSET S : h[T] = IF T = {} THEN EmptyBag ELSE f[SomeOf(T)] (+) h[T \ {SomeOf(T)}]
    BY <1>1, <1>2, <1>3
  <2>2. h = [T \in SUBSET S |-> h[T]]
    OBVIOUS
  <2> HIDE DEF h
  <2>3. h = [T \in SUBSET S |-> IF T = {} THEN EmptyBag ELSE f[SomeOf(T)] (+) h[T \ {SomeOf(T)}]]
    BY <2>1, <2>2, Zenon
  <2> QED
    BY <2>3 DEF BagSums
<1> DEFINE G == CHOOSE g : BagSums(g, f, S)
<1>5. BagSums(G, f, S) /\ BagOver(f, S) = G[S]
  BY <1>4, Zenon DEF BagOver
<1> HIDE DEF G
<1> DEFINE U == {T \in SUBSET S : G[T] = W(T)}
<1>6. ASSUME NEW T \in SUBSET S, \A x \in T : T \ {x} \in U
      PROVE  T \in U
  <2>1. G[T] = IF T = {} THEN EmptyBag ELSE f[SomeOf(T)] (+) G[T \ {SomeOf(T)}]
    BY <1>5, Zenon DEF BagSums
  <2>2. T # {} => G[T \ {SomeOf(T)}] = W(T \ {SomeOf(T)})
    BY <1>6, SomeOfIs
  <2> QED
    BY <1>1, <1>2, <2>1, <2>2
<1>7. \A T \in SUBSET S : T \in U
  <2> HIDE DEF U
  <2> QED
    BY <1>6, SetInduction
<1>8. G[S] = W(S)
  BY <1>7
<1> QED
  BY <1>5, <1>8 DEF W

(* The sum of a constant.                                                  *)
LEMMA SumConstant ==
  ASSUME NEW S, IsFiniteSet(S), NEW f, NEW c \in Int, \A s \in S : f[s] = c
  PROVE  SumOver(f, S) = Cardinality(S) * c
<1> DEFINE U == {T \in SUBSET S : SumOver(f, T) = Cardinality(T) * c}
<1>1. ASSUME NEW T \in SUBSET S, \A x \in T : T \ {x} \in U
      PROVE  T \in U
  <2>1. IsFiniteSet(T)
    BY FS_Subset
  <2>2. SumOver(f, T) = IF T = {} THEN 0 ELSE f[SomeOf(T)] + SumOver(f, T \ {SomeOf(T)})
    BY <2>1, SumIs
  <2>3. CASE T = {}
    <3>1. Cardinality(T) = 0 /\ 0 * c = 0
      BY <2>3, FS_EmptySet
    <3> QED
      BY <2>2, <2>3, <3>1
  <2>4. CASE T # {}
    <3>1. PICK x \in T : x = SomeOf(T)
      BY <2>4, SomeOfIs
    <3>2. SumOver(f, T \ {x}) = Cardinality(T \ {x}) * c
      BY <1>1
    <3>3. Cardinality(T \ {x}) = Cardinality(T) - 1 /\ Cardinality(T) \in Nat
      BY <2>1, FS_RemoveElement, FS_CardinalityType
    <3>4. \A n \in Nat : c + (n - 1) * c = n * c
      OBVIOUS
    <3>5. SumOver(f, T) = c + (Cardinality(T) - 1) * c
      BY <2>2, <2>4, <3>1, <3>2, <3>3
    <3> QED
      BY <3>3, <3>4, <3>5
  <2> QED
    BY <2>3, <2>4
<1>2. \A T \in SUBSET S : T \in U
  <2> HIDE DEF U
  <2> QED
    BY <1>1, SetInduction
<1> QED
  BY <1>2

(* The ranks of a clone and the first workers, counted.                    *)
Mains == Members("clone", 0)

(* The workers of a clone besides its first one.                           *)
LEMMA CrewSize ==
  ASSUME input \in Inputs, NEW m \in Rank, isCloneMain(m)
  PROVE  /\ IsFiniteSet(Others("worker", m)) /\ Cardinality(Others("worker", m)) = nworker - 1
         /\ m \in Members("worker", m) /\ m \in Mains
         /\ nworker \in Nat \ {0} /\ nclone \in Nat \ {0}
<1> DEFINE n == nworker
           c == m \div n
<1>1. n \in Nat \ {0} /\ nclone \in Nat \ {0}
  BY RankAssumption DEF nworker, nclone
<1>2. /\ m \in Nat /\ m < n * nclone /\ c \in Nat /\ m % n = 0
      /\ m = n * c + (m % n)
  BY <1>1 DEF Rank, isCloneMain, workerID
<1>3. m = n * c
  BY <1>1, <1>2
<1>4. ASSUME NEW k \in Nat, NEW q \in Nat, NEW e \in Nat, k > 0, e < k
      PROVE  (k * q + e) \div k = q
  BY <1>4
<1>5. ASSUME NEW s \in m .. m + n - 1
      PROVE  s \in Rank /\ s \div n = c
  <2> HIDE DEF n, c
  <2>1. s - m \in Nat /\ s - m < n /\ n > 0 /\ n \in Nat /\ c \in Nat /\ s = n * c + (s - m)
    BY <1>1, <1>2, <1>3
  <2>2. (n * c + (s - m)) \div n = c
    BY <1>4, <2>1
  <2>3. s < n * nclone
    <3>1. c < nclone
      <4>1. \A a, b, k \in Nat : k * a < k * b => a < b
        <5> SUFFICES ASSUME NEW a \in Nat, NEW b \in Nat, NEW k \in Nat, a >= b
                     PROVE  k * a >= k * b
          OBVIOUS
        <5>1. a - b \in Nat /\ k * (a - b) >= 0
          OBVIOUS
        <5>2. k * (a - b) = k * a - k * b
          OBVIOUS
        <5> QED
          BY <5>1, <5>2
      <4> QED
        BY <1>1, <1>2, <1>3, <4>1
    <3>2. n * (c + 1) <= n * nclone
      <4>1. nclone - (c + 1) \in Nat
        BY <1>1, <1>2, <3>1
      <4>2. n * (nclone - (c + 1)) >= 0
        BY <1>1, <4>1
      <4>3. n * (nclone - (c + 1)) = n * nclone - n * (c + 1)
        BY <1>1, <1>2
      <4>4. n * nclone \in Int /\ n * (c + 1) \in Int
        BY <1>1, <1>2
      <4> QED
        BY <4>2, <4>3, <4>4
    <3>3. n * (c + 1) = n * c + n
      BY <1>1, <1>2
    <3> QED
      BY <1>1, <1>2, <2>1, <3>2, <3>3
  <2> QED
    BY <1>1, <1>2, <2>1, <2>2, <2>3 DEF Rank, n
<1>6. ASSUME NEW s \in Rank, s \div n = c
      PROVE  s \in m .. m + n - 1
  <2>1. s \in Nat /\ s = n * (s \div n) + (s % n) /\ s % n \in 0 .. n - 1
    BY <1>1 DEF Rank
  <2> HIDE DEF n, c
  <2> QED
    BY <1>1, <1>2, <1>3, <1>6, <2>1
<1>7. Members("worker", m) = m .. m + n - 1
  <2>1. Members("worker", m) = {s \in Rank : s \div n = c}
    BY DEF Members, cloneID
  <2> HIDE DEF n, c
  <2> QED
    BY <1>5, <1>6, <2>1
<1>8. m \in Members("worker", m)
  BY DEF Members
<1>9. IsFiniteSet(m .. m + n - 1) /\ Cardinality(m .. m + n - 1) = n
  <2>1. m \in Int /\ m + n - 1 \in Int /\ m + n - 1 - m + 1 = n /\ ~(m > m + n - 1)
    BY <1>1, <1>2
  <2>2. PICK b \in Int : b = m + n - 1
    BY <2>1
  <2>3. IsFiniteSet(m .. b) /\ Cardinality(m .. b) = b - m + 1
    BY <2>1, <2>2, FS_Interval
  <2>4. b - m + 1 = n
    BY <1>1, <1>2, <2>2
  <2> QED
    BY <2>2, <2>3, <2>4, Zenon
<1>10. m \in Mains
  BY DEF Mains, Members
<1>11. /\ IsFiniteSet(Others("worker", m))
       /\ Cardinality(Others("worker", m)) = nworker - 1
  <2>1. PICK S : S = Members("worker", m)
    OBVIOUS
  <2>2. IsFiniteSet(S) /\ Cardinality(S) = nworker /\ m \in S
    BY <1>7, <1>8, <1>9, <2>1
  <2>3. IsFiniteSet(S \ {m}) /\ Cardinality(S \ {m}) = Cardinality(S) - 1
    BY <2>2, FS_RemoveElement
  <2> QED
    BY <2>1, <2>2, <2>3 DEF Others
<1> QED
  BY <1>1, <1>8, <1>10, <1>11

(* The first workers, and those of them besides rank 0.                    *)
LEMMA MainsSize ==
  ASSUME input \in Inputs
  PROVE  /\ IsFiniteSet(Mains) /\ Cardinality(Mains) = nclone
         /\ IsFiniteSet(Others("clone", 0)) /\ Cardinality(Others("clone", 0)) = nclone - 1
         /\ 0 \in Mains /\ Others("clone", 0) = Mains \ {0}
<1> DEFINE n == nworker
           I == 0 .. nclone - 1
           f == [c \in I |-> n * c]
<1>1. n \in Nat \ {0} /\ nclone \in Nat \ {0}
  BY RankAssumption DEF nworker, nclone
<1>2. Mains = {s \in Rank : s % n = 0}
  BY DEF Mains, Members, isCloneMain, workerID
<1>3. ASSUME NEW k \in Nat, NEW q \in Nat, k > 0
      PROVE  (k * q) % k = 0 /\ (k * q) \div k = q
  BY <1>3
<1>4. ASSUME NEW c \in I
      PROVE  f[c] \in Mains /\ f[c] \div n = c
  <2>1. c \in Nat /\ n > 0 /\ f[c] = n * c
    BY <1>1
  <2> HIDE DEF n, f
  <2>2. (n * c) % n = 0 /\ (n * c) \div n = c
    BY <1>1, <1>3, <2>1
  <2>3. n * c <= n * nclone - 1 /\ n * c \in Nat
    <3>1. nclone - c \in Nat \ {0}
      BY <1>1
    <3>2. n * (nclone - c) >= 1
      BY <1>1, <3>1
    <3>3. n * (nclone - c) = n * nclone - n * c
      BY <1>1, <2>1
    <3>4. n * nclone \in Int /\ n * c \in Nat
      BY <1>1, <2>1
    <3> QED
      BY <3>2, <3>3, <3>4
  <2>4. n * c \in Rank
    BY <1>1, <2>3 DEF Rank, n
  <2> QED
    BY <1>2, <2>1, <2>2, <2>4
<1>5. ASSUME NEW s \in Mains
      PROVE  \E c \in I : f[c] = s
  <2>1. s \in Nat /\ s < n * nclone /\ s % n = 0 /\ s \div n \in Nat
    BY <1>1, <1>2 DEF Rank
  <2>2. s = n * (s \div n)
    <3>1. s = n * (s \div n) + (s % n)
      BY <1>1, <2>1
    <3>2. n * (s \div n) \in Int
      BY <1>1, <2>1
    <3> QED
      BY <2>1, <3>1, <3>2
  <2>3. s \div n < nclone
    <3>1. \A a, b, k \in Nat : k * a < k * b => a < b
      <4> SUFFICES ASSUME NEW a \in Nat, NEW b \in Nat, NEW k \in Nat, a >= b
                   PROVE  k * a >= k * b
        OBVIOUS
      <4>1. a - b \in Nat /\ k * (a - b) >= 0
        OBVIOUS
      <4>2. k * (a - b) = k * a - k * b
        OBVIOUS
      <4> QED
        BY <4>1, <4>2
    <3> HIDE DEF n, f
    <3> QED
      BY <1>1, <2>1, <2>2, <3>1
  <2>4. s \div n \in I
    BY <1>1, <2>1, <2>3
  <2> QED
    BY <2>2, <2>4
<1>6. f \in Bijection(I, Mains)
  <2>1. f \in [I -> Mains]
    BY <1>4
  <2>2. \A a, b \in I : f[a] = f[b] => a = b
    <3> HIDE DEF f
    <3> QED
      BY <1>4
  <2> HIDE DEF f
  <2> QED
    BY <1>5, <2>1, <2>2 DEF Bijection, Injection, Surjection, IsInjective
<1>7. IsFiniteSet(I) /\ Cardinality(I) = nclone
  <2>1. 0 \in Int /\ nclone - 1 \in Int /\ ~(0 > nclone - 1) /\ nclone - 1 - 0 + 1 = nclone
    BY <1>1
  <2> QED
    BY <2>1, FS_Interval
<1>8. IsFiniteSet(Mains) /\ Cardinality(Mains) = nclone
  <2>1. ExistsBijection(I, Mains)
    BY <1>6 DEF ExistsBijection
  <2> QED
    BY <1>7, <2>1, FS_Bijection
<1>9. 0 \in Mains /\ Others("clone", 0) = Mains \ {0}
  BY FirstRank DEF Mains, Others, Members
<1> QED
  BY <1>8, <1>9, FS_RemoveElement

(* What the workers of a clone give is a measurement of all of them,       *)
Zero == [p \in Place |-> 0]

(* A measurement is one term.                                              *)
LEMMA MeasuredIs ==
  ASSUME NEW r \in Nat, NEW k \in Nat
  PROVE  Measured(r, k) = Weights({<<r, k>>}, 1, Zero)
<1>1. Terms({<<r, k>>}, 1, Zero) = {<<r, k, 1, 0>>}
  BY DEF Terms, Zero, Place
<1> QED
  BY <1>1 DEF Measured, Weights

(* What the workers give of a turn adds up to the turn of the clone.       *)
LEMMA CrewGives ==
  ASSUME input \in Inputs, NEW m \in Rank, isCloneMain(m), NEW k \in Nat,
         \A s \in Others("worker", m) :
           Contribution("worker", s) = [sum |-> Measured(s, k), nslice |-> 1]
  PROVE  /\ 1 + SumOfCounts("worker", m, "nslice") = nworker
         /\ Measured(m, k) (+) SumOfBags("worker", m, "sum")
              = Weights(Members("worker", m) \X {k}, 1, Zero)
<1> DEFINE O == Others("worker", m)
           M == Members("worker", m)
<1>1. /\ IsFiniteSet(O) /\ Cardinality(O) = nworker - 1 /\ m \in M /\ nworker \in Nat
      /\ O = M \ {m} /\ M \in SUBSET Rank /\ Rank \in SUBSET Nat
  BY CrewSize DEF Others, Members, Rank
<1>2. 1 + SumOfCounts("worker", m, "nslice") = nworker
  <2> DEFINE f == [s \in Rank |-> IF s \in O THEN Contribution("worker", s)["nslice"] ELSE 0]
  <2>1. SumOfCounts("worker", m, "nslice") = SumOver(f, O)
    BY FoldIsSum DEF SumOfCounts
  <2>2. \A s \in O : f[s] = 1
    BY <1>1
  <2> HIDE DEF f, O
  <2>3. SumOver(f, O) = Cardinality(O) * 1
    BY <1>1, <2>2, SumConstant
  <2> QED
    BY <1>1, <2>1, <2>3
<1>3. SumOfBags("worker", m, "sum") = Weights(O \X {k}, 1, Zero)
  <2> DEFINE f == [s \in Rank |-> IF s \in O THEN Contribution("worker", s)["sum"] ELSE EmptyBag]
             P == [s \in O |-> {<<s, k>>}]
  <2>1. SumOfBags("worker", m, "sum") = BagOver(f, O)
    BY FoldIsBag DEF SumOfBags
  <2>2. \A s \in O : P[s] \in SUBSET Place /\ f[s] = Weights(P[s], 1, Zero)
    <3> SUFFICES ASSUME NEW s \in O
                 PROVE  P[s] \in SUBSET Place /\ f[s] = Weights(P[s], 1, Zero)
      OBVIOUS
    <3>1. s \in Nat /\ s \in Rank /\ <<s, k>> \in Place
      BY <1>1 DEF Place
    <3>2. Contribution("worker", s)["sum"] = Measured(s, k)
      OBVIOUS
    <3>3. Measured(s, k) = Weights({<<s, k>>}, 1, Zero)
      BY <3>1, MeasuredIs
    <3> QED
      BY <3>1, <3>2, <3>3
  <2>3. \A s, t \in O : s # t => P[s] \cap P[t] = {}
    OBVIOUS
  <2>4. Union(P, O) = O \X {k}
    BY DEF Union
  <2> HIDE DEF f, O, P
  <2>5. BagOver(f, O) = Weights(Union(P, O), 1, Zero)
    BY <1>1, <2>2, <2>3, WeightsFold
  <2> QED
    BY <2>1, <2>4, <2>5
<1>4. Measured(m, k) (+) Weights(O \X {k}, 1, Zero) = Weights(M \X {k}, 1, Zero)
  <2>1. Measured(m, k) = Weights({<<m, k>>}, 1, Zero)
    BY <1>1, MeasuredIs
  <2>2. PICK A, B : A = {<<m, k>>} /\ B = O \X {k}
    OBVIOUS
  <2>3. A \in SUBSET Place /\ B \in SUBSET Place /\ A \cap B = {} /\ A \cup B = M \X {k}
    <3> HIDE DEF O, M
    <3>1. O \in SUBSET Nat /\ m \in Nat /\ m \notin O /\ M = O \cup {m}
      BY <1>1
    <3>2. B \in SUBSET Place /\ A \in SUBSET Place
      <4>1. B \in SUBSET (Nat \X Nat)
        BY <2>2, <3>1
      <4>2. <<m, k>> \in Nat \X Nat
        BY <3>1
      <4> QED
        BY <2>2, <4>1, <4>2 DEF Place
    <3>3. A \cap B = {}
      BY <2>2, <3>1
    <3>4. A \cup B = M \X {k}
      BY <2>2, <3>1
    <3> QED
      BY <3>2, <3>3, <3>4
  <2>4. Weights(A, 1, Zero) (+) Weights(B, 1, Zero) = Weights(A \cup B, 1, Zero)
    BY <2>3, TermsUnion
  <2> QED
    BY <2>1, <2>2, <2>3, <2>4
<1> QED
  BY <1>2, <1>3, <1>4

(* and what the clones give is one of all ranks.                           *)
LEMMA ClonesCover ==
  ASSUME input \in Inputs
  PROVE  /\ \A s \in Mains : s \in Rank /\ isCloneMain(s)
         /\ \A s, t \in Mains : s # t => Members("worker", s) \cap Members("worker", t) = {}
         /\ \A r \in Rank : \E s \in Mains : r \in Members("worker", s)
         /\ \A s : Members("worker", s) \in SUBSET Rank
<1>1. \A s : s \in Mains <=> s \in Rank /\ isCloneMain(s)
  BY DEF Mains, Members
<1>2. \A s : Members("worker", s) \in SUBSET Rank
  BY DEF Members
<1>3. ASSUME NEW s \in Mains, NEW t \in Mains, NEW r \in Members("worker", s),
             r \in Members("worker", t)
      PROVE  s = t
  BY <1>1, <1>2, <1>3, FirstWorker
<1>4. ASSUME NEW r \in Rank
      PROVE  \E s \in Mains : r \in Members("worker", s)
  BY <1>1, FirstWorker
<1> QED
  BY <1>1, <1>2, <1>3, <1>4

(* What the clones give adds up to the turns of all ranks.                 *)
LEMMA ClonesGive ==
  ASSUME input \in Inputs, NEW f, NEW K \in SUBSET Nat, NEW d, NEW L,
         \A s \in Others("clone", 0) :
           Contribution("clone", s)[f] = Weights(Members("worker", s) \X K, d, L)
  PROVE  Weights(Members("worker", 0) \X K, d, L) (+) SumOfBags("clone", 0, f)
           = Weights(Rank \X K, d, L)
<1> DEFINE O == Others("clone", 0)
           g == [s \in Rank |-> IF s \in O THEN Contribution("clone", s)[f] ELSE EmptyBag]
           P == [s \in Mains |-> Members("worker", s) \X K]
<1>1. /\ IsFiniteSet(O) /\ O = Mains \ {0} /\ 0 \in Mains /\ Rank \in SUBSET Nat
  BY MainsSize DEF Rank
<1>2. SumOfBags("clone", 0, f) = BagOver(g, O)
  BY FoldIsBag DEF SumOfBags
<1>3. \A s \in O : g[s] = Weights(P[s], d, L)
  BY <1>1, ClonesCover
<1>4. \A s \in Mains : P[s] \in SUBSET Place
  BY <1>1, ClonesCover DEF Place
<1>5. \A s, t \in Mains : s # t => P[s] \cap P[t] = {}
  BY ClonesCover
<1>6. P[0] \cup Union(P, O) = Rank \X K
  <2>1. P[0] \cup Union(P, O) = Union(P, Mains)
    <3> HIDE DEF P, O
    <3> QED
      BY <1>1 DEF Union
  <2>2. Union(P, Mains) = Rank \X K
    BY ClonesCover DEF Union
  <2> QED
    BY <2>1, <2>2
<1>7. P[0] = Members("worker", 0) \X K
  BY <1>1
<1>8. P[0] \cap Union(P, O) = {} /\ P[0] \in SUBSET Place /\ Union(P, O) \in SUBSET Place
  <2> HIDE DEF P, O
  <2> QED
    BY <1>1, <1>4, <1>5 DEF Union
<1> HIDE DEF P, O, g
<1>9. BagOver(g, O) = Weights(Union(P, O), d, L)
  <2>1. \A s \in O : P[s] \in SUBSET Place /\ g[s] = Weights(P[s], d, L)
    BY <1>1, <1>3, <1>4
  <2>2. \A s, t \in O : s # t => P[s] \cap P[t] = {}
    BY <1>1, <1>5
  <2> QED
    BY <1>1, <2>1, <2>2, WeightsFold
<1>10. PICK A, B : A = P[0] /\ B = Union(P, O)
  OBVIOUS
<1>11. Weights(A, d, L) (+) Weights(B, d, L) = Weights(A \cup B, d, L)
  <2>1. A \in SUBSET Place /\ B \in SUBSET Place /\ A \cap B = {}
    BY <1>8, <1>10
  <2> QED
    BY <2>1, TermsUnion
<1> QED
  BY <1>2, <1>6, <1>7, <1>9, <1>10, <1>11

(* Equal counts of all clones add up to their number of times as much.     *)
LEMMA ClonesCount ==
  ASSUME input \in Inputs, NEW f, NEW c \in Int,
         \A s \in Others("clone", 0) : Contribution("clone", s)[f] = c
  PROVE  c + SumOfCounts("clone", 0, f) = c * nclone
<1> DEFINE O == Others("clone", 0)
           g == [s \in Rank |-> IF s \in O THEN Contribution("clone", s)[f] ELSE 0]
<1>1. /\ IsFiniteSet(O) /\ Cardinality(O) = nclone - 1 /\ O \in SUBSET Rank
      /\ nclone \in Int
  BY MainsSize, RankAssumption DEF Others, Members, nclone
<1>2. SumOfCounts("clone", 0, f) = SumOver(g, O)
  BY FoldIsSum DEF SumOfCounts
<1>3. \A s \in O : g[s] = c
  BY <1>1
<1> HIDE DEF g, O
<1>4. SumOver(g, O) = Cardinality(O) * c
  BY <1>1, <1>3, SumConstant
<1>5. c + (nclone - 1) * c = c * nclone
  BY <1>1
<1> QED
  BY <1>1, <1>2, <1>4, <1>5

-----------------------------------------------------------------------------
(* The counters of the two Loops, and what a step does to them.            *)

(* Where a rank has made all the measurements of its block.                *)
Closing == {"average", "write"} \cup Ended

KindOf(e) == input.estimators[e]

(* The measurements of r that estimator e has seen, and the blocks of it   *)
(* that r has averaged.                                                    *)
Evaluated(r, e) ==
  measured[r] + (IF at[r] = "endTurn" \/ (at[r] = "measure" /\ e < est[r]) THEN 1 ELSE 0)
Blocks(r, e) ==
  IF at[r] \in Ended \cup {"write"} \/ (at[r] = "average" /\ e < est[r])
  THEN block[r] ELSE block[r] - 1

Loops == DOMAIN turn = Rank /\ DOMAIN found = Rank

(* The counters of the two Loops.                                          *)
Clock(r) ==
  /\ turn[r] \in 1 .. nmeasure /\ block[r] \in Nat \ {0}
  /\ at[r] \in Closing => turn[r] = 1
  /\ measured[r] = (IF at[r] \in Closing THEN block[r] ELSE block[r] - 1) * nmeasure
                     + turn[r] - 1
  /\ Len(found[r]) = measured[r]
  /\ \E T : found[r] \in Seq(T)

(* What a step of rank x does to its counters.                             *)
Same(x) == /\ measured'[x] = measured[x] /\ block'[x] = block[x]
           /\ turn'[x] = turn[x] /\ found'[x] = found[x]
Onward(x, after) ==
  \/ est[x] < NEst /\ est'[x] = est[x] + 1 /\ at'[x] = at[x]
  \/ est[x] = NEst /\ est'[x] = 1 /\ at'[x] = after
Tries(x) == /\ Same(x) /\ est[x] = 1 /\ est'[x] = 1
            /\ at[x] \in Sampling \ {"measure"} /\ at'[x] \in Sampling
            /\ modelState'[x] # modelState[x] => at[x] = "decide" \/ ~isCloneMain(x)
Evaluates(x) == /\ Same(x) /\ at[x] = "measure" /\ Onward(x, "endTurn")
                /\ modelState'[x] = modelState[x]
Averages(x) == /\ Same(x) /\ at[x] = "average" /\ Onward(x, "write")
               /\ modelState'[x] = modelState[x]
Closes(x) == /\ Same(x) /\ at[x] \in {"write", "workerBarrier", "cloneBarrier"}
             /\ at'[x] \in Ended /\ est'[x] = est[x] /\ modelState'[x] = modelState[x]
Waits(x) == Same(x) /\ Stays(x)

Goes(x) == \/ Tries(x) \/ Evaluates(x) \/ Averages(x) \/ Closes(x) \/ Waits(x)
           \/ EndTurn(x) \/ \E more \in BOOLEAN : EndBlock(x, more)

Elsewhere(x) ==
  /\ Alone(x) /\ Loops'
  /\ \A s \in Rank \ {x} : turn'[s] = turn[s] /\ found'[s] = found[s]

(* From f to g only the value at x may change.                             *)
Local(f, g, x) == g = f \/ \E v : g = [f EXCEPT ![x] = v]

(* Local says that much of every other rank.                               *)
LEMMA LocalIs ==
  ASSUME NEW f, NEW g, NEW x, Local(f, g, x)
  PROVE  DOMAIN g = DOMAIN f /\ \A s \in DOMAIN f \ {x} : g[s] = f[s]
BY DEF Local

(* Changes at one rank leave the other ranks where they are.               *)
LEMMA ElsewhereIs ==
  ASSUME Typed, BlockInv, Loops, NEW x \in Rank, UNCHANGED input,
         Local(at, at', x), Local(est, est', x), Local(measured, measured', x),
         Local(block, block', x), Local(modelState, modelState', x),
         Local(imodel, imodel', x), Local(jmodel, jmodel', x),
         Local(turn, turn', x), Local(found, found', x)
  PROVE  Elsewhere(x)
<1>1. /\ DOMAIN at = Rank /\ DOMAIN est = Rank /\ DOMAIN measured = Rank
      /\ DOMAIN block = Rank /\ DOMAIN modelState = Rank /\ DOMAIN imodel = Rank
      /\ DOMAIN jmodel = Rank /\ DOMAIN turn = Rank /\ DOMAIN found = Rank
  BY DEF Typed, BlockInv, CloneType, Loops
<1>2. Rank' = Rank
  BY SameInput
<1>3. ASSUME NEW s \in Rank \ {x}
      PROVE  /\ at'[s] = at[s] /\ est'[s] = est[s] /\ measured'[s] = measured[s]
             /\ block'[s] = block[s] /\ modelState'[s] = modelState[s]
             /\ imodel'[s] = imodel[s] /\ jmodel'[s] = jmodel[s]
             /\ turn'[s] = turn[s] /\ found'[s] = found[s]
  BY <1>1, LocalIs
<1>4. Loops'
  BY <1>1, <1>2, LocalIs DEF Loops
<1> QED
  BY <1>3, <1>4 DEF Elsewhere, Alone, Stays

(* No other rank moves in a step of x.                                     *)
LEMMA OnlyOneMoves ==
  ASSUME Typed, BlockInv, Loops, NEW x \in Rank, Step(x)
  PROVE  Elsewhere(x)
<1> USE DEF Local, Goto
<1>1. CASE EndTurn(x)
  <2>1. /\ UNCHANGED <<input, est, block, modelVars>>
        /\ Local(at, at', x) /\ Local(measured, measured', x)
        /\ Local(turn, turn', x) /\ Local(found, found', x)
    BY <1>1 DEF EndTurn
  <2> QED
    BY <2>1, ElsewhereIs DEF modelVars
<1>2. ASSUME NEW more \in BOOLEAN, EndBlock(x, more)
      PROVE  Elsewhere(x)
  <2>1. /\ UNCHANGED <<input, est, measured, modelVars, turn, found>>
        /\ Local(at, at', x) /\ Local(block, block', x)
    BY <1>2 DEF EndBlock, statVars
  <2> QED
    BY <2>1, ElsewhereIs DEF modelVars
<1>3. CASE TryMove(x) /\ UNCHANGED <<block, turn, found>>
  <2>1. /\ UNCHANGED <<input, est, measured>> /\ Local(at, at', x)
        /\ Local(modelState, modelState', x)
        /\ Local(imodel, imodel', x) /\ Local(jmodel, jmodel', x)
    BY <1>3 DEF TryMove, Propose, RecvState, RecvProposal, Decide, RecvDecision, RecvNewState,
                SetModelState, statVars
  <2> QED
    BY <1>3, <2>1, ElsewhereIs
<1>4. CASE /\ UNCHANGED <<modelVars, loopVars>>
           /\ EvaluateOther(x) \/ EvaluateRoot(x) \/ EvaluateAccRej(x)
  <2>1. /\ UNCHANGED <<input, measured>> /\ Local(at, at', x) /\ Local(est, est', x)
    BY <1>4 DEF EvaluateOther, EvaluateRoot, EvaluateAccRej, NextEstimator
  <2> QED
    BY <1>4, <2>1, ElsewhereIs DEF modelVars, loopVars
<1>5. CASE /\ UNCHANGED <<modelVars, loopVars>>
           /\ AverageScalar(x) \/ AverageArray(x) \/ AverageAccRej(x)
  <2>1. /\ UNCHANGED <<input, measured>> /\ Local(at, at', x) /\ Local(est, est', x)
    BY <1>5 DEF AverageScalar, AverageArray, AverageAccRej, NextEstimator
  <2> QED
    BY <1>5, <2>1, ElsewhereIs DEF modelVars, loopVars
<1>6. CASE /\ UNCHANGED <<modelVars, loopVars>>
           /\ WriteStep(x) \/ LeaveWorkerBarrier(x) \/ LeaveCloneBarrier(x)
  <2>1. /\ UNCHANGED <<input, measured, est>> /\ Local(at, at', x)
    BY <1>6 DEF WriteStep, LeaveWorkerBarrier, LeaveCloneBarrier, statVars
  <2> QED
    BY <1>6, <2>1, ElsewhereIs DEF modelVars, loopVars
<1> QED
  BY <1>1, <1>2, <1>3, <1>4, <1>5, <1>6 DEF Step

(* Its own course.                                                         *)
LEMMA StepGoes ==
  ASSUME CallInv, Loops, NEW x \in Rank, Step(x)
  PROVE  Goes(x)
<1>0. /\ Course(x) /\ Typed /\ BlockInv /\ x \in DOMAIN at /\ x \in DOMAIN est
      /\ x \in DOMAIN modelState /\ NEst \in Nat /\ est[x] \in 1 .. NEst
  BY EstimatorCount DEF CallInv, Typed, BlockInv, CloneType, Course
<1>1. CASE EndTurn(x)
  BY <1>1 DEF Goes
<1>2. CASE \E more \in BOOLEAN : EndBlock(x, more)
  BY <1>2 DEF Goes
<1>3. CASE TryMove(x) /\ UNCHANGED <<block, turn, found>>
  <2>1. Same(x) /\ est' = est
    BY <1>3 DEF Same, TryMove, Propose, RecvState, RecvProposal, Decide, RecvDecision,
                RecvNewState, statVars
  <2>2. /\ at[x] \in Sampling \ {"measure"} /\ at'[x] \in Sampling
        /\ modelState'[x] # modelState[x] => at[x] = "decide" \/ at[x] # "sample" \/ ~isCloneMain(x)
    BY <1>0, <1>3 DEF TryMove, Propose, RecvState, RecvProposal, Decide, RecvDecision,
                RecvNewState, Goto, Sampling
  <2>3. est[x] = 1 /\ (modelState'[x] # modelState[x] => at[x] = "decide" \/ ~isCloneMain(x))
    BY <1>0, <2>2 DEF Course, Sampling
  <2> QED
    BY <2>1, <2>2, <2>3 DEF Goes, Tries
<1>4. CASE /\ UNCHANGED <<modelVars, loopVars>>
           /\ EvaluateOther(x) \/ EvaluateRoot(x) \/ EvaluateAccRej(x)
  <2>1. UNCHANGED measured /\ at[x] = "measure" /\ NextEstimator(x, "endTurn")
    BY <1>4 DEF EvaluateOther, EvaluateRoot, EvaluateAccRej
  <2>2. Onward(x, "endTurn")
    BY <1>0, <2>1 DEF Onward, NextEstimator, Goto, NEst
  <2> QED
    BY <1>4, <2>1, <2>2 DEF Goes, Evaluates, Same, modelVars, loopVars
<1>5. CASE /\ UNCHANGED <<modelVars, loopVars>>
           /\ AverageScalar(x) \/ AverageArray(x) \/ AverageAccRej(x)
  <2>1. \/ UNCHANGED <<at, measured, est>>
        \/ UNCHANGED measured /\ at[x] = "average" /\ NextEstimator(x, "write")
    BY <1>5 DEF AverageScalar, AverageArray, AverageAccRej
  <2>2. NextEstimator(x, "write") => Onward(x, "write")
    BY <1>0 DEF Onward, NextEstimator, Goto, NEst
  <2> QED
    BY <1>5, <2>1, <2>2 DEF Goes, Averages, Waits, Stays, Same, modelVars, loopVars
<1>6. CASE /\ UNCHANGED <<modelVars, loopVars>>
           /\ WriteStep(x) \/ LeaveWorkerBarrier(x) \/ LeaveCloneBarrier(x)
  <2>1. /\ UNCHANGED <<measured, est>> /\ at[x] \in {"write", "workerBarrier", "cloneBarrier"}
        /\ \E where \in {"workerBarrier", "cloneBarrier", "endBlock"} : Goto(x, where)
    BY <1>6 DEF WriteStep, LeaveWorkerBarrier, LeaveCloneBarrier, statVars
  <2>2. at'[x] \in Ended
    BY <1>0, <2>1 DEF Goto, Ended, Counting, Passed
  <2> QED
    BY <1>6, <2>1, <2>2 DEF Goes, Closes, Same, modelVars, loopVars
<1> QED
  BY <1>1, <1>2, <1>3, <1>4, <1>5, <1>6 DEF Step

(* The number of measurements of b blocks.                                 *)
LEMMA Blocked ==
  ASSUME input \in Inputs
  PROVE  /\ nmeasure \in Nat \ {0} /\ nworker \in Nat \ {0} /\ nclone \in Nat \ {0}
         /\ \A b \in Nat : /\ b * nmeasure \in Nat
                           /\ (b + 1) * nmeasure = b * nmeasure + nmeasure
                           /\ b # 0 => (b - 1) * nmeasure \in Nat
                                       /\ (b - 1) * nmeasure + nmeasure = b * nmeasure
         /\ \A b, c \in Nat : b <= c => b * nmeasure <= c * nmeasure
<1>1. nmeasure \in Nat \ {0} /\ nworker \in Nat \ {0} /\ nclone \in Nat \ {0}
  BY RankAssumption, RepeatAssumption DEF nmeasure, nworker, nclone
<1>2. PICK n \in Nat \ {0} : n = nmeasure
  BY <1>1
<1>3. ASSUME NEW b \in Nat
      PROVE  /\ b * n \in Nat
             /\ (b + 1) * n = b * n + n
             /\ b # 0 => (b - 1) * n \in Nat /\ (b - 1) * n + n = b * n
  OBVIOUS
<1>4. ASSUME NEW b \in Nat, NEW c \in Nat, b <= c
      PROVE  b * n <= c * n
  <2>1. PICK d \in Nat : c = b + d
    <3>1. c - b \in Nat /\ c = b + (c - b)
      BY <1>4
    <3> QED
      BY <3>1
  <2>2. c * n = b * n + d * n /\ d * n \in Nat /\ b * n \in Nat
    BY <2>1
  <2> QED
    BY <2>2
<1> QED
  BY <1>1, <1>2, <1>3, <1>4

(* The Loops count the measurements of the blocks.                         *)
LEMMA ClockSame ==
  ASSUME UNCHANGED input, NEW r, Clock(r), turn'[r] = turn[r], found'[r] = found[r],
         measured'[r] = measured[r], block'[r] = block[r],
         at'[r] \in Closing <=> at[r] \in Closing
  PROVE  Clock(r)'
<1>1. nmeasure' = nmeasure
  BY DEF nmeasure
<1>2. (at[r] \in Closing)' <=> at[r] \in Closing
  BY DEF Closing, Ended, Counting, Passed
<1> QED
  BY <1>1, <1>2 DEF Clock

(* The counters of the rank that steps keep their relation.                *)
LEMMA ClockStep ==
  ASSUME CallInv, Loops, NEW x \in Rank, Clock(x), Step(x)
  PROVE  Clock(x)'
<1>0. /\ input \in Inputs /\ UNCHANGED input /\ nmeasure' = nmeasure
      /\ x \in DOMAIN at /\ x \in DOMAIN measured /\ x \in DOMAIN block
      /\ x \in DOMAIN turn /\ x \in DOMAIN found
      /\ measured[x] \in Nat /\ block[x] \in Nat /\ turn[x] \in Nat /\ nmeasure \in Nat
  <2>1. Typed /\ BlockInv /\ input \in Inputs
    BY DEF CallInv, BlockInv, CloneType
  <2>2. Elsewhere(x)
    BY <2>1, OnlyOneMoves
  <2>3. UNCHANGED input /\ nmeasure' = nmeasure /\ nmeasure \in Nat \ {0}
    BY <2>1, <2>2, Blocked DEF Elsewhere, Alone, nmeasure
  <2>4. /\ x \in DOMAIN at /\ x \in DOMAIN measured /\ x \in DOMAIN block
        /\ measured[x] \in Nat /\ block[x] \in Nat
    BY <2>1 DEF Typed, BlockInv, CloneType
  <2>5. turn[x] \in Nat
    BY <2>3 DEF Clock
  <2> QED
    BY <2>1, <2>3, <2>4, <2>5 DEF Loops
<1>1. CASE EndTurn(x)
  <2>1. /\ measured'[x] = measured[x] + 1 /\ block'[x] = block[x]
        /\ found'[x] = Append(found[x], modelState[x])
        /\ IF turn[x] < nmeasure THEN turn'[x] = turn[x] + 1 /\ at'[x] = FirstStep
                                 ELSE turn'[x] = 1 /\ at'[x] = "average"
    BY <1>0, <1>1 DEF EndTurn, Goto
  <2>2. at[x] \notin Closing /\ FirstStep \notin Closing /\ "average" \in Closing
    BY <1>1 DEF EndTurn, Closing, Ended, Counting, Passed, FirstStep
  <2>3. /\ \E T : found'[x] \in Seq(T)
        /\ Len(found'[x]) = Len(found[x]) + 1
    <3>1. PICK T : found[x] \in Seq(T)
      BY DEF Clock
    <3>2. found[x] \in Seq(T \cup {modelState[x]})
      BY <3>1
    <3>3. found'[x] \in Seq(T \cup {modelState[x]}) /\ Len(found'[x]) = Len(found[x]) + 1
      BY <2>1, <3>2
    <3> QED
      BY <3>3
  <2>4. /\ turn[x] \in 1 .. nmeasure /\ block[x] \in Nat \ {0}
        /\ measured[x] = (block[x] - 1) * nmeasure + turn[x] - 1
        /\ Len(found[x]) = measured[x]
    BY <2>2 DEF Clock
  <2>5. (block[x] - 1) * nmeasure \in Nat
        /\ (block[x] - 1) * nmeasure + nmeasure = block[x] * nmeasure
    BY <1>0, <2>4, Blocked
  <2>6. \A where : (where \in Closing)' <=> where \in Closing
    BY DEF Closing, Ended, Counting, Passed
  <2>7. CASE turn[x] < nmeasure
    <3>1. turn'[x] = turn[x] + 1 /\ at'[x] \notin Closing /\ turn'[x] \in 1 .. nmeasure
      BY <1>0, <2>1, <2>2, <2>7
    <3>2. measured'[x] = (block'[x] - 1) * nmeasure + turn'[x] - 1
      <4>1. PICK p \in Nat : p = (block[x] - 1) * nmeasure
        BY <2>5
      <4>2. measured[x] = p + turn[x] - 1 /\ (block'[x] - 1) * nmeasure = p
        BY <2>1, <2>4, <4>1
      <4>3. measured'[x] = p + turn'[x] - 1
        BY <1>0, <2>1, <3>1, <4>2
      <4> QED
        BY <4>2, <4>3
    <3>3. Len(found'[x]) = measured'[x]
      BY <1>0, <2>1, <2>3, <2>4
    <3> QED
      BY <1>0, <2>1, <2>3, <2>4, <2>6, <3>1, <3>2, <3>3 DEF Clock
  <2>8. CASE ~(turn[x] < nmeasure)
    <3>1. turn'[x] = 1 /\ at'[x] \in Closing /\ turn'[x] \in 1 .. nmeasure
          /\ turn[x] = nmeasure
      BY <1>0, <2>1, <2>2, <2>4, <2>8
    <3>2. measured'[x] = block'[x] * nmeasure + turn'[x] - 1
      <4>1. block[x] * nmeasure \in Nat
        BY <1>0, Blocked
      <4>2. measured[x] + 1 = block[x] * nmeasure
        BY <1>0, <2>4, <2>5, <3>1
      <4> QED
        BY <2>1, <3>1, <4>1, <4>2
    <3>3. Len(found'[x]) = measured'[x]
      BY <1>0, <2>1, <2>3, <2>4
    <3> QED
      BY <1>0, <2>1, <2>3, <2>4, <2>6, <3>1, <3>2, <3>3 DEF Clock
  <2> QED
    BY <2>7, <2>8
<1>2. ASSUME NEW more \in BOOLEAN, EndBlock(x, more)
      PROVE  Clock(x)'
  <2>1. /\ at[x] = "endBlock" /\ UNCHANGED <<measured, turn, found>>
        /\ \/ block'[x] = block[x] + 1 /\ at'[x] = FirstStep
           \/ block'[x] = block[x] /\ at'[x] = "done"
    BY <1>0, <1>2 DEF EndBlock, Goto, statVars
  <2>2. "endBlock" \in Closing /\ FirstStep \notin Closing /\ "done" \in Closing
    BY DEF Closing, Ended, Counting, Passed, FirstStep
  <2>3. CASE block'[x] = block[x] + 1 /\ at'[x] = FirstStep
    <3>1. \A where : (where \in Closing)' <=> where \in Closing
      BY DEF Closing, Ended, Counting, Passed
    <3>2. (block[x] + 1) - 1 = block[x] /\ block[x] + 1 \in Nat \ {0}
      BY <1>0
    <3>3. measured'[x] = (block'[x] - 1) * nmeasure + turn'[x] - 1
      BY <2>1, <2>2, <2>3, <3>2 DEF Clock
    <3> QED
      BY <1>0, <2>1, <2>2, <2>3, <3>1, <3>2, <3>3 DEF Clock
  <2>4. CASE block'[x] = block[x] /\ at'[x] = "done"
    BY <1>0, <2>1, <2>2, <2>4, ClockSame
  <2> QED
    BY <2>1, <2>3, <2>4
<1>3. CASE Tries(x)
  BY <1>0, <1>3, ClockSame DEF Tries, Same, Sampling, Closing, Ended, Counting, Passed
<1>4. CASE Evaluates(x)
  BY <1>0, <1>4, ClockSame DEF Evaluates, Onward, Same, Closing, Ended, Counting, Passed
<1>5. CASE Averages(x)
  BY <1>0, <1>5, ClockSame DEF Averages, Onward, Same, Closing, Ended, Counting, Passed
<1>6. CASE Closes(x)
  BY <1>0, <1>6, ClockSame DEF Closes, Same, Closing, Ended, Counting, Passed
<1>7. CASE Waits(x)
  BY <1>0, <1>7, ClockSame DEF Waits, Same, Stays
<1> QED
  BY <1>1, <1>2, <1>3, <1>4, <1>5, <1>6, <1>7, StepGoes DEF Goes

(* What the estimators have seen of the measurements, and the blocks       *)
(* averaged, after a step.                                                 *)
LEMMA SeenNext ==
  ASSUME CallInv, Loops, NEW x \in Rank, Step(x), NEW e \in 1 .. NEst
  PROVE  /\ Evaluated(x, e)' = IF Evaluates(x) /\ est[x] = e THEN Evaluated(x, e) + 1
                                                             ELSE Evaluated(x, e)
         /\ Evaluates(x) /\ est[x] = e => Evaluated(x, e) = measured[x]
         /\ Blocks(x, e)' = IF Averages(x) /\ est[x] = e THEN Blocks(x, e) + 1
                                                         ELSE Blocks(x, e)
         /\ Averages(x) /\ est[x] = e => Blocks(x, e) = block[x] - 1
<1> USE DEF Evaluated, Blocks
<1>0. /\ measured[x] \in Nat /\ block[x] \in Nat /\ est[x] \in Nat /\ Course(x)
      /\ NEst \in Nat /\ Goes(x) /\ x \in DOMAIN measured /\ x \in DOMAIN block
      /\ x \in DOMAIN at /\ x \in DOMAIN est
  <2>1. Typed /\ BlockInv /\ input \in Inputs
    BY DEF CallInv, BlockInv, CloneType
  <2>2. measured[x] \in Nat /\ block[x] \in Nat /\ est[x] \in Nat
        /\ x \in DOMAIN measured /\ x \in DOMAIN block /\ x \in DOMAIN at /\ x \in DOMAIN est
    BY <2>1 DEF Typed, BlockInv, CloneType
  <2> QED
    BY <2>1, <2>2, EstimatorCount, StepGoes DEF CallInv
<1> USE DEF Ended, Counting, Passed
<1>1. CASE EndTurn(x)
  <2>1. /\ at[x] = "endTurn" /\ measured'[x] = measured[x] + 1 /\ block' = block /\ est' = est
        /\ est[x] = 1
        /\ at'[x] \in {"sample", "measure", "average"}
    BY <1>0, <1>1 DEF EndTurn, Goto, FirstStep, Course
  <2> QED
    BY <1>0, <2>1 DEF Evaluates, Averages
<1>2. ASSUME NEW more \in BOOLEAN, EndBlock(x, more)
      PROVE  /\ Evaluated(x, e)' = Evaluated(x, e) /\ Blocks(x, e)' = Blocks(x, e)
             /\ ~Evaluates(x) /\ ~Averages(x)
  <2>1. /\ at[x] = "endBlock" /\ UNCHANGED <<measured, est>> /\ est[x] = 1
        /\ \/ block'[x] = block[x] + 1 /\ at'[x] \in {"sample", "measure"}
           \/ block'[x] = block[x] /\ at'[x] = "done"
    BY <1>0, <1>2 DEF EndBlock, Goto, statVars, FirstStep, Course
  <2> QED
    BY <1>0, <2>1 DEF Evaluates, Averages
<1>3. CASE Tries(x)
  BY <1>0, <1>3 DEF Tries, Same, Sampling, Evaluates, Averages
<1>4. CASE Evaluates(x)
  BY <1>0, <1>4 DEF Evaluates, Onward, Same, Averages
<1>5. CASE Averages(x)
  BY <1>0, <1>5 DEF Evaluates, Onward, Same, Averages
<1>6. CASE Closes(x)
  BY <1>0, <1>6 DEF Closes, Same, Evaluates, Averages
<1>7. CASE Waits(x)
  <2>1. ~(Evaluates(x) /\ est[x] = e) /\ ~(Averages(x) /\ est[x] = e)
    BY <1>0, <1>7 DEF Waits, Stays, Evaluates, Averages, Onward
  <2> QED
    BY <1>0, <1>7, <2>1 DEF Waits, Same, Stays
<1> QED
  BY <1>0, <1>1, <1>2, <1>3, <1>4, <1>5, <1>6, <1>7 DEF Goes

(* A step that averages nothing passes no average.                         *)
LEMMA AverageIdle ==
  ASSUME CallInv, Loops, NEW x \in Rank, Step(x), ~Averages(x), NEW comm
  PROVE  Nothing(AveragePlaces(comm), averagePlace(x), averagePlace(x)')
<1>0. /\ measured[x] \in Nat /\ block[x] \in Nat /\ est[x] \in Nat /\ Course(x)
      /\ averagePlace(x) \in Place
      /\ Goes(x) /\ x \in DOMAIN measured /\ x \in DOMAIN block
      /\ x \in DOMAIN at /\ x \in DOMAIN est
  <2>1. Typed /\ BlockInv /\ input \in Inputs
    BY DEF CallInv, BlockInv, CloneType
  <2>2. measured[x] \in Nat /\ block[x] \in Nat /\ est[x] \in Nat
        /\ x \in DOMAIN measured /\ x \in DOMAIN block /\ x \in DOMAIN at /\ x \in DOMAIN est
    BY <2>1 DEF Typed, BlockInv, CloneType
  <2> QED
    BY <2>1, <2>2, PlacesOf, StepGoes DEF CallInv
<1>1. \/ averagePlace(x)' = averagePlace(x)
      \/ averagePlace(x) = <<block[x], 0>> /\ averagePlace(x)' = <<block[x], 1>>
  <2> USE DEF averagePlace, Ended, Counting, Passed
  <2>1. CASE EndTurn(x)
    <3>1. /\ at[x] = "endTurn" /\ block' = block /\ est' = est /\ est[x] = 1
          /\ at'[x] \in {"sample", "measure", "average"}
      BY <1>0, <2>1 DEF EndTurn, Goto, FirstStep, Course
    <3> QED
      BY <1>0, <3>1
  <2>2. ASSUME NEW more \in BOOLEAN, EndBlock(x, more)
        PROVE  averagePlace(x)' = averagePlace(x)
    <3>1. /\ at[x] = "endBlock"
          /\ \/ block'[x] = block[x] + 1 /\ at'[x] \in {"sample", "measure"}
             \/ block'[x] = block[x] /\ at'[x] = "done"
      BY <1>0, <2>2 DEF EndBlock, Goto, FirstStep
    <3> QED
      BY <1>0, <3>1
  <2>3. CASE Tries(x)
    BY <1>0, <2>3 DEF Tries, Same, Sampling
  <2>4. CASE Evaluates(x)
    BY <1>0, <2>4 DEF Evaluates, Onward, Same
  <2>6. CASE Closes(x)
    BY <1>0, <2>6 DEF Closes, Same
  <2>7. CASE Waits(x)
    BY <1>0, <2>7 DEF Waits, Same, Stays
  <2> QED
    BY <1>0, <2>1, <2>2, <2>3, <2>4, <2>6, <2>7 DEF Goes
<1>2. AveragePlaces(comm) \in SUBSET Place
  BY PlacesSets
<1>3. CASE averagePlace(x)' = averagePlace(x)
  BY <1>0, <1>2, <1>3, NothingSame
<1>4. CASE averagePlace(x) = <<block[x], 0>> /\ averagePlace(x)' = <<block[x], 1>>
  BY <1>0, <1>4, AverageFirst
<1> QED
  BY <1>1, <1>3, <1>4

(* The model state of measurement k, also of one that is not over.         *)
StateOf(m, k) == IF k <= Len(found[m]) THEN found[m][k] ELSE modelState[m]
Labels(kind) ==
  [p \in Place |-> IF kind = "partitioned" THEN StateOf(RootOf("worker", p[1]), p[2]) ELSE 0]

(* It is settled when the turn begins to be measured.                      *)
Settled(m, k) == at[m] # "decide" \/ k <= measured[m]
Steady(m) == \A k \in Nat \ {0} : Settled(m, k) => StateOf(m, k)' = StateOf(m, k)

(* A measurement that is settled keeps its model state.                    *)
LEMMA StateStays ==
  ASSUME CallInv, Loops, NEW x \in Rank, Step(x), NEW m \in Rank, isCloneMain(m), Clock(m)
  PROVE  Steady(m)
<1> SUFFICES ASSUME NEW k \in Nat \ {0}, Settled(m, k)
             PROVE  StateOf(m, k)' = StateOf(m, k)
  BY DEF Steady
<1> USE DEF StateOf, Settled
<1>0. Typed /\ BlockInv /\ Goes(x) /\ Elsewhere(x)
  BY StepGoes, OnlyOneMoves DEF CallInv
<1>1. CASE m # x
  BY <1>0, <1>1 DEF Elsewhere, Alone, Stays
<1>2. CASE m = x /\ found'[x] = found[x] /\ modelState'[x] = modelState[x]
  BY <1>2
<1>3. CASE m = x /\ Tries(x)
  <2>1. found'[x] = found[x] /\ Len(found[x]) = measured[x]
        /\ (modelState'[x] # modelState[x] => at[x] = "decide")
    BY <1>3 DEF Tries, Same, Clock
  <2> QED
    BY <1>3, <2>1
<1>4. CASE m = x /\ EndTurn(x)
  <2>1. found'[x] = Append(found[x], modelState[x]) /\ modelState' = modelState
    BY <1>4 DEF EndTurn, Loops, modelVars
  <2>2. PICK T : found[x] \in Seq(T)
    BY <1>4 DEF Clock
  <2>3. found[x] \in Seq(T \cup {modelState[x]}) /\ Len(found[x]) \in Nat
    BY <2>2
  <2>4. /\ Len(found'[x]) = Len(found[x]) + 1
        /\ \A i \in 1 .. Len(found[x]) : found'[x][i] = found[x][i]
        /\ found'[x][Len(found[x]) + 1] = modelState[x]
    BY <2>1, <2>3
  <2>5. CASE k <= Len(found[x])
    BY <1>4, <2>3, <2>4, <2>5
  <2>6. CASE k = Len(found[x]) + 1
    BY <1>4, <2>3, <2>4, <2>6
  <2>7. CASE k > Len(found[x]) + 1
    BY <1>4, <2>1, <2>3, <2>4, <2>7
  <2> QED
    BY <2>3, <2>5, <2>6, <2>7
<1>5. CASE m = x /\ \E more \in BOOLEAN : EndBlock(x, more)
  BY <1>2, <1>5 DEF EndBlock, modelVars
<1> QED
  BY <1>0, <1>1, <1>2, <1>3, <1>4, <1>5 DEF Goes, Evaluates, Averages, Closes, Waits, Same, Stays

(* The ranks are numbers.                                                  *)
LEMMA RankNat == ASSUME input \in Inputs PROVE Rank \in SUBSET Nat
<1>1. nworker \in Nat \ {0} /\ nclone \in Nat \ {0}
  BY Blocked
<1>2. nworker * nclone \in Nat
  BY <1>1
<1>3. PICK n \in Nat : n = nworker * nclone
  BY <1>2
<1> QED
  BY <1>3 DEF Rank

(* The terms of settled measurements stay as they are, those of a clone    *)
LEMMA WeightsStay ==
  ASSUME input \in Inputs, UNCHANGED input, NEW m \in Rank, isCloneMain(m), Steady(m),
         NEW K \in SUBSET (Nat \ {0}), \A k \in K : Settled(m, k), NEW d, NEW kind
  PROVE  Weights(Members("worker", m) \X K, d, Labels(kind)')
           = Weights(Members("worker", m) \X K, d, Labels(kind))
<1>1. ASSUME NEW p \in Members("worker", m) \X K
      PROVE  Labels(kind)'[p] = Labels(kind)[p]
  <2>1. p[1] \in Members("worker", m) /\ p[2] \in K /\ p[1] \in Rank
    BY DEF Members
  <2>2. RootOf("worker", p[1]) = m
    BY <2>1, FirstWorker
  <2>3. RootOf("worker", p[1])' = m
    BY <2>2, SameInput
  <2>4. p \in Place
    BY <2>1, RankNat DEF Place
  <2>5. StateOf(m, p[2])' = StateOf(m, p[2])
    BY <2>1 DEF Steady
  <2> QED
    BY <2>2, <2>3, <2>4, <2>5 DEF Labels
<1> QED
  BY <1>1, WeightsSame

(* and those of all ranks.                                                 *)
LEMMA AllStay ==
  ASSUME input \in Inputs, UNCHANGED input, \A m \in Mains : Steady(m),
         NEW K \in SUBSET (Nat \ {0}), \A m \in Mains : \A k \in K : Settled(m, k),
         NEW d, NEW kind
  PROVE  Weights(Rank \X K, d, Labels(kind)') = Weights(Rank \X K, d, Labels(kind))
<1>1. ASSUME NEW p \in Rank \X K
      PROVE  Labels(kind)'[p] = Labels(kind)[p]
  <2> DEFINE m == RootOf("worker", p[1])
  <2>1. p[1] \in Rank /\ p[2] \in K /\ p \in Place
    BY RankNat DEF Place
  <2>2. m \in Mains
    BY <2>1, FirstWorker DEF Mains, Members
  <2>3. m' = m
    BY SameInput
  <2>4. StateOf(m, p[2])' = StateOf(m, p[2])
    BY <2>1, <2>2, <2>3 DEF Steady
  <2> QED
    BY <2>1, <2>3, <2>4 DEF Labels
<1> QED
  BY <1>1, WeightsSame

-----------------------------------------------------------------------------
(* The invariant of the fourth part: what the first worker of each clone   *)
(* has added up, what it has given to the averages, what rank 0 has made   *)
(* of it, and what it has written.                                         *)

(* What a rank has added up of its block.                                  *)
Own(kind, m) == IF kind = "array" THEN array[m].value ELSE scalar[kind][m].sum
OwnNorm(kind, m) == IF kind = "array" THEN array[m].norm ELSE scalar[kind][m].norm

(* The stores go by the kind of an estimator: no two estimators of an      *)
(* input are of one kind.                                                  *)
Distinct == IsInjective(input.estimators)

Stores ==
  /\ DOMAIN scalar = ScalarKind /\ DOMAIN array = Rank
  /\ \A kind \in ScalarKind :
       /\ DOMAIN scalar[kind] = Rank
       /\ \A r \in Rank : DOMAIN scalar[kind][r] = {"value", "sum", "norm"}
  /\ \A r \in Rank : DOMAIN array[r] = {"value", "norm", "accum", "accumnorm"}

(* The first worker of a clone has added up, of each estimator, what all   *)
(* workers of the clone have measured since its last average.              *)
Window(m, e) == Blocks(m, e) * nmeasure + 1 .. Evaluated(m, e)
CloneSum(m, kind, K, d) == Weights(Members("worker", m) \X K, d, Labels(kind))
LocalSum(m, e) ==
  /\ Own(KindOf(e), m) = CloneSum(m, KindOf(e), Window(m, e), nworker)
  /\ OwnNorm(KindOf(e), m) = Evaluated(m, e) - Blocks(m, e) * nmeasure

(* What it gives to an average is its sum over a whole block.              *)
Report(s, kind, n) ==
  [data |-> IF kind = "array"
            THEN [value |-> CloneSum(s, kind, Turns(n), nworker), norm |-> nmeasure]
            ELSE [sum |-> CloneSum(s, kind, Turns(n), nworker * nmeasure)]]
Reports(s) == [p \in Place |-> Report(s, input.estimators[p[2]], p[1])]
Brings(s) ==
  Sync({"data"}, contrib["clone"][s], AveragePlaces("clone"), Reports(s),
       averagePlace(0), averagePlace(s))

(* What rank 0 has of the last average, and of all of them.                *)
TotalSum(kind, K, d) == Weights(Rank \X K, d, Labels(kind))
Whole == nworker * nmeasure * nclone
Global(e) ==
  LET n == Blocks(0, e) IN
  IF KindOf(e) = "array"
  THEN /\ array[0].accum = TotalSum("array", 1 .. n * nmeasure, Whole)
       /\ array[0].accumnorm = n
  ELSE n # 0 => scalar[KindOf(e)][0].value = TotalSum(KindOf(e), Turns(n), Whole)
BlockIs(b, e) ==
  written[b][KindOf(e)] =
    IF KindOf(e) = "array" THEN TotalSum("array", 1 .. b * nmeasure, Whole * b)
                           ELSE TotalSum(KindOf(e), Turns(b), Whole)

(* No clone is behind the averages of rank 0.                              *)
Reached(e) == \A m \in Mains : Blocks(0, e) * nmeasure <= measured[m]

DataInv ==
  /\ Stores /\ Loops /\ Distinct
  /\ \A r \in Rank : Clock(r)
  /\ \A s \in Others("clone", 0) : Brings(s)
  /\ \A e \in 1 .. NEst : Reduced(e) =>
       /\ \A m \in Mains : LocalSum(m, e)
       /\ Reached(e) /\ Global(e)
       /\ \A b \in 1 .. Len(written) : BlockIs(b, e)

-----------------------------------------------------------------------------
(* An average that a clone has gone past is of turns it has measured.      *)
LEMMA AveragePast ==
  ASSUME CallInv, NEW s \in Rank, Clock(s), NEW p \in AveragePlaces("clone"),
         Less(p, averagePlace(s))
  PROVE  p[1] \in Nat /\ p[1] * nmeasure <= measured[s]
<1>1. Typed /\ BlockInv /\ input \in Inputs
  BY DEF CallInv, BlockInv, CloneType
<1>2. /\ measured[s] \in Nat /\ block[s] \in Nat /\ est[s] \in Nat
      /\ nmeasure \in Nat \ {0} /\ NEst \in Nat
  BY <1>1, PlacesOf, Blocked, EstimatorCount
<1>3. p[1] \in Nat /\ p[2] \in 1 .. NEst /\ p[2] \in Nat
  BY <1>2 DEF AveragePlaces, Place
<1>4. CASE at[s] \in Closing
  <2>1. measured[s] = block[s] * nmeasure
    <3>1. block[s] * nmeasure \in Nat
      BY <1>1, <1>2, Blocked
    <3>2. measured[s] = block[s] * nmeasure + 1 - 1
      BY <1>4 DEF Clock
    <3> QED
      BY <3>1, <3>2
  <2>2. p[1] <= block[s]
    BY <1>2, <1>3, <1>4 DEF averagePlace, Less, Closing, Ended, Counting, Passed
  <2>3. p[1] * nmeasure <= block[s] * nmeasure
    BY <1>1, <1>2, <1>3, <2>2, Blocked
  <2> QED
    BY <1>3, <2>1, <2>3
<1>5. CASE at[s] \notin Closing
  <2>1. block[s] - 1 \in Nat /\ (block[s] - 1) * nmeasure <= measured[s]
    <3>1. block[s] # 0 /\ turn[s] \in 1 .. nmeasure
          /\ measured[s] = (block[s] - 1) * nmeasure + turn[s] - 1
      BY <1>5 DEF Clock
    <3>2. (block[s] - 1) * nmeasure \in Nat
      BY <1>1, <1>2, <3>1, Blocked
    <3> QED
      BY <1>2, <3>1, <3>2
  <2>2. p[1] <= block[s] - 1
    BY <1>2, <1>3, <1>5 DEF averagePlace, Less, Closing, Ended, Counting, Passed
  <2>3. p[1] * nmeasure <= (block[s] - 1) * nmeasure
    BY <1>1, <1>2, <1>3, <2>1, <2>2, Blocked
  <2>4. p[1] * nmeasure \in Nat /\ (block[s] - 1) * nmeasure \in Nat
    BY <1>1, <1>3, <2>1, Blocked
  <2> QED
    BY <1>2, <1>3, <2>1, <2>3, <2>4
<1> QED
  BY <1>4, <1>5

(* The turns of block n.                                                   *)
LEMMA TurnsAre ==
  ASSUME input \in Inputs, NEW n \in Nat
  PROVE  /\ Turns(n) \in SUBSET Int /\ \A k \in Turns(n) : k <= n * nmeasure
         /\ n # 0 => Turns(n) \in SUBSET (Nat \ {0})
         /\ 1 .. n * nmeasure \in SUBSET (Nat \ {0})
<1>1. n * nmeasure \in Nat /\ nmeasure \in Nat \ {0}
      /\ (n # 0 => (n - 1) * nmeasure \in Nat)
  BY Blocked
<1>2. (n - 1) * nmeasure \in Int
  BY <1>1
<1> QED
  BY <1>1, <1>2 DEF Turns

(* Only what is said of the places between reader and writer matters.      *)
LEMMA SyncSame ==
  ASSUME NEW F, NEW q, NEW P, NEW K, NEW L, NEW lo, NEW hi, Sync(F, q, P, K, lo, hi),
         \A p \in P : ~Less(p, lo) /\ Less(p, hi) => K[p] = L[p]
  PROVE  Sync(F, q, P, L, lo, hi)
<1>1. \A p \in Span(P, lo, hi) : K[p] = L[p]
  BY DEF Span
<1>2. Lists(F, q, L, Span(P, lo, hi))
  BY <1>1, ListsAgree DEF Sync
<1> QED
  BY <1>2 DEF Sync

(* A reader who finds something is behind its writer.                      *)
LEMMA SyncBehind ==
  ASSUME NEW F, NEW q, NEW P, NEW K, NEW lo, NEW hi, Sync(F, q, P, K, lo, hi), q # <<>>
  PROVE  Less(lo, hi)
<1>1. Span(P, lo, hi) # {}
  BY ListsNone DEF Sync
<1>2. PICK p \in Place : ~Less(p, lo) /\ Less(p, hi)
  BY <1>1 DEF Span, Sync
<1> QED
  BY <1>2, LessOrder DEF Sync

-----------------------------------------------------------------------------
(* The settled terms of a clone, and of all.                               *)
LEMMA CloneSumStays ==
  ASSUME CallInv, Loops, NEW x \in Rank, Step(x), NEW m \in Mains, Clock(m),
         NEW K \in SUBSET (Nat \ {0}), \A k \in K : Settled(m, k), NEW d, NEW kind
  PROVE  CloneSum(m, kind, K, d)' = CloneSum(m, kind, K, d)
<1>1. input \in Inputs /\ UNCHANGED input
  <2>1. Typed /\ BlockInv /\ input \in Inputs
    BY DEF CallInv, BlockInv, CloneType
  <2> QED
    BY <2>1, OnlyOneMoves DEF Elsewhere, Alone
<1>2. m \in Rank /\ isCloneMain(m)
  BY DEF Mains, Members
<1>3. Steady(m)
  BY <1>2, StateStays
<1>4. Weights(Members("worker", m) \X K, d, Labels(kind)')
        = Weights(Members("worker", m) \X K, d, Labels(kind))
  BY <1>1, <1>2, <1>3, WeightsStay
<1>5. Members("worker", m)' = Members("worker", m)
  BY <1>1, SameInput
<1> QED
  BY <1>4, <1>5 DEF CloneSum, Weights, Terms

(* and those of all clones.                                                *)
LEMMA TotalSumStays ==
  ASSUME CallInv, Loops, NEW x \in Rank, Step(x), \A m \in Mains : Clock(m),
         NEW K \in SUBSET (Nat \ {0}), \A m \in Mains : \A k \in K : Settled(m, k),
         NEW d, NEW kind
  PROVE  TotalSum(kind, K, d)' = TotalSum(kind, K, d)
<1>1. input \in Inputs /\ UNCHANGED input
  <2>1. Typed /\ BlockInv /\ input \in Inputs
    BY DEF CallInv, BlockInv, CloneType
  <2> QED
    BY <2>1, OnlyOneMoves DEF Elsewhere, Alone
<1>2. \A m \in Mains : Steady(m)
  <2>1. \A m \in Mains : m \in Rank /\ isCloneMain(m)
    BY DEF Mains, Members
  <2> QED
    BY <2>1, StateStays
<1>4. Weights(Rank \X K, d, Labels(kind)') = Weights(Rank \X K, d, Labels(kind))
  BY <1>1, <1>2, AllStay
<1>5. Rank' = Rank
  BY <1>1, SameInput
<1> QED
  BY <1>4, <1>5 DEF TotalSum, Weights, Terms

(* What an estimator has seen is settled.                                  *)
LEMMA WindowIs ==
  ASSUME CallInv, NEW m \in Rank, Clock(m), NEW e \in 1 .. NEst
  PROVE  /\ Blocks(m, e) \in Nat /\ Evaluated(m, e) \in Nat
         /\ Blocks(m, e) * nmeasure \in Nat
         /\ Window(m, e) \in SUBSET (Nat \ {0})
         /\ \A k \in Window(m, e) : Settled(m, k)
         /\ Blocks(m, e) * nmeasure <= Evaluated(m, e)
         /\ Blocks(m, e) * nmeasure <= measured[m]
<1>1. Typed /\ BlockInv /\ input \in Inputs /\ Course(m)
  BY DEF CallInv, BlockInv, CloneType
<1>2. /\ measured[m] \in Nat /\ block[m] \in Nat /\ est[m] \in Nat
      /\ nmeasure \in Nat \ {0} /\ NEst \in Nat
  BY <1>1, PlacesOf, Blocked, EstimatorCount
<1>3. /\ turn[m] \in 1 .. nmeasure /\ block[m] # 0
      /\ measured[m] = (IF at[m] \in Closing THEN block[m] ELSE block[m] - 1) * nmeasure
                         + turn[m] - 1
  BY DEF Clock
<1>4. Blocks(m, e) \in Nat /\ Evaluated(m, e) \in Nat /\ measured[m] <= Evaluated(m, e)
  BY <1>2, <1>3 DEF Blocks, Evaluated
<1>5. Blocks(m, e) <= (IF at[m] \in Closing THEN block[m] ELSE block[m] - 1)
  BY <1>2, <1>3 DEF Blocks, Closing
<1>6. PICK b \in Nat : b = (IF at[m] \in Closing THEN block[m] ELSE block[m] - 1)
  BY <1>2, <1>3
<1>7. /\ Blocks(m, e) * nmeasure \in Nat /\ b * nmeasure \in Nat
      /\ Blocks(m, e) * nmeasure <= b * nmeasure
  BY <1>1, <1>4, <1>5, <1>6, Blocked
<1>8. b * nmeasure <= measured[m]
  BY <1>2, <1>3, <1>6, <1>7
<1>9. ASSUME NEW k \in Window(m, e)
      PROVE  k \in Nat \ {0} /\ Settled(m, k)
  <2>1. k \in Nat \ {0} /\ k <= Evaluated(m, e)
    BY <1>4, <1>7 DEF Window
  <2>2. at[m] = "decide" => Evaluated(m, e) = measured[m]
    BY <1>2 DEF Evaluated
  <2> QED
    BY <2>1, <2>2 DEF Settled
<1> QED
  BY <1>2, <1>4, <1>7, <1>8, <1>9

-----------------------------------------------------------------------------
(* Which stores a step concerns: those of the estimator it has come to.    *)
Concerns(x, m, e) == x = m /\ est[x] = e /\ at[x] \in {"measure", "average"}
SameOwn(m, e) == /\ Own(KindOf(e), m)' = Own(KindOf(e), m)
                 /\ OwnNorm(KindOf(e), m)' = OwnNorm(KindOf(e), m)
                 /\ KindOf(e) # "array" => scalar'[KindOf(e)][m] = scalar[KindOf(e)][m]
                 /\ KindOf(e) = "array" => array'[m] = array[m]

(* The kinds of the estimators, different ones if the input is Distinct.   *)
LEMMA KindsAre ==
  ASSUME input \in Inputs
  PROVE  /\ \A e \in 1 .. NEst : KindOf(e) \in Kind
         /\ \A e \in 1 .. NEst : Reduced(e) => KindOf(e) \in ScalarKind \cup {"array"}
         /\ Distinct => \A e, c \in 1 .. NEst : KindOf(e) = KindOf(c) => e = c
<1>1. input.estimators \in Seq(Kind)
  BY EstimatorAssumption
<1>2. DOMAIN input.estimators = 1 .. NEst
  BY <1>1 DEF NEst
<1>3. \A e \in 1 .. NEst : input.estimators[e] \in Kind
  BY <1>1 DEF NEst
<1>4. Distinct => \A e, c \in 1 .. NEst : input.estimators[e] = input.estimators[c] => e = c
  BY <1>1, <1>2 DEF Distinct, IsInjective
<1> QED
  BY <1>3, <1>4 DEF KindOf, Reduced, Kind

(* A store of which only what one rank has of one estimator changes.       *)
Twice(kind, x, a, b) == scalar' = [scalar EXCEPT ![kind][x].sum = a, ![kind][x].norm = b]
Once(kind, x, new) == scalar' = [scalar EXCEPT ![kind][x] = new]
OnceArray(x, new) == array' = [array EXCEPT ![x] = new]

(* One entry of a scalar changes.                                          *)
LEMMA ScalarOne ==
  ASSUME Stores, NEW kind \in ScalarKind, NEW x \in Rank, NEW new,
         DOMAIN new = {"value", "sum", "norm"}, Once(kind, x, new)
  PROVE  /\ scalar'[kind][x] = new
         /\ \A other \in ScalarKind, r \in Rank :
              other # kind \/ r # x => scalar'[other][r] = scalar[other][r]
         /\ DOMAIN scalar' = ScalarKind
         /\ \A other \in ScalarKind :
              /\ DOMAIN scalar'[other] = Rank
              /\ \A r \in Rank : DOMAIN scalar'[other][r] = {"value", "sum", "norm"}
<1>1. /\ DOMAIN scalar = ScalarKind /\ DOMAIN scalar[kind] = Rank
      /\ \A other \in ScalarKind :
           /\ DOMAIN scalar[other] = Rank
           /\ \A r \in Rank : DOMAIN scalar[other][r] = {"value", "sum", "norm"}
  BY DEF Stores
<1>2. scalar' = [scalar EXCEPT ![kind] = [scalar[kind] EXCEPT ![x] = new]]
  BY <1>1 DEF Once
<1>3. /\ DOMAIN scalar' = ScalarKind
      /\ scalar'[kind] = [scalar[kind] EXCEPT ![x] = new]
      /\ \A other \in ScalarKind : other # kind => scalar'[other] = scalar[other]
  BY <1>1, <1>2
<1>4. /\ DOMAIN scalar'[kind] = Rank /\ scalar'[kind][x] = new
      /\ \A r \in Rank : r # x => scalar'[kind][r] = scalar[kind][r]
  BY <1>1, <1>3
<1>5. ASSUME NEW other \in ScalarKind, NEW r \in Rank
      PROVE  /\ other # kind \/ r # x => scalar'[other][r] = scalar[other][r]
             /\ DOMAIN scalar'[other][r] = {"value", "sum", "norm"}
  <2>1. CASE other = kind /\ r = x
    BY <1>4, <2>1
  <2>2. CASE other # kind \/ r # x
    <3>1. scalar'[other][r] = scalar[other][r]
      BY <1>3, <1>4, <2>2
    <3> QED
      BY <1>1, <2>2, <3>1
  <2> QED
    BY <2>1, <2>2
<1>6. \A other \in ScalarKind : DOMAIN scalar'[other] = Rank
  BY <1>1, <1>3, <1>4
<1> QED
  BY <1>3, <1>4, <1>5, <1>6

(* One entry of the array changes.                                         *)
LEMMA ArrayOne ==
  ASSUME Stores, NEW x \in Rank, NEW new,
         DOMAIN new = {"value", "norm", "accum", "accumnorm"},
         OnceArray(x, new)
  PROVE  /\ array'[x] = new
         /\ \A r \in Rank : r # x => array'[r] = array[r]
         /\ DOMAIN array' = Rank
         /\ \A r \in Rank : DOMAIN array'[r] = {"value", "norm", "accum", "accumnorm"}
BY DEF Stores, OnceArray

(* What a step does to the stores: nothing, or something to one of them.   *)
OneStore(x) ==
  \/ UNCHANGED <<scalar, array>>
  \/ /\ at[x] \in {"measure", "average"} /\ Estimator(x) \in ScalarKind /\ UNCHANGED array
     /\ \E new : /\ DOMAIN new = {"value", "sum", "norm"}
                 /\ Once(Estimator(x), x, new)
  \/ /\ at[x] \in {"measure", "average"} /\ Estimator(x) = "array" /\ UNCHANGED scalar
     /\ \E new : /\ DOMAIN new = {"value", "norm", "accum", "accumnorm"}
                 /\ OnceArray(x, new)

(* Measure::run and averageOverClones write to the store of the estimator. *)
LEMMA ScalarTwice ==
  ASSUME Stores, NEW kind \in ScalarKind, NEW x \in Rank, NEW a, NEW b, Twice(kind, x, a, b)
  PROVE  \E new : /\ DOMAIN new = {"value", "sum", "norm"}
                  /\ new.value = scalar[kind][x].value /\ new.sum = a /\ new.norm = b
                  /\ Once(kind, x, new)
<1>1. /\ DOMAIN scalar = ScalarKind /\ DOMAIN scalar[kind] = Rank
      /\ DOMAIN scalar[kind][x] = {"value", "sum", "norm"}
  BY DEF Stores
<1> DEFINE one == [scalar[kind][x] EXCEPT !.sum = a]
           two == [one EXCEPT !.norm = b]
<1>2. /\ DOMAIN two = {"value", "sum", "norm"}
      /\ two.value = scalar[kind][x].value /\ two.sum = a /\ two.norm = b
  BY <1>1
<1>3. [scalar EXCEPT ![kind][x].sum = a] = [scalar EXCEPT ![kind] = [scalar[kind] EXCEPT ![x] = one]]
  BY <1>1
<1>4. scalar' = [scalar EXCEPT ![kind] = [scalar[kind] EXCEPT ![x] = two]]
  BY <1>1, <1>3 DEF Twice
<1>5. Once(kind, x, two)
  BY <1>1, <1>4 DEF Once
<1> HIDE DEF two
<1> QED
  BY <1>2, <1>5

(* Every step changes at most one entry.                                   *)
LEMMA StepStores ==
  ASSUME Stores, input \in Inputs, NEW x \in Rank, Step(x), Course(x)
  PROVE  OneStore(x)
<1>0. Estimator(x) \in ScalarKind \cup {"array", "accrej"}
  <2>1. est[x] \in 1 .. NEst /\ Estimator(x) = KindOf(est[x])
    BY DEF Course, Estimator, KindOf
  <2> QED
    BY <2>1, KindsAre DEF Kind
<1>1. CASE EndTurn(x)
  BY <1>1 DEF EndTurn, OneStore
<1>2. CASE \E more \in BOOLEAN : EndBlock(x, more)
  BY <1>2 DEF EndBlock, OneStore, statVars
<1>3. CASE TryMove(x)
  BY <1>3 DEF TryMove, Propose, RecvState, RecvProposal, Decide, RecvDecision, RecvNewState,
              OneStore, statVars
<1>4. CASE EvaluateOther(x)
  <2>1. CASE Estimator(x) = "array"
    BY <1>4, <2>1 DEF EvaluateOther, OneStore
  <2>2. CASE Estimator(x) # "array"
    <3>1. Estimator(x) \in ScalarKind /\ at[x] = "measure" /\ UNCHANGED array
          /\ \E a, b : Twice(Estimator(x), x, a, b)
      <4>1. /\ Estimator(x) \in ScalarKind /\ at[x] = "measure" /\ UNCHANGED array
            /\ Twice(Estimator(x), x, Garbage(x), scalar[Estimator(x)][x].norm + 1)
        BY <1>0, <1>4, <2>2 DEF EvaluateOther, Twice
      <4> QED
        BY <4>1
    <3>2. PICK a, b : Twice(Estimator(x), x, a, b)
      BY <3>1
    <3>3. \E new : /\ DOMAIN new = {"value", "sum", "norm"}
                   /\ Once(Estimator(x), x, new)
      <4>1. Estimator(x) \in ScalarKind
        BY <3>1
      <4> QED
        BY <3>2, <4>1, ScalarTwice
    <3> QED
      BY <3>1, <3>3 DEF OneStore
  <2> QED
    BY <2>1, <2>2
<1>5. CASE EvaluateRoot(x)
  <2>1. CASE Estimator(x) = "array"
    <3>1. PICK q : array' = [array EXCEPT ![x].value = @ (+) q, ![x].norm = @ + 1]
      BY <1>5, <2>1 DEF EvaluateRoot
    <3>2. UNCHANGED scalar /\ at[x] = "measure"
      BY <1>5, <2>1 DEF EvaluateRoot
    <3>3. DOMAIN array = Rank /\ DOMAIN array[x] = {"value", "norm", "accum", "accumnorm"}
      BY DEF Stores
    <3>4. \E new : /\ DOMAIN new = {"value", "norm", "accum", "accumnorm"}
                   /\ OnceArray(x, new)
      <4> DEFINE new == [array[x] EXCEPT !.value = @ (+) q, !.norm = @ + 1]
      <4>1. OnceArray(x, new)
        BY <3>1, <3>3 DEF OnceArray
      <4>2. DOMAIN new = {"value", "norm", "accum", "accumnorm"}
        BY <3>3
      <4> QED
        BY <4>1, <4>2
    <3> QED
      BY <2>1, <3>2, <3>4 DEF OneStore
  <2>2. CASE Estimator(x) # "array"
    <3>1. Estimator(x) \in ScalarKind /\ at[x] = "measure" /\ UNCHANGED array
          /\ \E a, b : Twice(Estimator(x), x, a, b)
      <4>1. /\ Estimator(x) \in ScalarKind /\ at[x] = "measure" /\ UNCHANGED array
            /\ \E q : Stored(Estimator(x), x, q)
        BY <1>0, <1>5, <2>2 DEF EvaluateRoot
      <4> QED
        BY <4>1 DEF Stored, Twice
    <3>2. PICK a, b : Twice(Estimator(x), x, a, b)
      BY <3>1
    <3>3. \E new : /\ DOMAIN new = {"value", "sum", "norm"}
                   /\ Once(Estimator(x), x, new)
      <4>1. Estimator(x) \in ScalarKind
        BY <3>1
      <4> QED
        BY <3>2, <4>1, ScalarTwice
    <3> QED
      BY <3>1, <3>3 DEF OneStore
  <2> QED
    BY <2>1, <2>2
<1>6. CASE EvaluateAccRej(x) \/ AverageAccRej(x)
  BY <1>6 DEF EvaluateAccRej, AverageAccRej, OneStore
<1>7. CASE AverageScalar(x)
  <2>1. /\ Estimator(x) \in ScalarKind /\ at[x] = "average" /\ UNCHANGED array
        /\ UNCHANGED scalar \/ \E q : Reset(Estimator(x), x, q)
    BY <1>7 DEF AverageScalar
  <2> QED
    BY <2>1 DEF Reset, OneStore, Once
<1>8. CASE AverageArray(x)
  <2>1. /\ Estimator(x) = "array" /\ at[x] = "average" /\ UNCHANGED scalar
        /\ \E q, n : Accumulated(x, q, n)
    BY <1>8 DEF AverageArray
  <2>2. DOMAIN array = Rank
    BY DEF Stores
  <2> QED
    BY <2>1, <2>2 DEF Accumulated, OneStore, OnceArray
<1>9. CASE WriteStep(x) \/ LeaveWorkerBarrier(x) \/ LeaveCloneBarrier(x)
  BY <1>9 DEF WriteStep, LeaveWorkerBarrier, LeaveCloneBarrier, OneStore, statVars
<1> QED
  BY <1>1, <1>2, <1>3, <1>4, <1>5, <1>6, <1>7, <1>8, <1>9 DEF Step

(* It leaves all others as they are.                                       *)
LEMMA OthersKept ==
  ASSUME Stores, Distinct, input \in Inputs, UNCHANGED input, NEW x \in Rank,
         OneStore(x), Course(x)
  PROVE  /\ Stores'
         /\ \A m \in Rank, e \in 1 .. NEst :
              Reduced(e) /\ ~Concerns(x, m, e) => SameOwn(m, e)
<1>1. /\ est[x] \in 1 .. NEst /\ Estimator(x) = KindOf(est[x])
      /\ Rank' = Rank /\ \A e : KindOf(e)' = KindOf(e)
  <2>1. est[x] \in 1 .. NEst /\ Estimator(x) = KindOf(est[x]) /\ \A e : KindOf(e)' = KindOf(e)
    BY DEF Course, Estimator, KindOf
  <2> QED
    BY <2>1, SameInput
<1>2. \A e \in 1 .. NEst : Reduced(e) => KindOf(e) \in ScalarKind \cup {"array"}
  BY KindsAre
<1>3. \A e \in 1 .. NEst : KindOf(e) = Estimator(x) => e = est[x]
  BY <1>1, KindsAre
<1>4. "array" \notin ScalarKind
  BY DEF ScalarKind, Accumulators
<1>5. CASE UNCHANGED <<scalar, array>>
  <2>1. Stores'
    BY <1>1, <1>5 DEF Stores
  <2>2. \A m, e : SameOwn(m, e)
    BY <1>1, <1>5 DEF SameOwn, Own, OwnNorm
  <2> QED
    BY <2>1, <2>2
<1>6. ASSUME at[x] \in {"measure", "average"}, Estimator(x) \in ScalarKind, UNCHANGED array,
             NEW new, DOMAIN new = {"value", "sum", "norm"}, Once(Estimator(x), x, new)
      PROVE  /\ Stores'
             /\ \A m \in Rank, e \in 1 .. NEst :
                  Reduced(e) /\ ~Concerns(x, m, e) => SameOwn(m, e)
  <2>1. /\ \A other \in ScalarKind, r \in Rank :
              other # Estimator(x) \/ r # x => scalar'[other][r] = scalar[other][r]
        /\ DOMAIN scalar' = ScalarKind
        /\ \A other \in ScalarKind :
             /\ DOMAIN scalar'[other] = Rank
             /\ \A r \in Rank : DOMAIN scalar'[other][r] = {"value", "sum", "norm"}
    BY <1>6, ScalarOne
  <2>2. Stores'
    BY <1>1, <1>6, <2>1 DEF Stores
  <2>3. ASSUME NEW m \in Rank, NEW e \in 1 .. NEst, Reduced(e), ~Concerns(x, m, e)
        PROVE  SameOwn(m, e)
    <3>1. CASE KindOf(e) = "array"
      BY <1>1, <1>6, <3>1 DEF SameOwn, Own, OwnNorm
    <3>2. CASE KindOf(e) # "array"
      <4>1. KindOf(e) \in ScalarKind /\ (KindOf(e) # Estimator(x) \/ m # x)
        BY <1>1, <1>2, <1>3, <1>6, <2>3, <3>2 DEF Concerns
      <4>2. scalar'[KindOf(e)][m] = scalar[KindOf(e)][m]
        BY <2>1, <4>1
      <4> QED
        BY <1>1, <3>2, <4>2 DEF SameOwn, Own, OwnNorm
    <3> QED
      BY <3>1, <3>2
  <2> QED
    BY <2>2, <2>3
<1>7. ASSUME at[x] \in {"measure", "average"}, Estimator(x) = "array", UNCHANGED scalar,
             NEW new, DOMAIN new = {"value", "norm", "accum", "accumnorm"}, OnceArray(x, new)
      PROVE  /\ Stores'
             /\ \A m \in Rank, e \in 1 .. NEst :
                  Reduced(e) /\ ~Concerns(x, m, e) => SameOwn(m, e)
  <2>1. /\ \A r \in Rank : r # x => array'[r] = array[r]
        /\ DOMAIN array' = Rank
        /\ \A r \in Rank : DOMAIN array'[r] = {"value", "norm", "accum", "accumnorm"}
    BY <1>7, ArrayOne
  <2>2. Stores'
    BY <1>1, <1>7, <2>1 DEF Stores
  <2>3. ASSUME NEW m \in Rank, NEW e \in 1 .. NEst, Reduced(e), ~Concerns(x, m, e)
        PROVE  SameOwn(m, e)
    <3>1. CASE KindOf(e) = "array"
      <4>1. m # x
        BY <1>1, <1>3, <1>7, <2>3, <3>1 DEF Concerns
      <4>2. array'[m] = array[m]
        BY <2>1, <4>1
      <4> QED
        BY <1>1, <3>1, <4>2 DEF SameOwn, Own, OwnNorm
    <3>2. CASE KindOf(e) # "array"
      BY <1>1, <1>7, <3>2 DEF SameOwn, Own, OwnNorm
    <3> QED
      BY <3>1, <3>2
  <2> QED
    BY <2>2, <2>3
<1> QED
  BY <1>5, <1>6, <1>7 DEF OneStore

(* What rank 0 wants of the sums of a clone that no step concerns.         *)
LEMMA LocalKept ==
  ASSUME CallInv, Loops, NEW x \in Rank, Step(x), NEW m \in Mains, Clock(m),
         NEW e \in 1 .. NEst, LocalSum(m, e), SameOwn(m, e),
         m = x /\ est[x] = e => ~Evaluates(x) /\ ~Averages(x)
  PROVE  LocalSum(m, e)'
<1>0. input \in Inputs /\ UNCHANGED input /\ m \in Rank /\ nmeasure' = nmeasure
      /\ nworker' = nworker /\ KindOf(e)' = KindOf(e)
  <2>1. Typed /\ BlockInv /\ input \in Inputs
    BY DEF CallInv, BlockInv, CloneType
  <2>2. UNCHANGED input
    BY <2>1, OnlyOneMoves DEF Elsewhere, Alone
  <2> QED
    BY <2>1, <2>2 DEF Mains, Members, nmeasure, nworker, KindOf
<1>1. Blocks(m, e)' = Blocks(m, e) /\ Evaluated(m, e)' = Evaluated(m, e)
  <2>1. CASE m = x
    <3>1. ~(Evaluates(x) /\ est[x] = e) /\ ~(Averages(x) /\ est[x] = e)
      BY <2>1
    <3> QED
      BY <2>1, <3>1, SeenNext
  <2>2. CASE m # x
    <3>1. Typed /\ BlockInv /\ Stays(m)
      <4>1. Typed /\ BlockInv
        BY DEF CallInv
      <4> QED
        BY <1>0, <2>2, <4>1, OnlyOneMoves DEF Elsewhere, Alone
    <3> QED
      BY <3>1 DEF Stays, Blocks, Evaluated, Ended, Counting, Passed
  <2> QED
    BY <2>1, <2>2
<1>2. Window(m, e)' = Window(m, e)
  BY <1>0, <1>1 DEF Window
<1>3. CloneSum(m, KindOf(e), Window(m, e), nworker)'
        = CloneSum(m, KindOf(e), Window(m, e), nworker)
  <2>1. PICK K : K = Window(m, e)
    OBVIOUS
  <2>2. PICK kind, d : kind = KindOf(e) /\ d = nworker
    OBVIOUS
  <2>3. K \in SUBSET (Nat \ {0}) /\ \A k \in K : Settled(m, k)
    BY <1>0, <2>1, WindowIs
  <2>4. CloneSum(m, kind, K, d)' = CloneSum(m, kind, K, d)
    BY <2>3, CloneSumStays
  <2>5. KindOf(e)' = kind /\ nworker' = d /\ Window(m, e)' = K
    BY <1>0, <1>2, <2>1, <2>2
  <2>6. CloneSum(m, KindOf(e), Window(m, e), nworker)' = CloneSum(m, kind, K, d)'
    BY <2>5 DEF CloneSum
  <2> QED
    BY <2>1, <2>2, <2>4, <2>6
<1> QED
  BY <1>0, <1>1, <1>2, <1>3 DEF LocalSum, SameOwn, Own, OwnNorm

-----------------------------------------------------------------------------
(* No measurement is undone.                                               *)
LEMMA MeasuredGrows ==
  ASSUME CallInv, Loops, NEW x \in Rank, Step(x), NEW m \in Rank
  PROVE  measured[m] \in Nat /\ measured'[m] \in Nat /\ measured[m] <= measured'[m]
<1>1. Typed /\ BlockInv
  BY DEF CallInv
<1>2. measured[m] \in Nat /\ DOMAIN measured = Rank
  BY <1>1 DEF Typed
<1>3. CASE m # x
  <2>1. measured'[m] = measured[m]
    BY <1>1, <1>3, OnlyOneMoves DEF Elsewhere, Alone, Stays
  <2> QED
    BY <1>2, <2>1
<1>4. CASE m = x
  <2>1. measured'[x] = measured[x] \/ measured'[x] = measured[x] + 1
    <3>1. CASE EndTurn(x)
      BY <1>2, <3>1 DEF EndTurn
    <3>2. CASE ~EndTurn(x)
      BY <3>2, StepGoes DEF Goes, Tries, Evaluates, Averages, Closes, Waits, Same, EndBlock,
                            statVars
    <3> QED
      BY <3>1, <3>2
  <2> QED
    BY <1>2, <1>4, <2>1
<1> QED
  BY <1>3, <1>4

(* What a clone has given and rank 0 not yet taken stays what it was.      *)
LEMMA BringsStay ==
  ASSUME CallInv, Loops, NEW x \in Rank, Step(x), NEW s \in Others("clone", 0),
         Clock(0), Clock(s), Brings(s)
  PROVE  Sync({"data"}, contrib["clone"][s], AveragePlaces("clone"), Reports(s)',
              averagePlace(0), averagePlace(s))
<1>0. /\ input \in Inputs /\ UNCHANGED input /\ s \in Mains /\ s \in Rank /\ 0 \in Rank
      /\ nmeasure' = nmeasure /\ nworker' = nworker /\ block[0] \in Nat \ {0}
  <2>1. Typed /\ BlockInv /\ input \in Inputs
    BY DEF CallInv, BlockInv, CloneType
  <2>2. UNCHANGED input
    BY <2>1, OnlyOneMoves DEF Elsewhere, Alone
  <2>3. s \in Mains /\ s \in Rank /\ 0 \in Rank
    BY <2>1, MainsSize, FirstRank DEF Mains, Members
  <2> QED
    BY <2>1, <2>2, <2>3 DEF nmeasure, nworker, Clock
<1>1. ASSUME NEW p \in AveragePlaces("clone"),
             ~Less(p, averagePlace(0)), Less(p, averagePlace(s))
      PROVE  Reports(s)[p] = Reports(s)'[p]
  <2>1. p \in Place /\ p[1] \in Nat /\ p[1] # 0 /\ p[1] * nmeasure <= measured[s]
    <3>1. p \in Place /\ p[1] \in Nat /\ p[1] * nmeasure <= measured[s]
      BY <1>0, <1>1, AveragePast DEF AveragePlaces
    <3>2. averagePlace(0)[1] >= block[0]
      BY <1>0 DEF averagePlace
    <3>3. averagePlace(0) \in Place
      BY <1>0, PlacesOf DEF CallInv
    <3>4. p[1] >= averagePlace(0)[1]
      BY <1>1, <3>1, <3>3 DEF Less, Place
    <3> QED
      BY <1>0, <3>1, <3>2, <3>3, <3>4 DEF Place
  <2>2. PICK K : K = Turns(p[1])
    OBVIOUS
  <2>3. PICK kind, d, b : kind = input.estimators[p[2]] /\ d = nworker /\ b = nworker * nmeasure
    OBVIOUS
  <2>4. K \in SUBSET (Nat \ {0}) /\ \A k \in K : Settled(s, k)
    <3>1. K \in SUBSET (Nat \ {0}) /\ \A k \in K : k <= p[1] * nmeasure
      BY <1>0, <2>1, <2>2, TurnsAre
    <3>2. measured[s] \in Nat /\ p[1] * nmeasure \in Nat
      BY <1>0, <2>1, MeasuredGrows, Blocked
    <3>3. \A k \in K : k <= measured[s]
      BY <2>1, <3>1, <3>2
    <3> QED
      BY <3>1, <3>3 DEF Settled
  <2>5. /\ CloneSum(s, kind, K, d)' = CloneSum(s, kind, K, d)
        /\ CloneSum(s, kind, K, b)' = CloneSum(s, kind, K, b)
    BY <1>0, <2>4, CloneSumStays
  <2>6. /\ input'.estimators[p[2]] = kind /\ Turns(p[1])' = K /\ nworker' = d
        /\ (nworker * nmeasure)' = b
    BY <1>0, <2>2, <2>3 DEF Turns
  <2>7. Report(s, input.estimators[p[2]], p[1])
          = [data |-> IF kind = "array" THEN [value |-> CloneSum(s, kind, K, d), norm |-> nmeasure]
                      ELSE [sum |-> CloneSum(s, kind, K, b)]]
    BY <2>2, <2>3 DEF Report
  <2>8. Report(s, input.estimators[p[2]], p[1])'
          = [data |-> IF kind = "array" THEN [value |-> CloneSum(s, kind, K, d)', norm |-> nmeasure]
                      ELSE [sum |-> CloneSum(s, kind, K, b)']]
    <3>1. Report(s, kind, p[1])'
          = [data |-> IF kind = "array" THEN [value |-> CloneSum(s, kind, K, d)', norm |-> nmeasure]
                      ELSE [sum |-> CloneSum(s, kind, K, b)']]
      BY <1>0, <2>6 DEF Report, CloneSum
    <3>2. Report(s, input.estimators[p[2]], p[1])' = Report(s, kind, p[1])'
      BY <2>6 DEF Report, CloneSum
    <3> QED
      BY <3>1, <3>2
  <2>9. Report(s, input.estimators[p[2]], p[1])' = Report(s, input.estimators[p[2]], p[1])
    BY <2>5, <2>7, <2>8
  <2> QED
    BY <2>1, <2>9 DEF Reports
<1> QED
  BY <1>1, SyncSame DEF Brings

-----------------------------------------------------------------------------
(* What rank 0 has of the averages.                                        *)
SameGlobal(e) ==
  IF KindOf(e) = "array"
  THEN array'[0].accum = array[0].accum /\ array'[0].accumnorm = array[0].accumnorm
  ELSE scalar'[KindOf(e)][0].value = scalar[KindOf(e)][0].value

(* All ranks have settled what it has averaged,                            *)
LEMMA ReachedSettles ==
  ASSUME CallInv, Loops, NEW x \in Rank, Step(x), NEW e, Reached(e), Blocks(0, e) \in Nat,
         NEW n \in Nat, n <= Blocks(0, e)
  PROVE  /\ \A m \in Mains : \A k \in 1 .. n * nmeasure : Settled(m, k)
         /\ \A m \in Mains : \A k \in Turns(n) : Settled(m, k)
<1>0. input \in Inputs
  BY DEF CallInv, BlockInv, CloneType
<1>1. ASSUME NEW m \in Mains, NEW k \in Int, k <= n * nmeasure
      PROVE  Settled(m, k)
  <2>1. m \in Rank
    BY DEF Mains, Members
  <2>2. measured[m] \in Nat
    BY <2>1, MeasuredGrows
  <2>3. n * nmeasure \in Nat /\ Blocks(0, e) * nmeasure \in Nat
        /\ n * nmeasure <= Blocks(0, e) * nmeasure
    BY <1>0, Blocked
  <2>4. Blocks(0, e) * nmeasure <= measured[m]
    BY DEF Reached
  <2>5. k <= measured[m]
    BY <1>1, <2>2, <2>3, <2>4
  <2> QED
    BY <2>5 DEF Settled
<1>2. \A k \in Turns(n) : k \in Int /\ k <= n * nmeasure
  BY <1>0, TurnsAre
<1>3. n * nmeasure \in Nat
  BY <1>0, Blocked
<1>4. \A k \in 1 .. n * nmeasure : k \in Int /\ k <= n * nmeasure
  BY <1>3
<1> QED
  BY <1>1, <1>2, <1>4

(* and keep it,                                                            *)
LEMMA GlobalKept ==
  ASSUME CallInv, Loops, NEW x \in Rank, Step(x), \A m \in Mains : Clock(m),
         NEW e \in 1 .. NEst, Blocks(0, e) \in Nat, Reached(e), Global(e),
         Blocks(0, e)' = Blocks(0, e), SameGlobal(e)
  PROVE  Reached(e)' /\ Global(e)'
<1>0. /\ input \in Inputs /\ UNCHANGED input /\ nmeasure' = nmeasure /\ Mains' = Mains
      /\ KindOf(e)' = KindOf(e) /\ Whole' = Whole
  <2>1. Typed /\ BlockInv /\ input \in Inputs
    BY DEF CallInv, BlockInv, CloneType
  <2>2. UNCHANGED input
    BY <2>1, OnlyOneMoves DEF Elsewhere, Alone
  <2>3. Mains' = Mains
    BY <2>2, SameInput DEF Mains
  <2> QED
    BY <2>1, <2>2, <2>3 DEF nmeasure, nworker, nclone, KindOf, Whole
<1>1. PICK n : n = Blocks(0, e)
  OBVIOUS
<1>2. n \in Nat /\ n * nmeasure \in Nat
  BY <1>0, <1>1, Blocked
<1>3. Reached(e)'
  <2>1. ASSUME NEW m \in Mains
        PROVE  n * nmeasure <= measured'[m]
    <3>1. m \in Rank
      BY DEF Mains, Members
    <3>2. n * nmeasure <= measured[m]
      BY <1>1 DEF Reached
    <3> QED
      BY <1>2, <3>1, <3>2, MeasuredGrows
  <2> QED
    BY <1>0, <1>1, <2>1 DEF Reached
<1>4. PICK kind, d : kind = KindOf(e) /\ d = Whole
  OBVIOUS
<1>5. PICK K, N : K = Turns(n) /\ N = 1 .. n * nmeasure
  OBVIOUS
<1>6. /\ TotalSum(kind, N, d)' = TotalSum(kind, N, d)
      /\ n # 0 => TotalSum(kind, K, d)' = TotalSum(kind, K, d)
  <2>1. /\ \A m \in Mains : \A k \in N : Settled(m, k)
        /\ \A m \in Mains : \A k \in K : Settled(m, k)
    <3>1. n <= Blocks(0, e)
      BY <1>1, <1>2
    <3> QED
      BY <1>1, <1>2, <1>5, <3>1, ReachedSettles
  <2>2. N \in SUBSET (Nat \ {0}) /\ (n # 0 => K \in SUBSET (Nat \ {0}))
    BY <1>0, <1>2, <1>5, TurnsAre
  <2> QED
    BY <2>1, <2>2, TotalSumStays
<1>7. Turns(n)' = K /\ (1 .. n * nmeasure)' = N
  BY <1>0, <1>5 DEF Turns
<1>8. CASE kind = "array"
  <2>1. /\ array[0].accum = TotalSum(kind, N, d) /\ array[0].accumnorm = n
    BY <1>1, <1>4, <1>5, <1>8 DEF Global
  <2>2. array'[0].accum = TotalSum(kind, N, d)' /\ array'[0].accumnorm = n
    BY <1>4, <1>6, <1>8, <2>1 DEF SameGlobal
  <2>3. TotalSum("array", 1 .. Blocks(0, e) * nmeasure, Whole)' = TotalSum(kind, N, d)'
    BY <1>0, <1>1, <1>4, <1>7, <1>8 DEF TotalSum
  <2>4. Global(e)'
    BY <1>0, <1>1, <1>4, <1>8, <2>2, <2>3 DEF Global
  <2> QED
    BY <1>3, <2>4
<1>9. CASE kind # "array"
  <2>1. n # 0 => scalar[kind][0].value = TotalSum(kind, K, d)
    BY <1>1, <1>4, <1>5, <1>9 DEF Global
  <2>2. n # 0 => scalar'[kind][0].value = TotalSum(kind, K, d)'
    BY <1>4, <1>6, <1>9, <2>1 DEF SameGlobal
  <2>3. TotalSum(KindOf(e), Turns(Blocks(0, e)), Whole)' = TotalSum(kind, K, d)'
    <3>1. Turns(Blocks(0, e))' = Turns(n)'
      BY <1>1 DEF Turns
    <3> QED
      BY <1>0, <1>4, <1>7, <3>1 DEF TotalSum
  <2>4. Global(e)'
    BY <1>0, <1>1, <1>4, <1>9, <2>2, <2>3 DEF Global
  <2> QED
    BY <1>3, <2>4
<1> QED
  BY <1>8, <1>9

(* and so does what it has written.                                        *)
LEMMA BlockKept ==
  ASSUME CallInv, Loops, NEW x \in Rank, Step(x), \A m \in Mains : Clock(m),
         NEW e \in 1 .. NEst, Blocks(0, e) \in Nat, Reached(e),
         NEW b \in Nat \ {0}, b <= Blocks(0, e), BlockIs(b, e), written'[b] = written[b]
  PROVE  BlockIs(b, e)'
<1>0. /\ input \in Inputs /\ UNCHANGED input /\ nmeasure' = nmeasure
      /\ KindOf(e)' = KindOf(e) /\ Whole' = Whole
  <2>1. Typed /\ BlockInv /\ input \in Inputs
    BY DEF CallInv, BlockInv, CloneType
  <2>2. UNCHANGED input
    BY <2>1, OnlyOneMoves DEF Elsewhere, Alone
  <2> QED
    BY <2>1, <2>2 DEF nmeasure, nworker, nclone, KindOf, Whole
<1>1. PICK kind, d, a : kind = KindOf(e) /\ d = Whole /\ a = Whole * b
  OBVIOUS
<1>2. PICK K, N : K = Turns(b) /\ N = 1 .. b * nmeasure
  OBVIOUS
<1>3. /\ TotalSum(kind, N, a)' = TotalSum(kind, N, a)
      /\ TotalSum(kind, K, d)' = TotalSum(kind, K, d)
  <2>1. /\ \A m \in Mains : \A k \in N : Settled(m, k)
        /\ \A m \in Mains : \A k \in K : Settled(m, k)
    BY <1>2, ReachedSettles
  <2>2. N \in SUBSET (Nat \ {0}) /\ K \in SUBSET (Nat \ {0})
    BY <1>0, <1>2, TurnsAre
  <2> QED
    BY <2>1, <2>2, TotalSumStays
<1>4. /\ Turns(b)' = K /\ (1 .. b * nmeasure)' = N /\ KindOf(e)' = kind
      /\ Whole' = d /\ (Whole * b)' = a
  BY <1>0, <1>1, <1>2 DEF Turns
<1>5. written[b][kind] = IF kind = "array" THEN TotalSum(kind, N, a) ELSE TotalSum(kind, K, d)
  BY <1>1, <1>2 DEF BlockIs
<1>6. written'[b][kind] = IF kind = "array" THEN TotalSum(kind, N, a)' ELSE TotalSum(kind, K, d)'
  BY <1>3, <1>5
<1>7. /\ kind = "array" =>
           TotalSum("array", 1 .. b * nmeasure, Whole * b)' = TotalSum(kind, N, a)'
      /\ TotalSum(KindOf(e), Turns(b), Whole)' = TotalSum(kind, K, d)'
  BY <1>4 DEF TotalSum
<1> QED
  BY <1>4, <1>6, <1>7 DEF BlockIs

-----------------------------------------------------------------------------
(* The step of a rank is the one of its place.                             *)
LEMMA WhichStep ==
  ASSUME NEW x \in Rank, Step(x)
  PROVE  /\ at[x] = "measure" =>
              /\ EvaluateOther(x) \/ EvaluateRoot(x) \/ EvaluateAccRej(x)
              /\ UNCHANGED <<modelVars, loopVars>>
         /\ at[x] = "average" =>
              /\ AverageScalar(x) \/ AverageArray(x) \/ AverageAccRej(x)
              /\ UNCHANGED <<modelVars, loopVars>>
         /\ at[x] = "write" => WriteStep(x) /\ UNCHANGED <<modelVars, loopVars>>
         /\ at[x] \notin {"measure", "average"} => UNCHANGED <<scalar, array>>
         /\ at[x] # "write" => UNCHANGED written
<1>1. CASE EndTurn(x)
  BY <1>1 DEF EndTurn
<1>2. CASE \E more \in BOOLEAN : EndBlock(x, more)
  BY <1>2 DEF EndBlock, statVars
<1>3. CASE TryMove(x)
  BY <1>3 DEF TryMove, Propose, RecvState, RecvProposal, Decide, RecvDecision, RecvNewState,
              statVars
<1>4. CASE /\ EvaluateOther(x) \/ EvaluateRoot(x) \/ EvaluateAccRej(x)
           /\ UNCHANGED <<modelVars, loopVars>>
  BY <1>4 DEF EvaluateOther, EvaluateRoot, EvaluateAccRej
<1>5. CASE /\ AverageScalar(x) \/ AverageArray(x) \/ AverageAccRej(x)
           /\ UNCHANGED <<modelVars, loopVars>>
  BY <1>5 DEF AverageScalar, AverageArray, AverageAccRej
<1>6. CASE /\ WriteStep(x) \/ LeaveWorkerBarrier(x) \/ LeaveCloneBarrier(x)
           /\ UNCHANGED <<modelVars, loopVars>>
  BY <1>6 DEF WriteStep, LeaveWorkerBarrier, LeaveCloneBarrier, statVars
<1> QED
  BY <1>1, <1>2, <1>3, <1>4, <1>5, <1>6 DEF Step

(* What the first worker of a clone has in averageOverClones.              *)
LEMMA BlockSum ==
  ASSUME CallInv, DataInv, NEW m \in Rank, isCloneMain(m), at[m] = "average",
         NEW e \in 1 .. NEst, e = est[m], Reduced(e)
  PROVE  /\ block[m] \in Nat \ {0} /\ Blocks(m, e) = block[m] - 1
         /\ Own(KindOf(e), m) = CloneSum(m, KindOf(e), Turns(block[m]), nworker)
         /\ OwnNorm(KindOf(e), m) = nmeasure
         /\ KindOf(e) # "array" =>
              Total(KindOf(e), m) = CloneSum(m, KindOf(e), Turns(block[m]), nworker * nmeasure)
<1>1. Typed /\ BlockInv /\ input \in Inputs /\ Clock(m) /\ m \in Mains
  <2>1. Typed /\ BlockInv /\ input \in Inputs
    BY DEF CallInv, BlockInv, CloneType
  <2> QED
    BY <2>1, CrewSize DEF DataInv
<1>2. LocalSum(m, e)
  BY <1>1 DEF DataInv
<1>3. block[m] \in Nat \ {0} /\ measured[m] \in Nat
      /\ nmeasure \in Nat \ {0} /\ nworker \in Nat \ {0}
  BY <1>1, Blocked, PlacesOf DEF Clock
<1>4. Blocks(m, e) = block[m] - 1 /\ Evaluated(m, e) = measured[m]
  BY <1>3 DEF Blocks, Evaluated, Ended, Counting, Passed
<1>5. measured[m] = block[m] * nmeasure
  <2>1. block[m] * nmeasure \in Nat
    BY <1>1, <1>3, Blocked
  <2>2. measured[m] = block[m] * nmeasure + 1 - 1
    BY <1>1 DEF Clock, Closing
  <2> QED
    BY <2>1, <2>2
<1>6. Window(m, e) = Turns(block[m])
  BY <1>4, <1>5 DEF Window, Turns
<1>7. Evaluated(m, e) - Blocks(m, e) * nmeasure = nmeasure
  BY <1>1, <1>3, <1>4, <1>5, Blocked
<1>8. /\ Own(KindOf(e), m) = CloneSum(m, KindOf(e), Turns(block[m]), nworker)
      /\ OwnNorm(KindOf(e), m) = nmeasure
  BY <1>2, <1>6, <1>7 DEF LocalSum
<1>9. ASSUME KindOf(e) # "array"
      PROVE  Total(KindOf(e), m)
               = CloneSum(m, KindOf(e), Turns(block[m]), nworker * nmeasure)
  <2>1. Total(KindOf(e), m)
          = Over(CloneSum(m, KindOf(e), Turns(block[m]), nworker), nmeasure)
    BY <1>8, <1>9 DEF Total, Own, OwnNorm
  <2>2. Members("worker", m) \X Turns(block[m]) \in SUBSET Place
    <3>1. Members("worker", m) \in SUBSET Nat
      BY <1>1, RankNat DEF Members
    <3>2. Turns(block[m]) \in SUBSET Nat
      BY <1>1, <1>3, TurnsAre
    <3> QED
      BY <3>1, <3>2 DEF Place
  <2> QED
    BY <1>3, <2>1, <2>2, WeightsOver DEF CloneSum
<1> QED
  BY <1>3, <1>4, <1>8, <1>9

(* A scalar begins anew.                                                   *)
LEMMA ResetOne ==
  ASSUME Stores, NEW kind \in ScalarKind, NEW x \in Rank, NEW q, Reset(kind, x, q)
  PROVE  scalar'[kind][x] = [value |-> q, sum |-> EmptyBag, norm |-> 0]
<1>1. PICK new : new = [value |-> q, sum |-> EmptyBag, norm |-> 0]
  OBVIOUS
<1>2. Once(kind, x, new)
  BY <1>1 DEF Reset, Once
<1>3. DOMAIN new = {"value", "sum", "norm"}
  BY <1>1
<1>4. scalar'[kind][x] = new
  BY <1>2, <1>3, ScalarOne
<1> QED
  BY <1>1, <1>4

(* averageOverClones of scalars and histograms on the first workers.       *)
LEMMA AverageOf ==
  ASSUME CallInv, Stores, NEW x \in Rank, Step(x), Averages(x), isCloneMain(x),
         NEW kind \in ScalarKind \cup {"array"}, kind = Estimator(x)
  PROVE  /\ x # 0 => Contribute("clone", x, kind,
                       IF kind = "array"
                       THEN [value |-> array[x].value, norm |-> array[x].norm]
                       ELSE [sum |-> Total(kind, x)])
         /\ x = 0 => AllContributed("clone", 0) /\ Combine("clone", 0)
         /\ Own(kind, x)' = EmptyBag /\ OwnNorm(kind, x)' = 0
         /\ kind # "array" /\ x = 0 =>
              scalar'[kind][0].value = Over(Total(kind, 0) (+) SumOfBags("clone", 0, "sum"), nclone)
         /\ kind = "array" /\ x = 0 =>
              /\ array'[0].accum = array[0].accum
                   (+) Over(array[0].value (+) SumOfBags("clone", 0, "value"),
                            array[0].norm + SumOfCounts("clone", 0, "norm"))
              /\ array'[0].accumnorm = array[0].accumnorm + 1
<1>0. at[x] = "average" /\ "array" \notin ScalarKind /\ "accrej" \notin ScalarKind
  BY DEF Averages, ScalarKind, Accumulators
<1>1. CASE kind = "array"
  <2>1. AverageArray(x)
    BY <1>0, <1>1, WhichStep DEF AverageScalar, AverageAccRej
  <2>2. DOMAIN array = Rank /\ DOMAIN array[x] = {"value", "norm", "accum", "accumnorm"}
    BY DEF Stores
  <2>3. CASE x = 0
    <3>1. /\ AllContributed("clone", 0) /\ Combine("clone", 0)
          /\ Accumulated(0, array[0].value (+) SumOfBags("clone", 0, "value"),
                            array[0].norm + SumOfCounts("clone", 0, "norm"))
      BY <2>1, <2>3 DEF AverageArray, isMain
    <3>2. /\ array'[0].value = EmptyBag /\ array'[0].norm = 0
          /\ array'[0].accum = array[0].accum
                   (+) Over(array[0].value (+) SumOfBags("clone", 0, "value"),
                            array[0].norm + SumOfCounts("clone", 0, "norm"))
          /\ array'[0].accumnorm = array[0].accumnorm + 1
      BY <2>2, <2>3, <3>1 DEF Accumulated
    <3> QED
      BY <1>1, <2>3, <3>1, <3>2 DEF Own, OwnNorm
  <2>4. CASE x # 0
    <3>1. /\ Accumulated(x, array[x].value, array[x].norm)
          /\ Contribute("clone", x, "array", [value |-> array[x].value, norm |-> array[x].norm])
      BY <2>1, <2>4 DEF AverageArray, isMain
    <3>2. array'[x].value = EmptyBag /\ array'[x].norm = 0
      BY <2>2, <3>1 DEF Accumulated
    <3> QED
      BY <1>1, <2>4, <3>1, <3>2 DEF Own, OwnNorm
  <2> QED
    BY <2>3, <2>4
<1>2. CASE kind # "array"
  <2>1. AverageScalar(x) /\ kind \in ScalarKind
    BY <1>0, <1>2, WhichStep DEF AverageArray, AverageAccRej
  <2>2. /\ DOMAIN scalar = ScalarKind /\ DOMAIN scalar[kind] = Rank
    BY <2>1 DEF Stores
  <2>3. ~(UNCHANGED <<at, est>>)
    <3>1. est[x] \in Nat
      BY DEF CallInv, Typed
    <3> QED
      BY <1>0, <3>1 DEF Averages, Onward
  <2>4. CASE x = 0
    <3>1. /\ AllContributed("clone", 0) /\ Combine("clone", 0)
          /\ Reset(kind, 0, Over(Total(kind, 0) (+) SumOfBags("clone", 0, "sum"), nclone))
      BY <2>1, <2>3, <2>4 DEF AverageScalar, isMain, Reduces
    <3>2. scalar'[kind][0] = [value |-> Over(Total(kind, 0) (+) SumOfBags("clone", 0, "sum"), nclone),
                              sum |-> EmptyBag, norm |-> 0]
      BY <2>1, <2>4, <3>1, ResetOne
    <3> QED
      BY <1>2, <2>4, <3>1, <3>2 DEF Own, OwnNorm
  <2>5. CASE x # 0
    <3>1. /\ \E q : Reset(kind, x, q)
          /\ Contribute("clone", x, kind, [sum |-> Total(kind, x)])
      BY <2>1, <2>3, <2>5 DEF AverageScalar, isMain, Reduces
    <3>2. scalar'[kind][x].sum = EmptyBag /\ scalar'[kind][x].norm = 0
      <4>1. PICK q : Reset(kind, x, q)
        BY <3>1
      <4>2. scalar'[kind][x] = [value |-> q, sum |-> EmptyBag, norm |-> 0]
        BY <2>1, <4>1, ResetOne
      <4> QED
        BY <4>2
    <3> QED
      BY <1>2, <2>5, <3>1, <3>2 DEF Own, OwnNorm
  <2> QED
    BY <2>4, <2>5
<1> QED
  BY <1>1, <1>2

-----------------------------------------------------------------------------
(* The workers of a clone have given a measurement of the same turn.       *)
LEMMA CrewBrings ==
  ASSUME CallInv, NEW x \in Rank, isCloneMain(x), at[x] = "measure",
         NEW e \in 1 .. NEst, e = est[x], Reduced(e), AllContributed("worker", x)
  PROVE  \A s \in Others("worker", x) :
           Contribution("worker", s) = [sum |-> Measured(s, measured[x] + 1), nslice |-> 1]
<1>1. Typed /\ BlockInv /\ input \in Inputs /\ measured[x] \in Nat
  BY DEF CallInv, BlockInv, CloneType, Typed
<1>2. PICK S, J, X : Fine(x, S, J, X)
  BY DEF CallInv, CloneFine
<1>3. ASSUME NEW s \in Others("worker", x)
      PROVE  Contribution("worker", s) = [sum |-> Measured(s, measured[x] + 1), nslice |-> 1]
  <2>1. PICK lo : lo = <<measured[x], e>>
    OBVIOUS
  <2>2. callPlace(x) = lo /\ lo[1] = measured[x] /\ lo[2] = e /\ e \in Nat /\ e # 0
    BY <1>1, <2>1, EstimatorCount DEF callPlace
  <2>3. CallPlaces(S, J) \in SUBSET Place /\ lo \in CallPlaces(S, J)
    BY <1>1, <2>1, <2>2, PlacesSets DEF CallPlaces, Place
  <2>4. Sync({"call", "data"}, contrib["worker"][s], CallPlaces(S, J), Gifts(s), lo, callPlace(s))
    BY <1>2, <2>2 DEF Fine, Gives
  <2>5. contrib["worker"][s] # <<>>
    BY DEF AllContributed
  <2>6. Head(contrib["worker"][s]).data = [sum |-> Measured(s, lo[1] + 1), nslice |-> 1]
    BY <2>2, <2>3, <2>4, <2>5, TakenGift
  <2> QED
    BY <2>2, <2>6 DEF Contribution
<1> QED
  BY <1>3

(* A measurement as it is weighed.                                         *)
LEMMA WeighedIs ==
  ASSUME CallInv, NEW x \in Rank, isCloneMain(x), at[x] = "measure", Clock(x),
         NEW k, k = measured[x] + 1, NEW P, P = Members("worker", x) \X {k},
         NEW d, NEW kind
  PROVE  /\ P \in SUBSET Place /\ k \in Nat
         /\ Weighted(kind, x, Weights(P, d, Zero)) = Weights(P, d, Labels(kind))
<1>1. Typed /\ BlockInv /\ input \in Inputs /\ measured[x] \in Nat
  BY DEF CallInv, BlockInv, CloneType, Typed
<1>2. P \in SUBSET Place /\ k \in Nat
  BY <1>1, RankNat DEF Place, Members
<1>3. \A p \in P : Zero[p] = 0
  BY <1>2 DEF Zero
<1>4. StateOf(x, k) = modelState[x]
  BY <1>1 DEF StateOf, Clock
<1>5. \A p \in P : Labels(kind)[p] = IF kind = "partitioned" THEN modelState[x] ELSE 0
  <2>1. \A p \in P : p[1] \in Members("worker", x) /\ p[1] \in Rank /\ p[2] = k /\ p \in Place
    BY <1>2 DEF Members
  <2>2. \A p \in P : RootOf("worker", p[1]) = x
    BY <1>1, <2>1, FirstWorker
  <2> QED
    BY <1>4, <2>1, <2>2 DEF Labels
<1>6. CASE kind = "partitioned"
  BY <1>2, <1>3, <1>5, <1>6, WeightsIn DEF Weighted
<1>7. CASE kind # "partitioned"
  BY <1>2, <1>3, <1>5, <1>7, WeightsSame DEF Weighted
<1> QED
  BY <1>2, <1>6, <1>7

(* Measure::run adds what all workers have measured.                       *)
LEMMA EvaluateOf ==
  ASSUME CallInv, DataInv, NEW x \in Rank, Step(x), isCloneMain(x), at[x] = "measure",
         NEW kind \in ScalarKind \cup {"array"}, kind = Estimator(x), Reduced(est[x]),
         NEW P, P = Members("worker", x) \X {measured[x] + 1}
  PROVE  /\ Own(kind, x)' = Own(kind, x) (+) Weights(P, nworker, Labels(kind))
         /\ OwnNorm(kind, x)' = OwnNorm(kind, x) + 1
         /\ x = 0 => SameGlobal(est[x])
<1>0. /\ "accrej" \notin ScalarKind /\ "array" \notin ScalarKind /\ "array" # "partitioned"
      /\ KindOf(est[x]) = kind /\ measured[x] \in Nat
      /\ Stores /\ Clock(x) /\ input \in Inputs /\ nworker \in Nat \ {0} /\ est[x] \in 1 .. NEst
  <2>1. Typed /\ BlockInv /\ input \in Inputs /\ est[x] \in 1 .. NEst /\ measured[x] \in Nat
    BY DEF CallInv, BlockInv, CloneType, Typed, Course
  <2>2. Stores /\ Clock(x)
    BY DEF DataInv
  <2> QED
    BY <2>1, <2>2, Blocked DEF KindOf, Estimator, ScalarKind, Accumulators
<1>1. EvaluateRoot(x)
  <2>1. ~EvaluateOther(x) /\ ~EvaluateAccRej(x)
    BY <1>0 DEF EvaluateOther, EvaluateAccRej
  <2> QED
    BY <2>1, WhichStep
<1>2. PICK k, d : k = measured[x] + 1 /\ d = nworker
  OBVIOUS
<1>3. \A s \in Others("worker", x) :
        Contribution("worker", s) = [sum |-> Measured(s, k), nslice |-> 1]
  <2>1. AllContributed("worker", x)
    BY <1>1 DEF EvaluateRoot
  <2> QED
    BY <1>0, <1>2, <2>1, CrewBrings
<1>4. /\ 1 + SumOfCounts("worker", x, "nslice") = d
      /\ Measured(x, k) (+) SumOfBags("worker", x, "sum") = Weights(P, 1, Zero)
  <2>1. k \in Nat
    BY <1>0, <1>2
  <2> QED
    BY <1>0, <1>2, <1>3, <2>1, CrewGives
<1>5. P \in SUBSET Place /\ Weighted(kind, x, Weights(P, d, Zero)) = Weights(P, d, Labels(kind))
  BY <1>0, <1>2, WeighedIs
<1>6. Over(Weights(P, 1, Zero), d) = Weights(P, d, Zero)
  <2>1. d \in Nat \ {0} /\ 1 * d = d
    BY <1>0, <1>2
  <2>2. Over(Weights(P, 1, Zero), d) = Weights(P, 1 * d, Zero)
    BY <1>5, <2>1, WeightsOver
  <2> QED
    BY <2>1, <2>2
<1>7. CASE kind = "array"
  <2>1. /\ array' = [array EXCEPT ![x].value = @ (+) Weights(P, d, Zero), ![x].norm = @ + 1]
        /\ UNCHANGED scalar
    BY <1>0, <1>1, <1>2, <1>4, <1>6, <1>7 DEF EvaluateRoot
  <2>2. Weights(P, d, Zero) = Weights(P, d, Labels(kind))
    BY <1>0, <1>5, <1>7 DEF Weighted
  <2>3. DOMAIN array = Rank /\ DOMAIN array[x] = {"value", "norm", "accum", "accumnorm"}
    BY <1>0 DEF Stores
  <2>4. /\ array'[x].value = array[x].value (+) Weights(P, d, Zero)
        /\ array'[x].norm = array[x].norm + 1
        /\ array'[x].accum = array[x].accum /\ array'[x].accumnorm = array[x].accumnorm
    BY <2>1, <2>3
  <2> QED
    BY <1>0, <1>2, <1>7, <2>2, <2>4 DEF Own, OwnNorm, SameGlobal
<1>8. CASE kind # "array"
  <2>1. kind \in ScalarKind /\ Stored(kind, x, Weights(P, d, Zero))
    BY <1>0, <1>1, <1>2, <1>4, <1>6, <1>8 DEF EvaluateRoot
  <2>2. PICK a, b : /\ a = scalar[kind][x].sum (+) Weights(P, d, Labels(kind))
                    /\ b = scalar[kind][x].norm + 1
    OBVIOUS
  <2>3. Twice(kind, x, a, b)
    BY <1>5, <2>1, <2>2 DEF Stored, Twice
  <2>4. PICK new : /\ DOMAIN new = {"value", "sum", "norm"}
                   /\ new.value = scalar[kind][x].value /\ new.sum = a /\ new.norm = b
                   /\ Once(kind, x, new)
    BY <1>0, <2>1, <2>3, ScalarTwice
  <2>5. scalar'[kind][x] = new
    BY <1>0, <2>1, <2>4, ScalarOne
  <2> QED
    BY <1>0, <1>2, <1>8, <2>2, <2>4, <2>5 DEF Own, OwnNorm, SameGlobal
<1> QED
  BY <1>7, <1>8

(* Where nothing of the model is sampled the labels stay.                  *)
LEMMA LabelsSame ==
  ASSUME UNCHANGED <<input, modelState, found>>, NEW m, NEW n, NEW kind, NEW K, NEW d
  PROVE  /\ CloneSum(m, kind, K, d)' = CloneSum(m, kind, K, d)
         /\ TotalSum(kind, K, d)' = TotalSum(kind, K, d)
         /\ Turns(n)' = Turns(n) /\ nworker' = nworker /\ nmeasure' = nmeasure
         /\ Whole' = Whole
<1>1. /\ Rank' = Rank
      /\ \A r : Members("worker", r)' = Members("worker", r)
      /\ \A r : RootOf("worker", r)' = RootOf("worker", r)
  BY SameInput
<1>2. Labels(kind)' = Labels(kind)
  BY <1>1 DEF Labels, StateOf
<1>3. nworker' = nworker /\ nmeasure' = nmeasure /\ nclone' = nclone
  BY DEF nworker, nmeasure, nclone
<1>4. CloneSum(m, kind, K, d)' = CloneSum(m, kind, K, d)
  <2>1. PICK M, L : M = Members("worker", m) /\ L = Labels(kind)
    OBVIOUS
  <2>2. Members("worker", m)' = M /\ Labels(kind)' = L
    BY <1>1, <1>2, <2>1
  <2> QED
    BY <2>1, <2>2 DEF CloneSum, Weights, Terms
<1>5. TotalSum(kind, K, d)' = TotalSum(kind, K, d)
  BY <1>1, <1>2 DEF TotalSum, Weights, Terms
<1>6. Turns(n)' = Turns(n) /\ Whole' = Whole
  BY <1>3 DEF Turns, Whole
<1> QED
  BY <1>3, <1>4, <1>5, <1>6

(* After the step the first worker has added up what the estimator has     *)
(* seen,                                                                   *)
LEMMA LocalEvaluate ==
  ASSUME CallInv, DataInv, NEW x \in Mains, Step(x), at[x] = "measure",
         NEW e \in 1 .. NEst, e = est[x], Reduced(e), Evaluates(x)
  PROVE  LocalSum(x, e)'
<1>0. /\ Typed /\ BlockInv /\ input \in Inputs /\ x \in Rank /\ isCloneMain(x)
      /\ Loops /\ Clock(x) /\ LocalSum(x, e) /\ measured[x] \in Nat
      /\ KindOf(e) = Estimator(x) /\ KindOf(e) \in ScalarKind \cup {"array"}
  <2>1. Typed /\ BlockInv /\ input \in Inputs /\ x \in Rank /\ isCloneMain(x)
    BY DEF CallInv, BlockInv, CloneType, Mains, Members
  <2>2. Loops /\ Clock(x) /\ LocalSum(x, e)
    BY <2>1 DEF DataInv
  <2>3. measured[x] \in Nat
    BY <2>1, PlacesOf
  <2> QED
    BY <2>1, <2>2, <2>3, KindsAre DEF KindOf, Estimator
<1>1. UNCHANGED <<input, modelState, found>>
  <2>1. UNCHANGED input
    BY <1>0, OnlyOneMoves DEF Elsewhere, Alone
  <2> QED
    BY <1>0, <2>1, WhichStep DEF modelVars, loopVars
<1>2. PICK kind, d, k : kind = KindOf(e) /\ d = nworker /\ k = measured[x] + 1
  OBVIOUS
<1>3. PICK K, P : K = Window(x, e) /\ P = Members("worker", x) \X {k}
  OBVIOUS
<1>4. /\ Own(kind, x)' = Own(kind, x) (+) Weights(P, d, Labels(kind))
      /\ OwnNorm(kind, x)' = OwnNorm(kind, x) + 1
  BY <1>0, <1>2, <1>3, EvaluateOf
<1>5. /\ Evaluated(x, e)' = Evaluated(x, e) + 1 /\ Evaluated(x, e) = measured[x]
      /\ Blocks(x, e)' = Blocks(x, e)
  <2>1. ~Averages(x)
    BY DEF Averages
  <2> QED
    BY <1>0, <2>1, SeenNext
<1>6. /\ Blocks(x, e) * nmeasure \in Nat /\ Blocks(x, e) * nmeasure <= measured[x]
      /\ K \in SUBSET (Nat \ {0})
  BY <1>0, <1>3, WindowIs
<1>7. KindOf(e)' = kind /\ nworker' = d /\ nmeasure' = nmeasure
      /\ Members("worker", x)' = Members("worker", x)
  BY <1>1, <1>2, SameInput DEF KindOf, nworker, nmeasure
<1>8. Window(x, e)' = K \cup {k} /\ k \notin K
  <2>1. K = Blocks(x, e) * nmeasure + 1 .. measured[x]
    BY <1>3, <1>5 DEF Window
  <2>2. Window(x, e)' = Blocks(x, e) * nmeasure + 1 .. measured[x] + 1
    BY <1>5, <1>7 DEF Window
  <2> QED
    BY <1>0, <1>2, <1>6, <2>1, <2>2
<1>9. CloneSum(x, kind, K, d) (+) Weights(P, d, Labels(kind)) = CloneSum(x, kind, K \cup {k}, d)
  <2>1. PICK Q : Q = Members("worker", x) \X K
    OBVIOUS
  <2>2. P \in SUBSET Place /\ Q \in SUBSET Place /\ Q \cap P = {}
    <3>1. Members("worker", x) \in SUBSET Nat /\ k \in Nat
      BY <1>0, <1>2, RankNat DEF Members
    <3> QED
      BY <1>3, <1>6, <1>8, <2>1, <3>1 DEF Place
  <2>3. Weights(Q, d, Labels(kind)) (+) Weights(P, d, Labels(kind))
          = Weights(Q \cup P, d, Labels(kind))
    BY <2>2, TermsUnion
  <2>4. Q \cup P = Members("worker", x) \X (K \cup {k})
    BY <1>3, <2>1
  <2> QED
    BY <2>1, <2>3, <2>4 DEF CloneSum
<1>10. Own(kind, x) = CloneSum(x, kind, K, d) /\ OwnNorm(kind, x) = measured[x] - Blocks(x, e) * nmeasure
  BY <1>0, <1>2, <1>3, <1>5 DEF LocalSum
<1>11. CloneSum(x, kind, K \cup {k}, d)' = CloneSum(x, kind, K \cup {k}, d)
  BY <1>1, LabelsSame
<1>12. CloneSum(x, KindOf(e), Window(x, e), nworker)' = CloneSum(x, kind, K \cup {k}, d)'
  BY <1>7, <1>8 DEF CloneSum
<1>13. Own(KindOf(e), x)' = Own(kind, x)' /\ OwnNorm(KindOf(e), x)' = OwnNorm(kind, x)'
  BY <1>7 DEF Own, OwnNorm
<1>14. OwnNorm(kind, x)' = (Evaluated(x, e) - Blocks(x, e) * nmeasure)'
  <2>1. PICK p, v : p = Blocks(x, e) * nmeasure /\ v = measured[x]
    OBVIOUS
  <2>2. OwnNorm(kind, x)' = v - p + 1
    BY <1>4, <1>10, <2>1
  <2>3. Evaluated(x, e)' = v + 1 /\ (Blocks(x, e) * nmeasure)' = p
    BY <1>5, <1>7, <2>1
  <2>4. v - p + 1 = (v + 1) - p
    BY <1>0, <1>6, <2>1
  <2>5. Evaluated(x, e)' - (Blocks(x, e) * nmeasure)' = (v + 1) - p
    BY <2>3
  <2> QED
    BY <2>2, <2>4, <2>5
<1> QED
  BY <1>4, <1>9, <1>10, <1>11, <1>12, <1>13, <1>14 DEF LocalSum

(* or nothing after an average.                                            *)
LEMMA LocalAverage ==
  ASSUME CallInv, DataInv, NEW x \in Mains, Step(x), Averages(x),
         NEW e \in 1 .. NEst, e = est[x], Reduced(e)
  PROVE  LocalSum(x, e)'
<1>0. /\ Typed /\ BlockInv /\ input \in Inputs /\ x \in Rank /\ isCloneMain(x)
      /\ Loops /\ Clock(x) /\ Stores /\ at[x] = "average"
      /\ KindOf(e) = Estimator(x) /\ KindOf(e) \in ScalarKind \cup {"array"}
  <2>1. Typed /\ BlockInv /\ input \in Inputs /\ x \in Rank /\ isCloneMain(x)
    BY DEF CallInv, BlockInv, CloneType, Mains, Members
  <2>2. Loops /\ Clock(x) /\ Stores /\ at[x] = "average"
    BY <2>1 DEF DataInv, Averages
  <2> QED
    BY <2>1, <2>2, KindsAre DEF KindOf, Estimator
<1>1. UNCHANGED input
  BY <1>0, OnlyOneMoves DEF Elsewhere, Alone
<1>2. PICK kind : kind = KindOf(e)
  OBVIOUS
<1>3. Own(kind, x)' = EmptyBag /\ OwnNorm(kind, x)' = 0
  BY <1>0, <1>2, AverageOf
<1>4. /\ Evaluated(x, e)' = measured[x] /\ Blocks(x, e)' = block[x]
  <2>1. ~Evaluates(x)
    BY DEF Evaluates, Averages
  <2>2. Evaluated(x, e) = measured[x]
    BY <1>0 DEF Evaluated, CallInv, Typed
  <2>3. Blocks(x, e) = block[x] - 1 /\ Blocks(x, e)' = Blocks(x, e) + 1
    BY <1>0, SeenNext
  <2>4. block[x] \in Nat
    BY <1>0, PlacesOf
  <2> QED
    BY <1>0, <2>1, <2>2, <2>3, <2>4, SeenNext
<1>5. measured[x] = block[x] * nmeasure /\ block[x] * nmeasure \in Nat
  <2>1. block[x] * nmeasure \in Nat
    BY <1>0, Blocked, PlacesOf
  <2>2. measured[x] = block[x] * nmeasure + 1 - 1
    BY <1>0 DEF Clock, Closing
  <2> QED
    BY <2>1, <2>2
<1>6. nmeasure' = nmeasure /\ KindOf(e)' = kind
  BY <1>1, <1>2 DEF nmeasure, KindOf
<1>7. Window(x, e)' = {}
  <2>1. Window(x, e)' = block[x] * nmeasure + 1 .. block[x] * nmeasure
    BY <1>4, <1>5, <1>6 DEF Window
  <2> QED
    BY <1>5, <2>1
<1>8. CloneSum(x, KindOf(e), Window(x, e), nworker)' = EmptyBag
  <2>1. (Members("worker", x) \X Window(x, e))' = {}
    BY <1>7
  <2>2. CloneSum(x, KindOf(e), Window(x, e), nworker)' = SetToBag({})
    BY <2>1 DEF CloneSum, Weights, Terms
  <2>3. Weights({}, 1, Zero) = SetToBag({})
    BY DEF Weights, Terms
  <2> QED
    BY <2>2, <2>3, WeightsNone
<1>9. Own(KindOf(e), x)' = Own(kind, x)' /\ OwnNorm(KindOf(e), x)' = OwnNorm(kind, x)'
  BY <1>6 DEF Own, OwnNorm
<1>10. (Evaluated(x, e) - Blocks(x, e) * nmeasure)' = 0
  BY <1>4, <1>5, <1>6
<1> QED
  BY <1>3, <1>8, <1>9, <1>10 DEF LocalSum

(* In every step.                                                          *)
LEMMA LocalNext ==
  ASSUME CallInv, DataInv, NEW x \in Rank, Step(x), NEW m \in Mains,
         NEW e \in 1 .. NEst, Reduced(e)
  PROVE  LocalSum(m, e)'
<1>0. /\ Typed /\ BlockInv /\ input \in Inputs /\ m \in Rank /\ isCloneMain(m)
      /\ Loops /\ Clock(m) /\ Stores /\ LocalSum(m, e) /\ Course(x) /\ UNCHANGED input
  <2>1. Typed /\ BlockInv /\ input \in Inputs /\ m \in Rank /\ isCloneMain(m) /\ Course(x)
    BY DEF CallInv, BlockInv, CloneType, Mains, Members
  <2>2. Loops /\ Clock(m) /\ Stores /\ LocalSum(m, e)
    BY <2>1 DEF DataInv
  <2> QED
    BY <2>1, <2>2, OnlyOneMoves DEF Elsewhere, Alone
<1>1. ~Concerns(x, m, e) => SameOwn(m, e)
  <2>1. Distinct
    BY DEF DataInv
  <2> QED
    BY <1>0, <2>1, OthersKept, StepStores
<1>2. CASE m # x \/ est[x] # e
  <2>1. SameOwn(m, e)
    BY <1>1, <1>2 DEF Concerns
  <2> QED
    BY <1>0, <1>2, <2>1, LocalKept
<1>3. CASE m = x /\ est[x] = e /\ at[x] = "measure" /\ Evaluates(x)
  BY <1>3, LocalEvaluate
<1>4. CASE m = x /\ est[x] = e /\ Averages(x)
  BY <1>4, LocalAverage
<1>5. CASE m = x /\ est[x] = e /\ at[x] = "measure" /\ ~Evaluates(x)
  <2>1. /\ EvaluateOther(x) \/ EvaluateRoot(x) \/ EvaluateAccRej(x)
        /\ UNCHANGED <<modelVars, loopVars>>
    BY <1>5, WhichStep
  <2>2. UNCHANGED measured /\ NextEstimator(x, "endTurn")
    BY <2>1 DEF EvaluateOther, EvaluateRoot, EvaluateAccRej
  <2>3. x \in DOMAIN est /\ x \in DOMAIN at /\ est[x] \in 1 .. NEst /\ NEst \in Nat
    BY <1>0, EstimatorCount DEF Typed, BlockInv, CloneType, Course
  <2>4. Onward(x, "endTurn")
    BY <2>2, <2>3 DEF Onward, NextEstimator, Goto, NEst
  <2>5. Evaluates(x)
    BY <1>5, <2>1, <2>2, <2>4 DEF Evaluates, Same, modelVars, loopVars
  <2> QED
    BY <1>5, <2>5
<1>6. CASE m = x /\ est[x] = e /\ at[x] = "average" /\ ~Averages(x)
  <2>1. /\ AverageScalar(x) \/ AverageArray(x) \/ AverageAccRej(x)
        /\ UNCHANGED <<modelVars, loopVars>>
    BY <1>6, WhichStep
  <2>2. \/ UNCHANGED <<scalar, array>>
        \/ UNCHANGED measured /\ NextEstimator(x, "write")
    BY <2>1 DEF AverageScalar, AverageArray, AverageAccRej
  <2>3. x \in DOMAIN est /\ x \in DOMAIN at /\ est[x] \in 1 .. NEst /\ NEst \in Nat
    BY <1>0, EstimatorCount DEF Typed, BlockInv, CloneType, Course
  <2>4. CASE NextEstimator(x, "write") /\ UNCHANGED measured
    <3>1. Onward(x, "write")
      BY <2>3, <2>4 DEF Onward, NextEstimator, Goto, NEst
    <3>2. Averages(x)
      BY <1>6, <2>1, <2>4, <3>1 DEF Averages, Same, modelVars, loopVars
    <3> QED
      BY <1>6, <3>2
  <2>5. CASE UNCHANGED <<scalar, array>>
    <3>1. SameOwn(m, e)
      BY <1>0, <2>5 DEF SameOwn, Own, OwnNorm, KindOf
    <3>2. ~Evaluates(x)
      BY <1>6 DEF Evaluates
    <3> QED
      BY <1>0, <1>6, <3>1, <3>2, LocalKept
  <2> QED
    BY <2>2, <2>4, <2>5
<1>7. CASE m = x /\ est[x] = e /\ at[x] \notin {"measure", "average"}
  <2>1. SameOwn(m, e) /\ ~Evaluates(x) /\ ~Averages(x)
    BY <1>1, <1>7 DEF Concerns, Evaluates, Averages
  <2> QED
    BY <1>0, <1>7, <2>1, LocalKept
<1> QED
  BY <1>2, <1>3, <1>4, <1>5, <1>6, <1>7

-----------------------------------------------------------------------------
(* Only averageOverClones uses the communicator of the clones.             *)
LEMMA CloneQueueSame ==
  ASSUME CallInv, NEW x \in Rank, Step(x), ~Averages(x)
  PROVE  contrib'["clone"] = contrib["clone"]
<1>0. Typed
  BY DEF CallInv
<1>1. CASE EndTurn(x) \/ \E more \in BOOLEAN : EndBlock(x, more)
  BY <1>1 DEF EndTurn, EndBlock
<1>2. CASE TryMove(x)
  <2>1. \/ UNCHANGED contrib \/ Combine("worker", x)
        \/ \E call, data : Contribute("worker", x, call, data)
    BY <1>2 DEF TryMove, Propose, RecvState, RecvProposal, Decide, RecvDecision, RecvNewState
  <2> QED
    BY <1>0, <2>1, Contributed, Combined DEF Comm
<1>3. CASE EvaluateOther(x) \/ EvaluateRoot(x) \/ EvaluateAccRej(x)
  <2>1. \/ UNCHANGED contrib \/ Combine("worker", x)
        \/ \E call, data : Contribute("worker", x, call, data)
    BY <1>3 DEF EvaluateOther, EvaluateRoot, EvaluateAccRej
  <2> QED
    BY <1>0, <2>1, Contributed, Combined DEF Comm
<1>4. CASE /\ AverageScalar(x) \/ AverageArray(x) \/ AverageAccRej(x)
           /\ UNCHANGED <<modelVars, loopVars>>
  <2>1. \/ UNCHANGED contrib
        \/ UNCHANGED measured /\ at[x] = "average" /\ NextEstimator(x, "write")
    BY <1>4 DEF AverageScalar, AverageArray, AverageAccRej
  <2>2. CASE UNCHANGED measured /\ at[x] = "average" /\ NextEstimator(x, "write")
    <3>1. x \in DOMAIN est /\ x \in DOMAIN at /\ est[x] \in 1 .. NEst /\ NEst \in Nat
      <4>1. Course(x) /\ BlockInv /\ input \in Inputs
        BY DEF CallInv, BlockInv, CloneType
      <4> QED
        BY <1>0, <4>1, EstimatorCount DEF Typed, BlockInv, CloneType, Course
    <3>2. Onward(x, "write")
      BY <2>2, <3>1 DEF Onward, NextEstimator, Goto, NEst
    <3>3. Averages(x)
      BY <1>4, <2>2, <3>2 DEF Averages, Same, modelVars, loopVars
    <3> QED
      BY <3>3
  <2> QED
    BY <2>1, <2>2
<1>5. CASE WriteStep(x) \/ LeaveWorkerBarrier(x) \/ LeaveCloneBarrier(x)
  BY <1>5 DEF WriteStep, LeaveWorkerBarrier, LeaveCloneBarrier
<1> QED
  BY <1>1, <1>2, <1>3, <1>4, <1>5 DEF Step

(* An average moves the rank past one call.                                *)
LEMMA AverageMoves ==
  ASSUME CallInv, Loops, NEW x \in Rank, Step(x), Averages(x)
  PROVE  /\ UNCHANGED <<input, modelState, found>>
         /\ averagePlace(x) = <<block[x], est[x]>>
         /\ \A comm \in {"clone", "world"} :
              IF Estimator(x) = "accrej" <=> comm = "world"
              THEN Only(AveragePlaces(comm), averagePlace(x), averagePlace(x)')
              ELSE Nothing(AveragePlaces(comm), averagePlace(x), averagePlace(x)')
         /\ Estimator(x) = "accrej" \/ ~isCloneMain(x) =>
              contrib'["clone"] = contrib["clone"]
<1>0. Typed /\ BlockInv /\ Course(x) /\ at[x] = "average"
  BY DEF CallInv, Averages
<1>1. /\ AverageScalar(x) \/ AverageArray(x) \/ AverageAccRej(x)
      /\ UNCHANGED <<modelVars, loopVars>>
  BY <1>0, WhichStep
<1>2. ~UNCHANGED <<at, est>>
  <2>1. est[x] \in Nat
    BY <1>0 DEF Typed
  <2> QED
    BY <1>0, <2>1 DEF Averages, Onward
<1>3. NextEstimator(x, "write") /\ UNCHANGED <<input, measured, block, modelVars, bcast>>
  BY <1>1, <1>2 DEF AverageScalar, AverageArray, AverageAccRej, loopVars
<1>4. /\ averagePlace(x) = <<block[x], est[x]>>
      /\ \A comm \in {"clone", "world"} :
           IF Estimator(x) = "accrej" <=> comm = "world"
           THEN Only(AveragePlaces(comm), averagePlace(x), averagePlace(x)')
           ELSE Nothing(AveragePlaces(comm), averagePlace(x), averagePlace(x)')
  BY <1>0, <1>3, Averaging
<1>5. ASSUME Estimator(x) = "accrej"
      PROVE  contrib'["clone"] = contrib["clone"]
  <2>1. AverageAccRej(x)
    BY <1>1, <1>5 DEF AverageScalar, AverageArray, ScalarKind, Accumulators
  <2>2. Combine("world", x) \/ \E call, data : Contribute("world", x, call, data)
    BY <2>1 DEF AverageAccRej
  <2> QED
    BY <1>0, <2>2, Contributed, Combined DEF Comm
<1>6. ASSUME Estimator(x) # "accrej", ~isCloneMain(x)
      PROVE  contrib'["clone"] = contrib["clone"]
  <2>1. x # 0
    BY <1>0, <1>6, FirstRank DEF BlockInv, CloneType
  <2> QED
    BY <1>1, <1>2, <1>6, <2>1 DEF AverageScalar, AverageArray, AverageAccRej, isMain
<1> QED
  BY <1>1, <1>3, <1>4, <1>5, <1>6 DEF modelVars, loopVars

(* What the first workers have given to rank 0 after a step.               *)
LEMMA BringsNext ==
  ASSUME CallInv, DataInv, NEW x \in Rank, Step(x), NEW s \in Others("clone", 0)
  PROVE  Brings(s)'
<1>0. /\ Typed /\ BlockInv /\ input \in Inputs /\ Loops /\ Stores /\ Brings(s)
      /\ s \in Rank /\ isCloneMain(s) /\ s # 0 /\ 0 \in Rank /\ isCloneMain(0)
      /\ Clock(s) /\ Clock(0) /\ Course(x)
  <2>1. Typed /\ BlockInv /\ input \in Inputs /\ Course(x) /\ 0 \in Rank /\ isCloneMain(0)
    BY FirstRank DEF CallInv, BlockInv, CloneType
  <2>2. s \in Rank /\ isCloneMain(s) /\ s # 0
    BY DEF Others, Members
  <2> QED
    BY <2>1, <2>2 DEF DataInv
<1>1. UNCHANGED input /\ \A r \in Rank \ {x} : averagePlace(r)' = averagePlace(r)
  <2>1. UNCHANGED input /\ \A r \in Rank \ {x} : Stays(r)
    BY <1>0, OnlyOneMoves DEF Elsewhere, Alone
  <2> QED
    BY <2>1, StaysPlaces
<1>2. PICK K, P : K = Reports(s)' /\ P = AveragePlaces("clone")
  OBVIOUS
<1>3. PICK lo, hi, l, h, q, p :
        /\ lo = averagePlace(0) /\ hi = averagePlace(s)
        /\ l = averagePlace(0)' /\ h = averagePlace(s)'
        /\ q = contrib["clone"][s] /\ p = contrib'["clone"][s]
  OBVIOUS
<1>4. Sync({"data"}, q, P, K, lo, hi)
  BY <1>0, <1>2, <1>3, BringsStay
<1>5. Sync({"data"}, p, P, K, l, h) => Brings(s)'
  <2>1. AveragePlaces("clone")' = P
    BY <1>1, <1>2, SameInput
  <2> QED
    BY <1>2, <1>3, <2>1 DEF Brings, Sync
<1>6. ASSUME p = q, Nothing(P, averagePlace(x), averagePlace(x)') \/ (x # 0 /\ x # s)
      PROVE  Sync({"data"}, p, P, K, l, h)
  <2>1. CASE x = 0
    <3>1. h = hi /\ Nothing(P, lo, l)
      BY <1>0, <1>1, <1>3, <1>6, <2>1
    <3> QED
      BY <1>4, <1>6, <3>1, SyncReaderIdle
  <2>2. CASE x = s
    <3>1. l = lo /\ Nothing(P, hi, h)
      BY <1>0, <1>1, <1>3, <1>6, <2>2
    <3> QED
      BY <1>4, <1>6, <3>1, SyncWriterIdle
  <2>3. CASE x # 0 /\ x # s
    BY <1>0, <1>1, <1>3, <1>4, <1>6, <2>3
  <2> QED
    BY <2>1, <2>2, <2>3
<1>7. CASE ~Averages(x)
  <2>1. p = q
    BY <1>3, <1>7, CloneQueueSame
  <2>2. Nothing(P, averagePlace(x), averagePlace(x)')
    BY <1>0, <1>2, <1>7, AverageIdle
  <2> QED
    BY <1>5, <1>6, <2>1, <2>2
<1>8. CASE Averages(x) /\ (Estimator(x) = "accrej" \/ ~isCloneMain(x))
  <2>1. p = q
    BY <1>0, <1>3, <1>8, AverageMoves
  <2>2. Nothing(P, averagePlace(x), averagePlace(x)') \/ (x # 0 /\ x # s)
    <3>1. Estimator(x) = "accrej" => Nothing(P, averagePlace(x), averagePlace(x)')
      BY <1>0, <1>2, <1>8, AverageMoves
    <3> QED
      BY <1>0, <1>8, <3>1
  <2> QED
    BY <1>5, <1>6, <2>1, <2>2
<1>9. CASE Averages(x) /\ Estimator(x) # "accrej" /\ isCloneMain(x)
  <2>1. PICK kind : kind = Estimator(x) /\ kind \in ScalarKind \cup {"array"}
        /\ kind = KindOf(est[x])
    <3>1. est[x] \in 1 .. NEst /\ Estimator(x) = KindOf(est[x]) /\ Reduced(est[x])
      BY <1>0, <1>9 DEF Course, Estimator, KindOf, Reduced
    <3> QED
      BY <1>0, <3>1, KindsAre
  <2>2. Only(P, averagePlace(x), averagePlace(x)')
    BY <1>0, <1>2, <1>9, AverageMoves
  <2>3. CASE x # 0 /\ x # s
    <3>1. PICK data : Contribute("clone", x, kind, data)
      BY <1>0, <1>9, <2>1, <2>3, AverageOf
    <3>2. p = q
      BY <1>0, <1>3, <2>3, <3>1, Contributed DEF Comm
    <3> QED
      BY <1>5, <1>6, <2>3, <3>2
  <2>4. CASE x = 0
    <3>1. AllContributed("clone", 0) /\ Combine("clone", 0)
      BY <1>0, <1>9, <2>1, <2>4, AverageOf
    <3>2. p = Tail(q) /\ q # <<>>
      BY <1>0, <1>3, <3>1, Combined DEF Comm, AllContributed
    <3>3. h = hi /\ Only(P, lo, l)
      BY <1>0, <1>1, <1>3, <2>2, <2>4
    <3>4. Sync({"data"}, Tail(q), P, K, l, hi)
      BY <1>4, <3>2, <3>3, SyncRead
    <3> QED
      BY <1>5, <3>2, <3>3, <3>4
  <2>5. CASE x = s
    <3>1. PICK data : /\ Contribute("clone", x, kind, data)
                      /\ data = IF kind = "array"
                                THEN [value |-> array[x].value, norm |-> array[x].norm]
                                ELSE [sum |-> Total(kind, x)]
      BY <1>0, <1>9, <2>1, <2>5, AverageOf
    <3>2. p = Append(q, [call |-> kind, data |-> data])
      BY <1>0, <1>3, <2>5, <3>1, Contributed DEF Comm
    <3>3. l = lo /\ Only(P, hi, h)
      BY <1>0, <1>1, <1>3, <2>2, <2>5
    <3>4. K[hi] = [data |-> data]
      <4>1. /\ averagePlace(x) = <<block[x], est[x]>>
            /\ UNCHANGED <<input, modelState, found>>
        BY <1>0, <1>9, AverageMoves
      <4>2. hi \in Place /\ hi[1] = block[x] /\ hi[2] = est[x]
            /\ input.estimators[hi[2]] = kind /\ est[x] \in 1 .. NEst
        BY <1>0, <1>3, <2>1, <2>5, <4>1, PlacesOf DEF KindOf, Course
      <4>3. PICK e, n : e = est[x] /\ n = block[x]
        OBVIOUS
      <4>4. /\ Own(kind, x) = CloneSum(x, kind, Turns(n), nworker)
            /\ OwnNorm(kind, x) = nmeasure
            /\ kind # "array" => Total(kind, x) = CloneSum(x, kind, Turns(n), nworker * nmeasure)
        <5>1. at[x] = "average" /\ e \in 1 .. NEst /\ Reduced(e) /\ kind = KindOf(e)
          BY <1>9, <2>1, <4>2, <4>3 DEF Averages, Reduced, Estimator
        <5> QED
          BY <1>0, <1>9, <2>5, <4>3, <5>1, BlockSum
      <4>5. Report(x, kind, n) = [data |-> data]
        BY <3>1, <4>4 DEF Report, Own, OwnNorm
      <4>6. Report(x, kind, n)' = Report(x, kind, n)
        <5>1. \A c, d : CloneSum(x, kind, c, d)' = CloneSum(x, kind, c, d)
          BY <4>1, LabelsSame
        <5>2. Turns(n)' = Turns(n) /\ nworker' = nworker /\ nmeasure' = nmeasure
          BY <4>1, LabelsSame
        <5>3. PICK T, a, b : T = Turns(n) /\ a = nworker /\ b = nworker * nmeasure
          OBVIOUS
        <5>4. /\ CloneSum(x, kind, Turns(n), nworker)' = CloneSum(x, kind, T, a)'
              /\ CloneSum(x, kind, Turns(n), nworker * nmeasure)' = CloneSum(x, kind, T, b)'
          BY <5>2, <5>3 DEF CloneSum
        <5>5. /\ CloneSum(x, kind, Turns(n), nworker)' = CloneSum(x, kind, Turns(n), nworker)
              /\ CloneSum(x, kind, Turns(n), nworker * nmeasure)'
                   = CloneSum(x, kind, Turns(n), nworker * nmeasure)
          BY <5>1, <5>3, <5>4
        <5> QED
          BY <5>2, <5>5 DEF Report
      <4>7. K[hi] = Report(x, kind, n)'
        <5>1. input'.estimators[hi[2]] = kind
          BY <4>1, <4>2
        <5>2. K[hi] = Report(s, input.estimators[hi[2]], hi[1])'
          BY <1>2, <4>2 DEF Reports
        <5> QED
          BY <2>5, <4>2, <4>3, <5>1, <5>2 DEF Report, CloneSum
      <4> QED
        BY <4>5, <4>6, <4>7
    <3>5. Agree({"data"}, [call |-> kind, data |-> data], K[hi])
      BY <3>4 DEF Agree
    <3>6. Sync({"data"}, p, P, K, lo, h)
      BY <1>4, <3>2, <3>3, <3>5, SyncWrite
    <3> QED
      BY <1>5, <3>3, <3>6
  <2> QED
    BY <2>3, <2>4, <2>5
<1> QED
  BY <1>7, <1>8, <1>9

-----------------------------------------------------------------------------
(* Clone s has measured block n and given its sum to the average.          *)
GivenBy(s, kind, n) ==
  /\ n * nmeasure <= measured[s]
  /\ kind = "array" =>
       /\ Contribution("clone", s)["value"] = CloneSum(s, kind, Turns(n), nworker)
       /\ Contribution("clone", s)["norm"] = nmeasure
  /\ kind # "array" =>
       Contribution("clone", s)["sum"] = CloneSum(s, kind, Turns(n), nworker * nmeasure)

(* What rank 0 takes in its average is of the same block.                  *)
LEMMA ClonesBring ==
  ASSUME CallInv, DataInv, at[0] = "average", NEW e \in 1 .. NEst, e = est[0], Reduced(e),
         AllContributed("clone", 0), NEW n, n = block[0], NEW kind, kind = KindOf(e),
         NEW s \in Others("clone", 0)
  PROVE  GivenBy(s, kind, n)
<1>0. /\ Typed /\ BlockInv /\ input \in Inputs /\ s \in Rank /\ Brings(s) /\ Clock(s)
      /\ block[0] \in Nat /\ 0 \in Rank
  <2>1. Typed /\ BlockInv /\ input \in Inputs /\ s \in Rank
    BY DEF CallInv, BlockInv, CloneType, Others, Members
  <2>2. 0 \in Rank
    BY <2>1, FirstRank
  <2> QED
    BY <2>1, <2>2, PlacesOf DEF DataInv
<1>1. PICK lo, hi, q, P : /\ lo = averagePlace(0) /\ hi = averagePlace(s)
                          /\ q = contrib["clone"][s] /\ P = AveragePlaces("clone")
  OBVIOUS
<1>2. lo = <<n, e>> /\ lo \in P /\ lo \in Place /\ lo[1] = n /\ lo[2] = e
  <2>1. lo = <<n, e>>
    BY <1>1 DEF averagePlace, Ended, Counting, Passed
  <2>2. e \in Nat
    BY <1>0, EstimatorCount
  <2> QED
    BY <1>0, <1>1, <2>1, <2>2 DEF AveragePlaces, Place, Reduced
<1>3. q # <<>>
  BY <1>1 DEF AllContributed
<1>4. Sync({"data"}, q, P, Reports(s), lo, hi)
  BY <1>0, <1>1 DEF Brings
<1>5. n * nmeasure <= measured[s]
  <2>1. Less(lo, hi)
    BY <1>3, <1>4, SyncBehind
  <2> QED
    BY <1>0, <1>1, <1>2, <2>1, AveragePast
<1>6. PICK K : K = Reports(s)
  OBVIOUS
<1>7. Agree({"data"}, Head(q), K[lo])
  <2>1. P \in SUBSET Place
    BY <1>1, PlacesSets
  <2> QED
    BY <1>2, <1>3, <1>4, <1>6, <2>1, TakenFirst
<1>8. K[lo] = Report(s, kind, n)
  BY <1>2, <1>6 DEF Reports, KindOf
<1>9. Head(q).data = Report(s, kind, n).data
  BY <1>7, <1>8 DEF Agree, Report
<1> QED
  BY <1>1, <1>5, <1>9 DEF Report, Contribution, GivenBy

(* A mean of a block of all clones.                                        *)
LEMMA AllBring ==
  ASSUME CallInv, DataInv, at[0] = "average", NEW e \in 1 .. NEst, e = est[0], Reduced(e),
         AllContributed("clone", 0), NEW n, n = block[0], NEW kind, kind = KindOf(e),
         NEW d, d = Whole
  PROVE  /\ n \in Nat \ {0} /\ Rank \X Turns(n) \in SUBSET Place
         /\ kind = "array" =>
              Over(array[0].value (+) SumOfBags("clone", 0, "value"),
                   array[0].norm + SumOfCounts("clone", 0, "norm"))
                = TotalSum(kind, Turns(n), d)
         /\ kind # "array" =>
              Over(Total(kind, 0) (+) SumOfBags("clone", 0, "sum"), nclone)
                = TotalSum(kind, Turns(n), d)
<1>0. /\ input \in Inputs /\ 0 \in Rank /\ isCloneMain(0)
      /\ nmeasure \in Nat \ {0} /\ nworker \in Nat \ {0} /\ nclone \in Nat \ {0}
  <2>1. input \in Inputs
    BY DEF CallInv, BlockInv, CloneType
  <2> QED
    BY <2>1, FirstRank, Blocked
<1>1. /\ n \in Nat \ {0}
      /\ Own(kind, 0) = CloneSum(0, kind, Turns(n), nworker)
      /\ OwnNorm(kind, 0) = nmeasure
      /\ kind # "array" => Total(kind, 0) = CloneSum(0, kind, Turns(n), nworker * nmeasure)
  BY <1>0, BlockSum
<1>2. PICK K, L, a, b : /\ K = Turns(n) /\ L = Labels(kind)
                        /\ a = nworker /\ b = nworker * nmeasure
  OBVIOUS
<1>3. K \in SUBSET Nat /\ Rank \X K \in SUBSET Place
  <2>1. K \in SUBSET Nat
    BY <1>0, <1>1, <1>2, TurnsAre
  <2> QED
    BY <1>0, <2>1, RankNat DEF Place
<1>4. /\ a \in Nat \ {0} /\ b \in Nat \ {0} /\ nmeasure * nclone \in Nat \ {0}
      /\ a * (nmeasure * nclone) = d /\ b * nclone = d
  <2>1. PICK u, v, w \in Nat \ {0} : u = nworker /\ v = nmeasure /\ w = nclone
    BY <1>0
  <2>2. u * v \in Nat \ {0} /\ v * w \in Nat \ {0} /\ u * (v * w) = (u * v) * w
    <3>1. u * v \in Nat /\ v * w \in Nat /\ u * (v * w) = (u * v) * w
      OBVIOUS
    <3>2. u * v # 0 /\ v * w # 0
      OBVIOUS
    <3> QED
      BY <3>1, <3>2
  <2> QED
    BY <1>2, <2>1, <2>2 DEF Whole
<1>5. CASE kind = "array"
  <2>1. ASSUME NEW s \in Others("clone", 0)
        PROVE  /\ Contribution("clone", s)["value"] = Weights(Members("worker", s) \X K, a, L)
               /\ Contribution("clone", s)["norm"] = nmeasure
    <3>1. GivenBy(s, kind, n)
      BY ClonesBring
    <3> QED
      BY <1>2, <1>5, <3>1 DEF GivenBy, CloneSum
  <2>2. Weights(Members("worker", 0) \X K, a, L) (+) SumOfBags("clone", 0, "value")
          = Weights(Rank \X K, a, L)
    BY <1>0, <1>3, <2>1, ClonesGive
  <2>3. nmeasure + SumOfCounts("clone", 0, "norm") = nmeasure * nclone
    <3>1. PICK c \in Int : c = nmeasure
      BY <1>0
    <3>2. \A s \in Others("clone", 0) : Contribution("clone", s)["norm"] = c
      BY <2>1, <3>1
    <3>3. c + SumOfCounts("clone", 0, "norm") = c * nclone
      BY <1>0, <3>2, ClonesCount
    <3> QED
      BY <3>1, <3>3
  <2>4. array[0].value = Weights(Members("worker", 0) \X K, a, L) /\ array[0].norm = nmeasure
    BY <1>1, <1>2, <1>5 DEF Own, OwnNorm, CloneSum
  <2>5. Over(Weights(Rank \X K, a, L), nmeasure * nclone) = Weights(Rank \X K, d, L)
    BY <1>3, <1>4, WeightsOver
  <2> QED
    BY <1>1, <1>2, <1>3, <1>5, <2>2, <2>3, <2>4, <2>5 DEF TotalSum
<1>6. CASE kind # "array"
  <2>1. ASSUME NEW s \in Others("clone", 0)
        PROVE  Contribution("clone", s)["sum"] = Weights(Members("worker", s) \X K, b, L)
    <3>1. GivenBy(s, kind, n)
      BY ClonesBring
    <3> QED
      BY <1>2, <1>6, <3>1 DEF GivenBy, CloneSum
  <2>2. Weights(Members("worker", 0) \X K, b, L) (+) SumOfBags("clone", 0, "sum")
          = Weights(Rank \X K, b, L)
    BY <1>0, <1>3, <2>1, ClonesGive
  <2>4. Total(kind, 0) = Weights(Members("worker", 0) \X K, b, L)
    BY <1>1, <1>2, <1>6 DEF CloneSum
  <2>5. Over(Weights(Rank \X K, b, L), nclone) = Weights(Rank \X K, d, L)
    BY <1>0, <1>3, <1>4, WeightsOver
  <2> QED
    BY <1>1, <1>2, <1>3, <1>6, <2>2, <2>4, <2>5 DEF TotalSum
<1> QED
  BY <1>5, <1>6

(* The blocks so far and the next one.                                     *)
LEMMA BlocksJoin ==
  ASSUME input \in Inputs, NEW n \in Nat \ {0}, NEW kind, NEW d
  PROVE  TotalSum(kind, 1 .. (n - 1) * nmeasure, d) (+) TotalSum(kind, Turns(n), d)
           = TotalSum(kind, 1 .. n * nmeasure, d)
<1>1. /\ nmeasure \in Nat \ {0} /\ (n - 1) * nmeasure \in Nat
      /\ (n - 1) * nmeasure + nmeasure = n * nmeasure
  BY Blocked
<1>2. PICK p, t \in Nat : p = (n - 1) * nmeasure /\ t = n * nmeasure /\ p <= t
  <2>1. n * nmeasure \in Nat
    BY Blocked
  <2> QED
    BY <1>1, <2>1
<1>3. Turns(n) = p + 1 .. t
  BY <1>2 DEF Turns
<1>4. PICK A, B, C : A = Rank \X (1 .. p) /\ B = Rank \X (p + 1 .. t) /\ C = Rank \X (1 .. t)
  OBVIOUS
<1>5. A \in SUBSET Place /\ B \in SUBSET Place /\ A \cap B = {} /\ A \cup B = C
  <2>1. Rank \in SUBSET Nat
    BY RankNat
  <2>2. (1 .. p) \in SUBSET Nat /\ (p + 1 .. t) \in SUBSET Nat
        /\ (1 .. p) \cap (p + 1 .. t) = {} /\ (1 .. p) \cup (p + 1 .. t) = 1 .. t
    BY <1>2
  <2> QED
    BY <1>4, <2>1, <2>2 DEF Place
<1>6. Weights(A, d, Labels(kind)) (+) Weights(B, d, Labels(kind)) = Weights(C, d, Labels(kind))
  BY <1>5, TermsUnion
<1> QED
  BY <1>2, <1>3, <1>4, <1>6 DEF TotalSum

-----------------------------------------------------------------------------
(* Rank 0 has the mean of all clones after an average,                     *)
LEMMA GlobalAverage ==
  ASSUME CallInv, DataInv, 0 \in Rank, Step(0), Averages(0),
         NEW e \in 1 .. NEst, e = est[0], Reduced(e)
  PROVE  Reached(e)' /\ Global(e)'
<1>0. /\ Typed /\ BlockInv /\ input \in Inputs /\ isCloneMain(0) /\ Loops /\ Stores
      /\ at[0] = "average" /\ Global(e) /\ Clock(0) /\ UNCHANGED <<input, modelState, found>>
      /\ KindOf(e) = Estimator(0) /\ KindOf(e) \in ScalarKind \cup {"array"}
      /\ Mains' = Mains
  <2>1. Typed /\ BlockInv /\ input \in Inputs /\ isCloneMain(0)
    BY FirstRank DEF CallInv, BlockInv, CloneType
  <2>2. Loops /\ Stores /\ at[0] = "average" /\ Global(e) /\ Clock(0)
    BY DEF DataInv, Averages
  <2>3. UNCHANGED <<input, modelState, found>>
    BY <2>2, AverageMoves
  <2>4. Mains' = Mains
    BY <2>3, SameInput DEF Mains
  <2> QED
    BY <2>1, <2>2, <2>3, <2>4, KindsAre DEF KindOf, Estimator
<1>1. PICK n, kind, d : n = block[0] /\ kind = KindOf(e) /\ d = Whole
  OBVIOUS
<1>2. /\ AllContributed("clone", 0)
      /\ kind # "array" =>
           scalar'[kind][0].value = Over(Total(kind, 0) (+) SumOfBags("clone", 0, "sum"), nclone)
      /\ kind = "array" =>
           /\ array'[0].accum = array[0].accum
                (+) Over(array[0].value (+) SumOfBags("clone", 0, "value"),
                         array[0].norm + SumOfCounts("clone", 0, "norm"))
           /\ array'[0].accumnorm = array[0].accumnorm + 1
  BY <1>0, <1>1, AverageOf
<1>3. /\ n \in Nat \ {0}
      /\ kind = "array" =>
           Over(array[0].value (+) SumOfBags("clone", 0, "value"),
                array[0].norm + SumOfCounts("clone", 0, "norm")) = TotalSum(kind, Turns(n), d)
      /\ kind # "array" =>
           Over(Total(kind, 0) (+) SumOfBags("clone", 0, "sum"), nclone)
             = TotalSum(kind, Turns(n), d)
  BY <1>0, <1>1, <1>2, AllBring
<1>4. Blocks(0, e) = n - 1 /\ Blocks(0, e)' = n
  <2>1. Blocks(0, e)' = Blocks(0, e) + 1 /\ Blocks(0, e) = block[0] - 1
    BY <1>0, SeenNext
  <2> QED
    BY <1>1, <1>3, <2>1
<1>5. KindOf(e)' = kind /\ Whole' = d /\ nmeasure' = nmeasure /\ Turns(n)' = Turns(n)
  BY <1>0, <1>1, LabelsSame DEF KindOf
<1>6. Reached(e)'
  <2>1. ASSUME NEW m \in Mains
        PROVE  n * nmeasure <= measured'[m]
    <3>1. m \in Rank /\ n * nmeasure \in Nat
      BY <1>0, <1>3, Blocked DEF Mains, Members
    <3>2. n * nmeasure <= measured[m]
      <4>1. CASE m # 0
        <5>1. m \in Others("clone", 0)
          BY <1>0, <4>1, MainsSize
        <5> QED
          BY <1>0, <1>1, <1>2, <5>1, ClonesBring DEF GivenBy
      <4>2. CASE m = 0
        <5>1. measured[0] = n * nmeasure + 1 - 1
          BY <1>0, <1>1 DEF Clock, Closing
        <5> QED
          BY <3>1, <4>2, <5>1
      <4> QED
        BY <4>1, <4>2
    <3>3. measured[m] \in Nat /\ measured'[m] \in Nat /\ measured[m] <= measured'[m]
      BY <1>0, <3>1, MeasuredGrows
    <3> QED
      BY <3>1, <3>2, <3>3
  <2> QED
    BY <1>0, <1>4, <1>5, <2>1 DEF Reached
<1>7. \A K : TotalSum(kind, K, d)' = TotalSum(kind, K, d)
  BY <1>0, LabelsSame
<1>8. CASE kind = "array"
  <2>1. array[0].accum = TotalSum(kind, 1 .. (n - 1) * nmeasure, d) /\ array[0].accumnorm = n - 1
    <3>1. KindOf(e) = "array" /\ Whole = d /\ Blocks(0, e) = n - 1
      BY <1>1, <1>4, <1>8
    <3> QED
      BY <1>0, <1>8, <3>1 DEF Global
  <2>2. array'[0].accum = TotalSum(kind, 1 .. n * nmeasure, d)
    BY <1>0, <1>2, <1>3, <1>8, <2>1, BlocksJoin
  <2>3. array'[0].accumnorm = n
    BY <1>2, <1>3, <1>8, <2>1
  <2>4. PICK N : N = 1 .. n * nmeasure
    OBVIOUS
  <2>5. array'[0].accum = TotalSum(kind, N, d)'
    BY <1>7, <2>2, <2>4
  <2>6. TotalSum("array", 1 .. Blocks(0, e) * nmeasure, Whole)' = TotalSum(kind, N, d)'
    BY <1>4, <1>5, <1>8, <2>4 DEF TotalSum
  <2>7. Global(e)'
    BY <1>4, <1>5, <1>8, <2>3, <2>5, <2>6 DEF Global
  <2> QED
    BY <1>6, <2>7
<1>9. CASE kind # "array"
  <2>1. scalar'[kind][0].value = TotalSum(kind, Turns(n), d)
    BY <1>2, <1>3, <1>9
  <2>2. PICK K : K = Turns(n)
    OBVIOUS
  <2>3. scalar'[kind][0].value = TotalSum(kind, K, d)'
    BY <1>7, <2>1, <2>2
  <2>4. TotalSum(KindOf(e), Turns(Blocks(0, e)), Whole)' = TotalSum(kind, K, d)'
    <3>1. Turns(Blocks(0, e))' = Turns(n)'
      BY <1>4 DEF Turns
    <3> QED
      BY <1>5, <2>2, <3>1 DEF TotalSum
  <2>5. Global(e)'
    BY <1>4, <1>5, <1>9, <2>3, <2>4 DEF Global
  <2> QED
    BY <1>6, <2>5
<1> QED
  BY <1>8, <1>9

(* as after every step.                                                    *)
LEMMA GlobalNext ==
  ASSUME CallInv, DataInv, NEW x \in Rank, Step(x), NEW e \in 1 .. NEst, Reduced(e)
  PROVE  Reached(e)' /\ Global(e)'
<1>0. /\ Typed /\ BlockInv /\ input \in Inputs /\ 0 \in Rank /\ isCloneMain(0)
      /\ Loops /\ Stores /\ Clock(0) /\ Reached(e) /\ Global(e) /\ Course(x)
      /\ UNCHANGED input /\ \A m \in Mains : Clock(m)
  <2>1. Typed /\ BlockInv /\ input \in Inputs /\ 0 \in Rank /\ isCloneMain(0) /\ Course(x)
    BY FirstRank DEF CallInv, BlockInv, CloneType
  <2>2. Loops /\ Stores /\ Clock(0) /\ Reached(e) /\ Global(e) /\ \A m \in Mains : Clock(m)
    BY <2>1 DEF DataInv, Mains, Members
  <2> QED
    BY <2>1, <2>2, OnlyOneMoves DEF Elsewhere, Alone
<1>1. Blocks(0, e) \in Nat
  BY <1>0, WindowIs
<1>2. CASE x = 0 /\ est[x] = e /\ Averages(x)
  BY <1>0, <1>2, GlobalAverage
<1>3. CASE ~(x = 0 /\ est[x] = e /\ Averages(x))
  <2>1. Blocks(0, e)' = Blocks(0, e)
    <3>1. CASE x = 0
      BY <1>0, <1>3, <3>1, SeenNext
    <3>2. CASE x # 0
      <4>1. Stays(0)
        BY <1>0, <3>2, OnlyOneMoves DEF Elsewhere, Alone
      <4> QED
        BY <4>1 DEF Stays, Blocks, Ended, Counting, Passed
    <3> QED
      BY <3>1, <3>2
  <2>2. SameGlobal(e)
    <3>1. CASE ~Concerns(x, 0, e)
      <4>1. SameOwn(0, e)
        <5>1. Distinct
          BY DEF DataInv
        <5> QED
          BY <1>0, <3>1, <5>1, OthersKept, StepStores
      <4> QED
        BY <4>1 DEF SameOwn, SameGlobal
    <3>2. CASE x = 0 /\ est[x] = e /\ at[x] = "measure"
      <4>1. KindOf(e) = Estimator(x) /\ KindOf(e) \in ScalarKind \cup {"array"}
        BY <1>0, <3>2, KindsAre DEF KindOf, Estimator
      <4> QED
        BY <1>0, <3>2, <4>1, EvaluateOf
    <3>3. CASE x = 0 /\ est[x] = e /\ at[x] = "average"
      <4>1. ~Averages(x)
        BY <1>3, <3>3
      <4>2. /\ AverageScalar(x) \/ AverageArray(x) \/ AverageAccRej(x)
            /\ UNCHANGED <<modelVars, loopVars>>
        BY <3>3, WhichStep
      <4>3. \/ UNCHANGED <<scalar, array>>
            \/ UNCHANGED measured /\ NextEstimator(x, "write")
        BY <4>2 DEF AverageScalar, AverageArray, AverageAccRej
      <4>4. ~(UNCHANGED measured /\ NextEstimator(x, "write"))
        <5>1. x \in DOMAIN est /\ x \in DOMAIN at /\ est[x] \in 1 .. NEst /\ NEst \in Nat
          BY <1>0, EstimatorCount DEF Typed, BlockInv, CloneType, Course
        <5>2. NextEstimator(x, "write") => Onward(x, "write")
          BY <5>1 DEF Onward, NextEstimator, Goto, NEst
        <5> QED
          BY <3>3, <4>1, <4>2, <5>2 DEF Averages, Same, modelVars, loopVars
      <4> QED
        BY <4>3, <4>4 DEF SameGlobal
    <3> QED
      BY <3>1, <3>2, <3>3 DEF Concerns
  <2> QED
    BY <1>0, <1>1, <2>1, <2>2, GlobalKept
<1> QED
  BY <1>2, <1>3

(* Rank 0 writes what it has.                                              *)
LEMMA BlocksNext ==
  ASSUME CallInv, DataInv, NEW x \in Rank, Step(x), NEW e \in 1 .. NEst, Reduced(e)
  PROVE  \A b \in 1 .. Len(written') : BlockIs(b, e)'
<1>0. /\ Typed /\ BlockInv /\ input \in Inputs /\ 0 \in Rank /\ isCloneMain(0)
      /\ Loops /\ Stores /\ Clock(0) /\ Reached(e) /\ Global(e) /\ Course(0) /\ Course(x)
      /\ UNCHANGED input /\ \A m \in Mains : Clock(m)
      /\ \A b \in 1 .. Len(written) : BlockIs(b, e)
      /\ KindOf(e) \in ScalarKind \cup {"array"}
  <2>1. Typed /\ BlockInv /\ input \in Inputs /\ 0 \in Rank /\ isCloneMain(0) /\ Course(x)
        /\ Course(0)
    BY FirstRank DEF CallInv, BlockInv, CloneType
  <2>2. /\ Loops /\ Stores /\ Clock(0) /\ Reached(e) /\ Global(e)
        /\ \A m \in Mains : Clock(m)
        /\ \A b \in 1 .. Len(written) : BlockIs(b, e)
    BY <2>1 DEF DataInv, Mains, Members
  <2> QED
    BY <2>1, <2>2, OnlyOneMoves, KindsAre DEF Elsewhere, Alone
<1>1. Blocks(0, e) \in Nat /\ Len(written) \in Nat /\ Len(written) <= Blocks(0, e)
      /\ (at[0] = "write" => Blocks(0, e) = Len(written) + 1)
      /\ \E T : written \in Seq(T)
  <2>1. /\ Blocks(0, e) \in Nat /\ block[0] \in Nat /\ \E T : written \in Seq(T)
        /\ Len(written) = IF at[0] \in Ended THEN block[0] ELSE block[0] - 1
    BY <1>0, WindowIs, PlacesOf DEF BlockInv, Written, CloneType
  <2>2. Len(written) \in Nat
    BY <2>1
  <2>3. Len(written) <= Blocks(0, e) /\ (at[0] = "write" => Blocks(0, e) = Len(written) + 1)
    BY <2>1 DEF Blocks, Ended, Counting, Passed
  <2> QED
    BY <2>1, <2>2, <2>3
<1>2. ASSUME NEW b \in 1 .. Len(written), written'[b] = written[b]
      PROVE  BlockIs(b, e)'
  <2>1. b \in Nat \ {0} /\ b <= Blocks(0, e) /\ BlockIs(b, e)
    BY <1>0, <1>1
  <2> QED
    BY <1>0, <1>1, <1>2, <2>1, BlockKept
<1>3. CASE UNCHANGED written
  BY <1>2, <1>3
<1>4. CASE x = 0 /\ at[0] = "write"
  <2>1. PICK b : b = Len(written) + 1
    OBVIOUS
  <2>2. b \in Nat \ {0} /\ b = Blocks(0, e)
    BY <1>1, <1>4, <2>1
  <2>3. /\ written' = Append(written, [kind \in Kind |-> Reported(kind)])
        /\ UNCHANGED <<modelVars, loopVars, scalar, array>>
    BY <1>4, WhichStep DEF WriteStep, isMain
  <2>4. PICK new : new = [kind \in Kind |-> Reported(kind)]
    OBVIOUS
  <2>5. /\ Len(written') = b /\ written'[b] = new
        /\ \A a \in 1 .. Len(written) : written'[a] = written[a]
    <3>1. written' = Append(written, new)
      BY <2>3, <2>4
    <3>2. PICK T : written \in Seq(T)
      BY <1>1
    <3>3. written \in Seq(T \cup {new})
      BY <3>2
    <3> QED
      BY <2>1, <3>1, <3>3
  <2>6. PICK kind, d : kind = KindOf(e) /\ d = Whole
    OBVIOUS
  <2>7. new[kind] = Reported(kind)
    BY <1>0, <2>4, <2>6 DEF Kind
  <2>8. UNCHANGED <<input, modelState, found>>
    BY <1>0, <2>3 DEF modelVars, loopVars
  <2>9. /\ KindOf(e)' = kind /\ Whole' = d /\ nmeasure' = nmeasure /\ Turns(b)' = Turns(b)
        /\ \A K, a : TotalSum(kind, K, a)' = TotalSum(kind, K, a)
    BY <2>6, <2>8, LabelsSame DEF KindOf
  <2>10. ASSUME kind = "array" PROVE BlockIs(b, e)'
    <3>1. "array" \notin ScalarKind
      BY DEF ScalarKind, Accumulators
    <3>2. Reported(kind) = Over(array[0].accum, array[0].accumnorm)
      BY <2>10, <3>1 DEF Reported
    <3>3. array[0].accum = TotalSum(kind, 1 .. b * nmeasure, d) /\ array[0].accumnorm = b
      BY <1>0, <2>2, <2>6, <2>10 DEF Global
    <3>4. Rank \X (1 .. b * nmeasure) \in SUBSET Place /\ d \in Nat \ {0}
      <4>1. Rank \in SUBSET Nat /\ nworker \in Nat \ {0} /\ nmeasure \in Nat \ {0}
            /\ nclone \in Nat \ {0}
        BY <1>0, RankNat, Blocked
      <4>2. (1 .. b * nmeasure) \in SUBSET Nat
        OBVIOUS
      <4>3. nworker * nmeasure \in Nat \ {0}
        BY <4>1
      <4>4. PICK c \in Nat \ {0} : c = nworker * nmeasure
        BY <4>3
      <4>5. d = c * nclone /\ d \in Nat \ {0}
        BY <2>6, <4>1, <4>4 DEF Whole
      <4> QED
        BY <4>1, <4>2, <4>5 DEF Place
    <3>5. Reported(kind) = TotalSum(kind, 1 .. b * nmeasure, d * b)
      BY <2>2, <3>2, <3>3, <3>4, WeightsOver DEF TotalSum
    <3>6. PICK N, a : N = 1 .. b * nmeasure /\ a = d * b
      OBVIOUS
    <3>7. TotalSum("array", 1 .. b * nmeasure, Whole * b)' = TotalSum(kind, N, a)'
      BY <2>9, <2>10, <3>6 DEF TotalSum
    <3>8. written'[b][kind] = TotalSum(kind, N, a)'
      BY <2>5, <2>7, <2>9, <3>5, <3>6
    <3> QED
      BY <2>9, <2>10, <3>7, <3>8 DEF BlockIs
  <2>11. ASSUME kind # "array" PROVE BlockIs(b, e)'
    <3>1. Reported(kind) = scalar[kind][0].value
      BY <1>0, <2>6, <2>11 DEF Reported, ScalarKind, Accumulators
    <3>2. scalar[kind][0].value = TotalSum(kind, Turns(b), d)
      BY <1>0, <2>2, <2>6, <2>11 DEF Global
    <3>3. PICK K : K = Turns(b)
      OBVIOUS
    <3>4. TotalSum(KindOf(e), Turns(b), Whole)' = TotalSum(kind, K, d)'
      BY <2>9, <3>3 DEF TotalSum
    <3>5. written'[b][kind] = TotalSum(kind, K, d)'
      BY <2>5, <2>7, <2>9, <3>1, <3>2, <3>3
    <3> QED
      BY <2>9, <2>11, <3>4, <3>5 DEF BlockIs
  <2>12. BlockIs(b, e)'
    BY <2>10, <2>11
  <2>13. ASSUME NEW a \in 1 .. Len(written')
         PROVE  BlockIs(a, e)'
    <3>1. a = b \/ a \in 1 .. Len(written)
      BY <1>1, <2>1, <2>5
    <3> QED
      BY <1>2, <2>5, <2>12, <3>1
  <2> QED
    BY <2>13
<1>5. UNCHANGED written \/ (x = 0 /\ at[0] = "write")
  BY WhichStep DEF WriteStep, isMain
<1> QED
  BY <1>3, <1>4, <1>5

-----------------------------------------------------------------------------
(* Every step keeps the invariant.                                         *)
LEMMA DataStep ==
  ASSUME CallInv, DataInv, NEW x \in Rank, Step(x)
  PROVE  DataInv'
<1>0. /\ Typed /\ BlockInv /\ input \in Inputs /\ Loops /\ Stores /\ Course(x)
      /\ \A r \in Rank : Clock(r)
  <2>1. Typed /\ BlockInv /\ input \in Inputs /\ Course(x)
    BY DEF CallInv, BlockInv, CloneType
  <2> QED
    BY <2>1 DEF DataInv
<1>1. UNCHANGED input /\ Elsewhere(x)
  BY <1>0, OnlyOneMoves DEF Elsewhere, Alone
<1>2. Rank' = Rank /\ Mains' = Mains /\ Others("clone", 0)' = Others("clone", 0)
      /\ NEst' = NEst /\ \A e : Reduced(e)' <=> Reduced(e)
  BY <1>1, SameInput DEF Mains, Reduced
<1>3. Stores' /\ Distinct'
  <2>1. Distinct
    BY DEF DataInv
  <2>2. Stores'
    BY <1>0, <1>1, <2>1, OthersKept, StepStores
  <2> QED
    BY <1>1, <2>1, <2>2 DEF Distinct
<1>4. Loops'
  BY <1>1 DEF Elsewhere
<1>5. ASSUME NEW r \in Rank
      PROVE  Clock(r)'
  <2>1. CASE r = x
    BY <1>0, <2>1, ClockStep
  <2>2. CASE r # x
    BY <1>0, <1>1, <2>2, ClockSame DEF Elsewhere, Alone, Stays
  <2> QED
    BY <2>1, <2>2
<1>6. \A s \in Others("clone", 0) : Brings(s)'
  BY BringsNext
<1>7. \A e \in 1 .. NEst : Reduced(e) =>
        /\ \A m \in Mains : LocalSum(m, e)'
        /\ Reached(e)' /\ Global(e)'
        /\ \A b \in 1 .. Len(written') : BlockIs(b, e)'
  BY LocalNext, GlobalNext, BlocksNext
<1> QED
  BY <1>2, <1>3, <1>4, <1>5, <1>6, <1>7 DEF DataInv

-----------------------------------------------------------------------------
(* In the beginning nothing is measured, given or written.                 *)
LEMMA DataInit == Init /\ Distinct => DataInv
<1> SUFFICES ASSUME Init, Distinct PROVE DataInv
  OBVIOUS
<1>1. CallInv /\ Typed /\ BlockInv /\ input \in Inputs
  BY CallsInit DEF CallInv, BlockInv, CloneType
<1>2. FirstStep \in {"sample", "measure"} /\ 0 \in Rank /\ nmeasure \in Nat \ {0}
  BY <1>1, FirstRank, Blocked DEF FirstStep
<1>3. ASSUME NEW r \in Rank
      PROVE  /\ at[r] = FirstStep /\ est[r] = 1 /\ measured[r] = 0 /\ block[r] = 1
             /\ turn[r] = 1 /\ found[r] = <<>>
             /\ \A c \in Comm : contrib[c][r] = <<>>
  BY DEF Init, ClonesInit, StatisticsInit, ModelInit
<1>4. Stores /\ Loops /\ written = <<>>
  BY DEF Init, StatisticsInit, Stores, Loops
<1>5. ASSUME NEW r \in Rank
      PROVE  Clock(r)
  <2>1. 1 \in 1 .. nmeasure /\ at[r] \notin Closing /\ Len(found[r]) = 0
        /\ 0 * nmeasure = 0 /\ found[r] \in Seq({})
    <3>1. 1 \in 1 .. nmeasure /\ 0 * nmeasure = 0
      BY <1>2
    <3>2. at[r] \notin Closing
      BY <1>2, <1>3 DEF Closing, Ended, Counting, Passed
    <3>3. Len(found[r]) = 0 /\ found[r] \in Seq({})
      <4>1. <<>> \in Seq({}) /\ Len(<<>>) = 0
        OBVIOUS
      <4>2. found[r] = <<>>
        BY <1>3
      <4> QED
        BY <4>1, <4>2
    <3> QED
      BY <3>1, <3>2, <3>3
  <2>2. measured[r] = (block[r] - 1) * nmeasure + turn[r] - 1
    <3>1. block[r] - 1 = 0 /\ turn[r] - 1 = 0 /\ measured[r] = 0
      BY <1>3
    <3>2. (block[r] - 1) * nmeasure = 0
      BY <2>1, <3>1
    <3> QED
      BY <1>3, <3>1, <3>2
  <2>3. block[r] \in Nat \ {0} /\ turn[r] \in 1 .. nmeasure /\ turn[r] = 1
        /\ Len(found[r]) = measured[r]
    BY <1>3, <2>1
  <2> QED
    BY <2>1, <2>2, <2>3 DEF Clock
<1>6. ASSUME NEW s \in Others("clone", 0)
      PROVE  Brings(s)
  <2>1. s \in Rank
    BY DEF Others, Members
  <2>2. averagePlace(s) = averagePlace(0)
    BY <1>2, <1>3, <2>1 DEF averagePlace, Ended, Counting, Passed
  <2>3. AveragePlaces("clone") \in SUBSET Place /\ averagePlace(0) \in Place
    BY <1>1, <1>2, PlacesOf DEF AveragePlaces
  <2> QED
    BY <1>3, <2>1, <2>2, <2>3, SyncStart DEF Brings, Comm
<1>7. ASSUME NEW e \in 1 .. NEst, Reduced(e)
      PROVE  /\ \A m \in Mains : LocalSum(m, e)
             /\ Reached(e) /\ Global(e)
  <2>1. KindOf(e) \in ScalarKind \cup {"array"} /\ e \in Nat /\ e >= 1
    BY <1>1, <1>7, KindsAre, EstimatorCount
  <2>2. ASSUME NEW m \in Rank
        PROVE  /\ Evaluated(m, e) = 0 /\ Blocks(m, e) = 0
               /\ Own(KindOf(e), m) = EmptyBag /\ OwnNorm(KindOf(e), m) = 0
    <3>1. Evaluated(m, e) = 0 /\ Blocks(m, e) = 0
      BY <1>2, <1>3, <2>1 DEF Evaluated, Blocks, Ended, Counting, Passed
    <3>2. KindOf(e) = "array" =>
            Own(KindOf(e), m) = EmptyBag /\ OwnNorm(KindOf(e), m) = 0
      BY DEF Own, OwnNorm, Init, StatisticsInit
    <3>3. KindOf(e) \in ScalarKind /\ KindOf(e) # "array" =>
            Own(KindOf(e), m) = EmptyBag /\ OwnNorm(KindOf(e), m) = 0
      BY DEF Own, OwnNorm, Init, StatisticsInit
    <3> QED
      BY <2>1, <3>1, <3>2, <3>3
  <2>3. 0 * nmeasure = 0
    BY <1>2
  <2>4. ASSUME NEW m \in Mains
        PROVE  LocalSum(m, e)
    <3>1. m \in Rank
      BY DEF Mains, Members
    <3>2. Window(m, e) = {}
      BY <2>2, <2>3, <3>1 DEF Window
    <3>3. CloneSum(m, KindOf(e), {}, nworker) = EmptyBag
      <4>1. Members("worker", m) \X {} = {}
        OBVIOUS
      <4> QED
        BY <4>1, WeightsNone DEF CloneSum
    <3> QED
      BY <2>2, <2>3, <3>1, <3>2, <3>3 DEF LocalSum
  <2>5. Reached(e)
    <3>1. \A m \in Mains : measured[m] = 0
      BY <1>3 DEF Mains, Members
    <3> QED
      BY <1>2, <2>2, <2>3, <3>1 DEF Reached
  <2>6. Global(e)
    <3>1. array[0].accum = EmptyBag /\ array[0].accumnorm = 0
      BY <1>2 DEF Init, StatisticsInit
    <3>2. TotalSum("array", 1 .. 0 * nmeasure, Whole) = EmptyBag
      <4>1. 1 .. 0 * nmeasure = {}
        BY <2>3
      <4>2. Rank \X {} = {}
        OBVIOUS
      <4> QED
        BY <4>1, <4>2, WeightsNone DEF TotalSum
    <3> QED
      BY <1>2, <2>2, <3>1, <3>2 DEF Global
  <2> QED
    BY <2>4, <2>5, <2>6
<1>8. 1 .. Len(written) = {}
  BY <1>4
<1> QED
  BY <1>4, <1>5, <1>6, <1>7, <1>8 DEF DataInv

(* A stutter changes nothing of it.                                        *)
LEMMA DataStays == ASSUME DataInv, UNCHANGED vars PROVE DataInv'
<1>0. UNCHANGED <<input, at, contrib, est, measured, scalar, array, modelState, written,
                  block, turn, found>>
  BY DEF vars, cloneVars, statVars, modelVars, loopVars
<1>1. /\ Rank' = Rank /\ nmeasure' = nmeasure /\ nworker' = nworker /\ nclone' = nclone
      /\ NEst' = NEst /\ Mains' = Mains /\ Whole' = Whole
      /\ Others("clone", 0)' = Others("clone", 0)
      /\ \A e : KindOf(e)' = KindOf(e) /\ (Reduced(e)' <=> Reduced(e))
      /\ \A m : Members("worker", m)' = Members("worker", m)
      /\ \A n : Turns(n)' = Turns(n)
      /\ AveragePlaces("clone")' = AveragePlaces("clone")
  <2>1. nmeasure' = nmeasure /\ nworker' = nworker /\ nclone' = nclone /\ NEst' = NEst
    BY <1>0 DEF nmeasure, nworker, nclone, NEst
  <2>2. Rank' = Rank
    BY <2>1 DEF Rank
  <2>3. Mains' = Mains /\ Others("clone", 0)' = Others("clone", 0)
        /\ \A m : Members("worker", m)' = Members("worker", m)
    BY <1>0, SameInput DEF Mains
  <2>4. \A e : KindOf(e)' = KindOf(e) /\ (Reduced(e)' <=> Reduced(e))
    BY <1>0, <2>1 DEF KindOf, Reduced
  <2>5. Whole' = Whole /\ \A n : Turns(n)' = Turns(n)
    BY <2>1 DEF Whole, Turns
  <2>6. AveragePlaces("clone")' = AveragePlaces("clone")
    BY <1>0, <2>1 DEF AveragePlaces
  <2> QED
    BY <2>1, <2>2, <2>3, <2>4, <2>5, <2>6
<1>2. Stores' /\ Loops' /\ Distinct'
  BY <1>0, <1>1 DEF DataInv, Stores, Loops, Distinct
<1>3. \A r \in Rank : Clock(r)'
  BY <1>0, <1>1 DEF DataInv, Clock
<1>4. /\ \A kind : Labels(kind)' = Labels(kind)
      /\ \A kind, K, d : TotalSum(kind, K, d)' = TotalSum(kind, K, d)
      /\ \A m, kind, K, d : CloneSum(m, kind, K, d)' = CloneSum(m, kind, K, d)
  <2>1. \A kind : Labels(kind)' = Labels(kind)
    BY <1>0, <1>1 DEF Labels, StateOf, RootOf, cloneID
  <2>2. \A kind, K, d : TotalSum(kind, K, d)' = TotalSum(kind, K, d)
    BY <1>1, <2>1 DEF TotalSum, Weights, Terms
  <2>3. \A m, kind, K, d : CloneSum(m, kind, K, d)' = CloneSum(m, kind, K, d)
    BY <1>1, <2>1 DEF CloneSum, Weights, Terms
  <2> QED
    BY <2>1, <2>2, <2>3
<1>5. \A s \in Others("clone", 0) : Brings(s)'
  <2>1. ASSUME NEW s \in Others("clone", 0)
        PROVE  Brings(s)'
    <3>1. Reports(s)' = Reports(s)
      <4>1. \A kind, n : Report(s, kind, n)' = Report(s, kind, n)
        <5>1. ASSUME NEW kind, NEW n
              PROVE  Report(s, kind, n)' = Report(s, kind, n)
          <6>1. PICK K, d, D : K = Turns(n) /\ d = nworker /\ D = nworker * nmeasure
            OBVIOUS
          <6>2. Turns(n)' = K /\ nworker' = d /\ (nworker * nmeasure)' = D
            BY <1>1, <6>1
          <6> QED
            BY <1>1, <1>4, <6>1, <6>2 DEF Report
        <5> QED
          BY <5>1
      <4> QED
        BY <1>0, <4>1 DEF Reports
    <3>2. averagePlace(0)' = averagePlace(0) /\ averagePlace(s)' = averagePlace(s)
      BY <1>0 DEF averagePlace
    <3> QED
      BY <1>0, <1>1, <2>1, <3>1, <3>2 DEF DataInv, Brings
  <2> QED
    BY <2>1
<1>6. \A m, e : /\ Blocks(m, e)' = Blocks(m, e) /\ Evaluated(m, e)' = Evaluated(m, e)
                /\ Window(m, e)' = Window(m, e)
  <2>1. \A m, e : Blocks(m, e)' = Blocks(m, e) /\ Evaluated(m, e)' = Evaluated(m, e)
    BY <1>0 DEF Blocks, Evaluated
  <2> QED
    BY <1>1, <2>1 DEF Window
<1>7. ASSUME NEW e \in 1 .. NEst, Reduced(e)
      PROVE  /\ \A m \in Mains : LocalSum(m, e)'
             /\ Reached(e)' /\ Global(e)'
             /\ \A b \in 1 .. Len(written') : BlockIs(b, e)'
  <2>0. PICK kind, d : kind = KindOf(e) /\ d = Whole
    OBVIOUS
  <2>1. ASSUME NEW m \in Mains
        PROVE  LocalSum(m, e)'
    <3>1. LocalSum(m, e)
      BY <1>7 DEF DataInv
    <3>2. Own(kind, m)' = Own(kind, m) /\ OwnNorm(kind, m)' = OwnNorm(kind, m)
      BY <1>0 DEF Own, OwnNorm
    <3>3. PICK K, n : K = Window(m, e) /\ n = nworker
      OBVIOUS
    <3>4. /\ Own(KindOf(e), m)' = Own(kind, m)' /\ OwnNorm(KindOf(e), m)' = OwnNorm(kind, m)'
          /\ CloneSum(m, KindOf(e), Window(m, e), nworker)' = CloneSum(m, kind, K, n)'
      BY <1>1, <1>6, <2>0, <3>3 DEF Own, OwnNorm, CloneSum
    <3> QED
      BY <1>1, <1>4, <1>6, <2>0, <3>1, <3>2, <3>3, <3>4 DEF LocalSum
  <2>2. Reached(e)'
    BY <1>0, <1>1, <1>6, <1>7 DEF DataInv, Reached
  <2>3. Global(e)'
    <3>1. Global(e)
      BY <1>7 DEF DataInv
    <3>2. PICK K, N : K = Turns(Blocks(0, e)) /\ N = 1 .. Blocks(0, e) * nmeasure
      OBVIOUS
    <3>3. Turns(Blocks(0, e))' = K /\ (1 .. Blocks(0, e) * nmeasure)' = N
      BY <1>1, <1>6, <3>2 DEF Turns
    <3>4. /\ TotalSum("array", 1 .. Blocks(0, e) * nmeasure, Whole)' = TotalSum("array", N, d)'
          /\ TotalSum(KindOf(e), Turns(Blocks(0, e)), Whole)' = TotalSum(kind, K, d)'
      BY <1>1, <2>0, <3>3 DEF TotalSum
    <3> QED
      BY <1>0, <1>1, <1>4, <1>6, <2>0, <3>1, <3>2, <3>4 DEF Global
  <2>4. ASSUME NEW b \in 1 .. Len(written)
        PROVE  BlockIs(b, e)'
    <3>1. BlockIs(b, e)
      BY <1>7 DEF DataInv
    <3>2. PICK K, N, a : K = Turns(b) /\ N = 1 .. b * nmeasure /\ a = Whole * b
      OBVIOUS
    <3>3. Turns(b)' = K /\ (1 .. b * nmeasure)' = N /\ (Whole * b)' = a
      BY <1>1, <3>2
    <3>4. /\ TotalSum("array", 1 .. b * nmeasure, Whole * b)' = TotalSum("array", N, a)'
          /\ TotalSum(KindOf(e), Turns(b), Whole)' = TotalSum(kind, K, d)'
      BY <1>1, <2>0, <3>3 DEF TotalSum
    <3> QED
      BY <1>0, <1>1, <1>4, <2>0, <3>1, <3>2, <3>4 DEF BlockIs
  <2> QED
    BY <1>0, <2>1, <2>2, <2>3, <2>4
<1> QED
  BY <1>1, <1>2, <1>3, <1>5, <1>7 DEF DataInv

(* Every step, a stutter included, keeps it.                               *)
LEMMA DataNext == CallInv /\ DataInv /\ [Next]_vars => DataInv'
BY DataStep, DataStays DEF Next

-----------------------------------------------------------------------------
(* The terms of a total, each with its rank and turn.                      *)
Flat(K, d) == SetToBag({<<r, k, d, 0>> : r \in Rank, k \in K})
Parted(K, d) ==
  SetToBag({<<r, k, d, StateOf(RootOf("worker", r), k)>> : r \in Rank, k \in K})
(* A total is that bag.                                                    *)
LEMMA TotalTerms ==
  ASSUME input \in Inputs, NEW K \in SUBSET Nat, NEW d, NEW kind
  PROVE  TotalSum(kind, K, d) = IF kind = "partitioned" THEN Parted(K, d) ELSE Flat(K, d)
<1>1. Rank \in SUBSET Nat
  BY RankNat
<1>2. ASSUME NEW r \in Rank, NEW k \in K
      PROVE  /\ <<r, k>> \in Place /\ <<r, k>>[1] = r /\ <<r, k>>[2] = k
             /\ Labels(kind)[<<r, k>>]
                  = IF kind = "partitioned" THEN StateOf(RootOf("worker", r), k) ELSE 0
  <2>1. <<r, k>> \in Place /\ <<r, k>>[1] = r /\ <<r, k>>[2] = k
    BY <1>1 DEF Place
  <2> QED
    BY <2>1 DEF Labels
<1> DEFINE T == Terms(Rank \X K, d, Labels(kind))
           l(r, k) == IF kind = "partitioned" THEN StateOf(RootOf("worker", r), k) ELSE 0
           f(r, k) == <<r, k, d, l(r, k)>>
           g(r, k) == <<r, k, d, 0>>
           h(r, k) == <<r, k, d, StateOf(RootOf("worker", r), k)>>
<1>3. ASSUME NEW t \in T
      PROVE  \E r \in Rank, k \in K : t = f(r, k)
  <2>1. PICK p \in Rank \X K : t = <<p[1], p[2], d, Labels(kind)[p]>>
    BY DEF Terms
  <2>2. PICK r \in Rank, k \in K : p = <<r, k>>
    <3>1. p[1] \in Rank /\ p[2] \in K /\ p = <<p[1], p[2]>>
      OBVIOUS
    <3> QED
      BY <3>1
  <2>3. p[1] = r /\ p[2] = k /\ Labels(kind)[p] = l(r, k)
    BY <1>2, <2>2
  <2>4. t = f(r, k)
    BY <2>1, <2>3
  <2> HIDE DEF f
  <2> QED
    BY <2>4
<1>4. ASSUME NEW r \in Rank, NEW k \in K
      PROVE  f(r, k) \in T
  <2>1. PICK p : p = <<r, k>>
    OBVIOUS
  <2>2. p \in Rank \X K /\ p[1] = r /\ p[2] = k /\ Labels(kind)[p] = l(r, k)
    BY <1>2, <2>1
  <2>3. <<p[1], p[2], d, Labels(kind)[p]>> \in T
    BY <2>2 DEF Terms
  <2> QED
    BY <2>2, <2>3
<1>5. ASSUME NEW r, NEW k
      PROVE  /\ kind # "partitioned" => f(r, k) = g(r, k)
             /\ kind = "partitioned" => f(r, k) = h(r, k)
  OBVIOUS
<1>6. TotalSum(kind, K, d) = SetToBag(T)
  BY DEF TotalSum, Weights
<1> HIDE DEF T, f, g, h
<1>7. T = {f(r, k) : r \in Rank, k \in K}
  BY <1>3, <1>4
<1> DEFINE A == {g(r, k) : r \in Rank, k \in K}
           B == {h(r, k) : r \in Rank, k \in K}
<1>8. (kind # "partitioned" => T = A) /\ (kind = "partitioned" => T = B)
  BY <1>5, <1>7
<1>9. Flat(K, d) = SetToBag(A) /\ Parted(K, d) = SetToBag(B)
  BY DEF g, h, Flat, Parted
<1> HIDE DEF A, B
<1> QED
  BY <1>6, <1>8, <1>9

(* What rank 0 has written is what WrittenIsAverage says.                  *)
LEMMA InvWrites == CallInv /\ DataInv => WrittenIsAverage
<1> SUFFICES ASSUME CallInv, DataInv, NEW b \in DOMAIN written, NEW kind, In(kind),
                    kind \in ScalarKind \cup {"array"}
             PROVE  written[b][kind] = CASE kind = "array" -> RunningAverage(b)
                                         [] kind = "partitioned" -> PartitionedAverage(b)
                                         [] OTHER -> Average(b)
  BY DEF WrittenIsAverage, ScalarKind, Accumulators
<1>0. /\ Typed /\ BlockInv /\ input \in Inputs /\ 0 \in Rank /\ Course(0) /\ Clock(0)
      /\ nmeasure \in Nat \ {0}
  <2>1. Typed /\ BlockInv /\ input \in Inputs
    BY DEF CallInv, BlockInv, CloneType
  <2> QED
    BY <2>1, FirstRank, Blocked DEF CallInv, DataInv
<1>1. PICK e \in 1 .. NEst : KindOf(e) = kind /\ Reduced(e)
  <2>1. input.estimators \in Seq(Kind)
    BY <1>0, EstimatorAssumption
  <2>2. DOMAIN input.estimators = 1 .. NEst
    BY <2>1 DEF NEst
  <2>3. kind # "accrej"
    BY DEF ScalarKind, Accumulators
  <2> QED
    BY <2>2, <2>3 DEF In, KindOf, Reduced
<1>2. b \in Nat \ {0} /\ b <= Blocks(0, e) /\ BlockIs(b, e) /\ Blocks(0, e) \in Nat
  <2>1. /\ Blocks(0, e) \in Nat /\ block[0] \in Nat /\ \E T : written \in Seq(T)
        /\ Len(written) = IF at[0] \in Ended THEN block[0] ELSE block[0] - 1
    BY <1>0, WindowIs, PlacesOf DEF BlockInv, Written, CloneType
  <2>2. DOMAIN written = 1 .. Len(written) /\ Len(written) \in Nat
    BY <2>1
  <2>3. Len(written) <= Blocks(0, e)
    BY <2>1 DEF Blocks, Ended, Counting, Passed
  <2> QED
    BY <1>1, <2>1, <2>2, <2>3 DEF DataInv
<1>3. ASSUME NEW r \in Rank, NEW k \in Turns(b)
      PROVE  StateOf(RootOf("worker", r), k) = Model(r, k)
  <2>1. PICK m : m = RootOf("worker", r)
    OBVIOUS
  <2>2. m \in Rank /\ isCloneMain(m)
    BY <1>0, <2>1, FirstWorker
  <2>3. m \in Mains /\ Clock(m) /\ Blocks(0, e) * nmeasure <= measured[m]
    BY <1>1, <2>2 DEF DataInv, Reached, Mains, Members
  <2>4. k \in Nat /\ k <= b * nmeasure
    <3>1. k \in Nat
      BY <1>0, <1>2, TurnsAre
    <3> QED
      BY <1>0, <1>2, <3>1, TurnsAre
  <2>5. b * nmeasure <= Blocks(0, e) * nmeasure /\ b * nmeasure \in Nat
        /\ Blocks(0, e) * nmeasure \in Nat
    BY <1>0, <1>2, Blocked
  <2>6. measured[m] \in Nat
    BY <1>0, <2>2, PlacesOf
  <2>7. k <= Len(found[m])
    BY <2>3, <2>4, <2>5, <2>6 DEF Clock
  <2> QED
    BY <2>1, <2>7 DEF StateOf, Model
<1>4. Turns(b) \in SUBSET Nat /\ (1 .. b * nmeasure) \in SUBSET Nat
  BY <1>0, <1>2, TurnsAre
<1>5. CASE kind = "array"
  <2>1. written[b][kind] = TotalSum("array", 1 .. b * nmeasure, Whole * b)
    BY <1>1, <1>2, <1>5 DEF BlockIs
  <2>2. PICK N, d : N = 1 .. b * nmeasure /\ d = Whole * b
    OBVIOUS
  <2>3. TotalSum("array", N, d) = Flat(N, d)
    BY <1>0, <1>4, <2>2, TotalTerms
  <2>4. Flat(1 .. b * nmeasure, Whole * b) = RunningAverage(b)
    BY DEF Flat, RunningAverage, Whole
  <2> QED
    BY <1>5, <2>1, <2>2, <2>3, <2>4
<1>6. CASE kind # "array"
  <2>1. written[b][kind] = TotalSum(kind, Turns(b), Whole)
    BY <1>1, <1>2, <1>6 DEF BlockIs
  <2>2. PICK K, d : K = Turns(b) /\ d = Whole
    OBVIOUS
  <2>3. TotalSum(kind, K, d) = IF kind = "partitioned" THEN Parted(K, d) ELSE Flat(K, d)
    BY <1>0, <1>4, <2>2, TotalTerms
  <2>4. Flat(K, d) = Average(b)
    BY <2>2 DEF Flat, Average, Whole
  <2>5. Parted(K, d) = PartitionedAverage(b)
    <3> DEFINE h(r, k) == <<r, k, d, StateOf(RootOf("worker", r), k)>>
               g(r, k) == <<r, k, d, Model(r, k)>>
    <3>1. \A r \in Rank, k \in K : h(r, k) = g(r, k)
      BY <1>3, <2>2
    <3> DEFINE A == {h(r, k) : r \in Rank, k \in K}
               B == {g(r, k) : r \in Rank, k \in K}
    <3>2. Parted(K, d) = SetToBag(A)
      BY DEF Parted
    <3>3. PartitionedAverage(b) = SetToBag(B)
      BY <2>2 DEF PartitionedAverage, Whole
    <3> HIDE DEF g, h
    <3>4. A = B
      BY <3>1
    <3> HIDE DEF A, B
    <3> QED
      BY <3>2, <3>3, <3>4
  <2> QED
    BY <1>6, <2>1, <2>2, <2>3, <2>4, <2>5
<1> QED
  BY <1>5, <1>6

(* What rank 0 writes of a block is the mean over the measurements of all  *)
(* workers of all clones in that block, each of them once and with the     *)
(* same weight, in the partition of the model state it was made in; for an *)
(* array over all blocks so far.  An input that lists a kind of estimator  *)
(* twice is left out, two estimators of it would share a store here and do *)
(* not in the program (ScalarEstimator, SimpleScalarAccumulator,           *)
(* PartitionedScalarAccumulator, BlitzArrayBlkdEst::averageOverClones).    *)
THEOREM AveragesWritten == Spec /\ Distinct => []WrittenIsAverage
<1>1. Init /\ Distinct => CallInv /\ DataInv
  BY CallsInit, DataInit
<1>2. (CallInv /\ DataInv) /\ [Next]_vars => (CallInv /\ DataInv)'
  BY CallsNext, DataNext
<1>3. CallInv /\ DataInv => WrittenIsAverage
  BY InvWrites
<1> QED
  BY <1>1, <1>2, <1>3, PTL DEF Spec
=============================================================================
