----------------------------- MODULE Simulation -----------------------------
(***************************************************************************)
(* A whole run on all its ranks: Loop over blocks, in each a Loop over     *)
(* ModelSampler and Measure, then Collect.  The outer Loop may be timed:   *)
(* every rank asks its own clock whether to run once more.  The program    *)
(* ends with the outer Loop.                                               *)
(***************************************************************************)
EXTENDS ModelSampler

ASSUME RepeatAssumption ==
  \A i \in Inputs : i.nblock \in Nat \ {0} /\ i.nmeasure \in Nat \ {0}

VARIABLES block,     \* blocks each rank has begun
          turn,      \* measurements begun in the block
          accepted,  \* history: all accepted moves of each rank
          found      \* history: the model states of its measurements

nblock == input.nblock         \* nrepeat of the outer Loop
nmeasure == input.nmeasure     \* nrepeat of the inner Loop

loopVars == <<block, turn, accepted, found>>
vars == <<cloneVars, statVars, modelVars, loopVars>>

FirstStep == IF input.sampler THEN "sample" ELSE "measure"

Init ==
  /\ ClonesInit /\ StatisticsInit /\ ModelInit
  /\ at = [r \in Rank |-> FirstStep]
  /\ block = [r \in Rank |-> 1]
  /\ turn = [r \in Rank |-> 1]
  /\ accepted = [r \in Rank |-> 0]
  /\ found = [r \in Rank |-> <<>>]

(* The inner Loop.                                                         *)
EndTurn(r) ==
  /\ at[r] = "endTurn"
  /\ measured' = [measured EXCEPT ![r] = @ + 1]
  /\ found' = [found EXCEPT ![r] = Append(@, modelState[r])]
  /\ IF turn[r] < nmeasure THEN /\ turn' = [turn EXCEPT ![r] = @ + 1]
                                /\ Goto(r, FirstStep)
                           ELSE /\ turn' = [turn EXCEPT ![r] = 1]
                                /\ Goto(r, "average")
  /\ UNCHANGED <<est, scalar, array, naccept, ntrial, written, modelVars,
                 input, contrib, bcast, entered, aborted, block, accepted>>

(* The outer Loop: once more if nrepeat is not reached and, when timed,    *)
(* this rank's clock says so.                                              *)
EndBlock(r, more) ==
  /\ at[r] = "endBlock"
  /\ input.timed \/ more
  /\ IF block[r] < nblock /\ more THEN /\ block' = [block EXCEPT ![r] = @ + 1]
                                       /\ Goto(r, FirstStep)
                                  ELSE /\ Goto(r, "done")
                                       /\ UNCHANGED block
  /\ UNCHANGED <<statVars, modelVars, input, contrib, bcast, entered, aborted,
                 turn, accepted, found>>

Counted(r) == accepted' = [accepted EXCEPT ![r] = @ + naccept'[r] - naccept[r]]

Step(r) ==
  \/ EndTurn(r)
  \/ \E more \in BOOLEAN : EndBlock(r, more)
  \/ TryMove(r) /\ Counted(r) /\ UNCHANGED <<block, turn, found>>
  \/ /\ \/ EvaluateOther(r) \/ EvaluateRoot(r) \/ EvaluateAccRej(r)
        \/ AverageScalar(r) \/ AverageArray(r) \/ AverageAccRej(r)
        \/ WriteStep(r) \/ LeaveWorkerBarrier(r) \/ LeaveCloneBarrier(r)
     /\ UNCHANGED <<modelVars, loopVars>>

Done == \A r \in Rank : at[r] = "done"

(* Some rank has left the outer Loop while another runs it once more.      *)
Disagreed == \E r, s \in Rank : at[r] = "done" /\ block[s] > block[r]

Next == \/ ~aborted /\ \E r \in Rank : Step(r)
        \/ (Done \/ Disagreed \/ aborted) /\ UNCHANGED vars

(* A rank whose call can return without buffers returns: MPI progress.     *)
Progress(r) == r \in Rank /\ ~aborted /\ Step(r) /\ NothingPending(r)

MaxRank == CHOOSE n \in {i.nworker * i.nclone : i \in Inputs} :
             \A i \in Inputs : n >= i.nworker * i.nclone
Spec == Init /\ [][Next]_vars /\ \A r \in 0 .. MaxRank - 1 : WF_vars(Progress(r))

-----------------------------------------------------------------------------
(* Every measurement of block b by every rank, with the same weight and,   *)
(* for a partitioned scalar, in the partition of the model its clone was   *)
(* in; an array has the mean of the block means.                           *)
Turns(b) == (b - 1) * nmeasure + 1 .. b * nmeasure
Model(r, k) == found[RootOf("worker", r)][k]
Average(b) ==
  SetToBag({<<r, k, nworker * nmeasure * nclone, 0>> : r \in Rank, k \in Turns(b)})
PartitionedAverage(b) ==
  SetToBag({<<r, k, nworker * nmeasure * nclone, Model(r, k)>> : r \in Rank, k \in Turns(b)})
RunningAverage(b) ==
  SetToBag({<<r, k, nworker * nmeasure * nclone * b, 0>> : r \in Rank, k \in 1 .. b * nmeasure})

In(kind) == \E e \in DOMAIN input.estimators : input.estimators[e] = kind

(* What rank 0 writes for block b is the mean over exactly the             *)
(* measurements of that block (for an array, of all blocks so far) by all  *)
(* workers of all clones, however far the ranks are apart.                 *)
WrittenIsAverage ==
  \A b \in DOMAIN written :
    /\ In("accumulator") => written[b]["accumulator"] = Average(b)
    /\ In("scalar")      => written[b]["scalar"] = Average(b)
    /\ In("partitioned") => written[b]["partitioned"] = PartitionedAverage(b)
    /\ In("array")       => written[b]["array"] = RunningAverage(b)

(* No acceptance is lost or counted twice on the way to rank 0, which      *)
(* keeps the counts of all ranks from block to block.                      *)
AcceptancesAreCounted ==
  LET here(r)  == naccept[r]
      given(r) == [n \in DOMAIN contrib["world"][r] |->
                     contrib["world"][r][n].data.naccept]
      all(f)   == FoldFunction(LAMBDA m, n : m + n, 0, f)
  IN all([r \in Rank |-> here(r) + all(given(r))]) = all(accepted)

(* "Avoid a race condition": no clone is in a later block than the one     *)
(* rank 0 has to write, except for workers that have not met their first   *)
(* one again.                                                              *)
NoCloneAhead == \A r \in Rank : isCloneMain(r) => block[r] <= Len(written) + 1

(* The workers of a clone that measure the same configuration have the     *)
(* same model state, a valid one, and go for the same proposal.            *)
WorkersAgreeOnModel ==
  \A r, s \in Rank :
    /\ modelState[r] \in 0 .. NModel - 1
    /\ cloneID(r) = cloneID(s) /\ measured[r] = measured[s] /\ at[r] = at[s]
       => CASE at[r] \in {"measure", "endTurn"} -> modelState[r] = modelState[s]
            [] at[r] \in {"decision", "newState"} ->
                 imodel[r] = imodel[s] /\ jmodel[r] = jmodel[s]
            [] OTHER -> TRUE

(* The call each blocked rank is in, and those it is matched with.         *)
Awaited(r) ==
  CASE at[r] = "decide"  -> <<"worker", "action">>
    [] at[r] = "measure" /\ Estimator(r) # "accrej" -> <<"worker", Estimator(r)>>
    [] at[r] = "average" -> <<IF Estimator(r) = "accrej" THEN "world" ELSE "clone",
                              Estimator(r)>>
    [] OTHER             -> <<"clone", "none">>
CollectivesMatch ==
  \A r \in Rank : LET a == Awaited(r) IN
    /\ r = RootOf(a[1], r) /\ a[2] # "none"
       => \A s \in Others(a[1], r) :
            contrib[a[1]][s] # <<>> => Head(contrib[a[1]][s]).call = a[2]
    /\ Told(r) => Message(r).call =
         (CASE at[r] = "proposal" -> "proposal" [] at[r] = "decision" -> "reject"
            [] OTHER -> "state")

(* Every rank reaches the end of the program, unless an accumulator is     *)
(* reduced on a rank that is not in the communicator of the clones, or the *)
(* clocks of two ranks have disagreed about the outer Loop.                *)
EveryRankFinishes ==
  <>(Done \/ Disagreed \/ (aborted /\ nworker > 1 /\ \E kind \in Accumulators : In(kind)))
=============================================================================
