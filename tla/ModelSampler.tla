---------------------------- MODULE ModelSampler ----------------------------
(***************************************************************************)
(* ModelSampler (advancer/ModelSampler.cc): the workers of a clone decide  *)
(* together whether its EnumeratedModelState goes to a neighbouring model. *)
(* The action is any: acceptance is the choice of the first worker.        *)
(***************************************************************************)
EXTENDS Statistics

CONSTANT NModel     \* getModelCount

ASSUME ModelAssumption == NModel \in Nat /\ NModel > 1

VARIABLES imodel,       \* the local variables of tryMove on each rank: the
          jmodel        \* state it found and the one proposed

modelVars == <<modelState, imodel, jmodel>>

ModelInit ==
  /\ modelState = [r \in Rank |-> 0]
  /\ imodel = [r \in Rank |-> 0]
  /\ jmodel = [r \in Rank |-> 0]

Distance(i, j) == IF i > j THEN i - j ELSE j - i

(* A neighbour of i: up or down by whether a uniform random number    *)
(* plus (nmodel-1-i)/(nmodel-1) reaches one; the first form takes a step   *)
(* over the ends.                                                          *)
AnyNeighbour(i) == {i - 1, i + 1}
Proposals(i) ==
  {j \in {i - 1, i + 1} : (j < i => i > 0) /\ (j > i => i < NModel - 1)}

(* Early returns of tryMove; the first can not happen, both of its         *)
(* conditions are never true of the same proposal.                         *)
Invalid(j) == j < 0 /\ j >= NModel
AwayFromTarget(i, j) ==
  input.target >= 0 /\ Distance(j, input.target) > Distance(i, input.target)
Returns(i, j) == Invalid(j) \/ AwayFromTarget(i, j)

SetModelState(r, j) == modelState' = [modelState EXCEPT ![r] = j]

(* The first worker: count the trial, broadcast the state and then the     *)
(* proposal (in the first form the other way round).                       *)
ProposalFirst(i, j) ==
  <<[call |-> "proposal", data |-> j], [call |-> "state", data |-> i]>>
ToldBoth(i, j) ==
  <<[call |-> "state", data |-> i], [call |-> "proposal", data |-> j]>>
Propose(r, j) ==
  /\ at[r] = "sample" /\ isCloneMain(r)
  /\ TryingMove(r)
  /\ Sends(r, ToldBoth(modelState[r], j))
  /\ imodel' = [imodel EXCEPT ![r] = modelState[r]]
  /\ jmodel' = [jmodel EXCEPT ![r] = j]
  /\ Goto(r, IF Returns(modelState[r], j) THEN "measure" ELSE "decide")
  /\ UNCHANGED <<modelState, est, measured, scalar, array, naccept, written,
                 input, contrib, entered, aborted>>

RecvState(r) ==
  /\ at[r] = "sample" /\ ~isCloneMain(r) /\ Told(r)
  /\ imodel' = [imodel EXCEPT ![r] = modelState[r]]
  /\ SetModelState(r, Message(r).data)
  /\ Listened(r)
  /\ Goto(r, "proposal")
  /\ UNCHANGED <<jmodel, statVars, input, contrib, entered, aborted>>

(* The proposal; unless it is given up, Reduce of the change in action.    *)
RecvProposal(r) ==
  /\ at[r] = "proposal" /\ Told(r)
  /\ LET j == Message(r).data
     IN /\ jmodel' = [jmodel EXCEPT ![r] = j]
        /\ IF Returns(imodel[r], j)
           THEN Goto(r, "measure") /\ UNCHANGED contrib
           ELSE Contribute("worker", r, "action", j) /\ Goto(r, "decision")
  /\ Listened(r)
  /\ UNCHANGED <<modelState, imodel, statVars, input, entered, aborted>>

(* The decision of the first worker, broadcast; when accepted it is        *)
(* followed by the new state.  The first form says nothing of rejections.  *)
AcceptedOnly(r, reject) ==
  IF reject THEN <<>>
  ELSE <<[call |-> "reject", data |-> FALSE], [call |-> "state", data |-> jmodel[r]]>>

Decision(r, reject) ==
  IF reject THEN <<[call |-> "reject", data |-> TRUE]>>
  ELSE <<[call |-> "reject", data |-> FALSE], [call |-> "state", data |-> jmodel[r]]>>
Decide(r, reject) ==
  /\ at[r] = "decide" /\ AllContributed("worker", r)
  /\ Combine("worker", r)
  /\ Sends(r, Decision(r, reject))
  /\ IF reject THEN UNCHANGED <<modelState, naccept>>
               ELSE SetModelState(r, jmodel[r]) /\ MoveAccepted(r)
  /\ Goto(r, "measure")
  /\ UNCHANGED <<imodel, jmodel, est, measured, scalar, array, ntrial, written,
                 input, entered, aborted>>

RecvDecision(r) ==
  /\ at[r] = "decision" /\ Told(r)
  /\ IF Message(r).data THEN Goto(r, "measure") /\ UNCHANGED modelState
     ELSE SetModelState(r, jmodel[r]) /\ Goto(r, "newState")
  /\ Listened(r)
  /\ UNCHANGED <<imodel, jmodel, statVars, input, contrib, entered, aborted>>

RecvNewState(r) ==
  /\ at[r] = "newState" /\ Told(r)
  /\ SetModelState(r, Message(r).data)
  /\ Listened(r)
  /\ Goto(r, "measure")
  /\ UNCHANGED <<imodel, jmodel, statVars, input, contrib, entered, aborted>>

TryMove(r) == \/ \E j \in Proposals(modelState[r]) : Propose(r, j)
              \/ RecvState(r)
              \/ RecvProposal(r)
              \/ \E reject \in BOOLEAN : Decide(r, reject)
              \/ RecvDecision(r)
              \/ RecvNewState(r)
=============================================================================
