------------------------------- MODULE Clones -------------------------------
(***************************************************************************)
(* The MPI ranks of a whole run (stats/MPIManager.cc): nclone copies of    *)
(* the simulation, each shared by nworker ranks.  Three communicators join *)
(* them: the workers of one clone, the first workers of all clones, and    *)
(* all ranks.  The ranks meet in Reduce, Bcast and Barrier only.           *)
(*                                                                         *)
(* MPI matches the collective calls of one communicator by their order.    *)
(* A rank that is not the root of a Reduce may leave it before the root    *)
(* arrives, the root of a Bcast before the others arrive; every other call *)
(* waits.  A call on a communicator the rank is not a member of            *)
(* (MPI::COMM_NULL) aborts the run.                                        *)
(***************************************************************************)
EXTENDS Integers, Sequences, FiniteSets

CONSTANT Inputs        \* input files, with the number of clones and workers

ASSUME RankAssumption ==
  \A i \in Inputs : i.nworker \in Nat \ {0} /\ i.nclone \in Nat \ {0}

VARIABLES input,       \* the input file of this run
          at,          \* the call each rank is in, or about to make
          contrib,     \* contrib[comm][r]: what r has given to Reduces of comm
          bcast,       \* bcast[r]: broadcasts to r within its clone
          entered,     \* entered[comm][r]: the barriers of comm r has reached
          aborted      \* MPI has ended the run

cloneVars == <<input, at, contrib, bcast, entered, aborted>>

nworker == input.nworker
nclone == input.nclone
Rank == 0 .. nworker * nclone - 1

workerID(r) == r % nworker
cloneID(r) == r \div nworker
isCloneMain(r) == workerID(r) = 0
isMain(r) == r = 0

Comm == {"worker", "clone", "world"}
Members(comm, r) ==
  CASE comm = "worker" -> {s \in Rank : cloneID(s) = cloneID(r)}
    [] comm = "clone"  -> {s \in Rank : isCloneMain(s)}
    [] comm = "world"  -> Rank
RootOf(comm, r) == IF comm = "worker" THEN cloneID(r) * nworker ELSE 0
Others(comm, r) == Members(comm, r) \ {r}
IsMember(comm, r) == r \in Members(comm, r)

ClonesInit ==
  /\ input \in Inputs
  /\ contrib = [c \in Comm |-> [r \in Rank |-> <<>>]]
  /\ bcast = [r \in Rank |-> <<>>]
  /\ entered = [c \in {"worker", "clone"} |-> [r \in Rank |-> 0]]
  /\ aborted = FALSE

Goto(r, where) == at' = [at EXCEPT ![r] = where]

-----------------------------------------------------------------------------
(* Reduce, on a rank that is not its root and on the root.                 *)
Contribute(comm, r, call, data) ==
  contrib' = [contrib EXCEPT ![comm][r] = Append(@, [call |-> call, data |-> data])]

AllContributed(comm, r) == \A s \in Others(comm, r) : contrib[comm][s] # <<>>
Contribution(comm, s) == Head(contrib[comm][s]).data
Combine(comm, r) ==
  contrib' = [contrib EXCEPT ![comm] = [s \in Rank |->
                IF s \in Others(comm, r) THEN Tail(@[s]) ELSE @[s]]]

(* Bcast within a clone: its first worker sends the messages ms.           *)
Sends(r, ms) ==
  bcast' = [s \in Rank |-> IF s \in Others("worker", r) THEN bcast[s] \o ms
                                                        ELSE bcast[s]]
Told(r) == bcast[r] # <<>>
Message(r) == Head(bcast[r])
Listened(r) == bcast' = [bcast EXCEPT ![r] = Tail(@)]

Enter(comm, r) == entered' = [entered EXCEPT ![comm][r] = @ + 1]
BarrierOpens(comm, r) ==
  \A s \in Members(comm, r) : entered[comm][s] >= entered[comm][r]

(* What rank r has given or sent was received.  The steps MPI has to make  *)
(* happen are those of ranks that do not rely on buffers.                  *)
NothingPending(r) ==
  /\ \A c \in Comm : contrib[c][r] = <<>>
  /\ isCloneMain(r) => \A s \in Others("worker", r) : bcast[s] = <<>>

=============================================================================
