------------------------------- MODULE Ranks -------------------------------
(***************************************************************************)
(* The NWorker MPI ranks of one worker communicator.  They run the same    *)
(* program, a sequence of operations, each at its own pace; they meet only *)
(* in point-to-point messages, in broadcasts of rank 0 and in barriers.    *)
(*                                                                         *)
(* MPI keeps the order of messages with the same source, destination, tag  *)
(* and communicator; nothing else orders or tells apart two messages.      *)
(* MPI may or may not buffer a message that no one receives yet, so a send *)
(* may return at once, but is only certain to when it was received.        *)
(***************************************************************************)
EXTENDS Integers, Sequences

CONSTANTS NWorker,     \* nworker
          Tags,        \* message tags in use
          Programs     \* input files: sequences of operations

ASSUME WorkerAssumption == NWorker \in Nat /\ NWorker > 1

VARIABLES program,     \* the program all ranks run
          ip,          \* the operation each rank is at
          pc,          \* the call inside it the rank is blocked in
          chan,        \* chan[v][w][tag]: messages from v to w, in order
          bcast        \* bcast[w]: broadcasts of rank 0 still to reach w

progressVars == <<program, ip, pc>>
messageVars == <<chan, bcast>>
rankVars == <<program, ip, pc, chan, bcast>>

Worker == 0 .. NWorker - 1
Prev(w) == (w + NWorker - 1) % NWorker
NextW(w) == (w + 1) % NWorker

Op(w) == IF ip[w] <= Len(program) THEN program[ip[w]] ELSE "done"
Done == \A w \in Worker : Op(w) = "done"

RanksInit ==
  /\ program \in Programs
  /\ ip = [w \in Worker |-> 1]
  /\ pc = [w \in Worker |-> "ready"]
  /\ chan = [v \in Worker |-> [w \in Worker |-> [t \in Tags |-> <<>>]]]
  /\ bcast = [w \in Worker |-> <<>>]

RanksTypeOK(places) ==
  /\ program \in Programs
  /\ ip \in [Worker -> 1 .. Len(program) + 1]
  /\ pc \in [Worker -> places \cup {"ready"}]

Advance(w) == /\ ip' = [ip EXCEPT ![w] = @ + 1]
              /\ pc' = [pc EXCEPT ![w] = "ready"]
              /\ UNCHANGED program

Block(w, where) == pc' = [pc EXCEPT ![w] = where] /\ UNCHANGED <<program, ip>>

-----------------------------------------------------------------------------
Posted(ch, v, w, tag, kind, data) ==
  [ch EXCEPT ![v][w][tag] = Append(@, [kind |-> kind, data |-> data])]
Post(v, w, tag, kind, data) == chan' = Posted(chan, v, w, tag, kind, data)

Arrived(v, w, tag) == chan[v][w][tag] # <<>>
Received(v, w, tag) == Head(chan[v][w][tag]).data
Take(v, w, tag) == [chan EXCEPT ![v][w][tag] = Tail(@)]

Begins(w, op) == Op(w) = op /\ pc[w] = "ready"

(* The messages of rank w were all received: no send holds it up.          *)
SendsDone(w) == \A v \in Worker, t \in Tags : chan[w][v][t] = <<>>

(* The calls in which w can act before its last send is over: it is inside *)
(* a Sendrecv, whose receiving half does not wait for the sending half.    *)
SendThenRecv(calls) == {}
Sendrecvs(calls) == calls

(* The steps MPI has to make happen: the call w is in can return without   *)
(* relying on buffers.                                                     *)
Unbuffered(w, calls) == pc[w] \in Sendrecvs(calls) \/ SendsDone(w)

Broadcast(x) == [w \in Worker |-> IF w = 0 THEN bcast[w] ELSE Append(bcast[w], x)]
Listened(w) == [bcast EXCEPT ![w] = Tail(@)]

(* Every rank is in the barrier of the operation w is in, or past it.      *)
BarrierOpens(w) ==
  \A v \in Worker :
    ip[v] > ip[w] \/ (ip[v] = ip[w] /\ pc[v] = "barrier")
=============================================================================
