------------------------ MODULE ParallelPathsProofs ------------------------
(***************************************************************************)
(* The ranks of ParallelPaths understand each other's messages and keep    *)
(* their copies of each other's slices current, for every number of ranks, *)
(* particles and slices, every program, section length, set of exchanges   *)
(* and shift.                                                              *)
(***************************************************************************)
EXTENDS ParallelPaths, DataLemmas

Others == Worker \ {0}
Places == {"recvFirst", "sendLast", "recvLast", "recvShift", "barrier",
           "gather", "recvGlobal"}

(* Turn k of the program; rank w has begun it, or reached a call in it.    *)
At(k) == IF k <= Len(program) THEN program[k] ELSE "done"
Turn == Nat \ {0}
Begun(w, k) == ip[w] > k \/ (ip[w] = k /\ pc[w] # "ready")
Reached(w, k, calls) == ip[w] > k \/ (ip[w] = k /\ pc[w] \in calls)

(* Where in its operation each rank is.                                    *)
Control ==
  /\ ip \in [Worker -> Turn]
  /\ pc \in [Worker -> Places \cup {"ready"}]
  /\ nextSrc \in Worker
  /\ \A w \in Worker :
       /\ pc[w] \in {"recvFirst", "sendLast", "recvLast"} => Op(w) = "section"
       /\ pc[w] \in {"recvShift", "barrier"} => Op(w) = "shift"
       /\ pc[w] \in {"gather", "recvGlobal"} => Op(w) = "global"
       /\ pc[w] = "gather" => w = 0
       /\ pc[w] = "recvGlobal" => w # 0
  /\ pc[0] = "gather" => nextSrc # 0

(* How far the ranks are apart.  In a section a rank waits for its two     *)
(* neighbours, in a shift and for the global permutation for all ranks.    *)
InSection(k) ==
  \A v \in Worker : /\ Reached(v, k, {"sendLast", "recvLast"}) => Begun(NextW(v), k)
                    /\ ip[NextW(v)] > k => Reached(v, k, {"recvLast"})
InShift(k) ==
  /\ \A v, w \in Worker : ip[v] > k => Reached(w, k, {"barrier"})
  /\ \A v \in Worker : Reached(v, k, {"barrier"}) => Begun(NextW(v), k)
  /\ \A w \in Worker : Begun(w, k) => Begun(0, k)
InGlobal(k) ==
  /\ \A v, w \in Worker : ip[v] > k => Begun(w, k)
  /\ \A v \in Worker : ip[v] > k => ip[0] > k
Gathered == pc[0] = "gather" => \A w \in 1 .. nextSrc - 1 : Begun(w, ip[0])
Order ==
  /\ \A k \in Turn :
       /\ \A v \in Worker : ip[v] > k => At(k) \in {"section", "shift", "global"}
       /\ At(k) = "section" => InSection(k)
       /\ At(k) = "shift" => InShift(k)
       /\ At(k) = "global" => InGlobal(k)
  /\ Gathered

Course == Control /\ Order

-----------------------------------------------------------------------------
(* What has been sent and not received: by rank x, the last slice of a     *)
(* section to the next rank, the first slices of a section or a shift to   *)
(* the one before, its permutation to rank 0; to rank w, rank 0's global   *)
(* permutation and its shift.                                              *)
LastOut(x) == Op(NextW(x)) = "section" /\ Reached(x, ip[NextW(x)], {"recvLast"})
Consumed(w, k) == Reached(w, k, {"sendLast", "recvLast", "barrier"})
FirstOut(x) == /\ pc[x] # "ready" /\ Op(x) \in {"section", "shift"}
               /\ ~Consumed(Prev(x), ip[x])
Awaited(x) ==
  \/ ip[0] < ip[x]
  \/ ip[0] = ip[x] /\ (pc[0] = "ready" \/ (pc[0] = "gather" /\ nextSrc <= x))
PermOut(x) == pc[x] = "recvGlobal" /\ Awaited(x)
GlobalOut(w) == pc[w] = "recvGlobal" /\ ip[0] > ip[w]
ShiftOut(w) == Op(0) = "shift" /\ pc[0] # "ready" /\ ~Begun(w, ip[0])

-----------------------------------------------------------------------------
(* The ranks form a ring.                                                  *)
LEMMA RingOfRanks ==
  /\ 0 \in Worker /\ NWorker \in Nat /\ NWorker > 1 /\ Worker \subseteq Nat
  /\ \A w \in Worker : /\ NextW(w) \in Worker /\ Prev(w) \in Worker
                       /\ NextW(w) # w /\ Prev(w) # w
                       /\ Prev(NextW(w)) = w /\ NextW(Prev(w)) = w
<1>1. NWorker \in Nat /\ NWorker > 1
  BY WorkerAssumption
<1>2. ASSUME NEW w \in 0 .. NWorker - 1
      PROVE  /\ NextW(w) = IF w = NWorker - 1 THEN 0 ELSE w + 1
             /\ Prev(w) = IF w = 0 THEN NWorker - 1 ELSE w - 1
  <2>1. NextW(w) = IF w = NWorker - 1 THEN 0 ELSE w + 1
    BY <1>1 DEF NextW
  <2>2. Prev(w) = IF w = 0 THEN NWorker - 1 ELSE w - 1
    BY <1>1 DEF Prev
  <2> QED
    BY <2>1, <2>2
<1> QED
  BY <1>1, <1>2 DEF Worker

(* The ranks before and after one are two others, and each is named by the *)
(* other.                                                                  *)
LEMMA Neighbours ==
  ASSUME NEW w \in Worker
  PROVE  /\ NextW(w) \in Worker /\ Prev(w) \in Worker
         /\ NextW(w) # w /\ Prev(w) # w
         /\ Prev(NextW(w)) = w /\ NextW(Prev(w)) = w
         /\ \A x \in Worker : (w = NextW(x) <=> x = Prev(w)) /\ (w = Prev(x) <=> x = NextW(w))
BY RingOfRanks

(* Every rank has slices of its own, and as many as the longest shift.     *)
LEMMA SlicesOfRanks ==
  ASSUME NEW w \in Worker
  PROVE  nprocSlice(w) \in Nat /\ nprocSlice(w) >= MaxShift /\ MaxShift \in Nat /\ MaxShift > 0
<1>1. NSlice \in Nat /\ NWorker \in Nat /\ NWorker > 0
  BY SliceAssumption, WorkerAssumption
<1>2. NSlice \div NWorker \in Int /\ NSlice % NWorker \in 0 .. NWorker - 1
  BY <1>1
<1>3. MaxShift \in Nat /\ MaxShift > 0 /\ MaxShift <= NSlice \div NWorker
  BY <1>2, MaxShiftAssumption
<1> DEFINE q == NSlice \div NWorker
           r == NSlice % NWorker
<1>4. nprocSlice(w) = q + (IF w = NWorker - 1 THEN r ELSE 0)
  BY DEF nprocSlice
<1>5. q \in Int /\ r \in Nat /\ MaxShift <= q
  BY <1>1, <1>2, <1>3
<1> HIDE DEF q, r
<1> QED
  BY <1>3, <1>4, <1>5


-----------------------------------------------------------------------------
(* The moves of a rank inside its operation and out of it, as far as the   *)
(* course of the ranks is concerned.                                       *)
Inside(w, call) ==
  \/ pc[w] = "ready" /\ call = "recvFirst" /\ Op(w) = "section"
  \/ pc[w] = "recvFirst" /\ call = "sendLast" /\ FirstOut(NextW(w))
  \/ pc[w] = "sendLast" /\ call = "recvLast"
  \/ /\ pc[w] = "ready" /\ call = "recvShift" /\ Op(w) = "shift"
     /\ w = 0 \/ Begun(0, ip[w])
  \/ pc[w] = "recvShift" /\ call = "barrier" /\ FirstOut(NextW(w))
  \/ pc[w] = "ready" /\ call = "gather" /\ w = 0 /\ Op(w) = "global"
  \/ pc[w] = "ready" /\ call = "recvGlobal" /\ w # 0 /\ Op(w) = "global"
Onward(w, call) ==
  /\ Inside(w, call) /\ Block(w, call)
  /\ nextSrc' = IF call = "gather" THEN 1 ELSE nextSrc

Finished(w) ==
  \/ pc[w] = "recvLast" /\ LastOut(Prev(w))
  \/ pc[w] = "barrier" /\ BarrierOpens(w)
  \/ pc[w] = "gather" /\ w = 0 /\ nextSrc = NWorker - 1 /\ PermOut(nextSrc)
  \/ pc[w] = "recvGlobal" /\ GlobalOut(w)
Leave(w) ==
  /\ Finished(w) /\ Advance(w)
  /\ nextSrc' = IF pc[w] = "gather" THEN 0 ELSE nextSrc

GatherOn ==
  /\ pc[0] = "gather" /\ nextSrc # NWorker - 1 /\ PermOut(nextSrc)
  /\ nextSrc' = nextSrc + 1 /\ UNCHANGED progressVars

(* An operation a rank is in is one of the program.                        *)
LEMMA OpIs == \A w : Op(w) = At(ip[w])
BY DEF Op, At

(* The turns of the program do not change.                                 *)
LEMMA OpStays ==
  ASSUME program' = program
  PROVE  \A k : At(k)' = At(k)
BY DEF At

(* What a rank that blocks in a call changes.                              *)
LEMMA Blocks ==
  ASSUME Control, NEW w \in Worker, NEW call \in Places, Block(w, call)
  PROVE  /\ pc' \in [Worker -> Places \cup {"ready"}] /\ pc'[w] = call
         /\ ip' = ip /\ program' = program
         /\ \A u \in Worker : u # w => pc'[u] = pc[u]
BY DEF Control, Block

(* What a rank that goes on to its next operation changes.                 *)
LEMMA Advances ==
  ASSUME Control, NEW w \in Worker, Advance(w)
  PROVE  /\ pc' \in [Worker -> Places \cup {"ready"}] /\ ip' \in [Worker -> Turn]
         /\ pc'[w] = "ready" /\ ip'[w] = ip[w] + 1 /\ program' = program
         /\ \A u \in Worker : u # w => pc'[u] = pc[u] /\ ip'[u] = ip[u]
<1>1. /\ ip' \in [Worker -> Turn] /\ ip'[w] = ip[w] + 1 /\ program' = program
      /\ \A u \in Worker : u # w => ip'[u] = ip[u]
  BY DEF Control, Advance, Turn
<1>2. /\ pc' \in [Worker -> Places \cup {"ready"}] /\ pc'[w] = "ready"
      /\ \A u \in Worker : u # w => pc'[u] = pc[u]
  BY DEF Control, Advance
<1> QED
  BY <1>1, <1>2

(* The calls of an operation.                                              *)
LEMMA CallIn ==
  ASSUME Control, NEW w \in Worker, NEW call, Inside(w, call)
  PROVE  /\ call \in Places
         /\ call \in {"recvFirst", "sendLast", "recvLast"} => At(ip[w]) = "section"
         /\ call \in {"recvShift", "barrier"} => At(ip[w]) = "shift"
         /\ call \in {"gather", "recvGlobal"} => At(ip[w]) = "global"
         /\ call = "gather" => w = 0
         /\ call = "recvGlobal" => w # 0
BY OpIs DEF Control, Inside, Places


(* A move inside an operation leaves every rank in a call of its           *)
(* operation.                                                              *)
LEMMA InsideControl ==
  ASSUME Course, NEW w \in Worker, NEW call, Onward(w, call)
  PROVE  Control'
<1>1. /\ Control /\ Inside(w, call) /\ Block(w, call)
      /\ nextSrc' = IF call = "gather" THEN 1 ELSE nextSrc
  BY DEF Course, Onward
<1>2. call \in Places
  BY <1>1, CallIn
<1>3. /\ pc' \in [Worker -> Places \cup {"ready"}] /\ pc'[w] = call
      /\ ip' = ip /\ program' = program
      /\ \A u \in Worker : u # w => pc'[u] = pc[u]
  BY <1>1, <1>2, Blocks
<1>4. nextSrc' \in Worker
  <2>1. 1 \in Worker
    BY RingOfRanks DEF Worker
  <2> QED
    BY <1>1, <2>1 DEF Control
<1>5. \A u : Op(u)' = Op(u)
  BY <1>3, OpIs, OpStays DEF Op
<1>6. \A u \in Worker :
        /\ pc'[u] \in {"recvFirst", "sendLast", "recvLast"} => Op(u) = "section"
        /\ pc'[u] \in {"recvShift", "barrier"} => Op(u) = "shift"
        /\ pc'[u] \in {"gather", "recvGlobal"} => Op(u) = "global"
        /\ pc'[u] = "gather" => u = 0
        /\ pc'[u] = "recvGlobal" => u # 0
  BY <1>1, <1>3, CallIn, OpIs DEF Control
<1>7. pc'[0] = "gather" => nextSrc' # 0
  <2>1. CASE call = "gather"
    BY <1>1, <2>1
  <2>2. CASE call # "gather"
    BY <1>1, <1>3, <2>2, RingOfRanks DEF Control
  <2> QED
    BY <2>1, <2>2
<1> QED
  BY <1>1, <1>3, <1>4, <1>5, <1>6, <1>7 DEF Control

(* So does leaving an operation.                                           *)
LEMMA LeaveControl ==
  ASSUME Course, NEW w \in Worker, Leave(w)
  PROVE  Control'
<1>1. /\ Control /\ Advance(w)
      /\ nextSrc' = IF pc[w] = "gather" THEN 0 ELSE nextSrc
  BY DEF Course, Leave
<1>2. /\ pc' \in [Worker -> Places \cup {"ready"}] /\ ip' \in [Worker -> Turn]
      /\ pc'[w] = "ready" /\ ip'[w] = ip[w] + 1 /\ program' = program
      /\ \A u \in Worker : u # w => pc'[u] = pc[u] /\ ip'[u] = ip[u]
  BY <1>1, Advances
<1>3. nextSrc' \in Worker
  BY <1>1, RingOfRanks DEF Control
<1>4. \A u \in Worker : u # w => Op(u)' = Op(u)
  BY <1>2 DEF Op
<1>5. pc'[0] = "gather" => nextSrc' # 0
  BY <1>1, <1>2, RingOfRanks DEF Control
<1> QED
  BY <1>1, <1>2, <1>3, <1>4, <1>5 DEF Control

(* How much further each rank is after such a move.                        *)
LEMMA InsideProgress ==
  ASSUME Course, NEW w \in Worker, NEW call, Onward(w, call), NEW k \in Turn
  PROVE  /\ ip' = ip /\ At(k)' = At(k)
         /\ Begun(w, ip[w])'
         /\ \A u \in Worker : Begun(u, k) => Begun(u, k)'
         /\ \A u \in Worker : u # w \/ k # ip[w] => (Begun(u, k)' <=> Begun(u, k))
         /\ \A S : \A u \in Worker : u # w \/ k # ip[w] => (Reached(u, k, S)' <=> Reached(u, k, S))
         /\ \A S : Reached(w, ip[w], S)' <=> call \in S
<1>1. /\ Control /\ Inside(w, call) /\ Block(w, call) /\ call \in Places
  BY CallIn DEF Course, Onward
<1>2. /\ pc'[w] = call /\ ip' = ip /\ program' = program
      /\ \A u \in Worker : u # w => pc'[u] = pc[u]
  BY <1>1, Blocks
<1>3. call # "ready"
  BY <1>1 DEF Places
<1>4. ip[w] \in Nat /\ \A u \in Worker : ip[u] \in Nat
  BY <1>1 DEF Control, Turn
<1>5. At(k)' = At(k)
  BY <1>2, OpStays
<1>6. /\ Begun(w, ip[w])'
      /\ \A u \in Worker : Begun(u, k) => Begun(u, k)'
      /\ \A u \in Worker : u # w \/ k # ip[w] => (Begun(u, k)' <=> Begun(u, k))
  BY <1>2, <1>3, <1>4 DEF Begun
<1>7. \A S : \A u \in Worker : u # w \/ k # ip[w] => (Reached(u, k, S)' <=> Reached(u, k, S))
  BY <1>2, <1>4 DEF Reached
<1>8. \A S : Reached(w, ip[w], S)' <=> call \in S
  BY <1>2, <1>4 DEF Reached
<1> QED
  BY <1>2, <1>5, <1>6, <1>7, <1>8


(* A rank whose first slices are on the way to w has begun w's operation.  *)
LEMMA SenderBegun ==
  ASSUME Control, NEW w \in Worker, FirstOut(NextW(w))
  PROVE  Begun(NextW(w), ip[w])
<1>1. NextW(w) \in Worker /\ Prev(NextW(w)) = w
  BY Neighbours
<1>2. ip[w] \in Nat /\ ip[NextW(w)] \in Nat
  BY <1>1 DEF Control, Turn
<1> QED
  BY <1>1, <1>2 DEF FirstOut, Consumed, Reached, Begun

(* A move inside an operation keeps the ranks as close as they have to be. *)
LEMMA InsideOrder ==
  ASSUME Course, NEW w \in Worker, NEW call, Onward(w, call)
  PROVE  Order'
<1>1. /\ Control /\ Order /\ Inside(w, call)
      /\ nextSrc' = IF call = "gather" THEN 1 ELSE nextSrc
      /\ ip[w] \in Turn
  BY DEF Course, Onward, Control
<1>2. pc[w] \in {"ready", "recvFirst", "sendLast", "recvShift"}
  BY <1>1 DEF Inside
<1>3. ASSUME NEW S, S \in {{"barrier"}, {"recvLast"}}
      PROVE  ~Reached(w, ip[w], S)
  BY <1>1, <1>2, <1>3 DEF Reached, Control, Turn
<1>4. ASSUME NEW k \in Turn
      PROVE  /\ \A v \in Worker : ip'[v] > k => At(k)' \in {"section", "shift", "global"}
             /\ At(k)' = "section" => InSection(k)'
             /\ At(k)' = "shift" => InShift(k)'
             /\ At(k)' = "global" => InGlobal(k)'
  <2>1. /\ ip' = ip /\ At(k)' = At(k)
        /\ Begun(w, ip[w])'
        /\ \A u \in Worker : Begun(u, k) => Begun(u, k)'
        /\ \A u \in Worker : u # w \/ k # ip[w] => (Begun(u, k)' <=> Begun(u, k))
        /\ \A S : \A u \in Worker : u # w \/ k # ip[w] => (Reached(u, k, S)' <=> Reached(u, k, S))
        /\ \A S : Reached(w, ip[w], S)' <=> call \in S
    BY InsideProgress
  <2>2. ASSUME At(k) = "section", NEW v \in Worker
        PROVE  /\ Reached(v, k, {"sendLast", "recvLast"})' => Begun(NextW(v), k)'
               /\ ip'[NextW(v)] > k => Reached(v, k, {"recvLast"})'
    <3>1. /\ Reached(v, k, {"sendLast", "recvLast"}) => Begun(NextW(v), k)
          /\ ip[NextW(v)] > k => Reached(v, k, {"recvLast"})
          /\ NextW(v) \in Worker
      BY <1>1, <2>2, Neighbours DEF Order, InSection
    <3>2. CASE v # w \/ k # ip[w]
      BY <2>1, <3>1, <3>2
    <3>3. CASE v = w /\ k = ip[w]
      <4>1. Reached(v, k, {"sendLast", "recvLast"})' => Begun(NextW(v), k)
        <5>1. CASE call = "sendLast"
          BY <1>1, <3>3, <5>1, SenderBegun DEF Inside
        <5>2. CASE call = "recvLast"
          <6>1. pc[w] = "sendLast"
            BY <1>1, <5>2 DEF Inside
          <6> QED
            BY <3>1, <3>3, <6>1 DEF Reached
        <5>3. CASE call \notin {"sendLast", "recvLast"}
          BY <2>1, <3>3, <5>3
        <5> QED
          BY <5>1, <5>2, <5>3
      <4>2. ~(ip[NextW(v)] > k)
        BY <1>3, <3>1, <3>3
      <4> QED
        BY <2>1, <3>1, <4>1, <4>2
    <3> QED
      BY <3>2, <3>3
  <2>3. ASSUME At(k) = "shift"
        PROVE  InShift(k)'
    <3>1. InShift(k)
      BY <1>1, <2>3 DEF Order
    <3>2. ASSUME NEW v \in Worker, NEW u \in Worker, ip'[v] > k
          PROVE  Reached(u, k, {"barrier"})'
      <4>1. Reached(u, k, {"barrier"})
        BY <2>1, <3>1, <3>2 DEF InShift
      <4> QED
        BY <1>3, <2>1, <4>1
    <3>3. ASSUME NEW v \in Worker, Reached(v, k, {"barrier"})'
          PROVE  Begun(NextW(v), k)'
      <4>1. NextW(v) \in Worker
        BY Neighbours
      <4>2. CASE v # w \/ k # ip[w]
        BY <2>1, <3>1, <3>3, <4>1, <4>2 DEF InShift
      <4>3. CASE v = w /\ k = ip[w]
        <5>1. call = "barrier"
          BY <2>1, <3>3, <4>3
        <5>2. FirstOut(NextW(w))
          BY <1>1, <5>1 DEF Inside
        <5> QED
          BY <1>1, <2>1, <4>1, <4>3, <5>2, SenderBegun
      <4> QED
        BY <4>2, <4>3
    <3>4. ASSUME NEW u \in Worker, Begun(u, k)'
          PROVE  Begun(0, k)'
      <4>1. CASE u # w \/ k # ip[w]
        BY <2>1, <3>1, <3>4, <4>1, RingOfRanks DEF InShift
      <4>2. CASE u = w /\ k = ip[w]
        <5>1. CASE pc[w] = "ready"
          <6>1. call = "recvShift"
            BY <1>1, <2>3, <4>2, <5>1, CallIn DEF Inside
          <6>2. w = 0 \/ Begun(0, ip[w])
            BY <1>1, <6>1 DEF Inside
          <6> QED
            BY <2>1, <4>2, <6>2, RingOfRanks
        <5>2. CASE pc[w] # "ready"
          <6>1. Begun(w, k)
            BY <4>2, <5>2 DEF Begun
          <6> QED
            BY <2>1, <3>1, <6>1, RingOfRanks DEF InShift
        <5> QED
          BY <5>1, <5>2
      <4> QED
        BY <4>1, <4>2
    <3> QED
      BY <3>2, <3>3, <3>4 DEF InShift
  <2>4. ASSUME At(k) = "global"
        PROVE  InGlobal(k)'
    BY <1>1, <2>1, <2>4 DEF Order, InGlobal
  <2>5. \A v \in Worker : ip'[v] > k => At(k)' \in {"section", "shift", "global"}
    BY <1>1, <2>1 DEF Order
  <2> QED
    BY <2>1, <2>2, <2>3, <2>4, <2>5 DEF InSection
<1>5. Gathered'
  <2> SUFFICES ASSUME pc'[0] = "gather", NEW u \in 1 .. nextSrc' - 1
               PROVE  Begun(u, ip[0])'
    BY DEF Gathered
  <2>1. CASE call = "gather"
    BY <1>1, <2>1
  <2>2. CASE call # "gather"
    <3>1. w # 0
      BY <1>1, <2>2, CallIn, Blocks DEF Onward
    <3>2. pc[0] = "gather" /\ nextSrc' = nextSrc
      BY <1>1, <2>2, <3>1, CallIn, Blocks, RingOfRanks DEF Onward
    <3>3. u \in Worker /\ Begun(u, ip[0]) /\ ip[0] \in Turn
      BY <1>1, <3>2, RingOfRanks DEF Order, Gathered, Control, Worker
    <3> QED
      BY <3>3, InsideProgress
  <2> QED
    BY <2>1, <2>2
<1> QED
  BY <1>4, <1>5 DEF Order


(* The same for a rank that leaves its operation.                          *)
LEMMA LeaveProgress ==
  ASSUME Course, NEW w \in Worker, Leave(w), NEW k \in Turn
  PROVE  /\ At(k)' = At(k)
         /\ \A u \in Worker : u # w => ip'[u] = ip[u] /\ pc'[u] = pc[u]
         /\ ip'[w] = ip[w] + 1 /\ pc'[w] = "ready"
         /\ Begun(w, k)' <=> k <= ip[w]
         /\ \A S : "ready" \notin S => (Reached(w, k, S)' <=> k <= ip[w])
         /\ \A u \in Worker : u # w => (Begun(u, k)' <=> Begun(u, k))
         /\ \A S : \A u \in Worker : u # w => (Reached(u, k, S)' <=> Reached(u, k, S))
         /\ \A u \in Worker : Begun(u, k) => Begun(u, k)'
         /\ \A S : \A u \in Worker : Reached(u, k, S) => Reached(u, k, S)'
<1>1. Control /\ Advance(w)
  BY DEF Course, Leave
<1>2. /\ pc'[w] = "ready" /\ ip'[w] = ip[w] + 1 /\ program' = program
      /\ \A u \in Worker : u # w => pc'[u] = pc[u] /\ ip'[u] = ip[u]
  BY <1>1, Advances
<1>3. ip[w] \in Nat /\ \A u \in Worker : ip[u] \in Nat
  BY <1>1 DEF Control, Turn
<1>4. At(k)' = At(k)
  BY <1>2, OpStays
<1>5. /\ Begun(w, k)' <=> k <= ip[w]
      /\ \A S : k <= ip[w] => Reached(w, k, S)'
      /\ \A S : "ready" \notin S => (Reached(w, k, S)' <=> k <= ip[w])
  <2>1. k \in Nat /\ (ip'[w] > k <=> k <= ip[w])
    BY <1>2, <1>3 DEF Turn
  <2> QED
    BY <1>2, <2>1 DEF Begun, Reached
<1>6. /\ \A u \in Worker : u # w => (Begun(u, k)' <=> Begun(u, k))
      /\ \A S : \A u \in Worker : u # w => (Reached(u, k, S)' <=> Reached(u, k, S))
  BY <1>2 DEF Begun, Reached
<1>7. (Begun(w, k) => k <= ip[w]) /\ (\A S : Reached(w, k, S) => k <= ip[w])
  BY <1>3 DEF Begun, Reached, Turn
<1> QED
  BY <1>2, <1>4, <1>5, <1>6, <1>7

(* What a rank that leaves its operation knows of the others.              *)
LEMMA FinishedKnows ==
  ASSUME Course, NEW w \in Worker, Finished(w)
  PROVE  /\ At(ip[w]) \in {"section", "shift", "global"}
         /\ At(ip[w]) = "section" => /\ pc[w] = "recvLast"
                                     /\ Begun(NextW(w), ip[w])
                                     /\ Reached(Prev(w), ip[w], {"recvLast"})
         /\ At(ip[w]) = "shift" => /\ pc[w] = "barrier"
                                   /\ \A u \in Worker : Reached(u, ip[w], {"barrier"})
         /\ At(ip[w]) = "global" => /\ \A u \in Worker : Begun(u, ip[w])
                                    /\ w # 0 => ip[0] > ip[w]
<1>1. Control /\ Order /\ ip[w] \in Turn /\ Op(w) = At(ip[w])
  BY OpIs DEF Course, Control
<1>2. CASE pc[w] = "recvLast" /\ LastOut(Prev(w))
  <2>1. At(ip[w]) = "section"
    BY <1>1, <1>2 DEF Control
  <2>2. Reached(Prev(w), ip[w], {"recvLast"})
    BY <1>2, Neighbours DEF LastOut
  <2>3. Begun(NextW(w), ip[w])
    BY <1>1, <1>2, <2>1 DEF Order, InSection, Reached
  <2> QED
    BY <1>2, <2>1, <2>2, <2>3
<1>3. CASE pc[w] = "barrier" /\ BarrierOpens(w)
  <2>1. At(ip[w]) = "shift"
    BY <1>1, <1>3 DEF Control
  <2>2. \A u \in Worker : Reached(u, ip[w], {"barrier"})
    BY <1>3 DEF BarrierOpens, Reached
  <2> QED
    BY <1>3, <2>1, <2>2
<1>4. CASE pc[w] = "gather" /\ w = 0 /\ nextSrc = NWorker - 1 /\ PermOut(nextSrc)
  <2>1. At(ip[w]) = "global"
    BY <1>1, <1>4 DEF Control
  <2>2. ASSUME NEW u \in Worker
        PROVE  Begun(u, ip[0])
    <3>1. u = 0 \/ u \in 1 .. nextSrc - 1 \/ u = nextSrc
      BY <1>4, RingOfRanks DEF Worker
    <3>2. CASE u = 0
      BY <1>4, <3>2 DEF Begun
    <3>3. CASE u \in 1 .. nextSrc - 1
      BY <1>1, <1>4, <3>3 DEF Order, Gathered
    <3>4. CASE u = nextSrc
      <4>1. pc[u] = "recvGlobal" /\ (ip[0] < ip[u] \/ ip[0] = ip[u])
        BY <1>4, <3>4 DEF PermOut, Awaited
      <4>2. ip[0] \in Nat /\ ip[u] \in Nat
        BY <1>1, RingOfRanks DEF Control, Turn
      <4> QED
        BY <4>1, <4>2 DEF Begun
    <3> QED
      BY <3>1, <3>2, <3>3, <3>4
  <2> QED
    BY <1>4, <2>1, <2>2
<1>5. CASE pc[w] = "recvGlobal" /\ GlobalOut(w)
  <2>1. At(ip[w]) = "global" /\ ip[0] > ip[w]
    BY <1>1, <1>5 DEF Control, GlobalOut
  <2> QED
    BY <1>1, <2>1, RingOfRanks DEF Order, InGlobal
<1> QED
  BY <1>2, <1>3, <1>4, <1>5 DEF Finished

(* So does leaving an operation.                                           *)
LEMMA LeaveOrder ==
  ASSUME Course, NEW w \in Worker, Leave(w)
  PROVE  Order'
<1>1. Control /\ Order /\ Finished(w) /\ ip[w] \in Turn
      /\ nextSrc' = IF pc[w] = "gather" THEN 0 ELSE nextSrc
  BY DEF Course, Leave, Control
<1>2. ASSUME NEW k \in Turn
      PROVE  /\ \A v \in Worker : ip'[v] > k => At(k)' \in {"section", "shift", "global"}
             /\ At(k)' = "section" => InSection(k)'
             /\ At(k)' = "shift" => InShift(k)'
             /\ At(k)' = "global" => InGlobal(k)'
  <2>1. /\ At(k)' = At(k)
        /\ \A u \in Worker : u # w => ip'[u] = ip[u]
        /\ ip'[w] = ip[w] + 1
        /\ Begun(w, k)' <=> k <= ip[w]
        /\ \A S : "ready" \notin S => (Reached(w, k, S)' <=> k <= ip[w])
        /\ \A S : \A u \in Worker : u # w => (Reached(u, k, S)' <=> Reached(u, k, S))
        /\ \A u \in Worker : Begun(u, k) => Begun(u, k)'
        /\ \A S : \A u \in Worker : Reached(u, k, S) => Reached(u, k, S)'
        /\ \A u \in Worker : u # w => (Begun(u, k)' <=> Begun(u, k))
    BY LeaveProgress
  <2>2. ip[w] \in Nat /\ k \in Nat /\ (k <= ip[w] => k = ip[w] \/ ip[w] > k)
    BY <1>1 DEF Turn
  <2>3. ASSUME NEW v \in Worker, ip'[v] > k
        PROVE  ip[v] > k \/ (v = w /\ k = ip[w])
    BY <2>1, <2>2, <2>3
  <2>4. \A v \in Worker : ip'[v] > k => At(k) \in {"section", "shift", "global"}
    BY <1>1, <2>3, FinishedKnows DEF Order
  <2>5. ASSUME At(k) = "section", NEW v \in Worker
        PROVE  /\ Reached(v, k, {"sendLast", "recvLast"})' => Begun(NextW(v), k)'
               /\ ip'[NextW(v)] > k => Reached(v, k, {"recvLast"})'
    <3>1. /\ Reached(v, k, {"sendLast", "recvLast"}) => Begun(NextW(v), k)
          /\ ip[NextW(v)] > k => Reached(v, k, {"recvLast"})
          /\ NextW(v) \in Worker /\ Prev(NextW(v)) = v
      BY <1>1, <2>5, Neighbours DEF Order, InSection
    <3>2. ASSUME Reached(v, k, {"sendLast", "recvLast"})'
          PROVE  Reached(v, k, {"sendLast", "recvLast"}) \/ (v = w /\ k = ip[w])
      BY <2>1, <2>2, <3>2 DEF Reached
    <3>3. Reached(v, k, {"sendLast", "recvLast"})' => Begun(NextW(v), k)'
      BY <1>1, <2>1, <2>5, <3>1, <3>2, FinishedKnows
    <3>4. ip'[NextW(v)] > k => Reached(v, k, {"recvLast"})
      BY <1>1, <2>3, <2>5, <3>1, FinishedKnows
    <3> QED
      BY <2>1, <3>3, <3>4
  <2>6. ASSUME At(k) = "shift"
        PROVE  InShift(k)'
    <3>1. InShift(k)
      BY <1>1, <2>6 DEF Order
    <3>2. ASSUME NEW v \in Worker, NEW u \in Worker, ip'[v] > k
          PROVE  Reached(u, k, {"barrier"})'
      BY <1>1, <2>1, <2>3, <2>6, <3>1, <3>2, FinishedKnows DEF InShift
    <3>3. ASSUME NEW v \in Worker, Reached(v, k, {"barrier"})'
          PROVE  Begun(NextW(v), k)'
      <4>1. Reached(v, k, {"barrier"})
        <5>1. CASE v = w /\ k = ip[w]
          BY <1>1, <2>6, <5>1, FinishedKnows
        <5>2. CASE v # w \/ k # ip[w]
          BY <2>1, <2>2, <3>3, <5>2 DEF Reached
        <5> QED
          BY <5>1, <5>2
      <4> QED
        BY <2>1, <3>1, <4>1, Neighbours DEF InShift
    <3>4. ASSUME NEW u \in Worker, Begun(u, k)'
          PROVE  Begun(0, k)'
      <4>1. Begun(u, k)
        <5>1. CASE u = w /\ k = ip[w]
          <6>1. pc[w] = "barrier"
            BY <1>1, <2>6, <5>1, FinishedKnows
          <6> QED
            BY <5>1, <6>1 DEF Begun
        <5>2. CASE u # w \/ k # ip[w]
          BY <2>1, <2>2, <3>4, <5>2 DEF Begun
        <5> QED
          BY <5>1, <5>2
      <4> QED
        BY <2>1, <3>1, <4>1, RingOfRanks DEF InShift
    <3> QED
      BY <3>2, <3>3, <3>4 DEF InShift
  <2>7. ASSUME At(k) = "global"
        PROVE  InGlobal(k)'
    <3>1. InGlobal(k)
      BY <1>1, <2>7 DEF Order
    <3>2. \A v, u \in Worker : ip'[v] > k => Begun(u, k)'
      BY <1>1, <2>1, <2>3, <2>7, <3>1, FinishedKnows DEF InGlobal
    <3>3. ASSUME NEW v \in Worker, ip'[v] > k
          PROVE  ip'[0] > k
      <4>1. ip[0] > k \/ (w = 0 /\ k = ip[w])
        BY <1>1, <2>3, <2>7, <3>1, <3>3, FinishedKnows DEF InGlobal
      <4>2. ip[0] \in Nat /\ 0 \in Worker
        BY <1>1, RingOfRanks DEF Control, Turn
      <4> QED
        BY <2>1, <2>2, <4>1, <4>2
    <3> QED
      BY <3>2, <3>3 DEF InGlobal
  <2> QED
    BY <2>1, <2>4, <2>5, <2>6, <2>7 DEF InSection
<1>3. Gathered'
  <2> SUFFICES ASSUME pc'[0] = "gather", NEW u \in 1 .. nextSrc' - 1
               PROVE  Begun(u, ip[0])'
    BY DEF Gathered
  <2>1. w # 0 /\ pc[0] = "gather" /\ pc[w] # "gather" /\ ip'[0] = ip[0] /\ ip[0] \in Turn
    BY <1>1, LeaveProgress, RingOfRanks DEF Control
  <2>2. u \in Worker /\ Begun(u, ip[0])
    BY <1>1, <2>1, RingOfRanks DEF Order, Gathered, Control, Worker
  <2> QED
    BY <2>1, <2>2, LeaveProgress
<1> QED
  BY <1>2, <1>3 DEF Order


(* And so does rank 0 going on to the next permutation.                    *)
LEMMA GatherOnCourse ==
  ASSUME Course, GatherOn
  PROVE  Course'
<1>1. /\ Control /\ Order /\ pc[0] = "gather" /\ nextSrc # NWorker - 1 /\ PermOut(nextSrc)
      /\ nextSrc' = nextSrc + 1 /\ pc' = pc /\ ip' = ip /\ program' = program
  BY DEF Course, GatherOn, progressVars
<1>2. nextSrc' \in Worker /\ nextSrc' # 0 /\ nextSrc \in Nat
  BY <1>1, RingOfRanks DEF Control, Worker
<1>3. Control'
  <2>1. \A u : Op(u)' = Op(u)
    BY <1>1 DEF Op
  <2> QED
    BY <1>1, <1>2, <2>1 DEF Control
<1>4. (\A u, k : Begun(u, k)' <=> Begun(u, k)) /\ (\A u, k, S : Reached(u, k, S)' <=> Reached(u, k, S))
  BY <1>1 DEF Begun, Reached
<1>5. Gathered'
  <2>1. Begun(nextSrc, ip[0])
    <3>1. pc[nextSrc] = "recvGlobal" /\ (ip[0] < ip[nextSrc] \/ ip[0] = ip[nextSrc])
      BY <1>1 DEF PermOut, Awaited
    <3>2. ip[0] \in Nat /\ ip[nextSrc] \in Nat
      BY <1>1, RingOfRanks DEF Control, Turn
    <3> QED
      BY <3>1, <3>2 DEF Begun
  <2>2. \A u \in 1 .. nextSrc' - 1 : u \in 1 .. nextSrc - 1 \/ u = nextSrc
    BY <1>1, <1>2
  <2>3. \A u \in 1 .. nextSrc' - 1 : Begun(u, ip[0])
    BY <1>1, <2>1, <2>2 DEF Order, Gathered
  <2> QED
    BY <1>1, <1>4, <2>3 DEF Gathered
<1>6. \A k : At(k)' = At(k)
  BY <1>1, OpStays
<1>7. Order'
  BY <1>1, <1>4, <1>5, <1>6 DEF Order, InSection, InShift, InGlobal
<1> QED
  BY <1>3, <1>7 DEF Course

-----------------------------------------------------------------------------
(* A rank inside a section or a shift whose slices are still on the way    *)
(* has not left it, and its neighbour has yet to receive them.             *)
LEMMA FirstOutHere ==
  ASSUME Course, NEW x \in Worker, FirstOut(x)
  PROVE  /\ pc[x] # "ready" /\ At(ip[x]) \in {"section", "shift"}
         /\ ~Consumed(Prev(x), ip[x]) /\ ip[Prev(x)] <= ip[x]
         /\ At(ip[x]) = "shift" => pc[x] \in {"recvShift", "barrier"}
         /\ At(ip[x]) = "section" => pc[x] \in {"recvFirst", "sendLast", "recvLast"}
<1>1. pc[x] # "ready" /\ At(ip[x]) \in {"section", "shift"} /\ ~Consumed(Prev(x), ip[x])
  BY OpIs DEF FirstOut
<1>2. ip[Prev(x)] \in Nat /\ ip[x] \in Nat
  BY Neighbours DEF Course, Control, Turn
<1>3. ip[Prev(x)] <= ip[x]
  BY <1>1, <1>2 DEF Consumed, Reached
<1>4. /\ At(ip[x]) = "shift" => pc[x] \in {"recvShift", "barrier"}
      /\ At(ip[x]) = "section" => pc[x] \in {"recvFirst", "sendLast", "recvLast"}
  BY <1>1, OpIs DEF Course, Control, Places
<1> QED
  BY <1>1, <1>3, <1>4

(* A rank to which a last slice is on the way is inside a section.         *)
LEMMA LastOutHere ==
  ASSUME Course, NEW x \in Worker, LastOut(x)
  PROVE  /\ At(ip[NextW(x)]) = "section"
         /\ pc[NextW(x)] \in {"recvFirst", "sendLast", "recvLast"}
<1> DEFINE y == NextW(x)
<1>1. y \in Worker /\ ip[y] \in Turn /\ At(ip[y]) = "section" /\ Reached(x, ip[y], {"recvLast"})
  BY Neighbours, OpIs DEF LastOut, Course, Control
<1>2. Begun(y, ip[y])
  BY <1>1 DEF Course, Order, InSection, Reached
<1>3. pc[y] # "ready"
  BY <1>1, <1>2 DEF Begun, Turn
<1> QED
  BY <1>1, <1>3, OpIs DEF Course, Control, Places

(* A last slice goes on its way when its sender begins to wait for one,    *)
(* and stays so inside operations.                                         *)
LEMMA InsideLast ==
  ASSUME Course, NEW w \in Worker, NEW call, Onward(w, call)
  PROVE  /\ \A x \in Worker : LastOut(x)' <=> (LastOut(x) \/ (x = w /\ call = "recvLast"))
         /\ call = "recvLast" =>
              /\ ~LastOut(w) /\ ip[NextW(w)] = ip[w]
              /\ pc[NextW(w)] \in {"recvFirst", "sendLast", "recvLast"}
<1>1. /\ Control /\ Order /\ Inside(w, call) /\ ip[w] \in Turn /\ Op(w) = At(ip[w])
      /\ ip' = ip /\ program' = program
  BY CallIn, Blocks, OpIs DEF Course, Onward, Control
<1>2. pc[w] \in {"ready", "recvFirst", "sendLast", "recvShift"}
  BY <1>1 DEF Inside
<1>3. ~Reached(w, ip[w], {"recvLast"})
  BY <1>1, <1>2 DEF Reached, Turn
<1>4. ASSUME call = "recvLast"
      PROVE  /\ ip[NextW(w)] = ip[w] /\ At(ip[w]) = "section"
             /\ pc[NextW(w)] \in {"recvFirst", "sendLast", "recvLast"}
  <2>1. pc[w] = "sendLast" /\ At(ip[w]) = "section"
    BY <1>1, <1>4 DEF Inside, Control
  <2>2. Begun(NextW(w), ip[w]) /\ ~(ip[NextW(w)] > ip[w])
    BY <1>1, <1>3, <2>1 DEF Order, InSection, Reached
  <2>3. NextW(w) \in Worker /\ pc[NextW(w)] # "ready" /\ ip[NextW(w)] = ip[w]
    BY <2>2, Neighbours DEF Begun
  <2> QED
    BY <1>1, <2>1, <2>3, OpIs DEF Control, Places
<1>5. ASSUME NEW x \in Worker
      PROVE  LastOut(x)' <=> (LastOut(x) \/ (x = w /\ call = "recvLast"))
  <2> DEFINE y == NextW(x)
  <2>1. y \in Worker /\ ip[y] \in Turn /\ Op(y)' = Op(y)
    BY <1>1, Neighbours DEF Control, Op
  <2>2. LastOut(x)' <=> Op(y) = "section" /\ Reached(x, ip[y], {"recvLast"})'
    BY <1>1, <2>1 DEF LastOut, Reached
  <2>3. CASE x # w \/ ip[y] # ip[w]
    <3>1. Reached(x, ip[y], {"recvLast"})' <=> Reached(x, ip[y], {"recvLast"})
      <4>1. \A k \in Turn : \A S : \A u \in Worker : u # w \/ k # ip[w] => (Reached(u, k, S)' <=> Reached(u, k, S))
        BY InsideProgress
      <4>2. (Reached(x, ip[y], {"recvLast"})' <=> ip'[x] > ip'[y] \/ (ip'[x] = ip'[y] /\ pc'[x] \in {"recvLast"}))
        BY DEF Reached
      <4>3. x # w => pc'[x] = pc[x]
        BY CallIn, Blocks DEF Course, Onward
      <4> QED
        BY <1>1, <2>3, <4>2, <4>3 DEF Reached
    <3>2. x = w => call # "recvLast"
      BY <1>4, <2>3
    <3> QED
      BY <2>2, <3>1, <3>2 DEF LastOut
  <2>4. CASE x = w /\ ip[y] = ip[w]
    <3>1. Reached(x, ip[y], {"recvLast"})' <=> call = "recvLast"
      BY <1>1, <2>4, CallIn, Blocks DEF Reached, Turn, Course, Onward
    <3>2. ~LastOut(x)
      BY <1>3, <2>4 DEF LastOut
    <3>3. call = "recvLast" => Op(y) = "section"
      BY <1>4, <2>4, OpIs
    <3> QED
      BY <2>2, <2>4, <3>1, <3>2, <3>3
  <2> QED
    BY <2>3, <2>4
<1>6. call = "recvLast" => ~LastOut(w)
  BY <1>3, <1>4 DEF LastOut
<1> QED
  BY <1>4, <1>5, <1>6


(* Slices received in a section or a shift were sent in the same one.      *)
LEMMA SenderIsThere ==
  ASSUME Course, NEW w \in Worker, pc[w] \in {"recvFirst", "recvShift"}, FirstOut(NextW(w))
  PROVE  ip[NextW(w)] = ip[w]
<1> DEFINE x == NextW(w)
<1>1. x \in Worker /\ Prev(x) = w /\ ip[x] \in Nat /\ ip[w] \in Nat /\ ip[w] \in Turn
  BY Neighbours DEF Course, Control, Turn
<1>2. ip[w] <= ip[x]
  BY <1>1, FirstOutHere
<1>3. ~(ip[x] > ip[w])
  <2>1. CASE pc[w] = "recvFirst"
    <3>1. At(ip[w]) = "section"
      BY <2>1, OpIs DEF Course, Control
    <3>2. ip[x] > ip[w] => Reached(w, ip[w], {"recvLast"})
      BY <1>1, <3>1 DEF Course, Order, InSection
    <3> QED
      BY <1>1, <2>1, <3>2 DEF Reached
  <2>2. CASE pc[w] = "recvShift"
    <3>1. At(ip[w]) = "shift"
      BY <2>2, OpIs DEF Course, Control
    <3>2. ip[x] > ip[w] => Reached(w, ip[w], {"barrier"})
      BY <1>1, <3>1 DEF Course, Order, InShift
    <3> QED
      BY <1>1, <2>2, <3>2 DEF Reached
  <2> QED
    BY <2>1, <2>2
<1> QED
  BY <1>1, <1>2, <1>3

(* A rank about to begin a section or a shift: the rank before it cannot   *)
(* have received the slices of it.                                         *)
LEMMA NotConsumedYet ==
  ASSUME Course, NEW w \in Worker, pc[w] = "ready", At(ip[w]) \in {"section", "shift"}
  PROVE  ~Consumed(Prev(w), ip[w])
<1> DEFINE v == Prev(w)
           k == ip[w]
<1>1. v \in Worker /\ NextW(v) = w /\ k \in Turn /\ Control /\ Order
  BY Neighbours DEF Course, Control
<1>2. ~Begun(w, k)
  BY <1>1 DEF Begun, Turn
<1> HIDE DEF v, k
<1>3. CASE At(k) = "section"
  <2>1. ~Reached(v, k, {"sendLast", "recvLast"})
    BY <1>1, <1>2, <1>3 DEF Order, InSection
  <2>2. ip[v] = k => pc[v] # "barrier"
    BY <1>1, <1>3, OpIs DEF Control
  <2> QED
    BY <2>1, <2>2 DEF Consumed, Reached, v, k
<1>4. CASE At(k) = "shift"
  <2>1. ~Reached(v, k, {"barrier"})
    BY <1>1, <1>2, <1>4 DEF Order, InShift
  <2>2. ip[v] = k => pc[v] \notin {"sendLast", "recvLast"}
    BY <1>1, <1>4, OpIs DEF Control
  <2> QED
    BY <2>1, <2>2 DEF Consumed, Reached, v, k
<1> QED
  BY <1>3, <1>4 DEF k

(* First slices go on their way when their sender begins a section or a    *)
(* shift, until the rank before it has received them.                      *)
LEMMA InsideFirst ==
  ASSUME Course, NEW w \in Worker, NEW call, Onward(w, call)
  PROVE  /\ \A x \in Worker :
              FirstOut(x)' <=> \/ FirstOut(x) /\ ~(x = NextW(w) /\ call \in {"sendLast", "barrier"})
                               \/ x = w /\ call \in {"recvFirst", "recvShift"}
         /\ call \in {"recvFirst", "recvShift"} => ~FirstOut(w)
<1>1. /\ Control /\ Inside(w, call) /\ ip[w] \in Turn /\ Op(w) = At(ip[w])
      /\ ip' = ip /\ program' = program /\ call \in Places /\ pc'[w] = call
      /\ \A u \in Worker : u # w => pc'[u] = pc[u]
  BY CallIn, Blocks, OpIs DEF Course, Onward, Control
<1>2. \A u : Op(u)' = Op(u)
  BY <1>1 DEF Op
<1>3. ASSUME NEW x \in Worker, NEW k, k = ip[x]
      PROVE  FirstOut(x)' <=> /\ pc'[x] # "ready" /\ Op(x) \in {"section", "shift"}
                              /\ ~Consumed(Prev(x), k)'
  BY <1>1, <1>2, <1>3 DEF FirstOut, Consumed, Reached
<1>4. \A v \in Worker, k \in Turn : v # w \/ k # ip[w] => (Consumed(v, k)' <=> Consumed(v, k))
  BY InsideProgress DEF Consumed
<1>5. call \in {"recvFirst", "recvShift"} <=> pc[w] = "ready" /\ Op(w) \in {"section", "shift"}
  BY <1>1 DEF Inside
<1>6. \A k \in Turn : k = ip[w] => (Consumed(w, k)' <=> call \in {"sendLast", "recvLast", "barrier"})
  BY <1>1 DEF Consumed, Reached, Turn
<1>7. ASSUME NEW x \in Worker
      PROVE  FirstOut(x)' <=> \/ FirstOut(x) /\ ~(x = NextW(w) /\ call \in {"sendLast", "barrier"})
                              \/ x = w /\ call \in {"recvFirst", "recvShift"}
  <2>1. CASE x = w
    <3>1. Prev(w) \in Worker /\ Prev(w) # w /\ NextW(w) # w
      BY Neighbours
    <3>2. FirstOut(w)' <=> Op(w) \in {"section", "shift"} /\ ~Consumed(Prev(w), ip[w])
      <4>1. PICK k \in Turn : k = ip[w]
        BY <1>1
      <4>2. Consumed(Prev(w), k)' <=> Consumed(Prev(w), k)
        BY <1>4, <3>1
      <4> QED
        BY <1>1, <1>3, <4>1, <4>2 DEF Places
    <3>3. CASE pc[w] = "ready"
      BY <1>1, <1>5, <2>1, <3>2, <3>3, NotConsumedYet DEF FirstOut
    <3>4. CASE pc[w] # "ready"
      BY <1>5, <2>1, <3>1, <3>2, <3>4 DEF FirstOut
    <3> QED
      BY <3>3, <3>4
  <2>2. CASE x # w /\ x # NextW(w)
    <3>1. Prev(x) \in Worker /\ Prev(x) # w /\ ip[x] \in Turn
      BY <1>1, <2>2, Neighbours DEF Control
    <3>2. PICK k \in Turn : k = ip[x]
      BY <3>1
    <3>3. Consumed(Prev(x), k)' <=> Consumed(Prev(x), ip[x])
      BY <1>4, <3>1, <3>2
    <3>4. FirstOut(x)' <=> FirstOut(x)
      BY <1>1, <1>3, <2>2, <3>2, <3>3 DEF FirstOut
    <3> QED
      BY <2>2, <3>4
  <2>3. CASE x = NextW(w)
    <3>1. Prev(x) = w /\ x # w /\ ip[x] \in Turn
      BY <1>1, <2>3, Neighbours DEF Control
    <3>2. PICK k \in Turn : k = ip[x]
      BY <3>1
    <3>3. CASE call \in {"sendLast", "barrier"}
      <4>1. k = ip[w]
        BY <1>1, <2>3, <3>2, <3>3, SenderIsThere DEF Inside
      <4> QED
        BY <1>3, <1>6, <2>3, <3>1, <3>2, <3>3, <4>1
    <3>4. CASE call \notin {"sendLast", "barrier"}
      <4>1. Consumed(w, k)' <=> Consumed(w, k)
        <5>1. CASE k # ip[w]
          BY <1>4, <5>1
        <5>2. CASE k = ip[w]
          <6>1. Consumed(w, k) <=> call = "recvLast"
            BY <1>1, <3>4, <5>2 DEF Consumed, Reached, Inside, Turn
          <6> QED
            BY <1>6, <3>4, <5>2, <6>1
        <5> QED
          BY <5>1, <5>2
      <4>2. FirstOut(x)' <=> FirstOut(x)
        BY <1>1, <1>3, <3>1, <3>2, <4>1 DEF FirstOut
      <4> QED
        BY <3>1, <3>4, <4>2
    <3> QED
      BY <3>3, <3>4
  <2> QED
    BY <2>1, <2>2, <2>3
<1>8. call \in {"recvFirst", "recvShift"} => ~FirstOut(w)
  BY <1>5 DEF FirstOut
<1> QED
  BY <1>7, <1>8

(* The messages of rank 0 and to it.                                       *)
LEMMA InsideRoot ==
  ASSUME Course, NEW w \in Worker, NEW call, Onward(w, call)
  PROVE  /\ \A x \in Others : PermOut(x)' <=> (PermOut(x) \/ (x = w /\ call = "recvGlobal"))
         /\ call = "recvGlobal" => ~PermOut(w)
         /\ \A u \in Others : GlobalOut(u)' <=> GlobalOut(u)
<1>1. /\ Control /\ Order /\ Inside(w, call) /\ ip[w] \in Turn /\ Op(w) = At(ip[w])
      /\ ip' = ip /\ program' = program /\ call \in Places /\ pc'[w] = call
      /\ \A u \in Worker : u # w => pc'[u] = pc[u]
      /\ nextSrc' = IF call = "gather" THEN 1 ELSE nextSrc
  BY CallIn, Blocks, OpIs DEF Course, Onward, Control
<1>2. \A u \in Worker : ip[u] \in Nat
  BY <1>1 DEF Control, Turn
<1>3. ASSUME call = "recvGlobal"
      PROVE  /\ pc[w] = "ready" /\ w # 0 /\ At(ip[w]) = "global"
             /\ ~(ip[0] > ip[w]) /\ Awaited(w)
  <2>1. pc[w] = "ready" /\ w # 0 /\ At(ip[w]) = "global"
    BY <1>1, <1>3 DEF Inside
  <2>2. ~Begun(w, ip[w])
    BY <1>2, <2>1 DEF Begun
  <2>3. ~(ip[0] > ip[w])
    BY <1>1, <2>1, <2>2, RingOfRanks DEF Order, InGlobal
  <2>4. ASSUME ip[0] = ip[w], pc[0] # "ready"
        PROVE  pc[0] = "gather" /\ nextSrc <= w
    <3>1. pc[0] = "gather"
      BY <1>1, <2>1, <2>4, RingOfRanks, OpIs DEF Control, Places
    <3>2. w \in 0 .. NWorker - 1 /\ nextSrc \in 0 .. NWorker - 1
      BY <1>1 DEF Worker, Control
    <3>3. w \notin 1 .. nextSrc - 1
      BY <1>1, <2>2, <2>4, <3>1 DEF Order, Gathered
    <3>4. nextSrc <= w
      BY <2>1, <3>2, <3>3, RingOfRanks
    <3> QED
      BY <3>1, <3>4
  <2>5. ip[0] < ip[w] \/ ip[0] = ip[w]
    BY <1>2, <2>3, RingOfRanks
  <2> QED
    BY <2>1, <2>3, <2>4, <2>5 DEF Awaited
<1>4. ASSUME NEW x \in Others, pc'[x] = "recvGlobal"
      PROVE  Awaited(x)' <=> Awaited(x)
  <2>1. CASE w # 0
    BY <1>1, <2>1, RingOfRanks, CallIn DEF Awaited
  <2>2. CASE w = 0 /\ call = "gather"
    <3>1. x \in 0 .. NWorker - 1 /\ x # 0
      BY DEF Others, Worker
    <3>2. 1 <= x
      BY <3>1, RingOfRanks
    <3> QED
      BY <1>1, <2>2, <3>2 DEF Awaited, Inside
  <2>3. CASE w = 0 /\ call # "gather"
    <3>1. pc[0] # "gather" /\ (pc[0] = "ready" => At(ip[0]) # "global")
      BY <1>1, <2>3 DEF Inside
    <3>2. pc[x] = "recvGlobal" /\ At(ip[x]) = "global"
      BY <1>1, <1>4, <2>3, OpIs DEF Control, Others
    <3>3. Awaited(x)' <=> ip[0] < ip[x]
      <4>1. pc'[0] \notin {"ready", "gather"}
        BY <1>1, <2>3 DEF Places
      <4> QED
        BY <1>1, <4>1 DEF Awaited
    <3>4. Awaited(x) <=> ip[0] < ip[x]
      BY <3>1, <3>2 DEF Awaited
    <3> QED
      BY <3>3, <3>4
  <2> QED
    BY <2>1, <2>2, <2>3
<1>5. ASSUME NEW x \in Others
      PROVE  pc'[x] = "recvGlobal" <=> (pc[x] = "recvGlobal" \/ (x = w /\ call = "recvGlobal"))
  BY <1>1 DEF Inside, Others
<1>6. \A x \in Others : PermOut(x)' <=> (PermOut(x) \/ (x = w /\ call = "recvGlobal"))
  BY <1>3, <1>4, <1>5 DEF PermOut
<1>7. call = "recvGlobal" => ~PermOut(w)
  BY <1>3 DEF PermOut
<1>8. \A u \in Others : GlobalOut(u)' <=> GlobalOut(u)
  BY <1>1, <1>3, <1>5 DEF GlobalOut
<1> QED
  BY <1>6, <1>7, <1>8

(* A shift is on its way to a rank from rank 0's draw until the rank       *)
(* begins to shift.                                                        *)
LEMMA InsideShift ==
  ASSUME Course, NEW w \in Worker, NEW call, Onward(w, call)
  PROVE  /\ \A u \in Others :
              ShiftOut(u)' <=> \/ ShiftOut(u) /\ ~(u = w /\ call = "recvShift")
                               \/ w = 0 /\ call = "recvShift"
         /\ w = 0 /\ call = "recvShift" => \A u \in Others : ~ShiftOut(u)
         /\ w # 0 /\ call = "recvShift" => ShiftOut(w)
<1>1. /\ Control /\ Order /\ Inside(w, call) /\ ip[w] \in Turn /\ Op(w) = At(ip[w])
      /\ ip' = ip /\ program' = program /\ call \in Places /\ pc'[w] = call
      /\ \A u \in Worker : u # w => pc'[u] = pc[u]
  BY CallIn, Blocks, OpIs DEF Course, Onward, Control
<1>2. /\ \A u \in Worker : ip[u] \in Nat
      /\ \A u : Op(u)' = Op(u)
      /\ 0 \in Worker /\ ip[0] \in Turn
  BY <1>1, RingOfRanks DEF Control, Turn, Op
<1>3. \A u \in Worker : ShiftOut(u)' <=> Op(0) = "shift" /\ pc'[0] # "ready" /\ ~Begun(u, ip[0])'
  BY <1>1, <1>2 DEF ShiftOut, Begun
<1>4. CASE w = 0 /\ call = "recvShift"
  <2>1. pc[0] = "ready" /\ Op(0) = "shift" /\ At(ip[0]) = "shift"
    BY <1>1, <1>4 DEF Inside
  <2>2. ~Begun(0, ip[0])
    BY <1>2, <2>1 DEF Begun
  <2>3. \A u \in Worker : ~Begun(u, ip[0])
    BY <1>1, <1>2, <2>1, <2>2 DEF Order, InShift
  <2>4. \A u \in Others : ~Begun(u, ip[0])'
    BY <1>2, <1>4, <2>3, InsideProgress DEF Others
  <2>5. \A u \in Others : ~ShiftOut(u) /\ ShiftOut(u)'
    BY <1>1, <1>3, <1>4, <2>1, <2>4 DEF ShiftOut, Others
  <2> QED
    BY <1>4, <2>5
<1>5. CASE w = 0 /\ call # "recvShift"
  <2>1. \A u \in Others : Begun(u, ip[0])' <=> Begun(u, ip[0])
    BY <1>2, <1>5, InsideProgress DEF Others
  <2>2. Op(0) = "shift" => pc[0] # "ready"
    BY <1>1, <1>5 DEF Inside
  <2>3. pc'[0] # "ready"
    BY <1>1, <1>5 DEF Places
  <2>4. \A u \in Others : ShiftOut(u)' <=> ShiftOut(u)
    BY <1>3, <2>1, <2>2, <2>3 DEF ShiftOut, Others
  <2> QED
    BY <1>5, <2>4
<1>6. CASE w # 0
  <2>1. pc'[0] = pc[0]
    BY <1>1, <1>2, <1>6
  <2>2. ASSUME NEW u \in Others, u # w \/ ip[0] # ip[w]
        PROVE  ShiftOut(u)' <=> ShiftOut(u)
    BY <1>2, <1>3, <2>1, <2>2, InsideProgress DEF ShiftOut, Others
  <2>3. CASE call = "recvShift"
    <3>1. pc[w] = "ready" /\ Op(w) = "shift" /\ At(ip[w]) = "shift" /\ Begun(0, ip[w])
      BY <1>1, <1>6, <2>3 DEF Inside
    <3>2. ~(ip[0] > ip[w])
      <4>1. ip[0] > ip[w] => Reached(w, ip[w], {"barrier"})
        BY <1>1, <1>2, <3>1 DEF Order, InShift
      <4> QED
        BY <1>2, <3>1, <4>1 DEF Reached
    <3>3. ip[0] = ip[w] /\ pc[0] # "ready"
      BY <3>1, <3>2 DEF Begun
    <3>4. ShiftOut(w)
      BY <1>1, <1>2, <3>1, <3>3, OpIs DEF ShiftOut, Begun
    <3>5. ~ShiftOut(w)'
      BY <1>1, <1>3, <3>3, InsideProgress
    <3> QED
      BY <1>6, <2>2, <2>3, <3>4, <3>5 DEF Others
  <2>4. CASE call # "recvShift"
    <3>1. ASSUME ip[0] = ip[w], w \in Others
          PROVE  ShiftOut(w)' <=> ShiftOut(w)
      <4>1. Begun(w, ip[0])'
        BY <1>1, <3>1, InsideProgress
      <4>2. Op(0) = "shift" => pc[w] # "ready"
        BY <1>1, <2>4, <3>1, OpIs DEF Inside
      <4> QED
        BY <1>2, <1>3, <3>1, <4>1, <4>2 DEF ShiftOut, Begun
    <3> QED
      BY <1>6, <2>2, <2>4, <3>1 DEF Others
  <2> QED
    BY <2>3, <2>4
<1> QED
  BY <1>4, <1>5, <1>6


(* A rank that begins an operation has no last slice still to receive.     *)
LEMMA LastOutWaits == \A x \in Worker : Course /\ LastOut(x) => pc[NextW(x)] # "ready"
BY LastOutHere

(* The same for the state after a step.                                    *)
LEMMA LastOutWaitsNext == (\A x \in Worker : Course /\ LastOut(x) => pc[NextW(x)] # "ready")'
BY LastOutWaits, PTL

(* What is on the way when a rank leaves its operation.                    *)
LEMMA LeaveLast ==
  ASSUME Course, NEW w \in Worker, Leave(w)
  PROVE  /\ \A x \in Worker : LastOut(x)' <=> (LastOut(x) /\ x # Prev(w))
         /\ LastOut(Prev(w)) <=> pc[w] = "recvLast"
<1>1. /\ Control /\ Order /\ Finished(w) /\ ip[w] \in Turn /\ ip[w] \in Nat
      /\ pc'[w] = "ready" /\ ip'[w] = ip[w] + 1 /\ program' = program
      /\ \A u \in Worker : u # w => pc'[u] = pc[u] /\ ip'[u] = ip[u]
      /\ \A u \in Worker : ip[u] \in Nat /\ ip[u] \in Turn
  BY Advances DEF Course, Leave, Control, Turn
<1>2. Course'
  BY LeaveControl, LeaveOrder DEF Course
<1>3. LastOut(Prev(w)) <=> pc[w] = "recvLast"
  <2>1. Prev(w) \in Worker /\ NextW(Prev(w)) = w
    BY Neighbours
  <2>2. LastOut(Prev(w)) => pc[w] \in {"recvFirst", "sendLast", "recvLast"}
    BY <2>1, LastOutHere
  <2> QED
    BY <1>1, <2>2 DEF Finished
<1>4. ASSUME NEW x \in Worker
      PROVE  LastOut(x)' <=> (LastOut(x) /\ x # Prev(w))
  <2>1. CASE x = Prev(w)
    <3>1. NextW(x) = w
      BY <2>1, Neighbours
    <3> QED
      BY <1>1, <1>2, <2>1, <3>1, LastOutWaitsNext
  <2>2. CASE x # Prev(w)
    <3> DEFINE y == NextW(x)
    <3>1. y \in Worker /\ y # w /\ ip'[y] = ip[y] /\ (Op(y)' <=> Op(y)) /\ Op(y)' = Op(y) /\ Op(y) = At(ip[y])
      BY <1>1, <2>2, Neighbours, OpIs DEF Op
    <3>2. CASE x # w
      BY <1>1, <2>2, <3>1, <3>2 DEF LastOut, Reached
    <3>3. CASE x = w
      <4>1. ip[y] = ip[w] /\ Op(y) = "section" => pc[w] = "recvLast"
        BY <1>1, <3>1, FinishedKnows
      <4>2. LastOut(x) <=> Op(y) = "section" /\ (ip[w] > ip[y] \/ (ip[w] = ip[y] /\ pc[w] = "recvLast"))
        BY <3>3 DEF LastOut, Reached
      <4>3. LastOut(x)' <=> Op(y) = "section" /\ (ip[w] + 1 > ip[y] \/ (ip[w] + 1 = ip[y] /\ pc'[w] = "recvLast"))
        BY <1>1, <3>1, <3>3 DEF LastOut, Reached
      <4>4. ip[w] + 1 > ip[y] <=> (ip[w] > ip[y] \/ ip[w] = ip[y])
        BY <1>1, <3>1
      <4> QED
        BY <1>1, <2>2, <4>1, <4>2, <4>3, <4>4
    <3> QED
      BY <3>2, <3>3
  <2> QED
    BY <2>1, <2>2
<1> QED
  BY <1>3, <1>4

(* A rank that leaves its operation has no first slices on the way, and    *)
(* changes none of the others'.                                            *)
LEMMA LeaveFirst ==
  ASSUME Course, NEW w \in Worker, Leave(w)
  PROVE  /\ \A x \in Worker : FirstOut(x)' <=> FirstOut(x)
         /\ ~FirstOut(w)
<1>1. /\ Control /\ Order /\ Finished(w) /\ ip[w] \in Turn /\ ip[w] \in Nat
      /\ pc'[w] = "ready" /\ ip'[w] = ip[w] + 1 /\ program' = program
      /\ \A u \in Worker : u # w => pc'[u] = pc[u] /\ ip'[u] = ip[u]
      /\ \A u \in Worker : ip[u] \in Nat /\ ip[u] \in Turn
  BY Advances DEF Course, Leave, Control, Turn
<1>2. ~FirstOut(w)
  <2>1. Prev(w) \in Worker
    BY Neighbours
  <2>2. At(ip[w]) \in {"section", "shift"} => Consumed(Prev(w), ip[w])
    BY <1>1, <2>1, FinishedKnows DEF Consumed, Reached
  <2> QED
    BY <2>2, OpIs DEF FirstOut
<1>3. ~FirstOut(w)'
  BY <1>1 DEF FirstOut
<1>4. ASSUME NEW x \in Worker, x # w
      PROVE  FirstOut(x)' <=> FirstOut(x)
  <2>1. Op(x)' = Op(x) /\ Op(x) = At(ip[x]) /\ Prev(x) \in Worker /\ ip'[x] = ip[x] /\ pc'[x] = pc[x]
    BY <1>1, <1>4, Neighbours, OpIs DEF Op
  <2>2. CASE Prev(x) # w
    BY <1>1, <2>1, <2>2 DEF FirstOut, Consumed, Reached
  <2>3. CASE Prev(x) = w
    <3>1. Consumed(w, ip[x]) <=> ip[w] > ip[x] \/ (ip[w] = ip[x] /\ pc[w] \in {"sendLast", "recvLast", "barrier"})
      BY DEF Consumed, Reached
    <3>2. FirstOut(x)' <=> pc[x] # "ready" /\ Op(x) \in {"section", "shift"} /\ ~(ip[w] + 1 > ip[x])
      BY <1>1, <2>1, <2>3 DEF FirstOut, Consumed, Reached
    <3>3. FirstOut(x) <=> pc[x] # "ready" /\ Op(x) \in {"section", "shift"} /\ ~Consumed(w, ip[x])
      BY <2>3 DEF FirstOut
    <3>4. ip[w] = ip[x] /\ Op(x) \in {"section", "shift"} => pc[w] \in {"recvLast", "barrier"}
      BY <1>1, <2>1, FinishedKnows
    <3>5. ip[w] + 1 > ip[x] <=> (ip[w] > ip[x] \/ ip[w] = ip[x])
      BY <1>1
    <3> QED
      BY <3>1, <3>2, <3>3, <3>4, <3>5
  <2> QED
    BY <2>2, <2>3
<1> QED
  BY <1>2, <1>3, <1>4

(* Rank 0 leaves the gathering with the last permutation and puts a global *)
(* one on the way to all; the others leave with theirs.                    *)
LEMMA LeaveRoot ==
  ASSUME Course, NEW w \in Worker, Leave(w)
  PROVE  /\ \A x \in Others : PermOut(x)' <=> (PermOut(x) /\ ~(pc[w] = "gather" /\ x = nextSrc))
         /\ \A u \in Others : GlobalOut(u)' <=> ((GlobalOut(u) /\ u # w) \/ pc[w] = "gather")
         /\ pc[w] = "gather" => \A u \in Others : ~GlobalOut(u)
         /\ pc[w] = "recvGlobal" => GlobalOut(w)
         /\ \A u \in Others : ShiftOut(u)' <=> ShiftOut(u)
<1>1. /\ Control /\ Order /\ Finished(w) /\ ip[w] \in Turn /\ ip[w] \in Nat
      /\ pc'[w] = "ready" /\ ip'[w] = ip[w] + 1 /\ program' = program
      /\ \A u \in Worker : u # w => pc'[u] = pc[u] /\ ip'[u] = ip[u]
      /\ \A u \in Worker : ip[u] \in Nat /\ ip[u] \in Turn
      /\ nextSrc' = IF pc[w] = "gather" THEN 0 ELSE nextSrc
      /\ 0 \in Worker /\ nextSrc \in 0 .. NWorker - 1
  BY Advances, RingOfRanks DEF Course, Leave, Control, Turn, Worker
<1>2. pc[w] # "ready" /\ (pc[w] = "recvGlobal" => GlobalOut(w) /\ w # 0)
  BY <1>1 DEF Finished, Control
<1>3. ASSUME NEW x \in Others
      PROVE  x \in Worker /\ x # 0 /\ x <= NWorker - 1
  BY DEF Others, Worker
<1>10. ASSUME NEW x \in Others, x # w, w = 0
       PROVE  /\ Awaited(x)' <=> ip[0] < ip[x]
              /\ GlobalOut(x)' <=> pc[x] = "recvGlobal" /\ (ip[0] > ip[x] \/ ip[0] = ip[x])
  <2>1. /\ ip'[0] = ip[0] + 1 /\ pc'[0] = "ready" /\ ip'[x] = ip[x] /\ pc'[x] = pc[x]
        /\ ip[0] \in Nat /\ ip[x] \in Nat
    BY <1>1, <1>3, <1>10
  <2>2. /\ (ip[0] + 1 < ip[x] \/ ip[0] + 1 = ip[x]) <=> ip[0] < ip[x]
        /\ ip[0] + 1 > ip[x] <=> (ip[0] > ip[x] \/ ip[0] = ip[x])
    BY <2>1
  <2> QED
    BY <2>1, <2>2 DEF Awaited, GlobalOut
<1>4. ASSUME NEW x \in Others, x # w, pc[x] = "recvGlobal", w = 0, pc[0] # "gather"
      PROVE  ip[x] # ip[0]
  <2>1. At(ip[x]) = "global"
    BY <1>1, <1>3, <1>4, OpIs DEF Control
  <2>2. At(ip[0]) # "global"
    BY <1>1, <1>2, <1>4, OpIs DEF Control, Places
  <2> QED
    BY <2>1, <2>2
<1>5. ASSUME pc[w] = "gather", NEW x \in Others
      PROVE  w = 0 /\ ip[x] = ip[0] /\ pc[x] = "recvGlobal" /\ nextSrc = NWorker - 1
  <2>1. w = 0 /\ At(ip[0]) = "global" /\ nextSrc = NWorker - 1
    BY <1>1, <1>5, OpIs DEF Control, Finished
  <2>2. Begun(x, ip[0]) /\ ~(ip[x] > ip[0])
    <3>1. ip[0] \in Turn /\ InGlobal(ip[0])
      BY <1>1, <2>1 DEF Order
    <3>2. ip[x] > ip[0] => ip[0] > ip[0]
      BY <1>3, <3>1 DEF InGlobal
    <3>3. Begun(x, ip[0])
      BY <1>1, <1>3, <2>1, FinishedKnows
    <3> QED
      BY <1>1, <3>2, <3>3
  <2>3. ip[x] = ip[0] /\ pc[x] # "ready"
    BY <2>2 DEF Begun
  <2> QED
    BY <1>1, <1>3, <2>1, <2>3, OpIs DEF Control, Places
<1>6. ASSUME NEW x \in Others
      PROVE  PermOut(x)' <=> (PermOut(x) /\ ~(pc[w] = "gather" /\ x = nextSrc))
  <2>1. CASE x = w
    <3>1. ~PermOut(x)'
      BY <1>1, <2>1 DEF PermOut
    <3>2. ~PermOut(x)
      BY <1>1, <1>2, <1>3, <2>1 DEF PermOut, Awaited, GlobalOut
    <3> QED
      BY <3>1, <3>2
  <2>2. CASE x # w /\ w # 0
    BY <1>1, <1>3, <2>2 DEF PermOut, Awaited, Control
  <2>3. CASE x # w /\ w = 0 /\ pc[0] # "gather"
    <3>1. Awaited(x)' <=> ip[0] < ip[x]
      BY <1>10, <2>3
    <3>2. PermOut(x) => ip[0] < ip[x]
      BY <1>4, <2>3 DEF PermOut, Awaited
    <3> QED
      BY <1>1, <1>3, <2>3, <3>1, <3>2 DEF PermOut, Awaited
  <2>4. CASE x # w /\ w = 0 /\ pc[0] = "gather"
    <3>1. ip[x] = ip[0] /\ nextSrc = NWorker - 1
      BY <1>5, <2>4
    <3>2. ~PermOut(x)'
      BY <1>1, <1>10, <2>4, <3>1 DEF PermOut
    <3>3. PermOut(x) => x = nextSrc
      BY <1>1, <1>3, <2>4, <3>1 DEF PermOut, Awaited, Others, Worker
    <3> QED
      BY <2>4, <3>2, <3>3
  <2> QED
    BY <2>1, <2>2, <2>3, <2>4
<1>7. ASSUME NEW u \in Others
      PROVE  GlobalOut(u)' <=> ((GlobalOut(u) /\ u # w) \/ pc[w] = "gather")
  <2>1. CASE u = w
    <3>1. ~GlobalOut(u)' /\ pc[w] # "gather"
      BY <1>1, <1>3, <2>1 DEF GlobalOut, Control
    <3> QED
      BY <2>1, <3>1
  <2>2. CASE u # w /\ w # 0
    BY <1>1, <1>3, <2>2 DEF GlobalOut, Control
  <2>3. CASE u # w /\ w = 0 /\ pc[0] # "gather"
    BY <1>4, <1>10, <2>3 DEF GlobalOut
  <2>4. CASE u # w /\ w = 0 /\ pc[0] = "gather"
    BY <1>5, <1>10, <2>4
  <2> QED
    BY <2>1, <2>2, <2>3, <2>4
<1>8. pc[w] = "gather" => \A u \in Others : ~GlobalOut(u)
  BY <1>1, <1>5 DEF GlobalOut
<1>9. ASSUME NEW u \in Others
      PROVE  ShiftOut(u)' <=> ShiftOut(u)
  <2>1. CASE w = 0
    <3>1. ~ShiftOut(u)'
      BY <1>1, <2>1 DEF ShiftOut
    <3>2. At(ip[0]) = "shift" => Begun(u, ip[0])
      BY <1>1, <1>3, <2>1, FinishedKnows DEF Reached, Begun
    <3>3. ~ShiftOut(u)
      BY <3>2, OpIs DEF ShiftOut
    <3> QED
      BY <3>1, <3>3
  <2>2. CASE w # 0 /\ u # w
    BY <1>1, <1>3, <2>2 DEF ShiftOut, Op, Begun
  <2>3. CASE w # 0 /\ u = w
    <3>1. ShiftOut(u)' <=> Op(0) = "shift" /\ pc[0] # "ready" /\ ~(ip[w] + 1 > ip[0])
      BY <1>1, <2>3 DEF ShiftOut, Op, Begun
    <3>2. ShiftOut(u) <=> Op(0) = "shift" /\ pc[0] # "ready" /\ ~(ip[w] > ip[0] \/ ip[w] = ip[0])
      BY <1>2, <2>3 DEF ShiftOut, Begun
    <3> QED
      BY <1>1, <3>1, <3>2
  <2> QED
    BY <2>1, <2>2, <2>3
<1> QED
  BY <1>2, <1>6, <1>7, <1>8, <1>9

(* Rank 0 going on to the next permutation takes one off the way and       *)
(* nothing else.                                                           *)
LEMMA GatherOnFlags ==
  ASSUME Course, GatherOn
  PROVE  /\ \A x \in Others : PermOut(x)' <=> (PermOut(x) /\ x # nextSrc)
         /\ \A x \in Worker : LastOut(x)' <=> LastOut(x)
         /\ \A x \in Worker : FirstOut(x)' <=> FirstOut(x)
         /\ \A x \in Worker : GlobalOut(x)' <=> GlobalOut(x)
         /\ \A x \in Worker : ShiftOut(x)' <=> ShiftOut(x)
<1>1. /\ Control /\ Order /\ pc[0] = "gather" /\ nextSrc' = nextSrc + 1
      /\ pc' = pc /\ ip' = ip /\ program' = program /\ At(ip[0]) = "global" /\ ip[0] \in Turn
      /\ nextSrc \in 0 .. NWorker - 1 /\ NWorker \in Nat
  BY RingOfRanks, OpIs DEF Course, GatherOn, progressVars, Control, Worker
<1>2. \A u : Op(u)' = Op(u)
  BY <1>1 DEF Op
<1>3. ASSUME NEW x \in Others
      PROVE  PermOut(x)' <=> (PermOut(x) /\ x # nextSrc)
  <2>1. x \in Worker /\ x \in Nat /\ ip[x] \in Nat /\ ip[0] \in Nat
    BY RingOfRanks DEF Others, Course, Control, Turn
  <2>2. ~(ip[0] < ip[x])
    BY <1>1, <2>1, RingOfRanks DEF Order, InGlobal
  <2>3. nextSrc + 1 <= x <=> (nextSrc <= x /\ x # nextSrc)
    BY <1>1, <2>1
  <2> QED
    BY <1>1, <2>2, <2>3 DEF PermOut, Awaited
<1>4. \A x \in Worker : LastOut(x)' <=> LastOut(x)
  BY <1>1, <1>2 DEF LastOut, Reached
<1>5. \A x \in Worker : FirstOut(x)' <=> FirstOut(x)
  BY <1>1, <1>2 DEF FirstOut, Consumed, Reached
<1>6. \A x \in Worker : (GlobalOut(x)' <=> GlobalOut(x)) /\ (ShiftOut(x)' <=> ShiftOut(x))
  BY <1>1, <1>2 DEF GlobalOut, ShiftOut, Begun
<1> QED
  BY <1>3, <1>4, <1>5, <1>6


-----------------------------------------------------------------------------
(* The messages between two ranks: at most one last slice, and besides it  *)
(* at most one other message.  That comes later, unless the receiver still *)
(* waits for the first slice of the section whose last one follows.        *)
Handed(x, n) == [n |-> n, slice |-> [j \in 0 .. n + 1 |-> beads[x][j]]]
FirstMsg(x, n) == IF Op(x) = "section" THEN Msg("first", beads[x][1])
                  ELSE Msg("shift", Handed(x, n))
FirstTo(x, y) == y = Prev(x) /\ FirstOut(x)
PermTo(x, y) == y = 0 /\ x # 0 /\ PermOut(x)
LastPart(x, y) == IF y = NextW(x) /\ LastOut(x) THEN Msg("last", beads[y][0]) ELSE <<>>
Rest(x, y, n) == IF FirstTo(x, y) THEN FirstMsg(x, n)
                 ELSE IF PermTo(x, y) THEN Msg("permutation", permutation[x]) ELSE <<>>
Early(x, y) == pc[y] = "recvFirst" /\ FirstTo(x, y)

Mixed(early, rest, last) == IF early THEN Join(rest, last) ELSE Join(last, rest)
Queue(x, y, n) == Mixed(Early(x, y), Rest(x, y, n), LastPart(x, y))

Queues(n) == /\ AreQueues(chan, Worker, Tags)
             /\ \A x, y \in Worker : chan[x][y][1] = Queue(x, y, n)

One(q) == q = <<>> \/ \E m : q = <<m>>

(* With one part empty the queue is the other.                             *)
LEMMA MixedOne ==
  ASSUME NEW e, NEW q
  PROVE  Mixed(e, q, <<>>) = q /\ Mixed(e, <<>>, q) = q
BY JoinOne DEF Mixed

(* Adding a message of the one kind, with none of it in the queue.         *)
LEMMA AppendRest ==
  ASSUME NEW m, NEW last, One(last), NEW e, NEW f, ~f \/ last = <<>>
  PROVE  Append(Mixed(e, <<>>, last), m) = Mixed(f, <<m>>, last)
<1>1. Mixed(e, <<>>, last) = last
  BY MixedOne
<1>2. CASE last = <<>>
  BY <1>1, <1>2, MixedOne, QueueOne
<1>3. CASE last # <<>>
  <2>1. PICK a : last = <<a>>
    BY <1>3 DEF One
  <2>2. Mixed(f, <<m>>, last) = Join(<<a>>, <<m>>)
    BY <1>3, <2>1 DEF Mixed
  <2>3. Append(<<a>>, m) = Join(<<a>>, <<m>>)
    BY JoinTwo
  <2> QED
    BY <1>1, <2>1, <2>2, <2>3
<1> QED
  BY <1>2, <1>3

(* Adding a last slice.                                                    *)
LEMMA AppendLast ==
  ASSUME NEW m, NEW rest, One(rest), NEW e, NEW f, f \/ rest = <<>>
  PROVE  Append(Mixed(e, rest, <<>>), m) = Mixed(f, rest, <<m>>)
<1>1. Mixed(e, rest, <<>>) = rest
  BY MixedOne
<1>2. CASE rest = <<>>
  BY <1>1, <1>2, MixedOne, QueueOne
<1>3. CASE rest # <<>>
  <2>1. PICK a : rest = <<a>>
    BY <1>3 DEF One
  <2>2. Mixed(f, rest, <<m>>) = Join(<<a>>, <<m>>)
    BY <1>3, <2>1 DEF Mixed
  <2>3. Append(<<a>>, m) = Join(<<a>>, <<m>>)
    BY JoinTwo
  <2> QED
    BY <1>1, <2>1, <2>2, <2>3
<1> QED
  BY <1>2, <1>3

(* Taking a message of the one kind.                                       *)
LEMMA TakeRest ==
  ASSUME NEW m, NEW last, One(last), NEW e, NEW f, e \/ last = <<>>
  PROVE  /\ Mixed(e, <<m>>, last) # <<>> /\ Head(Mixed(e, <<m>>, last)) = m
         /\ Tail(Mixed(e, <<m>>, last)) = Mixed(f, <<>>, last)
<1>1. Mixed(f, <<>>, last) = last
  BY MixedOne
<1>2. CASE last = <<>>
  <2>1. Mixed(e, <<m>>, last) = <<m>>
    BY <1>2, MixedOne
  <2>2. <<m>> # <<>> /\ Head(<<m>>) = m /\ Tail(<<m>>) = <<>>
    BY QueueOne, TailOne
  <2> QED
    BY <1>1, <1>2, <2>1, <2>2
<1>3. CASE last # <<>>
  <2>1. PICK a : last = <<a>>
    BY <1>3 DEF One
  <2>2. Mixed(e, <<m>>, last) = Join(<<m>>, <<a>>)
    BY <1>3, <2>1 DEF Mixed
  <2>3. /\ Join(<<m>>, <<a>>) # <<>> /\ Head(Join(<<m>>, <<a>>)) = m
        /\ Tail(Join(<<m>>, <<a>>)) = <<a>>
    BY JoinTwo
  <2> QED
    BY <1>1, <2>1, <2>2, <2>3
<1> QED
  BY <1>2, <1>3

(* Taking a last slice.                                                    *)
LEMMA TakeLast ==
  ASSUME NEW m, NEW rest, One(rest), NEW e, NEW f, ~e \/ rest = <<>>
  PROVE  /\ Mixed(e, rest, <<m>>) # <<>> /\ Head(Mixed(e, rest, <<m>>)) = m
         /\ Tail(Mixed(e, rest, <<m>>)) = Mixed(f, rest, <<>>)
<1>1. Mixed(f, rest, <<>>) = rest
  BY MixedOne
<1>2. CASE rest = <<>>
  <2>1. Mixed(e, rest, <<m>>) = <<m>>
    BY <1>2, MixedOne
  <2>2. <<m>> # <<>> /\ Head(<<m>>) = m /\ Tail(<<m>>) = <<>>
    BY QueueOne, TailOne
  <2> QED
    BY <1>1, <1>2, <2>1, <2>2
<1>3. CASE rest # <<>>
  <2>1. PICK a : rest = <<a>>
    BY <1>3 DEF One
  <2>2. Mixed(e, rest, <<m>>) = Join(<<m>>, <<a>>)
    BY <1>3, <2>1 DEF Mixed
  <2>3. /\ Join(<<m>>, <<a>>) # <<>> /\ Head(Join(<<m>>, <<a>>)) = m
        /\ Tail(Join(<<m>>, <<a>>)) = <<a>>
    BY JoinTwo
  <2> QED
    BY <1>1, <2>1, <2>2, <2>3
<1> QED
  BY <1>2, <1>3

(* Of each kind there is a message at most.                                *)
LEMMA PartsAreOne ==
  ASSUME NEW x, NEW y, NEW n
  PROVE  One(LastPart(x, y)) /\ One(Rest(x, y, n))
BY DEF One, LastPart, Rest, FirstMsg, Msg

-----------------------------------------------------------------------------
(* What is on the way is not changed under way.                            *)
KeepsSent ==
  \A x \in Worker :
    /\ LastOut(x) => beads'[NextW(x)][0] = beads[NextW(x)][0]
    /\ FirstOut(x) /\ Op(x) = "section" => beads'[x][1] = beads[x][1]
    /\ FirstOut(x) /\ Op(x) # "section" => beads'[x] = beads[x]
    /\ PermOut(x) => permutation'[x] = permutation[x]

(* The last slice under way is as it was, when it still is.                *)
LEMMA SamePart ==
  ASSUME KeepsSent, NEW x \in Worker, NEW y \in Worker, NEW n,
         LastOut(x)' <=> LastOut(x)
  PROVE  LastPart(x, y)' = LastPart(x, y)
BY DEF KeepsSent, LastPart

(* So are the first slices under way.                                      *)
LEMMA SameFirst ==
  ASSUME KeepsSent, NEW x \in Worker, NEW n, FirstOut(x), Op(x)' = Op(x)
  PROVE  FirstMsg(x, n)' = FirstMsg(x, n)
<1>1. CASE Op(x) = "section"
  <2>1. beads'[x][1] = beads[x][1]
    BY <1>1 DEF KeepsSent
  <2> QED
    BY <1>1, <2>1 DEF FirstMsg
<1>2. CASE Op(x) # "section"
  <2>1. beads'[x] = beads[x]
    BY <1>2 DEF KeepsSent
  <2>2. Handed(x, n)' = Handed(x, n)
    BY <2>1 DEF Handed
  <2> QED
    BY <1>2, <2>2 DEF FirstMsg
<1> QED
  BY <1>1, <1>2

(* So is whatever else is under way.                                       *)
LEMMA SameRest ==
  ASSUME KeepsSent, NEW x \in Worker, NEW y \in Worker, NEW n,
         FirstTo(x, y)' <=> FirstTo(x, y), PermTo(x, y)' <=> PermTo(x, y),
         FirstOut(x) => Op(x)' = Op(x)
  PROVE  Rest(x, y, n)' = Rest(x, y, n)
<1>1. CASE FirstTo(x, y)
  <2>1. FirstMsg(x, n)' = FirstMsg(x, n)
    BY <1>1, SameFirst DEF FirstTo
  <2> QED
    BY <1>1, <2>1 DEF Rest
<1>2. CASE ~FirstTo(x, y)
  <2>1. PermTo(x, y) => permutation'[x] = permutation[x]
    BY DEF KeepsSent, PermTo
  <2> QED
    BY <1>2, <2>1 DEF Rest
<1> QED
  BY <1>1, <1>2

(* A queue is as it was when its two parts are, and its receiver begins or *)
(* ends to wait for a first slice only while one of the parts is empty.    *)
LEMMA SameQueue ==
  ASSUME NEW x \in Worker, NEW y \in Worker, NEW n,
         Rest(x, y, n)' = Rest(x, y, n), LastPart(x, y)' = LastPart(x, y),
         (Early(x, y)' <=> Early(x, y)) \/ LastPart(x, y) = <<>>
  PROVE  Queue(x, y, n)' = Queue(x, y, n)
BY MixedOne DEF Queue, Mixed

(* The pair of ranks whose queue a move inside an operation changes.       *)
Touched(w, call, x, y) ==
  \/ call \in {"recvFirst", "recvShift"} /\ x = w /\ y = Prev(w)
  \/ call \in {"sendLast", "barrier"} /\ x = NextW(w) /\ y = w
  \/ call = "recvLast" /\ x = w /\ y = NextW(w)
  \/ call = "recvGlobal" /\ x = w /\ y = 0

(* Which parts of a queue a move inside an operation leaves alone.         *)
LEMMA InsideParts ==
  ASSUME Course, NEW w \in Worker, NEW call, Onward(w, call), KeepsSent,
         NEW x \in Worker, NEW y \in Worker, NEW n
  PROVE  /\ ~(call = "recvLast" /\ x = w /\ y = NextW(w)) => LastPart(x, y)' = LastPart(x, y)
         /\ Touched(w, call, x, y) => call = "recvLast" \/ LastPart(x, y)' = LastPart(x, y)
         /\ ~Touched(w, call, x, y) \/ call = "recvLast" =>
              /\ Rest(x, y, n)' = Rest(x, y, n)
              /\ FirstTo(x, y)' <=> FirstTo(x, y)
<1>1. /\ \A u \in Worker : LastOut(u)' <=> (LastOut(u) \/ (u = w /\ call = "recvLast"))
      /\ \A u \in Worker :
              FirstOut(u)' <=> \/ FirstOut(u) /\ ~(u = NextW(w) /\ call \in {"sendLast", "barrier"})
                               \/ u = w /\ call \in {"recvFirst", "recvShift"}
      /\ \A u \in Others : PermOut(u)' <=> (PermOut(u) \/ (u = w /\ call = "recvGlobal"))
  BY InsideLast, InsideFirst, InsideRoot
<1>2. \A u : Op(u)' = Op(u)
  BY CallIn, Blocks DEF Course, Onward, Op
<1>3. ~(call = "recvLast" /\ x = w /\ y = NextW(w)) => LastPart(x, y)' = LastPart(x, y)
  <2>1. CASE ~(call = "recvLast" /\ x = w)
    <3>1. LastOut(x)' <=> LastOut(x)
      BY <1>1, <2>1
    <3> QED
      BY <3>1, SamePart
  <2>2. CASE y # NextW(x)
    BY <2>2 DEF LastPart
  <2> QED
    BY <2>1, <2>2
<1>4. ASSUME ~Touched(w, call, x, y) \/ call = "recvLast"
      PROVE  Rest(x, y, n)' = Rest(x, y, n) /\ (FirstTo(x, y)' <=> FirstTo(x, y))
  <2>1. FirstTo(x, y)' <=> FirstTo(x, y)
    BY <1>1, <1>4, Neighbours DEF FirstTo, Touched
  <2>2. PermTo(x, y)' <=> PermTo(x, y)
    BY <1>1, <1>4 DEF PermTo, Touched, Others
  <2> QED
    BY <1>2, <2>1, <2>2, SameRest
<1> QED
  BY <1>3, <1>4 DEF Touched

(* The other queues stay as they were.                                     *)
LEMMA InsideSame ==
  ASSUME Course, NEW w \in Worker, NEW call, Onward(w, call), KeepsSent,
         NEW x \in Worker, NEW y \in Worker, NEW n, ~Touched(w, call, x, y)
  PROVE  Queue(x, y, n)' = Queue(x, y, n)
<1>1. /\ Rest(x, y, n)' = Rest(x, y, n) /\ LastPart(x, y)' = LastPart(x, y)
      /\ FirstTo(x, y)' <=> FirstTo(x, y)
  BY InsideParts DEF Touched
<1>2. (Early(x, y)' <=> Early(x, y)) \/ LastPart(x, y) = <<>>
  <2>1. /\ Inside(w, call) /\ pc'[w] = call /\ \A u \in Worker : u # w => pc'[u] = pc[u]
    BY CallIn, Blocks DEF Course, Onward
  <2>2. CASE y # w
    BY <1>1, <2>1, <2>2 DEF Early
  <2>3. CASE y = w /\ call = "recvFirst"
    <3>1. pc[w] = "ready"
      BY <2>1, <2>3 DEF Inside
    <3>2. LastPart(x, y) = <<>>
      BY <2>3, <3>1, LastOutHere DEF LastPart
    <3> QED
      BY <3>2
  <2>4. CASE y = w /\ call = "sendLast"
    <3>1. ~FirstTo(x, y)
      BY <2>4, Neighbours DEF Touched, FirstTo
    <3> QED
      BY <1>1, <3>1 DEF Early
  <2>5. CASE y = w /\ call \notin {"recvFirst", "sendLast"}
    <3>1. pc[w] # "recvFirst" /\ pc'[w] # "recvFirst"
      BY <2>1, <2>5 DEF Inside
    <3> QED
      BY <2>5, <3>1 DEF Early
  <2> QED
    BY <2>2, <2>3, <2>4, <2>5
<1> QED
  BY <1>1, <1>2, SameQueue


(* A rank sends its first slices, its last slice, its permutation.         *)
LEMMA SendsFirst ==
  ASSUME Course, NEW w \in Worker, NEW call \in {"recvFirst", "recvShift"}, Onward(w, call),
         KeepsSent, NEW n, NEW m, FirstMsg(w, n)' = <<m>>
  PROVE  Queue(w, Prev(w), n)' = Append(Queue(w, Prev(w), n), m)
<1> DEFINE y == Prev(w)
<1>1. /\ y \in Worker /\ y # w /\ Control /\ Order /\ pc[w] = "ready" /\ pc'[y] = pc[y]
      /\ ip[y] \in Turn
  BY Neighbours, CallIn, Blocks DEF Course, Onward, Inside, Control
<1>2. Rest(w, y, n) = <<>>
  BY <1>1, InsideFirst DEF Rest, FirstTo, PermTo, PermOut
<1>3. FirstTo(w, y)'
  BY <1>1, InsideFirst DEF FirstTo
<1>4. Rest(w, y, n)' = <<m>>
  BY <1>3 DEF Rest
<1>5. LastPart(w, y)' = LastPart(w, y)
  BY <1>1, InsideParts
<1>6. ~Early(w, y)' \/ LastPart(w, y) = <<>>
  <2> SUFFICES ASSUME y = NextW(w), LastOut(w)
               PROVE  pc[y] # "recvFirst"
    BY <1>1 DEF Early, LastPart
  <2>1. At(ip[y]) = "section" /\ ip[w] > ip[y]
    BY <1>1, LastOutHere DEF LastOut, Reached
  <2>2. NextW(y) = w
    BY Neighbours
  <2>3. Reached(y, ip[y], {"recvLast"})
    BY <1>1, <2>1, <2>2 DEF Order, InSection
  <2> QED
    BY <1>1, <2>3 DEF Reached, Turn
<1> HIDE DEF y
<1>7. Append(Mixed(Early(w, y), <<>>, LastPart(w, y)), m) = Mixed(Early(w, y)', <<m>>, LastPart(w, y))
  BY <1>6, PartsAreOne, AppendRest
<1>8. Queue(w, y, n) = Mixed(Early(w, y), <<>>, LastPart(w, y))
  BY <1>2 DEF Queue
<1>9. Queue(w, y, n)' = Mixed(Early(w, y)', <<m>>, LastPart(w, y))
  BY <1>4, <1>5 DEF Queue
<1> QED
  BY <1>7, <1>8, <1>9 DEF y

(* A rank sends its last slice.                                            *)
LEMMA SendsLast ==
  ASSUME Course, NEW w \in Worker, Onward(w, "recvLast"), KeepsSent, NEW n,
         NEW m, <<m>> = Msg("last", beads'[NextW(w)][0])
  PROVE  Queue(w, NextW(w), n)' = Append(Queue(w, NextW(w), n), m)
<1> DEFINE y == NextW(w)
<1>1. /\ y \in Worker /\ y # w /\ Control /\ Order /\ pc[w] = "sendLast" /\ pc'[y] = pc[y]
      /\ ip[y] \in Turn
  BY Neighbours, CallIn, Blocks DEF Course, Onward, Inside, Control
<1>2. /\ ~LastOut(w) /\ LastOut(w)' /\ ip[y] = ip[w]
      /\ pc[y] \in {"recvFirst", "sendLast", "recvLast"}
  BY InsideLast
<1>3. LastPart(w, y) = <<>> /\ LastPart(w, y)' = <<m>>
  BY <1>2 DEF LastPart
<1>4. Rest(w, y, n)' = Rest(w, y, n) /\ (FirstTo(w, y)' <=> FirstTo(w, y))
  BY <1>1, InsideParts
<1>5. Early(w, y)' \/ Rest(w, y, n) = <<>>
  <2>1. ~PermTo(w, y)
    BY <1>1 DEF PermTo, PermOut
  <2>2. ASSUME FirstTo(w, y)
        PROVE  pc[y] = "recvFirst"
    <3>1. ~Consumed(y, ip[w])
      BY <2>2 DEF FirstTo, FirstOut
    <3> QED
      BY <1>2, <3>1 DEF Consumed, Reached
  <2> QED
    BY <1>1, <1>4, <2>1, <2>2 DEF Early, Rest
<1> HIDE DEF y
<1>6. Append(Mixed(Early(w, y), Rest(w, y, n), <<>>), m) = Mixed(Early(w, y)', Rest(w, y, n), <<m>>)
  BY <1>5, PartsAreOne, AppendLast
<1>7. Queue(w, y, n) = Mixed(Early(w, y), Rest(w, y, n), <<>>)
  BY <1>3 DEF Queue
<1>8. Queue(w, y, n)' = Mixed(Early(w, y)', Rest(w, y, n), <<m>>)
  BY <1>3, <1>4 DEF Queue
<1> QED
  BY <1>6, <1>7, <1>8 DEF y

(* A rank sends its permutation.                                           *)
LEMMA SendsPermutation ==
  ASSUME Course, NEW w \in Worker, Onward(w, "recvGlobal"), KeepsSent, NEW n,
         NEW m, <<m>> = Msg("permutation", permutation'[w])
  PROVE  Queue(w, 0, n)' = Append(Queue(w, 0, n), m)
<1>1. 0 \in Worker /\ w # 0 /\ w \in Others /\ Control /\ pc[w] = "ready" /\ pc'[w] = "recvGlobal"
  BY RingOfRanks, CallIn, Blocks DEF Course, Onward, Inside, Others
<1>2. ~FirstOut(w)
  BY <1>1 DEF FirstOut
<1>3. ~FirstOut(w)'
  BY <1>2, InsideFirst
<1>4. ~PermOut(w) /\ PermOut(w)'
  BY <1>1, InsideRoot
<1>5. Rest(w, 0, n) = <<>>
  BY <1>2, <1>4 DEF Rest, FirstTo, PermTo
<1>6. Rest(w, 0, n)' = <<m>>
  BY <1>1, <1>3, <1>4 DEF Rest, FirstTo, PermTo
<1>7. LastPart(w, 0)' = LastPart(w, 0)
  BY <1>1, InsideParts
<1>8. ~Early(w, 0)'
  BY <1>3 DEF Early, FirstTo
<1>9. Append(Mixed(Early(w, 0), <<>>, LastPart(w, 0)), m) = Mixed(Early(w, 0)', <<m>>, LastPart(w, 0))
  BY <1>8, PartsAreOne, AppendRest
<1> QED
  BY <1>5, <1>6, <1>7, <1>9 DEF Queue

(* A rank receives first slices.                                           *)
LEMMA TakesFirst ==
  ASSUME Course, NEW w \in Worker, NEW call \in {"sendLast", "barrier"}, Onward(w, call),
         pc[w] \in {"recvFirst", "recvShift"},
         KeepsSent, NEW n, NEW m, FirstMsg(NextW(w), n) = <<m>>
  PROVE  /\ Head(Queue(NextW(w), w, n)) = m
         /\ Queue(NextW(w), w, n)' = Tail(Queue(NextW(w), w, n))
<1> DEFINE x == NextW(w)
<1>1. x \in Worker /\ x # w /\ Prev(x) = w /\ Control /\ FirstOut(x)
  BY Neighbours DEF Course, Onward, Inside
<1>2. pc[x] \in {"recvShift", "barrier", "recvFirst", "sendLast", "recvLast"}
  BY <1>1, FirstOutHere
<1>3. Rest(x, w, n) = <<m>> /\ FirstTo(x, w)
  BY <1>1 DEF Rest, FirstTo
<1>4. ~FirstOut(x)' /\ (x # 0 => ~PermOut(x)')
  <2>1. ~FirstOut(x)'
    BY <1>1, InsideFirst
  <2>2. x # 0 => ~PermOut(x)'
    BY <1>1, <1>2, InsideRoot DEF Others, PermOut
  <2> QED
    BY <2>1, <2>2
<1>5. Rest(x, w, n)' = <<>>
  BY <1>4 DEF Rest, FirstTo, PermTo
<1>6. LastPart(x, w)' = LastPart(x, w)
  BY <1>1, InsideParts
<1>7. Early(x, w) \/ LastPart(x, w) = <<>>
  <2>1. CASE pc[w] = "recvFirst"
    BY <1>3, <2>1 DEF Early
  <2>2. CASE pc[w] = "recvShift"
    <3>1. Op(w) = "shift"
      BY <1>1, <2>2 DEF Control
    <3> QED
      BY <3>1 DEF LastPart, LastOut
  <2> QED
    BY <2>1, <2>2
<1> HIDE DEF x
<1>8. /\ Head(Mixed(Early(x, w), <<m>>, LastPart(x, w))) = m
      /\ Tail(Mixed(Early(x, w), <<m>>, LastPart(x, w))) = Mixed(Early(x, w)', <<>>, LastPart(x, w))
  BY <1>7, PartsAreOne, TakeRest
<1> QED
  BY <1>3, <1>5, <1>6, <1>8 DEF Queue, x

(* Nothing but what a rank waits for reaches it from the rank it receives  *)
(* from.                                                                   *)
LEMMA ArrivedFirst ==
  ASSUME Course, NEW w \in Worker, pc[w] \in {"recvFirst", "recvShift"},
         NEW n, Queue(NextW(w), w, n) # <<>>
  PROVE  FirstOut(NextW(w))
<1> DEFINE x == NextW(w)
<1>1. x \in Worker /\ x # w /\ Prev(x) = w /\ Control /\ Order /\ ip[w] \in Turn /\ ip[x] \in Turn
  BY Neighbours DEF Course, Control
<1> SUFFICES ASSUME ~FirstOut(x)
             PROVE  FALSE
  OBVIOUS
<1>2. LastPart(x, w) # <<>> \/ PermTo(x, w)
  <2>1. ~FirstTo(x, w)
    BY DEF FirstTo
  <2>2. LastPart(x, w) # <<>> \/ Rest(x, w, n) # <<>>
    BY MixedOne DEF Queue
  <2> QED
    BY <2>1, <2>2 DEF Rest
<1>3. CASE LastPart(x, w) # <<>>
  <2>1. w = NextW(x) /\ LastOut(x)
    BY <1>3 DEF LastPart
  <2>2. At(ip[w]) = "section" /\ pc[w] = "recvFirst"
    BY <1>1, <2>1, OpIs DEF LastOut, Control
  <2>3. Reached(x, ip[w], {"recvLast"})
    BY <2>1 DEF LastOut
  <2>4. ~(ip[x] > ip[w])
    <3>1. ip[x] > ip[w] => Reached(w, ip[w], {"recvLast"})
      BY <1>1, <2>2 DEF Order, InSection
    <3> QED
      BY <1>1, <2>2, <3>1 DEF Reached, Turn
  <2>5. ip[x] = ip[w] /\ pc[x] = "recvLast" /\ Op(x) = "section"
    BY <1>1, <2>3, <2>4 DEF Reached, Control
  <2>6. ~Consumed(w, ip[x])
    BY <1>1, <2>2, <2>5 DEF Consumed, Reached, Turn
  <2> QED
    BY <1>1, <2>5, <2>6 DEF FirstOut
<1>4. CASE PermTo(x, w)
  <2>1. w = 0 /\ pc[x] = "recvGlobal" /\ Awaited(x)
    BY <1>4 DEF PermTo, PermOut
  <2>2. At(ip[x]) = "global" /\ At(ip[w]) \in {"section", "shift"}
    BY <1>1, <2>1, OpIs DEF Control
  <2>3. ip[x] > ip[w]
    BY <1>1, <2>1, <2>2 DEF Awaited, Turn
  <2>4. At(ip[w]) = "section" => Reached(w, ip[w], {"recvLast"})
    BY <1>1, <2>3 DEF Order, InSection
  <2>5. At(ip[w]) = "shift" => Reached(w, ip[w], {"barrier"})
    BY <1>1, <2>3 DEF Order, InShift
  <2> QED
    BY <1>1, <2>2, <2>4, <2>5 DEF Reached, Turn
<1> QED
  BY <1>2, <1>3, <1>4

(* What reaches a rank from the one before it while it waits for a last    *)
(* slice.                                                                  *)
LEMMA ArrivedLast ==
  ASSUME Course, NEW w \in Worker, pc[w] = "recvLast", NEW n, Queue(Prev(w), w, n) # <<>>
  PROVE  LastOut(Prev(w))
<1> DEFINE x == Prev(w)
<1>1. /\ x \in Worker /\ x # w /\ NextW(x) = w /\ Control /\ Order
      /\ ip[w] \in Turn /\ ip[x] \in Turn /\ Op(w) = "section"
  BY Neighbours DEF Course, Control
<1> SUFFICES ASSUME ~LastOut(x)
             PROVE  FALSE
  OBVIOUS
<1>2. ~Reached(x, ip[w], {"recvLast"})
  BY <1>1 DEF LastOut
<1>3. FirstTo(x, w) \/ PermTo(x, w)
  <2>1. LastPart(x, w) = <<>>
    BY DEF LastPart
  <2>2. Rest(x, w, n) # <<>>
    BY <2>1, MixedOne DEF Queue
  <2> QED
    BY <2>2 DEF Rest
<1>4. CASE FirstTo(x, w)
  <2>1. w = Prev(x) /\ ~Consumed(w, ip[x]) /\ ip[w] <= ip[x]
    BY <1>1, <1>4, FirstOutHere DEF FirstTo
  <2> QED
    BY <1>1, <1>2, <2>1 DEF Consumed, Reached, Turn
<1>5. CASE PermTo(x, w)
  <2>1. w = 0 /\ pc[x] = "recvGlobal" /\ Awaited(x)
    BY <1>5 DEF PermTo, PermOut
  <2>2. Op(x) = "global"
    BY <1>1, <2>1 DEF Control
  <2>3. ip[x] # ip[w]
    BY <1>1, <2>2, OpIs
  <2> QED
    BY <1>1, <1>2, <2>1, <2>3 DEF Awaited, Reached, Turn
<1> QED
  BY <1>3, <1>4, <1>5

(* What reaches rank 0 from the rank whose permutation it waits for.       *)
LEMMA ArrivedPermutation ==
  ASSUME Course, pc[0] = "gather", NEW n, Queue(nextSrc, 0, n) # <<>>
  PROVE  /\ nextSrc \in Others /\ PermOut(nextSrc)
         /\ LastPart(nextSrc, 0) = <<>> /\ ~FirstTo(nextSrc, 0)
<1> DEFINE x == nextSrc
<1>1. /\ x \in Worker /\ x # 0 /\ 0 \in Worker /\ Control /\ Order
      /\ ip[0] \in Turn /\ ip[x] \in Turn /\ Op(0) = "global" /\ At(ip[0]) = "global"
  BY RingOfRanks, OpIs DEF Course, Control
<1>2. LastPart(x, 0) = <<>>
  BY <1>1 DEF LastPart, LastOut
<1>3. ~FirstTo(x, 0)
  <2> SUFFICES ASSUME FirstTo(x, 0)
               PROVE  FALSE
    OBVIOUS
  <2>1. ip[0] <= ip[x] /\ At(ip[x]) \in {"section", "shift"}
    BY <1>1, FirstOutHere DEF FirstTo
  <2>2. ip[x] > ip[0]
    BY <1>1, <2>1 DEF Turn
  <2>3. ip[0] > ip[0]
    BY <1>1, <2>2 DEF Order, InGlobal
  <2> QED
    BY <1>1, <2>3 DEF Turn
<1>4. Rest(x, 0, n) # <<>>
  BY <1>2, MixedOne DEF Queue
<1>5. PermOut(x)
  BY <1>3, <1>4 DEF Rest, PermTo
<1> QED
  BY <1>1, <1>2, <1>3, <1>5 DEF Others


(* A rank that leaves a section has received a last slice, rank 0 a        *)
(* permutation when it gathers one; the other queues stay as they were.    *)
LEMMA LeaveSame ==
  ASSUME Course, NEW w \in Worker, Leave(w), KeepsSent, NEW x \in Worker, NEW y \in Worker, NEW n
  PROVE  /\ y # w \/ x # Prev(w) \/ pc[w] # "recvLast" => LastPart(x, y)' = LastPart(x, y)
         /\ y # 0 \/ x # nextSrc \/ pc[w] # "gather" => Rest(x, y, n)' = Rest(x, y, n)
         /\ Early(x, y)' <=> Early(x, y)
         /\ (y # w \/ x # Prev(w) \/ pc[w] # "recvLast") /\ (y # 0 \/ x # nextSrc \/ pc[w] # "gather")
              => Queue(x, y, n)' = Queue(x, y, n)
<1>1. /\ Control /\ pc'[w] = "ready" /\ program' = program /\ Finished(w)
      /\ \A u \in Worker : u # w => pc'[u] = pc[u] /\ ip'[u] = ip[u]
  BY Advances DEF Course, Leave
<1>2. FirstTo(x, y)' <=> FirstTo(x, y)
  BY LeaveFirst DEF FirstTo
<1>3. Early(x, y)' <=> Early(x, y)
  <2>1. pc[w] # "recvFirst"
    BY <1>1 DEF Finished
  <2> QED
    BY <1>1, <1>2, <2>1 DEF Early
<1>4. ASSUME y # w \/ x # Prev(w) \/ pc[w] # "recvLast"
      PROVE  LastPart(x, y)' = LastPart(x, y)
  <2>1. CASE x # Prev(w) \/ pc[w] # "recvLast"
    <3>1. LastOut(x)' <=> LastOut(x)
      BY <2>1, LeaveLast
    <3> QED
      BY <3>1, SamePart
  <2>2. CASE x = Prev(w) /\ y # w
    <3>1. y # NextW(x)
      BY <2>2, Neighbours
    <3> QED
      BY <3>1 DEF LastPart
  <2> QED
    BY <1>4, <2>1, <2>2
<1>5. ASSUME y # 0 \/ x # nextSrc \/ pc[w] # "gather"
      PROVE  Rest(x, y, n)' = Rest(x, y, n)
  <2>1. PermTo(x, y)' <=> PermTo(x, y)
    BY <1>5, LeaveRoot DEF PermTo, Others
  <2>2. FirstOut(x) => Op(x)' = Op(x)
    BY <1>1, LeaveFirst DEF Op
  <2> QED
    BY <1>2, <2>1, <2>2, SameRest
<1> QED
  BY <1>3, <1>4, <1>5, SameQueue

(* A rank that leaves a section takes the last slice of the rank before    *)
(* it.                                                                     *)
LEMMA TakesLast ==
  ASSUME Course, NEW w \in Worker, Leave(w), pc[w] = "recvLast", KeepsSent, NEW n,
         NEW m, <<m>> = Msg("last", beads[w][0])
  PROVE  /\ Head(Queue(Prev(w), w, n)) = m
         /\ Queue(Prev(w), w, n)' = Tail(Queue(Prev(w), w, n))
<1> DEFINE x == Prev(w)
<1>1. x \in Worker /\ NextW(x) = w /\ pc[w] # "gather"
  BY Neighbours
<1>2. LastPart(x, w) = <<m>> /\ LastPart(x, w)' = <<>>
  BY <1>1, LeaveLast DEF LastPart
<1>3. Rest(x, w, n)' = Rest(x, w, n) /\ ~Early(x, w)
  BY <1>1, LeaveSame DEF Early
<1> HIDE DEF x
<1>4. /\ Head(Mixed(Early(x, w), Rest(x, w, n), <<m>>)) = m
      /\ Tail(Mixed(Early(x, w), Rest(x, w, n), <<m>>)) = Mixed(Early(x, w)', Rest(x, w, n), <<>>)
  BY <1>3, PartsAreOne, TakeLast
<1> QED
  BY <1>2, <1>3, <1>4 DEF Queue, x

(* Rank 0 going on to the next permutation changes no queue but the one it *)
(* took from.                                                              *)
LEMMA GatherOnSame ==
  ASSUME Course, GatherOn, KeepsSent, NEW x \in Worker, NEW y \in Worker, NEW n
  PROVE  /\ LastPart(x, y)' = LastPart(x, y) /\ (Early(x, y)' <=> Early(x, y))
         /\ y # 0 \/ x # nextSrc => Queue(x, y, n)' = Queue(x, y, n)
<1>1. pc' = pc /\ ip' = ip /\ program' = program
  BY DEF GatherOn, progressVars
<1>2. LastPart(x, y)' = LastPart(x, y)
  BY GatherOnFlags, SamePart
<1>3. FirstTo(x, y)' <=> FirstTo(x, y)
  BY GatherOnFlags DEF FirstTo
<1>4. Early(x, y)' <=> Early(x, y)
  BY <1>1, <1>3 DEF Early
<1>5. ASSUME y # 0 \/ x # nextSrc
      PROVE  Rest(x, y, n)' = Rest(x, y, n)
  <2>1. PermTo(x, y)' <=> PermTo(x, y)
    BY <1>5, GatherOnFlags DEF PermTo, Others
  <2>2. Op(x)' = Op(x)
    BY <1>1 DEF Op
  <2> QED
    BY <1>3, <2>1, <2>2, SameRest
<1> QED
  BY <1>2, <1>4, <1>5, SameQueue

(* Rank 0 takes the permutation it waits for.                              *)
LEMMA TakesPermutation ==
  ASSUME Course, pc[0] = "gather", Leave(0) \/ GatherOn, KeepsSent, NEW n,
         nextSrc \in Others, PermOut(nextSrc), LastPart(nextSrc, 0) = <<>>, ~FirstTo(nextSrc, 0),
         NEW m, <<m>> = Msg("permutation", permutation[nextSrc])
  PROVE  /\ Head(Queue(nextSrc, 0, n)) = m
         /\ \A x : x = nextSrc => Queue(x, 0, n)' = Tail(Queue(x, 0, n))
<1> SUFFICES ASSUME NEW x, x = nextSrc
             PROVE  Head(Queue(x, 0, n)) = m /\ Queue(x, 0, n)' = Tail(Queue(x, 0, n))
  OBVIOUS
<1>1. x \in Worker /\ x \in Others /\ x # 0 /\ 0 \in Worker
  BY RingOfRanks DEF Others
<1>2. Rest(x, 0, n) = <<m>> /\ LastPart(x, 0) = <<>>
  BY <1>1 DEF Rest, PermTo
<1>3. LastPart(x, 0)' = <<>> /\ ~FirstTo(x, 0)' /\ ~PermOut(x)'
  <2>1. CASE Leave(0)
    <3>1. LastPart(x, 0)' = LastPart(x, 0)
      BY <1>1, <2>1, LeaveSame
    <3>2. ~FirstTo(x, 0)'
      BY <1>1, <2>1, LeaveFirst DEF FirstTo
    <3>3. ~PermOut(x)'
      BY <1>1, <2>1, LeaveRoot
    <3> QED
      BY <1>2, <3>1, <3>2, <3>3
  <2>2. CASE GatherOn
    <3>1. LastPart(x, 0)' = LastPart(x, 0)
      BY <1>1, <2>2, GatherOnSame
    <3>2. ~FirstTo(x, 0)' /\ ~PermOut(x)'
      BY <1>1, <2>2, GatherOnFlags DEF FirstTo
    <3> QED
      BY <1>2, <3>1, <3>2
  <2> QED
    BY <2>1, <2>2
<1>4. Rest(x, 0, n)' = <<>>
  BY <1>3 DEF Rest, PermTo
<1>5. /\ Head(Mixed(Early(x, 0), <<m>>, <<>>)) = m
      /\ Tail(Mixed(Early(x, 0), <<m>>, <<>>)) = Mixed(Early(x, 0)', <<>>, <<>>)
  BY TakeRest DEF One
<1> QED
  BY <1>2, <1>3, <1>4, <1>5 DEF Queue

-----------------------------------------------------------------------------
(* One queue gets or loses a message, the others stay.                     *)
LEMMA QueueReplaced ==
  ASSUME NEW n, Queues(n), NEW v \in Worker, NEW w \in Worker, NEW q,
         Replaces(chan', chan, v, w, 1, q),
         Queue(v, w, n)' = q,
         \A x, y \in Worker : x # v \/ y # w => Queue(x, y, n)' = Queue(x, y, n)
  PROVE  Queues(n)'
<1>1. 1 \in Tags
  BY TagAssumption
<1>2. /\ AreQueues(chan', Worker, Tags) /\ chan'[v][w][1] = q
      /\ \A x, y \in Worker : x # v \/ y # w => chan'[x][y][1] = chan[x][y][1]
  BY <1>1, QueueChanged DEF Queues
<1>3. \A x, y \in Worker : chan'[x][y][1] = Queue(x, y, n)'
  BY <1>2 DEF Queues
<1> QED
  BY <1>2, <1>3 DEF Queues

(* One queue gets a message.                                               *)
LEMMA Deposited ==
  ASSUME NEW n, Queues(n), NEW v \in Worker, NEW w \in Worker, NEW kind, NEW data,
         Post(v, w, 1, kind, data),
         Queue(v, w, n)' = Append(Queue(v, w, n), [kind |-> kind, data |-> data]),
         \A x, y \in Worker : x # v \/ y # w => Queue(x, y, n)' = Queue(x, y, n)
  PROVE  Queues(n)'
<1> DEFINE q == Append(Queue(v, w, n), [kind |-> kind, data |-> data])
<1>1. chan[v][w][1] = Queue(v, w, n)
  BY DEF Queues
<1>2. Replaces(chan', chan, v, w, 1, q)
  BY <1>1 DEF Post, Posted, Replaces
<1> QED
  BY <1>2, QueueReplaced

(* One queue loses its first message.                                      *)
LEMMA Withdrawn ==
  ASSUME NEW n, Queues(n), NEW v \in Worker, NEW w \in Worker, chan' = Take(v, w, 1),
         Queue(v, w, n)' = Tail(Queue(v, w, n)),
         \A x, y \in Worker : x # v \/ y # w => Queue(x, y, n)' = Queue(x, y, n)
  PROVE  Queues(n)'
<1> DEFINE q == Tail(Queue(v, w, n))
<1>1. chan[v][w][1] = Queue(v, w, n)
  BY DEF Queues
<1>2. Replaces(chan', chan, v, w, 1, q)
  BY <1>1 DEF Take, Replaces
<1> QED
  BY <1>2, QueueReplaced

(* No queue changes.                                                       *)
LEMMA Untouched ==
  ASSUME NEW n, Queues(n), chan' = chan,
         \A x, y \in Worker : Queue(x, y, n)' = Queue(x, y, n)
  PROVE  Queues(n)'
BY DEF Queues


-----------------------------------------------------------------------------
(* The data of the ranks.                                                  *)
Arrays(a) == /\ a = [w \in Worker |-> a[w]]
             /\ \A w \in Worker : a[w] \in [Stored(w) -> SliceType]
Held == /\ Arrays(beads) /\ Arrays(buffer)
        /\ permutation \in [Worker -> Perms(Part)]
        /\ globalPermutation \in [Worker -> Perms(Part)]
        /\ program \in Programs

(* Slice 0 of the next rank is a copy of w's last slice, w's other buffer  *)
(* slice a copy of the next rank's first.                                  *)
Views == [w \in Worker |-> View(w)]
Lower(a, w) == \A i \in Part : a[NextW(w)][0][permutation[w][i]] = a[w][nprocSlice(w)][i]
Upper(a, w) == \A i \in Part : a[w][nprocSlice(w) + 1][i] = a[NextW(w)][1][permutation[w][i]]
Refreshing(w) == FirstOut(NextW(w)) /\ Op(NextW(w)) = "section"
Copies == \A w \in Worker : Lower(Views, w) /\ (Upper(Views, w) \/ Refreshing(w))

(* The new array of a rank that waits for the others to have theirs.       *)
Past(w) == \E v \in Worker : ip[v] > ip[w]
Assembled(w, n) == buffer[w] = Shifted(w, n, Handed(NextW(w), n).slice)
Buffers(n) == \A w \in Worker : pc[w] = "barrier" /\ ~Past(w) => Assembled(w, n)

(* A rank has to listen to a global permutation and a shift, at most one   *)
(* of each.                                                                *)
GlobalPart(w, p) == IF GlobalOut(w) THEN <<p>> ELSE <<>>
ShiftPart(w, n) == IF ShiftOut(w) THEN <<n>> ELSE <<>>
Bcasts(n) ==
  /\ bcast = [w \in Worker |-> bcast[w]]
  /\ \A w \in Others : \E p \in Perms(Part) : bcast[w] = Join(GlobalPart(w, p), ShiftPart(w, n))

Delivery(n) == Queues(n) /\ Bcasts(n) /\ Buffers(n)

(* A slice read under other labels.                                        *)
LEMMA RelabelSlice ==
  ASSUME NEW s \in SliceType, NEW p \in Perms(Part)
  PROVE  Relabel(s, p) \in SliceType /\ \A i \in Part : Relabel(s, p)[i] = s[p[i]]
BY DEF SliceType, Relabel, Perms

(* A slice stored under other labels: the one slice that has the same      *)
(* beads at them.                                                          *)
LEMMA ScatterSlice ==
  ASSUME NEW s \in SliceType, NEW p \in Perms(Part)
  PROVE  /\ Scatter(s, p) \in SliceType
         /\ \A i \in Part : p[i] \in Part /\ Scatter(s, p)[p[i]] = s[i]
         /\ \A t \in SliceType : (\A i \in Part : t[p[i]] = s[i]) => t = Scatter(s, p)
<1>1. InverseOf(p) \in Perms(Part) /\ \A i \in Part : InverseOf(p)[p[i]] = i
  BY InversePerm
<1>2. \A j \in Part : InverseOf(p)[j] \in Part /\ p[InverseOf(p)[j]] = j
  BY <1>1, InversePerm DEF Perms
<1>3. Scatter(s, p) = [j \in Part |-> s[InverseOf(p)[j]]]
  BY DEF Scatter, SliceType
<1>4. \A i \in Part : p[i] \in Part
  BY DEF Perms
<1>5. Scatter(s, p) \in SliceType
  BY <1>2, <1>3 DEF SliceType
<1>6. \A i \in Part : Scatter(s, p)[p[i]] = s[i]
  BY <1>1, <1>3, <1>4
<1>7. ASSUME NEW t \in SliceType, \A i \in Part : t[p[i]] = s[i]
      PROVE  t = Scatter(s, p)
  <2>1. \A j \in Part : t[j] = Scatter(s, p)[j]
    BY <1>2, <1>3, <1>7
  <2> QED
    BY <1>5, <2>1 DEF SliceType
<1> QED
  BY <1>4, <1>5, <1>6, <1>7

(* Every rank stores its first and last own slice and the two next to      *)
(* them.                                                                   *)
LEMMA StoredSlices ==
  ASSUME NEW w \in Worker
  PROVE  /\ 0 \in Stored(w) /\ 1 \in Stored(w)
         /\ nprocSlice(w) \in Stored(w) /\ nprocSlice(w) + 1 \in Stored(w)
         /\ nprocSlice(w) \in Nat /\ nprocSlice(w) > 0
BY SlicesOfRanks DEF Stored

(* A section keeps slice 0 and relabels the last owned slice and the one   *)
(* after it.                                                               *)
LEMMA PutSlices ==
  ASSUME Held, NEW w \in Worker, NEW n \in SectionSizes, NEW f \in FirstSlices(w, n),
         NEW sp \in Perms(Part), NEW put,
         put = PutBeads(beads[w], w, f, Sampled(GetBeads(w, f, n), n, sp), n, sp)
  PROVE  /\ put \in [Stored(w) -> SliceType] /\ put[0] = beads[w][0]
         /\ put[nprocSlice(w)] = Relabel(beads[w][nprocSlice(w)], sp)
         /\ put[nprocSlice(w) + 1] = Relabel(beads[w][nprocSlice(w) + 1], sp)
         /\ \A j \in Stored(w) :
              /\ j >= f + n - 1 => put[j] = Relabel(beads[w][j], sp)
              /\ j < f + n - 1 => \A i \in Part : put[j][i].id = beads[w][j][i].id
<1> DEFINE b == beads[w]
           P == nprocSlice(w)
           got == GetBeads(w, f, n)
           section == Sampled(got, n, sp)
<1>1. /\ n \in Nat /\ n > 1 /\ f \in Nat /\ f + n - 1 <= P /\ P \in Nat /\ P > 0
      /\ Stored(w) = 0 .. P + 1
  BY SectionAssumption, StoredSlices DEF FirstSlices, Stored
<1>2. b \in [Stored(w) -> SliceType]
  BY DEF Held, Arrays
<1>3. \A k \in 0 .. n - 1 : got[k] = b[f + k] /\ f + k \in Stored(w) /\ got[k] \in SliceType
  <2>1. \A k \in 0 .. n - 1 : got[k] = b[f + k]
    BY DEF GetBeads
  <2>2. \A k \in 0 .. n - 1 : f + k \in Stored(w)
    BY <1>1
  <2> QED
    BY <1>2, <2>1, <2>2
<1> HIDE DEF b, P, got
<1>4. ASSUME NEW k \in 0 .. n - 1
      PROVE  section[k] \in SliceType
  <2>1. CASE k = 0
    BY <1>3, <2>1 DEF Sampled
  <2>2. CASE k # 0 /\ k = n - 1
    <3>1. section[k] = Relabel(got[k], sp)
      BY <1>1, <2>2 DEF Sampled
    <3> QED
      BY <1>3, <3>1, RelabelSlice
  <2>3. CASE k # 0 /\ k # n - 1
    <3>1. section[k] = [i \in Part |-> [got[k][i] EXCEPT !.ver = @ + 1]]
      BY <2>3 DEF Sampled
    <3>2. \A i \in Part : [got[k][i] EXCEPT !.ver = @ + 1] \in Bead
      BY <1>3 DEF SliceType, Bead
    <3> QED
      BY <3>1, <3>2 DEF SliceType
  <2> QED
    BY <2>1, <2>2, <2>3
<1>5. section[0] = got[0] /\ section[n - 1] = Relabel(got[n - 1], sp)
  BY <1>1 DEF Sampled
<1> HIDE DEF section
<1>6. put = [j \in Stored(w) |-> IF j \in f .. f + n - 1 THEN section[j - f]
                                 ELSE IF j >= f + n      THEN Relabel(b[j], sp)
                                 ELSE                         b[j]]
  BY DEF PutBeads, section, got, b
<1>7. put \in [Stored(w) -> SliceType]
  <2>1. ASSUME NEW j \in Stored(w)
        PROVE  put[j] \in SliceType
    <3>1. CASE j \in f .. f + n - 1
      <4>1. j - f \in 0 .. n - 1
        BY <1>1, <3>1
      <4> QED
        BY <1>4, <1>6, <3>1, <4>1
    <3>2. CASE j \notin f .. f + n - 1 /\ j >= f + n
      BY <1>2, <1>6, <3>2, RelabelSlice
    <3>3. CASE j \notin f .. f + n - 1 /\ ~(j >= f + n)
      BY <1>2, <1>6, <3>3
    <3> QED
      BY <3>1, <3>2, <3>3
  <2> QED
    BY <1>6, <2>1
<1>8. put[0] = b[0]
  <2>1. 0 \in Stored(w)
    BY <1>1
  <2>2. CASE f = 0
    <3>1. 0 \in f .. f + n - 1 /\ 0 - f = 0 /\ 0 \in 0 .. n - 1 /\ f + 0 = 0
      BY <1>1, <2>2
    <3> QED
      BY <1>3, <1>5, <1>6, <2>1, <3>1
  <2>3. CASE f # 0
    <3>1. 0 \notin f .. f + n - 1 /\ ~(0 >= f + n)
      BY <1>1, <2>3
    <3> QED
      BY <1>6, <2>1, <3>1
  <2> QED
    BY <2>2, <2>3
<1>9. ASSUME NEW j \in Stored(w), j >= f + n - 1
      PROVE  put[j] = Relabel(b[j], sp)
  <2>1. j \in Stored(w) /\ j \in Nat
    BY <1>1
  <2>2. CASE j = f + n - 1
    <3>1. j \in f .. f + n - 1 /\ j - f = n - 1 /\ n - 1 \in 0 .. n - 1 /\ f + (n - 1) = j
      BY <1>1, <2>2
    <3> QED
      BY <1>3, <1>5, <1>6, <2>1, <3>1
  <2>3. CASE j # f + n - 1
    <3>1. j \notin f .. f + n - 1 /\ j >= f + n
      BY <1>1, <1>9, <2>1, <2>3
    <3> QED
      BY <1>6, <2>1, <3>1
  <2> QED
    BY <2>2, <2>3
<1>10. ASSUME NEW j \in Stored(w), j < f + n - 1, NEW i \in Part
       PROVE  put[j][i].id = b[j][i].id
  <2>1. j \in Nat
    BY <1>1
  <2>2. CASE j < f
    <3>1. j \notin f .. f + n - 1 /\ ~(j >= f + n)
      BY <1>1, <2>1, <2>2
    <3> QED
      BY <1>6, <3>1
  <2>3. CASE j >= f
    <3>1. j \in f .. f + n - 1 /\ j - f \in 0 .. n - 1 /\ j - f # n - 1 /\ f + (j - f) = j
      BY <1>1, <1>10, <2>1, <2>3
    <3>2. put[j] = section[j - f] /\ got[j - f] = b[j]
      BY <1>3, <1>6, <3>1
    <3>3. CASE j = f
      <4>1. j - f = 0
        BY <1>1, <2>1, <3>3
      <4> QED
        BY <1>5, <3>2, <4>1
    <3>4. CASE j # f
      <4>1. j - f # 0
        BY <1>1, <2>1, <3>4
      <4>2. section[j - f] = [k \in Part |-> [got[j - f][k] EXCEPT !.ver = @ + 1]]
        BY <3>1, <4>1 DEF section, Sampled
      <4>3. got[j - f][i] \in Bead
        BY <1>3, <3>1 DEF SliceType
      <4> QED
        BY <3>2, <4>2, <4>3 DEF Bead
    <3> QED
      BY <3>3, <3>4
  <2> QED
    BY <1>1, <2>1, <2>2, <2>3
<1>11. P \in Stored(w) /\ P + 1 \in Stored(w) /\ P >= f + n - 1 /\ P + 1 >= f + n - 1
  BY <1>1
<1> QED
  BY <1>7, <1>8, <1>9, <1>10, <1>11 DEF b, P

(* The new array of a shift, slice by slice.                               *)
LEMMA ShiftedSlices ==
  ASSUME Held, NEW w \in Worker, NEW n \in 1 .. MaxShift, NEW new,
         new = Shifted(w, n, Handed(NextW(w), n).slice)
  PROVE  /\ new \in [Stored(w) -> SliceType]
         /\ \A j \in Stored(w) :
              /\ j + n < nprocSlice(w) => new[j] = beads[w][j + n]
              /\ j + n >= nprocSlice(w) =>
                   new[j] = Relabel(beads[NextW(w)][j + n - nprocSlice(w)], permutation[w])
<1> DEFINE P == nprocSlice(w)
           y == NextW(w)
           Q == nprocSlice(y)
           received == Handed(y, n).slice
<1>1. /\ n \in Nat /\ n > 0 /\ n <= P /\ P \in Nat /\ Stored(w) = 0 .. P + 1
      /\ y \in Worker /\ n <= Q /\ Q \in Nat /\ Stored(y) = 0 .. Q + 1
  BY SlicesOfRanks, Neighbours DEF Stored
<1>2. beads[w] \in [Stored(w) -> SliceType] /\ beads[y] \in [Stored(y) -> SliceType]
  BY <1>1 DEF Held, Arrays
<1>3. permutation[w] \in Perms(Part)
  BY DEF Held
<1>4. \A k \in 0 .. n + 1 : received[k] = beads[y][k]
  BY DEF Handed
<1> HIDE DEF P, y, Q, received
<1>5. new = [j \in Stored(w) |-> IF j >= P - n THEN Relabel(received[j - (P - n)], permutation[w])
                                 ELSE beads[w][j + n]]
  BY DEF Shifted, P, received, y
<1>6. ASSUME NEW j \in Stored(w), j + n < P
      PROVE  new[j] = beads[w][j + n] /\ new[j] \in SliceType
  <2>1. ~(j >= P - n) /\ j + n \in Stored(w)
    BY <1>1, <1>6
  <2> QED
    BY <1>2, <1>5, <2>1
<1>7. ASSUME NEW j \in Stored(w), j + n >= P
      PROVE  new[j] = Relabel(beads[y][j + n - P], permutation[w]) /\ new[j] \in SliceType
  <2>1. j >= P - n /\ j - (P - n) = j + n - P /\ j + n - P \in 0 .. n + 1 /\ j + n - P \in Stored(y)
    BY <1>1, <1>7
  <2>2. new[j] = Relabel(beads[y][j + n - P], permutation[w])
    BY <1>4, <1>5, <2>1
  <2> QED
    BY <1>2, <1>3, <2>1, <2>2, RelabelSlice
<1>8. \A j \in Stored(w) : new[j] \in SliceType
  <2>1. \A j \in Stored(w) : j + n < P \/ j + n >= P
    BY <1>1
  <2> QED
    BY <1>6, <1>7, <2>1
<1>9. new \in [Stored(w) -> SliceType]
  BY <1>5, <1>8
<1> QED
  BY <1>6, <1>7, <1>9 DEF P, y

(* When every rank has its new array, the new arrays are copies where the  *)
(* old ones were.                                                          *)
LEMMA ShiftedCopies ==
  ASSUME Held, NEW n \in 1 .. MaxShift, \A w \in Worker : Assembled(w, n),
         \A w \in Worker : Lower(beads, w) /\ Upper(beads, w), NEW v \in Worker
  PROVE  Lower(buffer, v) /\ Upper(buffer, v)
<1> DEFINE y == NextW(v)
           z == NextW(y)
           P == nprocSlice(v)
           Q == nprocSlice(y)
<1>1. /\ y \in Worker /\ z \in Worker /\ n \in Nat /\ n > 0
      /\ P \in Nat /\ n <= P /\ Q \in Nat /\ n <= Q /\ Q > 0
      /\ P \in Stored(v) /\ P + 1 \in Stored(v) /\ 0 \in Stored(y) /\ 1 \in Stored(y)
      /\ n \in Stored(y) /\ n + 1 \in Stored(y)
  BY SlicesOfRanks, Neighbours DEF Stored
<1>2. /\ permutation[v] \in Perms(Part) /\ permutation[y] \in Perms(Part)
      /\ \A i \in Part : permutation[v][i] \in Part
  BY <1>1 DEF Held, Perms
<1>3. /\ \A j \in Stored(y) : beads[y][j] \in SliceType
      /\ \A j \in Stored(z) : beads[z][j] \in SliceType
      /\ 0 \in Stored(z) /\ 1 \in Stored(z)
  BY <1>1, StoredSlices DEF Held, Arrays
<1>4. /\ \A i \in Part : beads[z][0][permutation[y][i]] = beads[y][Q][i]
      /\ \A i \in Part : beads[y][Q + 1][i] = beads[z][1][permutation[y][i]]
  BY <1>1 DEF Lower, Upper
<1>5. \A j \in {P, P + 1} : buffer[v][j] = Relabel(beads[y][j + n - P], permutation[v])
  <2>1. \A j \in {P, P + 1} : j \in Stored(v) /\ j + n >= P
    BY <1>1
  <2> QED
    BY <2>1, ShiftedSlices DEF Assembled
<1>6. \A j \in {0, 1} : /\ j + n < Q => buffer[y][j] = beads[y][j + n]
                        /\ j + n >= Q => buffer[y][j] = Relabel(beads[z][j + n - Q], permutation[y])
  BY <1>1, ShiftedSlices DEF Assembled
<1> HIDE DEF y, z, P, Q
<1>7. ASSUME NEW j \in {0, 1}, NEW i \in Part
      PROVE  buffer[y][j][permutation[v][i]] = beads[y][j + n][permutation[v][i]]
  <2>1. CASE j + n < Q
    BY <1>6, <2>1
  <2>2. CASE j + n >= Q
    <3>1. (j + n = Q \/ j + n = Q + 1) /\ j + n - Q \in {0, 1}
      BY <1>1, <2>2
    <3>2. buffer[y][j] = Relabel(beads[z][j + n - Q], permutation[y])
      BY <1>6, <2>2
    <3>3. buffer[y][j][permutation[v][i]] = beads[z][j + n - Q][permutation[y][permutation[v][i]]]
      <4> DEFINE s == beads[z][j + n - Q]
      <4>1. s \in SliceType
        BY <1>3, <3>1
      <4> HIDE DEF s
      <4>2. \A k \in Part : Relabel(s, permutation[y])[k] = s[permutation[y][k]]
        BY <1>2, <4>1, RelabelSlice
      <4>3. buffer[y][j] = Relabel(s, permutation[y])
        BY <3>2 DEF s
      <4> QED
        BY <1>2, <4>2, <4>3 DEF s
    <3>4. CASE j + n = Q
      <4>1. j + n - Q = 0
        BY <1>1, <3>4
      <4> QED
        BY <1>2, <1>4, <3>3, <3>4, <4>1
    <3>5. CASE j + n = Q + 1
      <4>1. j + n - Q = 1
        BY <1>1, <3>5
      <4> QED
        BY <1>2, <1>4, <3>3, <3>5, <4>1
    <3> QED
      BY <3>1, <3>4, <3>5
  <2> QED
    BY <1>1, <2>1, <2>2
<1>8. ASSUME NEW i \in Part
      PROVE  buffer[v][P][i] = beads[y][n][permutation[v][i]]
  <2>1. P + n - P = n
    BY <1>1
  <2>2. buffer[v][P] = Relabel(beads[y][n], permutation[v])
    BY <1>5, <2>1
  <2> QED
    BY <1>1, <1>2, <1>3, <2>2, RelabelSlice
<1>9. ASSUME NEW i \in Part
      PROVE  buffer[v][P + 1][i] = beads[y][n + 1][permutation[v][i]]
  <2>1. P + 1 + n - P = n + 1
    BY <1>1
  <2>2. buffer[v][P + 1] = Relabel(beads[y][n + 1], permutation[v])
    BY <1>5, <2>1
  <2> QED
    BY <1>1, <1>2, <1>3, <2>2, RelabelSlice
<1>10. 0 + n = n /\ 1 + n = n + 1
  BY <1>1
<1> QED
  BY <1>7, <1>8, <1>9, <1>10 DEF Lower, Upper, y, P


-----------------------------------------------------------------------------
(* Around a rank that waits in a barrier.                                  *)
LEMMA BesideBarrier ==
  ASSUME Course, NEW u \in Worker, pc[u] = "barrier", ~Past(u)
  PROVE  /\ At(ip[u]) = "shift" /\ ip[NextW(u)] = ip[u]
         /\ pc[NextW(u)] \in {"recvShift", "barrier"}
<1> DEFINE y == NextW(u)
<1>1. y \in Worker /\ Control /\ Order /\ ip[u] \in Turn
  BY Neighbours DEF Course, Control
<1>2. At(ip[u]) = "shift"
  BY <1>1, OpIs DEF Control
<1>3. Begun(y, ip[u])
  BY <1>1, <1>2 DEF Order, InShift, Reached
<1>4. ip[y] = ip[u] /\ pc[y] # "ready"
  BY <1>1, <1>3 DEF Begun, Past
<1> QED
  BY <1>1, <1>2, <1>4, OpIs DEF Control, Places

(* No rank is past a shift that another one has not assembled.             *)
LEMMA NotPast ==
  ASSUME Course, NEW w \in Worker, pc[w] = "recvShift"
  PROVE  ~Past(w)
<1>1. Control /\ Order /\ ip[w] \in Turn /\ ip[w] \in Nat /\ At(ip[w]) = "shift"
  BY OpIs DEF Course, Control, Turn
<1>2. ~Reached(w, ip[w], {"barrier"})
  BY <1>1 DEF Reached
<1> QED
  BY <1>1, <1>2 DEF Order, InShift, Past

(* How the arrays a rank stands for change.                                *)
LEMMA InsideViews ==
  ASSUME Course, NEW w \in Worker, NEW call, Onward(w, call)
  PROVE  /\ View(w) = beads[w] /\ View(w)' = beads'[w]
         /\ \A u \in Worker : u # w /\ beads'[u] = beads[u] /\ buffer'[u] = buffer[u]
                                => View(u)' = View(u)
         /\ \A u \in Worker : Past(u)' <=> Past(u)
<1>1. /\ Control /\ Inside(w, call) /\ ip' = ip /\ pc'[w] = call
      /\ \A u \in Worker : u # w => pc'[u] = pc[u]
  BY CallIn, Blocks DEF Course, Onward
<1>2. \A u \in Worker : Past(u)' <=> Past(u)
  BY <1>1 DEF Past
<1>3. View(w) = beads[w]
  BY <1>1 DEF Inside, View
<1>4. View(w)' = beads'[w]
  <2>1. CASE call = "barrier"
    <3>1. ~Past(w)'
      BY <1>1, <1>2, <2>1, NotPast DEF Inside
    <3> QED
      BY <3>1 DEF View, Past
  <2>2. CASE call # "barrier"
    BY <1>1, <2>2 DEF View
  <2> QED
    BY <2>1, <2>2
<1>5. ASSUME NEW u \in Worker, u # w, beads'[u] = beads[u], buffer'[u] = buffer[u]
      PROVE  View(u)' = View(u)
  BY <1>1, <1>5 DEF View
<1> QED
  BY <1>2, <1>3, <1>4, <1>5

(* The same when a rank leaves an operation that is no shift.              *)
LEMMA LeaveViews ==
  ASSUME Course, NEW w \in Worker, Leave(w), pc[w] # "barrier"
  PROVE  /\ View(w) = beads[w] /\ View(w)' = beads'[w]
         /\ \A u \in Worker : u # w /\ beads'[u] = beads[u] /\ buffer'[u] = buffer[u]
                                => View(u)' = View(u)
         /\ \A u \in Worker : pc'[u] = "barrier" => pc[u] = "barrier" /\ (Past(u)' <=> Past(u))
<1>1. /\ Control /\ Finished(w) /\ pc'[w] = "ready" /\ ip'[w] = ip[w] + 1
      /\ \A u \in Worker : u # w => pc'[u] = pc[u] /\ ip'[u] = ip[u]
      /\ \A u \in Worker : ip[u] \in Nat
  BY Advances DEF Course, Leave, Control, Turn
<1>2. View(w) = beads[w] /\ View(w)' = beads'[w]
  BY <1>1 DEF View
<1>3. ASSUME NEW u \in Worker, u # w, pc[u] = "barrier"
      PROVE  Past(u)' <=> Past(u)
  <2>1. ip[u] # ip[w]
    <3>1. At(ip[u]) = "shift"
      BY <1>1, <1>3, OpIs DEF Control
    <3>2. At(ip[w]) # "shift"
      BY <1>1, FinishedKnows
    <3> QED
      BY <3>1, <3>2
  <2>2. ip[w] + 1 > ip[u] <=> ip[w] > ip[u]
    BY <1>1, <2>1
  <2>3. \A v \in Worker : ip'[v] > ip'[u] <=> ip[v] > ip[u]
    BY <1>1, <1>3, <2>2
  <2> QED
    BY <2>3 DEF Past
<1>4. \A u \in Worker : pc'[u] = "barrier" => u # w /\ pc[u] = "barrier"
  BY <1>1
<1>5. ASSUME NEW u \in Worker, u # w, beads'[u] = beads[u], buffer'[u] = buffer[u]
      PROVE  View(u)' = View(u)
  <2>1. CASE pc[u] = "barrier"
    BY <1>1, <1>3, <1>5, <2>1 DEF View, Past
  <2>2. CASE pc[u] # "barrier"
    BY <1>1, <1>5, <2>2 DEF View
  <2> QED
    BY <2>1, <2>2
<1> QED
  BY <1>2, <1>3, <1>4, <1>5

(* The first rank out of a barrier changes the array every rank stands     *)
(* for, the others none.                                                   *)
LEMMA BarrierViews ==
  ASSUME Course, NEW w \in Worker, Leave(w), pc[w] = "barrier",
         beads'[w] = buffer[w],
         \A u \in Worker : u # w => beads'[u] = beads[u] /\ buffer'[u] = buffer[u]
  PROVE  /\ Past(w) => \A u \in Worker : View(u)' = View(u)
         /\ ~Past(w) => \A u \in Worker : /\ pc[u] = "barrier" /\ ~Past(u)
                                          /\ View(u) = beads[u] /\ View(u)' = buffer[u]
         /\ \A u \in Worker : pc'[u] = "barrier" /\ ~Past(u)' =>
              /\ u # w /\ pc[u] = "barrier" /\ ~Past(u)
              /\ NextW(u) # w
<1>1. /\ Control /\ Finished(w) /\ pc'[w] = "ready" /\ ip'[w] = ip[w] + 1
      /\ \A u \in Worker : u # w => pc'[u] = pc[u] /\ ip'[u] = ip[u]
      /\ \A u \in Worker : ip[u] \in Nat
      /\ \A u \in Worker : ip[u] > ip[w] \/ (ip[u] = ip[w] /\ pc[u] = "barrier")
  BY Advances DEF Course, Leave, Control, Turn, Finished, BarrierOpens
<1>2. View(w)' = buffer[w]
  BY <1>1 DEF View
<1>3. ASSUME NEW u \in Worker, u # w
      PROVE  Past(u)' <=> Past(u) \/ ip[u] = ip[w]
  <2>1. ip[w] + 1 > ip[u] <=> (ip[w] > ip[u] \/ ip[w] = ip[u])
    BY <1>1
  <2>2. ip'[w] > ip'[u] <=> (ip[w] > ip[u] \/ ip[w] = ip[u])
    BY <1>1, <1>3, <2>1
  <2>3. \A v \in Worker : v # w => (ip'[v] > ip'[u] <=> ip[v] > ip[u])
    BY <1>1, <1>3
  <2>4. Past(u)' => Past(u) \/ ip[u] = ip[w]
    BY <2>2, <2>3 DEF Past
  <2>5. Past(u) \/ ip[u] = ip[w] => Past(u)'
    BY <2>2, <2>3 DEF Past
  <2> QED
    BY <2>4, <2>5
<1>4. ASSUME Past(w), NEW u \in Worker
      PROVE  View(u)' = View(u)
  <2>1. CASE u = w
    BY <1>2, <1>4, <2>1 DEF View, Past
  <2>2. CASE u # w
    <3>1. ip[u] = ip[w] => Past(u)
      BY <1>4 DEF Past
    <3>2. Past(u)' <=> Past(u)
      BY <1>3, <2>2, <3>1
    <3> QED
      BY <1>1, <2>2, <3>2 DEF View, Past
  <2> QED
    BY <2>1, <2>2
<1>5. ASSUME ~Past(w), NEW u \in Worker
      PROVE  pc[u] = "barrier" /\ ~Past(u) /\ View(u) = beads[u] /\ View(u)' = buffer[u]
  <2>1. ip[u] = ip[w] /\ pc[u] = "barrier"
    BY <1>1, <1>5 DEF Past
  <2>2. ~Past(u)
    BY <1>5, <2>1 DEF Past
  <2>3. View(u) = beads[u]
    BY <2>2 DEF View, Past
  <2>4. u # w => View(u)' = buffer[u]
    <3>1. ASSUME u # w
          PROVE  View(u)' = buffer'[u]
      BY <1>1, <1>3, <2>1, <3>1 DEF View, Past
    <3> QED
      BY <3>1
  <2> QED
    BY <1>2, <2>1, <2>2, <2>3, <2>4
<1>6. ASSUME NEW u \in Worker, pc'[u] = "barrier", ~Past(u)'
      PROVE  u # w /\ pc[u] = "barrier" /\ ~Past(u) /\ NextW(u) # w
  <2>1. u # w /\ pc[u] = "barrier"
    BY <1>1, <1>6
  <2>2. ~Past(u) /\ ip[u] # ip[w]
    BY <1>3, <1>6, <2>1
  <2>3. ip[NextW(u)] = ip[u]
    BY <2>1, <2>2, BesideBarrier
  <2> QED
    BY <2>1, <2>2, <2>3
<1> QED
  BY <1>4, <1>5, <1>6

-----------------------------------------------------------------------------
(* What keeps the copies, and the assembled arrays, as they were.          *)
LEMMA CopiesStay ==
  ASSUME Copies, \A u \in Worker : View(u)' = View(u), permutation' = permutation,
         \A u \in Worker : Refreshing(u) => Refreshing(u)' \/ Upper(Views, u)
  PROVE  Copies'
<1>1. \A u \in Worker : Views[u] = View(u) /\ Views'[u] = View(u)
  BY DEF Views
<1>2. \A u \in Worker : NextW(u) \in Worker
  BY Neighbours
<1>3. \A u \in Worker : (Lower(Views, u)' <=> Lower(Views, u)) /\ (Upper(Views, u)' <=> Upper(Views, u))
  BY <1>1, <1>2 DEF Lower, Upper
<1> QED
  BY <1>3 DEF Copies

(* The arrays assembled for a shift stay so when a rank moves on inside an *)
(* operation,                                                              *)
LEMMA InsideBuffers ==
  ASSUME Course, NEW n \in 1 .. MaxShift, Buffers(n),
         NEW w \in Worker, NEW call, Onward(w, call),
         \A u \in Worker : u # w => /\ beads'[u] = beads[u] /\ buffer'[u] = buffer[u]
                                    /\ permutation'[u] = permutation[u],
         At(ip[w]) = "shift" => beads'[w] = beads[w],
         call = "barrier" => Assembled(w, n)'
  PROVE  Buffers(n)'
<1> SUFFICES ASSUME NEW u \in Worker, pc'[u] = "barrier", ~Past(u)'
             PROVE  Assembled(u, n)'
  BY DEF Buffers
<1>1. /\ Control /\ ip' = ip /\ pc'[w] = call
      /\ \A x \in Worker : x # w => pc'[x] = pc[x]
  BY CallIn, Blocks DEF Course, Onward
<1>2. CASE u = w
  BY <1>1, <1>2
<1>3. CASE u # w
  <2>1. pc[u] = "barrier" /\ ~Past(u)
    BY <1>1, <1>3, InsideViews
  <2>2. Assembled(u, n)
    BY <2>1 DEF Buffers
  <2>3. beads'[NextW(u)] = beads[NextW(u)]
    <3>1. NextW(u) \in Worker
      BY Neighbours
    <3>2. At(ip[NextW(u)]) = "shift"
      BY <2>1, BesideBarrier
    <3> QED
      BY <3>1, <3>2
  <2>4. Handed(NextW(u), n)' = Handed(NextW(u), n)
    BY <2>3 DEF Handed
  <2> QED
    BY <1>3, <2>2, <2>4 DEF Assembled, Shifted
<1> QED
  BY <1>2, <1>3

(* when one leaves an operation that is no shift,                          *)
LEMMA LeaveBuffers ==
  ASSUME Course, NEW n \in 1 .. MaxShift, Buffers(n), NEW w \in Worker, Leave(w),
         pc[w] # "barrier", beads' = beads, buffer' = buffer, permutation' = permutation
  PROVE  Buffers(n)'
<1> SUFFICES ASSUME NEW u \in Worker, pc'[u] = "barrier", ~Past(u)'
             PROVE  Assembled(u, n)'
  BY DEF Buffers
<1>1. pc[u] = "barrier" /\ ~Past(u)
  BY LeaveViews
<1>2. Assembled(u, n)
  BY <1>1 DEF Buffers
<1> QED
  BY <1>2 DEF Assembled, Shifted, Handed

(* and when one leaves the barrier.                                        *)
LEMMA BarrierBuffers ==
  ASSUME Course, NEW n \in 1 .. MaxShift, Buffers(n), NEW w \in Worker, Leave(w),
         pc[w] = "barrier", beads'[w] = buffer[w], permutation' = permutation,
         \A u \in Worker : u # w => beads'[u] = beads[u] /\ buffer'[u] = buffer[u]
  PROVE  Buffers(n)'
<1> SUFFICES ASSUME NEW u \in Worker, pc'[u] = "barrier", ~Past(u)'
             PROVE  Assembled(u, n)'
  BY DEF Buffers
<1>1. u # w /\ pc[u] = "barrier" /\ ~Past(u) /\ NextW(u) # w /\ NextW(u) \in Worker
  BY BarrierViews, Neighbours
<1>2. Assembled(u, n)
  BY <1>1 DEF Buffers
<1>3. Handed(NextW(u), n)' = Handed(NextW(u), n)
  BY <1>1 DEF Handed
<1> QED
  BY <1>1, <1>2, <1>3 DEF Assembled, Shifted


-----------------------------------------------------------------------------
(* One array, or one slice of it, replaced.                                *)
Puts(b, a, w, new) == b = [a EXCEPT ![w] = new]
PutsSlice(b, a, w, j, s) == b = [a EXCEPT ![w][j] = s]

(* The whole array of a rank replaced.                                     *)
LEMMA ArrayChanged ==
  ASSUME NEW a, Arrays(a), NEW w \in Worker, NEW new \in [Stored(w) -> SliceType],
         NEW b, Puts(b, a, w, new)
  PROVE  Arrays(b) /\ b[w] = new /\ \A u \in Worker : u # w => b[u] = a[u]
<1>1. a = [u \in Worker |-> a[u]]
  BY DEF Arrays
<1>2. b = [u \in Worker |-> b[u]] /\ b[w] = new /\ \A u \in Worker : u # w => b[u] = a[u]
  BY <1>1, OneChanged DEF Puts
<1>3. ASSUME NEW u \in Worker
      PROVE  b[u] \in [Stored(u) -> SliceType]
  <2>1. CASE u = w
    BY <1>2, <2>1
  <2>2. CASE u # w
    <3>1. a[u] \in [Stored(u) -> SliceType]
      BY DEF Arrays
    <3> QED
      BY <1>2, <2>2, <3>1
  <2> QED
    BY <2>1, <2>2
<1>4. Arrays(b)
  BY <1>2, <1>3 DEF Arrays
<1> QED
  BY <1>2, <1>4

(* One slice of it replaced.                                               *)
LEMMA SliceChanged ==
  ASSUME NEW a, Arrays(a), NEW w \in Worker, NEW j \in Stored(w), NEW s \in SliceType,
         NEW b, PutsSlice(b, a, w, j, s)
  PROVE  /\ Arrays(b) /\ b[w][j] = s
         /\ \A k \in Stored(w) : k # j => b[w][k] = a[w][k]
         /\ \A u \in Worker : u # w => b[u] = a[u]
<1>1. a[w] \in [Stored(w) -> SliceType]
  BY DEF Arrays
<1>2. PICK new \in [Stored(w) -> SliceType] :
        /\ Puts(b, a, w, new) /\ new[j] = s
        /\ \A k \in Stored(w) : k # j => new[k] = a[w][k]
  <2> DEFINE g == [a[w] EXCEPT ![j] = s]
  <2>1. /\ g \in [Stored(w) -> SliceType] /\ g[j] = s
        /\ \A k \in Stored(w) : k # j => g[k] = a[w][k]
    BY <1>1
  <2>2. Puts(b, a, w, g)
    BY DEF Puts, PutsSlice
  <2> HIDE DEF g
  <2> QED
    BY <2>1, <2>2
<1>3. Arrays(b) /\ b[w] = new /\ \A u \in Worker : u # w => b[u] = a[u]
  BY <1>2, ArrayChanged
<1> QED
  BY <1>2, <1>3

(* The first of two parts is heard first.                                  *)
LEMMA FirstOfJoin ==
  ASSUME NEW p, NEW q, One(q)
  PROVE  Join(<<p>>, q) # <<>> /\ Head(Join(<<p>>, q)) = p /\ Tail(Join(<<p>>, q)) = q
<1>1. CASE q = <<>>
  <2>1. Join(<<p>>, q) = <<p>>
    BY <1>1, JoinOne
  <2> QED
    BY <1>1, <2>1, QueueOne, TailOne
<1>2. CASE q # <<>>
  <2>1. PICK a : q = <<a>>
    BY <1>2 DEF One
  <2> QED
    BY <2>1, JoinTwo
<1> QED
  BY <1>1, <1>2

(* What is sent later is heard later.                                      *)
LEMMA JoinedTo ==
  ASSUME NEW q, One(q), NEW x
  PROVE  Append(q, x) = Join(q, <<x>>)
<1>1. CASE q = <<>>
  BY <1>1, JoinOne, QueueOne
<1>2. CASE q # <<>>
  <2>1. PICK a : q = <<a>>
    BY <1>2 DEF One
  <2> QED
    BY <2>1, JoinTwo
<1> QED
  BY <1>1, <1>2

(* Of each there is one at most.                                           *)
LEMMA PartsHeardAreOne ==
  ASSUME NEW w, NEW p, NEW n
  PROVE  One(GlobalPart(w, p)) /\ One(ShiftPart(w, n))
BY DEF One, GlobalPart, ShiftPart

(* Nothing sent, nothing heard.                                            *)
LEMMA BcastsStay ==
  ASSUME NEW n, Bcasts(n), bcast' = bcast,
         \A u \in Others : (GlobalOut(u)' <=> GlobalOut(u)) /\ (ShiftOut(u)' <=> ShiftOut(u))
  PROVE  Bcasts(n)'
BY DEF Bcasts, GlobalPart, ShiftPart

(* Rank 0 sends a number to all; each of the others takes one.             *)
LEMMA ToAll ==
  ASSUME NEW n, Bcasts(n), NEW q, bcast' = Broadcast(q)
  PROVE  /\ bcast' = [w \in Worker |-> bcast'[w]]
         /\ \A u \in Others : bcast'[u] = Append(bcast[u], q)
BY DEF Broadcast, Others

(* One of the others takes what it hears first.                            *)
LEMMA HeardBy ==
  ASSUME NEW n, Bcasts(n), NEW w \in Others, bcast' = Listened(w)
  PROVE  /\ bcast' = [u \in Worker |-> bcast'[u]]
         /\ bcast'[w] = Tail(bcast[w])
         /\ \A u \in Others : u # w => bcast'[u] = bcast[u]
BY DEF Bcasts, Listened, Others

(* Rank 0 sends its shift.                                                 *)
LEMMA BroadcastShift ==
  ASSUME Course, NEW n, Bcasts(n), Onward(0, "recvShift"), bcast' = Broadcast(n)
  PROVE  Bcasts(n)'
<1>1. 0 \in Worker
  BY RingOfRanks
<1>2. ASSUME NEW u \in Others
      PROVE  \E p \in Perms(Part) : bcast'[u] = Join(GlobalPart(u, p)', ShiftPart(u, n)')
  <2>1. /\ ~ShiftOut(u) /\ ShiftOut(u)' /\ (GlobalOut(u)' <=> GlobalOut(u))
    BY <1>1, InsideShift, InsideRoot
  <2>2. PICK p \in Perms(Part) : bcast[u] = Join(GlobalPart(u, p), ShiftPart(u, n))
    BY DEF Bcasts
  <2>3. bcast[u] = GlobalPart(u, p)
    BY <2>1, <2>2, JoinOne DEF ShiftPart
  <2>4. bcast'[u] = Append(GlobalPart(u, p), n)
    BY <2>3, ToAll
  <2>5. bcast'[u] = Join(GlobalPart(u, p), <<n>>)
    BY <2>4, JoinedTo, PartsHeardAreOne
  <2>6. GlobalPart(u, p)' = GlobalPart(u, p) /\ ShiftPart(u, n)' = <<n>>
    BY <2>1 DEF GlobalPart, ShiftPart
  <2> QED
    BY <2>5, <2>6
<1> QED
  BY <1>2, ToAll DEF Bcasts

(* A rank that begins to shift hears rank 0's shift.                       *)
LEMMA ListenShift ==
  ASSUME Course, NEW n, Bcasts(n), NEW w \in Others, pc[w] = "ready", Op(w) = "shift",
         bcast[w] # <<>>
  PROVE  /\ ShiftOut(w) /\ Begun(0, ip[w]) /\ Head(bcast[w]) = n
         /\ Onward(w, "recvShift") /\ bcast' = Listened(w) => Bcasts(n)'
<1>1. w \in Worker /\ 0 \in Worker /\ Control /\ Order /\ ip[w] \in Turn /\ ip[w] \in Nat /\ ip[0] \in Nat
  BY RingOfRanks DEF Others, Course, Control, Turn
<1>2. ~GlobalOut(w)
  BY DEF GlobalOut
<1>3. PICK p \in Perms(Part) : bcast[w] = Join(GlobalPart(w, p), ShiftPart(w, n))
  BY DEF Bcasts
<1>4. bcast[w] = ShiftPart(w, n)
  BY <1>2, <1>3, JoinOne DEF GlobalPart
<1>5. ShiftOut(w)
  BY <1>4 DEF ShiftPart
<1>6. Head(bcast[w]) = n /\ Tail(bcast[w]) = <<>>
  <2>1. bcast[w] = <<n>>
    BY <1>4, <1>5 DEF ShiftPart
  <2> QED
    BY <2>1, QueueOne, TailOne
<1>7. Begun(0, ip[w])
  <2>1. ~(ip[w] > ip[0]) /\ pc[0] # "ready"
    BY <1>5 DEF ShiftOut, Begun
  <2> QED
    BY <1>1, <2>1 DEF Begun
<1>8. ASSUME Onward(w, "recvShift"), bcast' = Listened(w)
      PROVE  Bcasts(n)'
  <2>1. \A u \in Others : /\ ShiftOut(u)' <=> (ShiftOut(u) /\ u # w)
                          /\ GlobalOut(u)' <=> GlobalOut(u)
    <3>1. w # 0
      BY DEF Others
    <3> QED
      BY <1>1, <1>8, <3>1, InsideShift, InsideRoot
  <2>2. /\ bcast' = [u \in Worker |-> bcast'[u]]
        /\ bcast'[w] = Tail(bcast[w])
        /\ \A u \in Others : u # w => bcast'[u] = bcast[u]
    BY <1>8, HeardBy
  <2>3. ASSUME NEW u \in Others
        PROVE  \E q \in Perms(Part) : bcast'[u] = Join(GlobalPart(u, q)', ShiftPart(u, n)')
    <3>1. CASE u = w
      <4>1. GlobalPart(u, p)' = <<>> /\ ShiftPart(u, n)' = <<>>
        BY <1>2, <2>1, <3>1 DEF GlobalPart, ShiftPart
      <4> QED
        BY <1>6, <2>2, <3>1, <4>1, JoinOne
    <3>2. CASE u # w
      <4>1. PICK q \in Perms(Part) : bcast[u] = Join(GlobalPart(u, q), ShiftPart(u, n))
        BY DEF Bcasts
      <4>2. GlobalPart(u, q)' = GlobalPart(u, q) /\ ShiftPart(u, n)' = ShiftPart(u, n)
        BY <2>1, <3>2 DEF GlobalPart, ShiftPart
      <4> QED
        BY <2>2, <3>2, <4>1, <4>2
    <3> QED
      BY <3>1, <3>2
  <2> QED
    BY <2>2, <2>3 DEF Bcasts
<1> QED
  BY <1>5, <1>6, <1>7, <1>8

(* Rank 0 sends the global permutation.                                    *)
LEMMA BroadcastGlobal ==
  ASSUME Course, NEW n, Bcasts(n), Leave(0), pc[0] = "gather",
         NEW q \in Perms(Part), bcast' = Broadcast(q)
  PROVE  Bcasts(n)'
<1>1. 0 \in Worker /\ Op(0) = "global"
  BY RingOfRanks DEF Course, Control
<1>2. ASSUME NEW u \in Others
      PROVE  bcast'[u] = Join(GlobalPart(u, q)', ShiftPart(u, n)')
  <2>1. ~ShiftOut(u) /\ ~ShiftOut(u)' /\ ~GlobalOut(u) /\ GlobalOut(u)'
    BY <1>1, LeaveRoot DEF ShiftOut
  <2>2. PICK p \in Perms(Part) : bcast[u] = Join(GlobalPart(u, p), ShiftPart(u, n))
    BY DEF Bcasts
  <2>3. bcast[u] = <<>>
    BY <2>1, <2>2, JoinOne DEF GlobalPart, ShiftPart
  <2>4. bcast'[u] = <<q>>
    BY <2>3, ToAll, QueueOne
  <2>5. GlobalPart(u, q)' = <<q>> /\ ShiftPart(u, n)' = <<>>
    BY <2>1 DEF GlobalPart, ShiftPart
  <2> QED
    BY <2>4, <2>5, JoinOne
<1> QED
  BY <1>2, ToAll DEF Bcasts

(* A rank that waits for the global permutation hears one.                 *)
LEMMA ListenGlobal ==
  ASSUME Course, NEW n, Bcasts(n), NEW w \in Others, pc[w] = "recvGlobal", bcast[w] # <<>>
  PROVE  /\ GlobalOut(w) /\ Head(bcast[w]) \in Perms(Part)
         /\ Leave(w) /\ bcast' = Listened(w) => Bcasts(n)'
<1>1. w \in Worker /\ 0 \in Worker /\ Control /\ ip[w] \in Nat /\ ip[0] \in Nat
  BY RingOfRanks DEF Others, Course, Control, Turn
<1>2. PICK p \in Perms(Part) : bcast[w] = Join(GlobalPart(w, p), ShiftPart(w, n))
  BY DEF Bcasts
<1>3. GlobalOut(w)
  <2>1. ShiftOut(w) => ip[0] > ip[w]
    <3>1. ASSUME ShiftOut(w)
          PROVE  ip[0] # ip[w] /\ ~(ip[w] > ip[0])
      BY <3>1 DEF ShiftOut, Begun
    <3> QED
      BY <1>1, <3>1
  <2>2. ~GlobalOut(w) /\ ~ShiftOut(w) => bcast[w] = <<>>
    BY <1>2, JoinOne DEF GlobalPart, ShiftPart
  <2> QED
    BY <2>1, <2>2 DEF GlobalOut
<1>4. bcast[w] = Join(<<p>>, ShiftPart(w, n))
  BY <1>2, <1>3 DEF GlobalPart
<1>5. Head(bcast[w]) = p /\ Tail(bcast[w]) = ShiftPart(w, n)
  BY <1>4, FirstOfJoin, PartsHeardAreOne
<1>6. ASSUME Leave(w), bcast' = Listened(w)
      PROVE  Bcasts(n)'
  <2>1. \A u \in Others : /\ GlobalOut(u)' <=> (GlobalOut(u) /\ u # w)
                          /\ ShiftOut(u)' <=> ShiftOut(u)
    BY <1>1, <1>6, LeaveRoot
  <2>2. /\ bcast' = [u \in Worker |-> bcast'[u]]
        /\ bcast'[w] = Tail(bcast[w])
        /\ \A u \in Others : u # w => bcast'[u] = bcast[u]
    BY <1>6, HeardBy
  <2>3. ASSUME NEW u \in Others
        PROVE  \E q \in Perms(Part) : bcast'[u] = Join(GlobalPart(u, q)', ShiftPart(u, n)')
    <3>1. CASE u = w
      <4>1. GlobalPart(u, p)' = <<>> /\ ShiftPart(u, n)' = ShiftPart(u, n)
        BY <2>1, <3>1 DEF GlobalPart, ShiftPart
      <4> QED
        BY <1>5, <2>2, <3>1, <4>1, JoinOne
    <3>2. CASE u # w
      <4>1. PICK q \in Perms(Part) : bcast[u] = Join(GlobalPart(u, q), ShiftPart(u, n))
        BY DEF Bcasts
      <4>2. GlobalPart(u, q)' = GlobalPart(u, q) /\ ShiftPart(u, n)' = ShiftPart(u, n)
        BY <2>1, <3>2 DEF GlobalPart, ShiftPart
      <4> QED
        BY <2>2, <3>2, <4>1, <4>2
    <3> QED
      BY <3>1, <3>2
  <2> QED
    BY <2>2, <2>3 DEF Bcasts
<1> QED
  BY <1>3, <1>5, <1>6


-----------------------------------------------------------------------------
(* The invariant: for the shift drawn last, whatever it was.               *)
Fine(n) == Course /\ Held /\ Copies /\ Delivery(n)
IInv == \E n \in 1 .. MaxShift : Fine(n)

(* A move inside an operation keeps to the course.                         *)
LEMMA InsideCourse ==
  ASSUME Course, NEW w \in Worker, NEW call, Onward(w, call)
  PROVE  Course'
BY InsideControl, InsideOrder DEF Course

(* So does leaving an operation.                                           *)
LEMMA LeaveCourse ==
  ASSUME Course, NEW w \in Worker, Leave(w)
  PROVE  Course'
BY LeaveControl, LeaveOrder DEF Course

(* The message a rank receives at the end of setBuffers is the copy it has *)
(* of the last slice of the rank before it.                                *)
LEMMA HeadLast ==
  ASSUME Course, NEW w \in Worker, pc[w] = "recvLast", LastOut(Prev(w)), NEW n,
         NEW m, <<m>> = Msg("last", beads[w][0])
  PROVE  Head(Queue(Prev(w), w, n)) = m
<1> DEFINE x == Prev(w)
<1>1. x \in Worker /\ NextW(x) = w
  BY Neighbours
<1>2. LastPart(x, w) = <<m>> /\ ~Early(x, w)
  BY <1>1 DEF LastPart, Early
<1> HIDE DEF x
<1>3. Head(Mixed(Early(x, w), Rest(x, w, n), <<m>>)) = m
  BY <1>2, PartsAreOne, TakeLast
<1> QED
  BY <1>2, <1>3 DEF Queue, x

(* The message rank 0 receives while it gathers is the permutation of the  *)
(* rank it receives from.                                                  *)
LEMMA HeadPermutation ==
  ASSUME NEW n, PermOut(nextSrc), nextSrc \in Others, LastPart(nextSrc, 0) = <<>>,
         ~FirstTo(nextSrc, 0), NEW m, <<m>> = Msg("permutation", permutation[nextSrc])
  PROVE  Head(Queue(nextSrc, 0, n)) = m
<1> DEFINE x == nextSrc
<1>1. x # 0
  BY DEF Others
<1>2. Rest(x, 0, n) = <<m>> /\ LastPart(x, 0) = <<>>
  BY <1>1 DEF Rest, PermTo
<1> HIDE DEF x
<1>3. Head(Mixed(Early(x, 0), <<m>>, <<>>)) = m
  BY TakeRest DEF One
<1> QED
  BY <1>2, <1>3 DEF Queue, x

(* The message a rank receives from the next one holds the first slices of *)
(* it.                                                                     *)
LEMMA HeadFirst ==
  ASSUME Course, NEW w \in Worker, pc[w] \in {"recvFirst", "recvShift"}, FirstOut(NextW(w)),
         NEW n, NEW m, FirstMsg(NextW(w), n) = <<m>>
  PROVE  Head(Queue(NextW(w), w, n)) = m
<1> DEFINE x == NextW(w)
<1>1. x \in Worker /\ Prev(x) = w
  BY Neighbours
<1>2. FirstTo(x, w) /\ Rest(x, w, n) = <<m>>
  BY <1>1 DEF FirstTo, Rest
<1>3. Early(x, w) \/ LastPart(x, w) = <<>>
  <2>1. CASE pc[w] = "recvFirst"
    BY <1>2, <2>1 DEF Early
  <2>2. CASE pc[w] = "recvShift"
    <3>1. At(ip[w]) = "shift"
      BY <2>2, OpIs DEF Course, Control
    <3>2. ~(w = NextW(x) /\ LastOut(x))
      BY <1>1, <3>1, LastOutHere
    <3> QED
      BY <3>2 DEF LastPart
  <2> QED
    BY <2>1, <2>2
<1> HIDE DEF x
<1>4. One(LastPart(x, w))
  BY PartsAreOne
<1>5. Head(Mixed(Early(x, w), <<m>>, LastPart(x, w))) = m
  BY <1>3, <1>4, TakeRest
<1> QED
  BY <1>2, <1>5 DEF Queue, x

(* When rank 0 draws a new shift, nothing of an older one is under way.    *)
LEMMA Redraw ==
  ASSUME Course, pc[0] = "ready", Op(0) = "shift", NEW n, Delivery(n), NEW s
  PROVE  Delivery(s)
<1>1. /\ Control /\ 0 \in Worker
      /\ \A x \in Worker : ip[x] \in Turn /\ Prev(x) \in Worker
      /\ \A x \in Worker, k \in Turn : Op(x) = "shift" /\ k = ip[x] => InShift(k)
  BY RingOfRanks, Neighbours, OpIs DEF Course, Control, Order
<1>2. ASSUME NEW x \in Worker, Op(x) = "shift", pc[x] # "ready"
      PROVE  ip[0] > ip[x] /\ \A u \in Worker : Reached(u, ip[x], {"barrier"})
  <2>1. PICK k \in Turn : k = ip[x]
    BY <1>1
  <2>2. Begun(x, k) /\ InShift(k)
    BY <1>1, <1>2, <2>1 DEF Begun
  <2>3. Begun(0, k)
    BY <2>2 DEF InShift
  <2>4. ip[0] > k
    BY <2>3 DEF Begun
  <2>5. \A u \in Worker : Reached(u, k, {"barrier"})
    BY <1>1, <2>2, <2>4 DEF InShift
  <2> QED
    BY <2>1, <2>4, <2>5
<1>3. ASSUME NEW x \in Worker, FirstOut(x)
      PROVE  Op(x) = "section"
  <2> SUFFICES ASSUME Op(x) # "section" PROVE FALSE
    OBVIOUS
  <2>1. Op(x) = "shift" /\ pc[x] # "ready" /\ ~Consumed(Prev(x), ip[x])
    BY <1>3 DEF FirstOut
  <2>2. Reached(Prev(x), ip[x], {"barrier"})
    BY <1>1, <1>2, <2>1
  <2> QED
    BY <2>1, <2>2 DEF Consumed, Reached
<1>4. ASSUME NEW x \in Worker, NEW y \in Worker
      PROVE  Queue(x, y, s) = Queue(x, y, n)
  <2>1. FirstTo(x, y) => FirstMsg(x, s) = FirstMsg(x, n)
    BY <1>3 DEF FirstTo, FirstMsg
  <2>2. Rest(x, y, s) = Rest(x, y, n)
    BY <2>1 DEF Rest
  <2> QED
    BY <2>2 DEF Queue
<1>5. Queues(s)
  BY <1>4 DEF Delivery, Queues
<1>6. Bcasts(s)
  <2>1. \A w \in Others : ShiftPart(w, s) = ShiftPart(w, n)
    BY DEF ShiftPart, ShiftOut
  <2> QED
    BY <2>1 DEF Delivery, Bcasts
<1>7. Buffers(s)
  <2>1. ASSUME NEW w \in Worker, pc[w] = "barrier"
        PROVE  Past(w)
    <3>1. Op(w) = "shift"
      BY <1>1, <2>1 DEF Control
    <3>2. ip[0] > ip[w]
      BY <1>2, <2>1, <3>1
    <3> QED
      BY <1>1, <3>2 DEF Past
  <2> QED
    BY <2>1 DEF Buffers
<1> QED
  BY <1>5, <1>6, <1>7 DEF Delivery

(* The copies between a rank and the next one are as they were when their  *)
(* arrays are.                                                             *)
LEMMA LowerStays ==
  ASSUME NEW u \in Worker, permutation'[u] = permutation[u],
         View(u)'[nprocSlice(u)] = View(u)[nprocSlice(u)],
         View(NextW(u))'[0] = View(NextW(u))[0], Lower(Views, u)
  PROVE  Lower(Views, u)'
<1>1. NextW(u) \in Worker
  BY Neighbours
<1>2. /\ Views[u] = View(u) /\ Views'[u] = View(u)'
      /\ Views[NextW(u)] = View(NextW(u)) /\ Views'[NextW(u)] = View(NextW(u))'
  BY <1>1 DEF Views
<1> QED
  BY <1>2 DEF Lower

(* The same for the copy of the first slice of the next rank.              *)
LEMMA UpperStays ==
  ASSUME NEW u \in Worker, permutation'[u] = permutation[u],
         View(u)'[nprocSlice(u) + 1] = View(u)[nprocSlice(u) + 1],
         View(NextW(u))'[1] = View(NextW(u))[1], Upper(Views, u)
  PROVE  Upper(Views, u)'
<1>1. NextW(u) \in Worker
  BY Neighbours
<1>2. /\ Views[u] = View(u) /\ Views'[u] = View(u)'
      /\ Views[NextW(u)] = View(NextW(u)) /\ Views'[NextW(u)] = View(NextW(u))'
  BY <1>1 DEF Views
<1> QED
  BY <1>2 DEF Upper

(* A first slice that has yet to be received stays so until it is.         *)
LEMMA RefreshingStays ==
  ASSUME Course, NEW w \in Worker, NEW call, Onward(w, call),
         NEW u \in Worker, Refreshing(u), u # w \/ call \notin {"sendLast", "barrier"}
  PROVE  Refreshing(u)'
<1>1. NextW(u) \in Worker /\ Prev(NextW(u)) = u /\ (NextW(u) = NextW(w) => u = w)
  BY Neighbours
<1>2. FirstOut(NextW(u))'
  BY <1>1, InsideFirst DEF Refreshing
<1>3. Op(NextW(u))' = Op(NextW(u))
  BY Blocks, CallIn DEF Onward, Course, Op
<1> QED
  BY <1>2, <1>3 DEF Refreshing


-----------------------------------------------------------------------------
(* A rank that moves on inside an operation and changes neither its slices *)
(* nor its permutation.                                                    *)
LEMMA InsideQuiet ==
  ASSUME NEW n \in 1 .. MaxShift, Fine(n), NEW w \in Worker, NEW call, Onward(w, call),
         call \notin {"sendLast", "barrier"}, beads' = beads, permutation' = permutation,
         \A u \in Worker : u # w => buffer'[u] = buffer[u]
  PROVE  /\ KeepsSent /\ Course' /\ Copies' /\ Buffers(n)'
         /\ pc'[w] = call /\ ip' = ip /\ program' = program
<1>1. Course /\ Control /\ Copies /\ Buffers(n)
  BY DEF Fine, Course, Delivery
<1>2. /\ pc'[w] = call /\ ip' = ip /\ program' = program
  BY <1>1, CallIn, Blocks DEF Onward
<1>3. KeepsSent
  BY DEF KeepsSent
<1>4. Buffers(n)'
  BY <1>1, InsideBuffers
<1>5. Copies'
  <2>1. \A u \in Worker : View(u)' = View(u)
    BY <1>1, InsideViews
  <2>2. \A u \in Worker : Refreshing(u) => Refreshing(u)'
    BY <1>1, RefreshingStays
  <2> QED
    BY <1>1, <2>1, <2>2, CopiesStay
<1>6. Course'
  BY <1>1, InsideCourse
<1> QED
  BY <1>2, <1>3, <1>4, <1>5, <1>6

(* A rank samples a section.                                              *)
LEMMA SectionRunStep ==
  ASSUME NEW n \in 1 .. MaxShift, Fine(n), NEW w \in Worker,
         NEW m \in SectionSizes, NEW sp \in Exchanges, NEW f \in FirstSlices(w, m),
         SectionRun(w, f, m, sp)
  PROVE  Fine(n)'
<1> DEFINE section == Sampled(GetBeads(w, f, m), m, sp)
<1>1. PICK put : /\ put = PutBeads(beads[w], w, f, section, m, sp)
                 /\ Puts(beads', beads, w, put)
                 /\ Post(w, Prev(w), 1, "first", put[1])
  BY DEF SectionRun, Puts
<1>2. /\ Course /\ Held /\ Copies /\ Queues(n) /\ Bcasts(n) /\ Buffers(n)
      /\ pc[w] = "ready" /\ Op(w) = "section" /\ Block(w, "recvFirst")
      /\ permutation' = [permutation EXCEPT ![w] = Prepend(@, sp)]
      /\ buffer' = buffer /\ globalPermutation' = globalPermutation
      /\ nextSrc' = nextSrc /\ bcast' = bcast
  BY DEF SectionRun, Begins, Fine, Delivery
<1>3. sp \in Perms(Part)
  BY ExchangesAssumption
<1>4. /\ put \in [Stored(w) -> SliceType] /\ put[0] = beads[w][0]
      /\ put[nprocSlice(w)] = Relabel(beads[w][nprocSlice(w)], sp)
      /\ put[nprocSlice(w) + 1] = Relabel(beads[w][nprocSlice(w) + 1], sp)
  BY <1>1, <1>2, <1>3, PutSlices
<1> HIDE DEF section
<1>5. Arrays(beads') /\ beads'[w] = put /\ \A u \in Worker : u # w => beads'[u] = beads[u]
  BY <1>1, <1>2, <1>4, ArrayChanged DEF Held
<1>6. /\ permutation' \in [Worker -> Perms(Part)]
      /\ \A i \in Part : permutation'[w][i] = permutation[w][sp[i]]
      /\ \A u \in Worker : u # w => permutation'[u] = permutation[u]
  <2>1. permutation \in [Worker -> Perms(Part)]
    BY <1>2 DEF Held
  <2>2. Prepend(permutation[w], sp) \in Perms(Part)
        /\ \A i \in Part : Prepend(permutation[w], sp)[i] = permutation[w][sp[i]]
    BY <1>3, <2>1, PrependPerm
  <2> QED
    BY <1>2, <2>1, <2>2
<1>7. Onward(w, "recvFirst") /\ Control
  BY <1>2 DEF Onward, Inside, Course
<1>8. /\ pc'[w] = "recvFirst" /\ ip' = ip /\ program' = program
      /\ \A u \in Worker : u # w => pc'[u] = pc[u]
  BY <1>2, <1>7, Blocks DEF Places
<1>9. KeepsSent
  <2>1. ASSUME NEW x \in Worker, LastOut(x)
        PROVE  beads'[NextW(x)][0] = beads[NextW(x)][0]
    BY <1>4, <1>5, Neighbours
  <2>2. \A x \in Worker : FirstOut(x) => x # w
    BY <1>2 DEF FirstOut
  <2>3. \A x \in Worker : PermOut(x) => x # w
    BY <1>2 DEF PermOut
  <2> QED
    BY <1>5, <1>6, <2>1, <2>2, <2>3 DEF KeepsSent
<1>10. Queues(n)'
  <2>1. Prev(w) \in Worker
    BY Neighbours
  <2>2. FirstMsg(w, n)' = <<[kind |-> "first", data |-> put[1]]>>
    BY <1>2, <1>5, <1>8 DEF FirstMsg, Op, Msg
  <2>3. Queue(w, Prev(w), n)'
          = Append(Queue(w, Prev(w), n), [kind |-> "first", data |-> put[1]])
    BY <1>2, <1>7, <1>9, <2>2, SendsFirst
  <2>4. \A x, y \in Worker : x # w \/ y # Prev(w) => Queue(x, y, n)' = Queue(x, y, n)
    BY <1>2, <1>7, <1>9, InsideSame DEF Touched
  <2> QED
    BY <1>1, <1>2, <2>1, <2>3, <2>4, Deposited
<1>11. Bcasts(n)'
  <2>1. \A u \in Others : (GlobalOut(u)' <=> GlobalOut(u)) /\ (ShiftOut(u)' <=> ShiftOut(u))
    BY <1>2, <1>7, InsideRoot, InsideShift
  <2> QED
    BY <1>2, <2>1, BcastsStay
<1>12. Buffers(n)'
  <2>1. At(ip[w]) # "shift"
    BY <1>2, OpIs
  <2> QED
    BY <1>2, <1>5, <1>6, <1>7, <2>1, InsideBuffers
<1>13. Copies'
  <2>1. /\ View(w) = beads[w] /\ View(w)' = put
        /\ \A u \in Worker : u # w => View(u)' = View(u)
    BY <1>2, <1>5, <1>7, InsideViews
  <2>2. /\ NextW(w) \in Worker /\ NextW(w) # w
        /\ Views[w] = beads[w] /\ Views'[w] = put
        /\ Views'[NextW(w)] = Views[NextW(w)]
    BY <2>1, Neighbours DEF Views
  <2>3. \A i \in Part : sp[i] \in Part
    BY <1>3 DEF Perms
  <2>4. /\ \A i \in Part : put[nprocSlice(w)][i] = beads[w][nprocSlice(w)][sp[i]]
        /\ \A i \in Part : put[nprocSlice(w) + 1][i] = beads[w][nprocSlice(w) + 1][sp[i]]
    <3>1. /\ beads[w][nprocSlice(w)] \in SliceType
          /\ beads[w][nprocSlice(w) + 1] \in SliceType
      BY <1>2, StoredSlices DEF Held, Arrays
    <3> QED
      BY <1>3, <1>4, <3>1, RelabelSlice
  <2>5. Lower(Views, w) => Lower(Views, w)'
    BY <1>6, <2>2, <2>3, <2>4 DEF Lower
  <2>6. Upper(Views, w) => Upper(Views, w)'
    BY <1>6, <2>2, <2>3, <2>4 DEF Upper
  <2>7. ASSUME NEW u \in Worker, u # w
        PROVE  /\ Lower(Views, u) => Lower(Views, u)'
               /\ NextW(u) # w /\ Upper(Views, u) => Upper(Views, u)'
    <3>1. /\ NextW(u) \in Worker /\ permutation'[u] = permutation[u] /\ View(u)' = View(u)
          /\ View(NextW(u))'[0] = View(NextW(u))[0]
          /\ NextW(u) # w => View(NextW(u))' = View(NextW(u))
      BY <1>4, <1>6, <2>1, <2>7, Neighbours
    <3> QED
      BY <3>1, LowerStays, UpperStays
  <2>8. \A u \in Worker : NextW(u) = w => Refreshing(u)'
    BY <1>2, <1>7, <1>8, InsideFirst DEF Refreshing, Op
  <2>9. \A u \in Worker : Refreshing(u) => Refreshing(u)'
    BY <1>2, <1>7, RefreshingStays
  <2> QED
    BY <1>2, <2>5, <2>6, <2>7, <2>8, <2>9 DEF Copies
<1>14. Held'
  BY <1>2, <1>5, <1>6, <1>8 DEF Held
<1>15. Course'
  BY <1>2, <1>7, InsideCourse
<1> QED
  BY <1>10, <1>11, <1>12, <1>13, <1>14, <1>15 DEF Fine, Delivery

(* All its trials were rejected.                                           *)
LEMMA SectionRejectedStep ==
  ASSUME NEW n \in 1 .. MaxShift, Fine(n), NEW w \in Worker, SectionRejected(w)
  PROVE  Fine(n)'
<1>1. /\ Course /\ Held /\ Queues(n) /\ Bcasts(n)
      /\ pc[w] = "ready" /\ Op(w) = "section" /\ Block(w, "recvFirst")
      /\ Post(w, Prev(w), 1, "first", beads[w][1])
      /\ beads' = beads /\ permutation' = permutation
      /\ buffer' = buffer /\ globalPermutation' = globalPermutation
      /\ nextSrc' = nextSrc /\ bcast' = bcast
  BY DEF SectionRejected, Begins, Fine, Delivery, pathVars
<1>2. Onward(w, "recvFirst")
  BY <1>1 DEF Onward, Inside
<1>3. /\ KeepsSent /\ Course' /\ Copies' /\ Buffers(n)'
      /\ ip' = ip /\ program' = program
  BY <1>1, <1>2, InsideQuiet
<1>4. Queues(n)'
  <2>1. Prev(w) \in Worker
    BY Neighbours
  <2>2. FirstMsg(w, n)' = <<[kind |-> "first", data |-> beads[w][1]]>>
    BY <1>1, <1>3 DEF FirstMsg, Op, Msg
  <2>3. Queue(w, Prev(w), n)'
          = Append(Queue(w, Prev(w), n), [kind |-> "first", data |-> beads[w][1]])
    BY <1>1, <1>2, <1>3, <2>2, SendsFirst
  <2>4. \A x, y \in Worker : x # w \/ y # Prev(w) => Queue(x, y, n)' = Queue(x, y, n)
    BY <1>1, <1>2, <1>3, InsideSame DEF Touched
  <2> QED
    BY <1>1, <2>1, <2>3, <2>4, Deposited
<1>5. Bcasts(n)'
  <2>1. \A u \in Others : (GlobalOut(u)' <=> GlobalOut(u)) /\ (ShiftOut(u)' <=> ShiftOut(u))
    BY <1>1, <1>2, InsideRoot, InsideShift
  <2> QED
    BY <1>1, <2>1, BcastsStay
<1>6. Held'
  BY <1>1, <1>3 DEF Held
<1> QED
  BY <1>3, <1>4, <1>5, <1>6 DEF Fine, Delivery


-----------------------------------------------------------------------------
(* What a rank receives in the first exchange is the first slice of the    *)
(* next one.                                                               *)
LEMMA FirstReceived ==
  ASSUME NEW n \in 1 .. MaxShift, Fine(n), NEW w \in Worker, RecvFirst(w)
  PROVE  /\ FirstOut(NextW(w)) /\ ip[NextW(w)] = ip[w]
         /\ Op(w) = "section" /\ Op(NextW(w)) = "section" /\ Onward(w, "sendLast")
         /\ PutsSlice(beads', beads, w, nprocSlice(w) + 1,
                      Relabel(beads[NextW(w)][1], permutation[w]))
<1>1. /\ Course /\ Queues(n) /\ Control
      /\ pc[w] = "recvFirst" /\ Block(w, "sendLast") /\ chan[NextW(w)][w][1] # <<>>
      /\ nextSrc' = nextSrc
  BY DEF RecvFirst, Arrived, Fine, Delivery, Course
<1> DEFINE u == NextW(w)
           first == beads[u][1]
<1>2. u \in Worker /\ u # w /\ Prev(u) = w
  BY Neighbours
<1>3. FirstOut(u) /\ ip[u] = ip[w]
  <2>1. Queue(u, w, n) # <<>>
    BY <1>1, <1>2 DEF Queues
  <2> QED
    BY <1>1, <2>1, ArrivedFirst, SenderIsThere
<1>4. Op(w) = "section" /\ Op(u) = "section"
  BY <1>1, <1>2, <1>3 DEF Control, Op
<1>5. FirstMsg(u, n) = <<[kind |-> "first", data |-> first]>>
  BY <1>4 DEF FirstMsg, Msg
<1>6. Head(chan[u][w][1]) = [kind |-> "first", data |-> first]
  <2>1. Head(Queue(u, w, n)) = [kind |-> "first", data |-> first]
    BY <1>1, <1>3, <1>5, HeadFirst
  <2> QED
    BY <1>1, <1>2, <2>1 DEF Queues
<1>7. PutsSlice(beads', beads, w, nprocSlice(w) + 1, Relabel(first, permutation[w]))
  <2>1. Received(u, w, 1) = first
    BY <1>6 DEF Received
  <2> QED
    BY <2>1 DEF RecvFirst, UnderOwnLabels, PutsSlice
<1>8. Onward(w, "sendLast")
  BY <1>1, <1>3 DEF Onward, Inside
<1> QED
  BY <1>3, <1>4, <1>7, <1>8

(* setBuffers: a rank receives the first slice of the next one, sends on   *)
(* its last slice, and receives the last slice of the rank before it,      *)
(* which it had.                                                           *)
LEMMA RecvFirstStep ==
  ASSUME NEW n \in 1 .. MaxShift, Fine(n), NEW w \in Worker, RecvFirst(w)
  PROVE  Fine(n)'
<1>1. /\ Course /\ Held /\ Copies /\ Queues(n) /\ Bcasts(n) /\ Buffers(n) /\ Control
      /\ pc[w] = "recvFirst" /\ Block(w, "sendLast") /\ chan[NextW(w)][w][1] # <<>>
      /\ chan' = Take(NextW(w), w, 1)
      /\ permutation' = permutation
      /\ buffer' = buffer /\ globalPermutation' = globalPermutation
      /\ nextSrc' = nextSrc /\ bcast' = bcast
  BY DEF RecvFirst, Arrived, Fine, Delivery, Course
<1> DEFINE u == NextW(w)
           first == beads[u][1]
           new == Relabel(first, permutation[w])
<1>2. u \in Worker /\ u # w /\ Prev(u) = w
  BY Neighbours
<1>3. /\ FirstOut(u) /\ ip[u] = ip[w] /\ Op(w) = "section" /\ Op(u) = "section"
      /\ Onward(w, "sendLast")
      /\ PutsSlice(beads', beads, w, nprocSlice(w) + 1, new)
  BY FirstReceived
<1>5. FirstMsg(u, n) = <<[kind |-> "first", data |-> first]>>
  BY <1>3 DEF FirstMsg, Msg
<1>8. new \in SliceType /\ \A i \in Part : new[i] = first[permutation[w][i]]
  <2>1. first \in SliceType /\ permutation[w] \in Perms(Part)
    BY <1>1, <1>2, StoredSlices DEF Held, Arrays
  <2> QED
    BY <2>1, RelabelSlice
<1> HIDE DEF u, first, new
<1>9. /\ Arrays(beads') /\ beads'[w][nprocSlice(w) + 1] = new
      /\ \A k \in Stored(w) : k # nprocSlice(w) + 1 => beads'[w][k] = beads[w][k]
      /\ \A x \in Worker : x # w => beads'[x] = beads[x]
  BY <1>1, <1>3, <1>8, StoredSlices, SliceChanged DEF Held
<1>10. /\ beads'[w][0] = beads[w][0] /\ beads'[w][1] = beads[w][1]
       /\ beads'[w][nprocSlice(w)] = beads[w][nprocSlice(w)]
  <2>1. /\ 0 # nprocSlice(w) + 1 /\ 1 # nprocSlice(w) + 1
        /\ nprocSlice(w) # nprocSlice(w) + 1
    BY StoredSlices
  <2> QED
    BY <1>9, <2>1, StoredSlices
<1>12. /\ pc'[w] = "sendLast" /\ ip' = ip /\ program' = program
       /\ \A x \in Worker : x # w => pc'[x] = pc[x]
  BY <1>1, Blocks DEF Places
<1>13. KeepsSent
  <2>1. \A x \in Worker : beads'[x][0] = beads[x][0] /\ beads'[x][1] = beads[x][1]
    BY <1>9, <1>10
  <2>2. \A x \in Worker : Op(x) # "section" => beads'[x] = beads[x]
    BY <1>3, <1>9
  <2>3. \A x \in Worker : NextW(x) \in Worker
    BY Neighbours
  <2> QED
    BY <1>1, <2>1, <2>2, <2>3 DEF KeepsSent
<1>14. Queues(n)'
  <2>1. Queue(u, w, n)' = Tail(Queue(u, w, n))
    BY <1>1, <1>5, <1>3, <1>13, TakesFirst DEF u
  <2>2. \A x, y \in Worker : x # u \/ y # w => Queue(x, y, n)' = Queue(x, y, n)
    BY <1>1, <1>3, <1>13, InsideSame DEF Touched, u
  <2> QED
    BY <1>1, <1>2, <2>1, <2>2, Withdrawn DEF u
<1>15. Bcasts(n)'
  <2>1. \A x \in Others : (GlobalOut(x)' <=> GlobalOut(x)) /\ (ShiftOut(x)' <=> ShiftOut(x))
    BY <1>1, <1>3, InsideRoot, InsideShift
  <2> QED
    BY <1>1, <2>1, BcastsStay
<1>16. Buffers(n)'
  <2>1. At(ip[w]) # "shift"
    BY <1>3, OpIs
  <2> QED
    BY <1>1, <1>9, <1>3, <2>1, InsideBuffers
<1>17. Copies'
  <2>1. /\ View(w) = beads[w] /\ View(w)' = beads'[w]
        /\ \A x \in Worker : x # w => View(x)' = View(x)
    BY <1>1, <1>9, <1>3, InsideViews
  <2>2. View(u) = beads[u]
    BY <1>1, <1>2, <1>3 DEF Control, View
  <2>3. Upper(Views, w)'
    <3>1. Views'[w] = beads'[w] /\ Views'[u] = beads[u]
      BY <1>2, <2>1, <2>2 DEF Views
    <3> QED
      BY <1>1, <1>8, <1>9, <3>1 DEF Upper, u, first
  <2>4. ASSUME NEW x \in Worker
        PROVE  /\ Lower(Views, x)'
               /\ x # w /\ Upper(Views, x) => Upper(Views, x)'
    <3>1. /\ Lower(Views, x) /\ NextW(x) \in Worker /\ permutation'[x] = permutation[x]
          /\ View(x)'[nprocSlice(x)] = View(x)[nprocSlice(x)]
          /\ View(NextW(x))'[0] = View(NextW(x))[0]
          /\ View(NextW(x))'[1] = View(NextW(x))[1]
          /\ x # w => View(x)' = View(x)
      BY <1>1, <1>10, <2>1, Neighbours DEF Copies
    <3> QED
      BY <3>1, LowerStays, UpperStays
  <2>5. \A x \in Worker : x # w /\ Refreshing(x) => Refreshing(x)'
    BY <1>1, <1>3, RefreshingStays
  <2> QED
    BY <1>1, <2>3, <2>4, <2>5 DEF Copies
<1>18. Held'
  BY <1>1, <1>9, <1>12 DEF Held
<1>19. Course'
  BY <1>1, <1>3, InsideCourse
<1> QED
  BY <1>14, <1>15, <1>16, <1>17, <1>18, <1>19 DEF Fine, Delivery

(* What it then sends is what the next rank has already.                   *)
LEMMA LastSent ==
  ASSUME NEW n \in 1 .. MaxShift, Fine(n), NEW w \in Worker, SendLast(w)
  PROVE  /\ Onward(w, "recvLast")
         /\ Scatter(beads[w][nprocSlice(w)], permutation[w]) \in SliceType
         /\ Scatter(beads[w][nprocSlice(w)], permutation[w]) = beads[NextW(w)][0]
<1> DEFINE y == NextW(w)
<1>1. /\ Course /\ Held /\ Copies
      /\ pc[w] = "sendLast" /\ Block(w, "recvLast") /\ nextSrc' = nextSrc
  BY DEF SendLast, Fine
<1>2. y \in Worker
  BY Neighbours
<1>3. Onward(w, "recvLast")
  BY <1>1 DEF Onward, Inside
<1>4. View(y) = beads[y] /\ View(w) = beads[w]
  BY <1>1, <1>3, InsideLast, InsideViews DEF View
<1>5. /\ beads[w][nprocSlice(w)] \in SliceType /\ permutation[w] \in Perms(Part)
      /\ beads[y][0] \in SliceType
  BY <1>1, <1>2, StoredSlices DEF Held, Arrays
<1>6. \A i \in Part : beads[y][0][permutation[w][i]] = beads[w][nprocSlice(w)][i]
  BY <1>1, <1>2, <1>4 DEF Copies, Lower, Views
<1> QED
  BY <1>3, <1>5, <1>6, ScatterSlice

(* It sends its last slice, of which the next rank has a copy.             *)
LEMMA SendLastStep ==
  ASSUME NEW n \in 1 .. MaxShift, Fine(n), NEW w \in Worker, SendLast(w)
  PROVE  Fine(n)'
<1> DEFINE last == Scatter(beads[w][nprocSlice(w)], permutation[w])
           y == NextW(w)
<1>1. /\ Course /\ Held /\ Copies /\ Queues(n) /\ Bcasts(n) /\ Control
      /\ pc[w] = "sendLast" /\ Block(w, "recvLast")
      /\ PutsSlice(buffer', buffer, w, 0, last)
      /\ Post(w, y, 1, "last", last)
      /\ beads' = beads /\ permutation' = permutation
      /\ globalPermutation' = globalPermutation
      /\ nextSrc' = nextSrc /\ bcast' = bcast
  BY DEF SendLast, Fine, Delivery, Course, PutsSlice
<1>2. y \in Worker
  BY Neighbours
<1>3. Onward(w, "recvLast") /\ last \in SliceType /\ last = beads[y][0]
  BY LastSent
<1> HIDE DEF last, y
<1>5. Arrays(buffer') /\ \A u \in Worker : u # w => buffer'[u] = buffer[u]
  BY <1>1, <1>3, StoredSlices, SliceChanged DEF Held
<1>6. /\ KeepsSent /\ Course' /\ Copies' /\ Buffers(n)'
      /\ ip' = ip /\ program' = program
  BY <1>1, <1>3, <1>5, InsideQuiet
<1>7. Queues(n)'
  <2>1. Queue(w, y, n)' = Append(Queue(w, y, n), [kind |-> "last", data |-> last])
    <3>1. <<[kind |-> "last", data |-> last]>> = Msg("last", beads'[NextW(w)][0])
      BY <1>1, <1>3 DEF Msg, y
    <3> QED
      BY <1>1, <1>3, <1>6, <3>1, SendsLast DEF y
  <2>2. \A x, z \in Worker : x # w \/ z # y => Queue(x, z, n)' = Queue(x, z, n)
    BY <1>1, <1>3, <1>6, InsideSame DEF Touched, y
  <2> QED
    BY <1>1, <1>2, <2>1, <2>2, Deposited
<1>8. Bcasts(n)'
  <2>1. \A x \in Others : (GlobalOut(x)' <=> GlobalOut(x)) /\ (ShiftOut(x)' <=> ShiftOut(x))
    BY <1>1, <1>3, InsideRoot, InsideShift
  <2> QED
    BY <1>1, <2>1, BcastsStay
<1>9. Held'
  BY <1>1, <1>5, <1>6 DEF Held
<1> QED
  BY <1>6, <1>7, <1>8, <1>9 DEF Fine, Delivery

(* A rank that leaves its operation, its slices and permutation as they    *)
(* were.                                                                   *)
LEMMA LeaveQuiet ==
  ASSUME NEW n \in 1 .. MaxShift, Fine(n), NEW w \in Worker, Leave(w), pc[w] # "barrier",
         beads' = beads, buffer' = buffer, permutation' = permutation
  PROVE  KeepsSent /\ Course' /\ Copies' /\ Buffers(n)' /\ program' = program
<1>1. Course /\ Control /\ Copies /\ Buffers(n) /\ Advance(w)
  BY DEF Fine, Course, Delivery, Leave
<1>2. KeepsSent
  BY DEF KeepsSent
<1>3. Buffers(n)'
  BY <1>1, LeaveBuffers
<1>4. Copies'
  <2>1. \A u \in Worker : View(u)' = View(u)
    BY <1>1, LeaveViews
  <2>2. ASSUME NEW u \in Worker, Refreshing(u)
        PROVE  Refreshing(u)'
    <3>1. NextW(u) \in Worker /\ FirstOut(NextW(u))' /\ NextW(u) # w
      BY <1>1, <2>2, Neighbours, LeaveFirst DEF Refreshing
    <3>2. Op(NextW(u))' = Op(NextW(u))
      BY <1>1, <3>1, Advances DEF Op
    <3> QED
      BY <2>2, <3>1, <3>2 DEF Refreshing
  <2> QED
    BY <1>1, <2>1, <2>2, CopiesStay
<1>5. Course'
  BY <1>1, LeaveCourse
<1> QED
  BY <1>1, <1>2, <1>3, <1>4, <1>5 DEF Advance

(* So what a rank receives in the second exchange changes nothing.         *)
LEMMA LastReceived ==
  ASSUME NEW n \in 1 .. MaxShift, Fine(n), NEW w \in Worker, RecvLast(w)
  PROVE  beads' = beads /\ Leave(w)
<1> DEFINE v == Prev(w)
           m == [kind |-> "last", data |-> beads[w][0]]
<1>1. /\ Course /\ Held /\ Queues(n)
      /\ pc[w] = "recvLast" /\ Advance(w) /\ chan[v][w][1] # <<>>
      /\ PutsSlice(beads', beads, w, 0, Received(v, w, 1))
      /\ nextSrc' = nextSrc
  BY DEF RecvLast, Arrived, Fine, Delivery, PutsSlice
<1>2. v \in Worker /\ <<m>> = Msg("last", beads[w][0])
  BY Neighbours DEF Msg
<1>3. LastOut(v)
  <2>1. Queue(v, w, n) # <<>>
    BY <1>1, <1>2 DEF Queues
  <2> QED
    BY <1>1, <2>1, ArrivedLast
<1>4. beads' = beads
  <2>1. Head(chan[v][w][1]) = m
    <3>1. Head(Queue(v, w, n)) = m
      BY <1>1, <1>2, <1>3, HeadLast
    <3> QED
      BY <1>1, <1>2, <3>1 DEF Queues
  <2>2. Received(v, w, 1) = beads[w][0]
    BY <2>1 DEF Received
  <2>3. beads[w][0] \in SliceType /\ 0 \in Stored(w)
    BY <1>1, StoredSlices DEF Held, Arrays
  <2>4. /\ Arrays(beads') /\ beads'[w][0] = beads[w][0]
        /\ \A k \in Stored(w) : k # 0 => beads'[w][k] = beads[w][k]
        /\ \A u \in Worker : u # w => beads'[u] = beads[u]
    BY <1>1, <2>2, <2>3, SliceChanged DEF Held
  <2>5. beads'[w] = beads[w]
    BY <1>1, <2>4 DEF Held, Arrays
  <2> QED
    BY <1>1, <2>4, <2>5 DEF Held, Arrays
<1>5. Leave(w)
  BY <1>1, <1>3 DEF Leave, Finished
<1> QED
  BY <1>4, <1>5

(* It receives the last slice of the rank before it, of which it has a     *)
(* copy.                                                                   *)
LEMMA RecvLastStep ==
  ASSUME NEW n \in 1 .. MaxShift, Fine(n), NEW w \in Worker, RecvLast(w)
  PROVE  Fine(n)'
<1> DEFINE v == Prev(w)
           m == [kind |-> "last", data |-> beads[w][0]]
<1>1. /\ Course /\ Held /\ Queues(n) /\ Bcasts(n) /\ Control
      /\ pc[w] = "recvLast" /\ Advance(w) /\ chan[v][w][1] # <<>>
      /\ PutsSlice(beads', beads, w, 0, Received(v, w, 1))
      /\ chan' = Take(v, w, 1)
      /\ buffer' = buffer /\ permutation' = permutation
      /\ globalPermutation' = globalPermutation
      /\ nextSrc' = nextSrc /\ bcast' = bcast
  BY DEF RecvLast, Arrived, Fine, Delivery, Course, PutsSlice
<1>2. v \in Worker /\ <<m>> = Msg("last", beads[w][0])
  BY Neighbours DEF Msg
<1>4. beads' = beads /\ Leave(w)
  BY LastReceived
<1>6. KeepsSent /\ Course' /\ Copies' /\ Buffers(n)' /\ program' = program
  BY <1>1, <1>4, <1>4, LeaveQuiet
<1>7. Queues(n)'
  <2>1. Queue(v, w, n)' = Tail(Queue(v, w, n))
    BY <1>1, <1>2, <1>4, <1>6, TakesLast
  <2>2. \A x, y \in Worker : x # v \/ y # w => Queue(x, y, n)' = Queue(x, y, n)
    BY <1>1, <1>4, <1>6, LeaveSame
  <2> QED
    BY <1>1, <1>2, <2>1, <2>2, Withdrawn
<1>8. Bcasts(n)'
  <2>1. \A x \in Others : (GlobalOut(x)' <=> GlobalOut(x)) /\ (ShiftOut(x)' <=> ShiftOut(x))
    <3>1. ~GlobalOut(w)
      BY <1>1 DEF GlobalOut
    <3> QED
      BY <1>1, <1>4, <3>1, LeaveRoot
  <2> QED
    BY <1>1, <2>1, BcastsStay
<1>9. Held'
  BY <1>1, <1>4, <1>6 DEF Held
<1> QED
  BY <1>6, <1>7, <1>8, <1>9 DEF Fine, Delivery


-----------------------------------------------------------------------------
(* shift: a rank sends its first slices; rank 0 has drawn how many, the    *)
(* others hear of it.                                                      *)
LEMMA BeginShiftStep ==
  ASSUME NEW n \in 1 .. MaxShift, Fine(n), NEW w \in Worker, Onward(w, "recvShift"),
         Op(w) = "shift", BeginShift(w, n), Bcasts(n)'
  PROVE  Fine(n)'
<1>1. /\ Course /\ Held /\ Queues(n)
      /\ Post(w, Prev(w), 1, "shift", Handed(w, n))
      /\ beads' = beads /\ buffer' = buffer /\ permutation' = permutation
      /\ globalPermutation' = globalPermutation
  BY DEF BeginShift, Handed, Fine, Delivery, pathVars
<1>2. /\ KeepsSent /\ Course' /\ Copies' /\ Buffers(n)'
      /\ ip' = ip /\ program' = program
  BY <1>1, InsideQuiet
<1>3. Queues(n)'
  <2>1. Prev(w) \in Worker
    BY Neighbours
  <2>2. FirstMsg(w, n)' = <<[kind |-> "shift", data |-> Handed(w, n)]>>
    <3>1. Handed(w, n)' = Handed(w, n)
      BY <1>1 DEF Handed
    <3>2. Op(w)' # "section"
      BY <1>2 DEF Op
    <3> QED
      BY <3>1, <3>2 DEF FirstMsg, Msg
  <2>3. Queue(w, Prev(w), n)'
          = Append(Queue(w, Prev(w), n), [kind |-> "shift", data |-> Handed(w, n)])
    BY <1>1, <1>2, <2>2, SendsFirst
  <2>4. \A x, y \in Worker : x # w \/ y # Prev(w) => Queue(x, y, n)' = Queue(x, y, n)
    BY <1>1, <1>2, InsideSame DEF Touched
  <2> QED
    BY <1>1, <2>1, <2>3, <2>4, Deposited
<1>4. Held'
  BY <1>1, <1>2 DEF Held
<1> QED
  BY <1>2, <1>3, <1>4 DEF Fine, Delivery

(* Rank 0 draws the shift.                                                 *)
LEMMA ShiftRootStep ==
  ASSUME NEW n \in 1 .. MaxShift, Fine(n), NEW ishift \in 1 .. MaxShift, ShiftRoot(ishift)
  PROVE  Fine(ishift)'
<1>1. /\ Course /\ pc[0] = "ready" /\ Op(0) = "shift" /\ Block(0, "recvShift")
      /\ nextSrc' = nextSrc /\ bcast' = Broadcast(ishift) /\ BeginShift(0, ishift)
  BY DEF ShiftRoot, Begins, BeginShift, Fine
<1>2. Delivery(ishift) /\ Fine(ishift)
  <2>1. Delivery(ishift)
    BY <1>1, Redraw DEF Fine
  <2> QED
    BY <2>1 DEF Fine
<1>3. Onward(0, "recvShift") /\ 0 \in Worker
  BY <1>1, RingOfRanks DEF Onward, Inside
<1>4. Bcasts(ishift)'
  BY <1>1, <1>2, <1>3, BroadcastShift DEF Delivery
<1> QED
  BY <1>1, <1>2, <1>3, <1>4, BeginShiftStep

(* The others hear of it.                                                  *)
LEMMA ShiftOtherStep ==
  ASSUME NEW n \in 1 .. MaxShift, Fine(n), NEW w \in Worker, ShiftOther(w)
  PROVE  Fine(n)'
<1>1. /\ Course /\ Bcasts(n) /\ w \in Others
      /\ pc[w] = "ready" /\ Op(w) = "shift" /\ Block(w, "recvShift")
      /\ nextSrc' = nextSrc /\ bcast[w] # <<>> /\ bcast' = Listened(w)
      /\ BeginShift(w, Head(bcast[w]))
  BY DEF ShiftOther, Begins, BeginShift, Fine, Delivery, Others
<1>2. /\ Begun(0, ip[w]) /\ Head(bcast[w]) = n
      /\ Onward(w, "recvShift") => Bcasts(n)'
  BY <1>1, ListenShift
<1>3. Onward(w, "recvShift")
  BY <1>1, <1>2 DEF Onward, Inside
<1>4. BeginShift(w, n)
  BY <1>1, <1>2
<1> QED
  BY <1>1, <1>2, <1>3, <1>4, BeginShiftStep

(* What a rank receives in a shift are the first slices of the next one.   *)
LEMMA ShiftReceived ==
  ASSUME NEW n \in 1 .. MaxShift, Fine(n), NEW w \in Worker, RecvShift(w)
  PROVE  /\ FirstOut(NextW(w)) /\ ip[NextW(w)] = ip[w]
         /\ Op(w) = "shift" /\ Op(NextW(w)) = "shift" /\ Onward(w, "barrier")
         /\ Puts(buffer', buffer, w, Shifted(w, n, Handed(NextW(w), n).slice))
<1> DEFINE u == NextW(w)
           got == Received(u, w, 1)
<1>1. /\ Course /\ Queues(n) /\ Control
      /\ pc[w] = "recvShift" /\ Block(w, "barrier") /\ chan[u][w][1] # <<>>
      /\ Puts(buffer', buffer, w, Shifted(w, got.n, got.slice))
      /\ nextSrc' = nextSrc
  BY DEF RecvShift, Arrived, Fine, Delivery, Course, Puts
<1>2. u \in Worker /\ u # w
  BY Neighbours
<1>3. FirstOut(u) /\ ip[u] = ip[w]
  <2>1. Queue(u, w, n) # <<>>
    BY <1>1, <1>2 DEF Queues
  <2> QED
    BY <1>1, <2>1, ArrivedFirst, SenderIsThere
<1>4. Op(w) = "shift" /\ Op(u) = "shift"
  BY <1>1, <1>2, <1>3 DEF Control, Op
<1>5. FirstMsg(u, n) = <<[kind |-> "shift", data |-> Handed(u, n)]>>
  BY <1>4 DEF FirstMsg, Msg
<1>6. got = Handed(u, n)
  <2>1. Head(Queue(u, w, n)) = [kind |-> "shift", data |-> Handed(u, n)]
    BY <1>1, <1>3, <1>5, HeadFirst
  <2>2. Head(chan[u][w][1]) = [kind |-> "shift", data |-> Handed(u, n)]
    BY <1>1, <1>2, <2>1 DEF Queues
  <2> QED
    BY <2>2 DEF Received
<1> HIDE DEF got
<1>7. Puts(buffer', buffer, w, Shifted(w, n, Handed(u, n).slice))
  BY <1>1, <1>6 DEF Handed
<1>8. Onward(w, "barrier")
  BY <1>1, <1>3 DEF Onward, Inside
<1> QED
  BY <1>3, <1>4, <1>7, <1>8

(* A rank receives the slices of the next one and assembles its new array. *)
LEMMA RecvShiftStep ==
  ASSUME NEW n \in 1 .. MaxShift, Fine(n), NEW w \in Worker, RecvShift(w)
  PROVE  Fine(n)'
<1> DEFINE u == NextW(w)
<1>1. /\ Course /\ Held /\ Copies /\ Queues(n) /\ Bcasts(n) /\ Buffers(n) /\ Control
      /\ pc[w] = "recvShift" /\ Block(w, "barrier") /\ chan[u][w][1] # <<>>
      /\ chan' = Take(u, w, 1)
      /\ beads' = beads /\ permutation' = permutation
      /\ globalPermutation' = globalPermutation
      /\ nextSrc' = nextSrc /\ bcast' = bcast
  BY DEF RecvShift, Arrived, Fine, Delivery, Course
<1>2. u \in Worker /\ u # w
  BY Neighbours
<1>3. /\ FirstOut(u) /\ ip[u] = ip[w] /\ Op(w) = "shift" /\ Op(u) = "shift"
      /\ Onward(w, "barrier")
      /\ Puts(buffer', buffer, w, Shifted(w, n, Handed(u, n).slice))
  BY ShiftReceived
<1>5. FirstMsg(u, n) = <<[kind |-> "shift", data |-> Handed(u, n)]>>
  BY <1>3 DEF FirstMsg, Msg
<1> DEFINE new == Shifted(w, n, Handed(u, n).slice)
<1>8. new \in [Stored(w) -> SliceType]
  BY <1>1, ShiftedSlices
<1>9. Arrays(buffer') /\ buffer'[w] = new /\ \A x \in Worker : x # w => buffer'[x] = buffer[x]
  <2> HIDE DEF new
  <2> QED
    BY <1>1, <1>3, <1>8, ArrayChanged DEF Held, new
<1>10. Assembled(w, n)'
  BY <1>1, <1>9 DEF Assembled, Shifted, Handed
<1> HIDE DEF u, new
<1>12. /\ pc'[w] = "barrier" /\ ip' = ip /\ program' = program
  BY <1>1, Blocks DEF Places
<1>13. KeepsSent
  BY <1>1 DEF KeepsSent
<1>14. Queues(n)'
  <2>1. Queue(u, w, n)' = Tail(Queue(u, w, n))
    BY <1>1, <1>5, <1>3, <1>13, TakesFirst DEF u
  <2>2. \A x, y \in Worker : x # u \/ y # w => Queue(x, y, n)' = Queue(x, y, n)
    BY <1>1, <1>3, <1>13, InsideSame DEF Touched, u
  <2> QED
    BY <1>1, <1>2, <2>1, <2>2, Withdrawn
<1>15. Bcasts(n)'
  <2>1. \A x \in Others : (GlobalOut(x)' <=> GlobalOut(x)) /\ (ShiftOut(x)' <=> ShiftOut(x))
    BY <1>1, <1>3, InsideRoot, InsideShift
  <2> QED
    BY <1>1, <2>1, BcastsStay
<1>16. Buffers(n)'
  BY <1>1, <1>9, <1>10, <1>3, InsideBuffers
<1>17. Copies'
  <2>1. \A x \in Worker : View(x)' = View(x)
    BY <1>1, <1>9, <1>3, InsideViews
  <2>2. ASSUME NEW x \in Worker, Refreshing(x)
        PROVE  Refreshing(x)'
    <3>1. x # w
      BY <1>3, <2>2 DEF Refreshing, u
    <3> QED
      BY <1>1, <1>3, <2>2, <3>1, RefreshingStays
  <2> QED
    BY <1>1, <2>1, <2>2, CopiesStay
<1>18. Held'
  BY <1>1, <1>9, <1>12 DEF Held
<1>19. Course'
  BY <1>1, <1>3, InsideCourse
<1> QED
  BY <1>14, <1>15, <1>16, <1>17, <1>18, <1>19 DEF Fine, Delivery

(* A rank leaves the barrier and exchanges its two arrays.                 *)
LEMMA LeaveBarrierStep ==
  ASSUME NEW n \in 1 .. MaxShift, Fine(n), NEW w \in Worker, LeaveBarrier(w)
  PROVE  Fine(n)'
<1>1. /\ Course /\ Held /\ Copies /\ Queues(n) /\ Bcasts(n) /\ Buffers(n) /\ Control
      /\ pc[w] = "barrier" /\ BarrierOpens(w) /\ Advance(w)
      /\ Puts(beads', beads, w, buffer[w]) /\ Puts(buffer', buffer, w, beads[w])
      /\ permutation' = permutation /\ globalPermutation' = globalPermutation
      /\ nextSrc' = nextSrc /\ bcast' = bcast /\ chan' = chan
  BY DEF LeaveBarrier, Fine, Delivery, Course, Puts
<1>2. /\ beads[w] \in [Stored(w) -> SliceType] /\ buffer[w] \in [Stored(w) -> SliceType]
  BY <1>1 DEF Held, Arrays
<1>3. Arrays(beads') /\ beads'[w] = buffer[w] /\ \A u \in Worker : u # w => beads'[u] = beads[u]
  BY <1>1, <1>2, ArrayChanged DEF Held
<1>4. Arrays(buffer') /\ \A u \in Worker : u # w => buffer'[u] = buffer[u]
  BY <1>1, <1>2, ArrayChanged DEF Held
<1>5. Leave(w)
  BY <1>1 DEF Leave, Finished
<1>6. KeepsSent
  <2>1. ASSUME NEW x \in Worker, LastOut(x)
        PROVE  beads'[NextW(x)][0] = beads[NextW(x)][0]
    <3>1. NextW(x) \in Worker /\ NextW(x) # w
      BY <1>1, <2>1, Neighbours, LastOutHere
    <3> QED
      BY <1>3, <3>1
  <2>2. \A x \in Worker : FirstOut(x) => x # w
    BY <1>1, <1>5, LeaveFirst
  <2> QED
    BY <1>1, <1>3, <2>1, <2>2 DEF KeepsSent
<1>7. Queues(n)'
  <2>1. \A x, y \in Worker : Queue(x, y, n)' = Queue(x, y, n)
    BY <1>1, <1>5, <1>6, LeaveSame
  <2> QED
    BY <1>1, <2>1, Untouched
<1>8. Bcasts(n)'
  <2>1. \A x \in Others : (GlobalOut(x)' <=> GlobalOut(x)) /\ (ShiftOut(x)' <=> ShiftOut(x))
    <3>1. ~GlobalOut(w)
      BY <1>1 DEF GlobalOut
    <3> QED
      BY <1>1, <1>5, <3>1, LeaveRoot
  <2> QED
    BY <1>1, <2>1, BcastsStay
<1>9. Buffers(n)'
  BY <1>1, <1>3, <1>4, <1>5, BarrierBuffers
<1>10. Copies'
  <2>1. CASE Past(w)
    <3>1. \A u \in Worker : View(u)' = View(u)
      BY <1>1, <1>3, <1>4, <1>5, <2>1, BarrierViews
    <3>2. ASSUME NEW u \in Worker, Refreshing(u)
          PROVE  Refreshing(u)'
      <4>1. NextW(u) \in Worker /\ FirstOut(NextW(u))' /\ NextW(u) # w
        BY <1>1, <1>5, <3>2, Neighbours, LeaveFirst DEF Refreshing
      <4>2. Op(NextW(u))' = Op(NextW(u))
        BY <1>1, <4>1, Advances DEF Op
      <4> QED
        BY <3>2, <4>1, <4>2 DEF Refreshing
    <3> QED
      BY <1>1, <3>1, <3>2, CopiesStay
  <2>2. CASE ~Past(w)
    <3>1. \A u \in Worker : /\ pc[u] = "barrier" /\ ~Past(u)
                            /\ View(u) = beads[u] /\ View(u)' = buffer[u]
      BY <1>1, <1>3, <1>4, <1>5, <2>2, BarrierViews
    <3>2. \A u \in Worker : Assembled(u, n)
      BY <1>1, <3>1 DEF Buffers
    <3>3. ASSUME NEW u \in Worker
          PROVE  Lower(beads, u) /\ Upper(beads, u)
      <4>1. NextW(u) \in Worker
        BY Neighbours
      <4>2. Views[u] = beads[u] /\ Views[NextW(u)] = beads[NextW(u)]
        BY <3>1, <4>1 DEF Views
      <4>3. ~Refreshing(u)
        BY <1>1, <3>1, <4>1 DEF Refreshing, Control
      <4>4. Lower(Views, u) /\ Upper(Views, u)
        BY <1>1, <4>3 DEF Copies
      <4> QED
        BY <4>2, <4>4 DEF Lower, Upper
    <3>4. ASSUME NEW u \in Worker
          PROVE  Lower(Views, u)' /\ Upper(Views, u)'
      <4>1. NextW(u) \in Worker
        BY Neighbours
      <4>2. Views'[u] = buffer[u] /\ Views'[NextW(u)] = buffer[NextW(u)]
        BY <3>1, <4>1 DEF Views
      <4>3. Lower(buffer, u) /\ Upper(buffer, u)
        BY <1>1, <3>2, <3>3, ShiftedCopies
      <4> QED
        BY <1>1, <4>2, <4>3 DEF Lower, Upper
    <3> QED
      BY <3>4 DEF Copies
  <2> QED
    BY <2>1, <2>2
<1>11. Held'
  BY <1>1, <1>3, <1>4 DEF Held, Advance
<1>12. Course'
  BY <1>1, <1>5, LeaveCourse
<1> QED
  BY <1>7, <1>8, <1>9, <1>10, <1>11, <1>12 DEF Fine, Delivery


-----------------------------------------------------------------------------
(* getGlobalPermutation: rank 0 begins with its own permutation, receives  *)
(* those of the others and broadcasts; the others send theirs and listen.  *)
LEMMA GatherBeginStep ==
  ASSUME NEW n \in 1 .. MaxShift, Fine(n), GatherBegin
  PROVE  Fine(n)'
<1>1. /\ Course /\ Held /\ Queues(n) /\ Bcasts(n) /\ 0 \in Worker
      /\ pc[0] = "ready" /\ Op(0) = "global" /\ Block(0, "gather")
      /\ beads' = beads /\ permutation' = permutation /\ buffer' = buffer
      /\ globalPermutation' = [globalPermutation EXCEPT ![0] = permutation[0]]
      /\ nextSrc' = 1 /\ bcast' = bcast /\ chan' = chan
  BY RingOfRanks DEF GatherBegin, Begins, Fine, Delivery
<1>2. Onward(0, "gather")
  BY <1>1 DEF Onward, Inside
<1>3. KeepsSent /\ Course' /\ Copies' /\ Buffers(n)' /\ program' = program
  BY <1>1, <1>2, InsideQuiet
<1>4. Queues(n)'
  <2>1. \A x, y \in Worker : Queue(x, y, n)' = Queue(x, y, n)
    BY <1>1, <1>2, <1>3, InsideSame DEF Touched
  <2> QED
    BY <1>1, <2>1, Untouched
<1>5. Bcasts(n)'
  <2>1. \A u \in Others : (GlobalOut(u)' <=> GlobalOut(u)) /\ (ShiftOut(u)' <=> ShiftOut(u))
    BY <1>1, <1>2, InsideRoot, InsideShift
  <2> QED
    BY <1>1, <2>1, BcastsStay
<1>6. Held'
  BY <1>1, <1>3 DEF Held
<1> QED
  BY <1>3, <1>4, <1>5, <1>6 DEF Fine, Delivery

(* The others send their permutations.                                     *)
LEMMA SendLocalStep ==
  ASSUME NEW n \in 1 .. MaxShift, Fine(n), NEW w \in Worker, SendLocal(w)
  PROVE  Fine(n)'
<1> DEFINE m == [kind |-> "permutation", data |-> permutation[w]]
<1>1. /\ Course /\ Held /\ Queues(n) /\ Bcasts(n) /\ w # 0 /\ 0 \in Worker
      /\ pc[w] = "ready" /\ Op(w) = "global" /\ Block(w, "recvGlobal")
      /\ Post(w, 0, 1, "permutation", permutation[w])
      /\ beads' = beads /\ permutation' = permutation /\ buffer' = buffer
      /\ globalPermutation' = [globalPermutation EXCEPT ![w] = permutation[w]]
      /\ nextSrc' = nextSrc /\ bcast' = bcast
  BY RingOfRanks DEF SendLocal, Begins, Fine, Delivery
<1>2. Onward(w, "recvGlobal")
  BY <1>1 DEF Onward, Inside
<1>3. KeepsSent /\ Course' /\ Copies' /\ Buffers(n)' /\ program' = program
  BY <1>1, <1>2, InsideQuiet
<1>4. Queues(n)'
  <2>1. <<m>> = Msg("permutation", permutation'[w])
    BY <1>1 DEF Msg
  <2>2. Queue(w, 0, n)' = Append(Queue(w, 0, n), m)
    BY <1>1, <1>2, <1>3, <2>1, SendsPermutation
  <2>3. \A x, y \in Worker : x # w \/ y # 0 => Queue(x, y, n)' = Queue(x, y, n)
    BY <1>1, <1>2, <1>3, InsideSame DEF Touched
  <2> QED
    BY <1>1, <2>2, <2>3, Deposited
<1>5. Bcasts(n)'
  <2>1. \A u \in Others : (GlobalOut(u)' <=> GlobalOut(u)) /\ (ShiftOut(u)' <=> ShiftOut(u))
    BY <1>1, <1>2, InsideRoot, InsideShift
  <2> QED
    BY <1>1, <2>1, BcastsStay
<1>6. Held'
  BY <1>1, <1>3 DEF Held
<1> QED
  BY <1>3, <1>4, <1>5, <1>6 DEF Fine, Delivery

(* They hear the global one.                                               *)
LEMMA RecvGlobalStep ==
  ASSUME NEW n \in 1 .. MaxShift, Fine(n), NEW w \in Worker, RecvGlobal(w)
  PROVE  Fine(n)'
<1>1. /\ Course /\ Held /\ Queues(n) /\ Bcasts(n) /\ Control
      /\ pc[w] = "recvGlobal" /\ bcast[w] # <<>> /\ Advance(w)
      /\ globalPermutation' = [globalPermutation EXCEPT ![w] = Head(bcast[w])]
      /\ beads' = beads /\ permutation' = permutation /\ buffer' = buffer
      /\ nextSrc' = nextSrc /\ bcast' = Listened(w) /\ chan' = chan
  BY DEF RecvGlobal, Fine, Delivery, Course
<1>2. w \in Others
  BY <1>1 DEF Control, Others
<1>3. /\ GlobalOut(w) /\ Head(bcast[w]) \in Perms(Part)
      /\ Leave(w) => Bcasts(n)'
  BY <1>1, <1>2, ListenGlobal
<1>4. Leave(w)
  BY <1>1, <1>3 DEF Leave, Finished
<1>5. KeepsSent /\ Course' /\ Copies' /\ Buffers(n)' /\ program' = program
  BY <1>1, <1>4, LeaveQuiet
<1>6. Queues(n)'
  <2>1. \A x, y \in Worker : Queue(x, y, n)' = Queue(x, y, n)
    BY <1>1, <1>4, <1>5, LeaveSame
  <2> QED
    BY <1>1, <2>1, Untouched
<1>7. Held'
  BY <1>1, <1>3, <1>5 DEF Held
<1> QED
  BY <1>3, <1>4, <1>5, <1>6, <1>7 DEF Fine, Delivery

(* What rank 0 receives is the permutation of the next rank.               *)
LEMMA PermutationReceived ==
  ASSUME NEW n \in 1 .. MaxShift, Fine(n), Gather
  PROVE  /\ nextSrc \in Others /\ PermOut(nextSrc)
         /\ LastPart(nextSrc, 0) = <<>> /\ ~FirstTo(nextSrc, 0)
         /\ Received(nextSrc, 0, 1) = permutation[nextSrc]
<1> DEFINE m == [kind |-> "permutation", data |-> permutation[nextSrc]]
<1>1. /\ Course /\ Queues(n) /\ 0 \in Worker /\ nextSrc \in Worker
      /\ pc[0] = "gather" /\ chan[nextSrc][0][1] # <<>>
  BY RingOfRanks DEF Gather, Arrived, Fine, Delivery, Course, Control
<1>2. /\ nextSrc \in Others /\ PermOut(nextSrc)
      /\ LastPart(nextSrc, 0) = <<>> /\ ~FirstTo(nextSrc, 0)
  <2>1. Queue(nextSrc, 0, n) # <<>>
    BY <1>1 DEF Queues
  <2> QED
    BY <1>1, <2>1, ArrivedPermutation
<1>3. Head(Queue(nextSrc, 0, n)) = m
  <2>1. <<m>> = Msg("permutation", permutation[nextSrc])
    BY DEF Msg
  <2> QED
    BY <1>2, <2>1, HeadPermutation
<1>4. Head(chan[nextSrc][0][1]) = m
  BY <1>1, <1>3 DEF Queues
<1> QED
  BY <1>2, <1>4 DEF Received

(* Rank 0 appends the permutation of the next rank, and broadcasts after   *)
(* the last one.                                                           *)
LEMMA GatherStep ==
  ASSUME NEW n \in 1 .. MaxShift, Fine(n), Gather
  PROVE  Fine(n)'
<1> DEFINE m == [kind |-> "permutation", data |-> permutation[nextSrc]]
           sum == AppendRank(globalPermutation[0], Received(nextSrc, 0, 1))
<1>1. /\ Course /\ Control /\ Held /\ Copies /\ Queues(n) /\ Bcasts(n) /\ Buffers(n)
      /\ 0 \in Worker /\ nextSrc \in Worker
      /\ pc[0] = "gather" /\ chan[nextSrc][0][1] # <<>> /\ chan' = Take(nextSrc, 0, 1)
      /\ globalPermutation' = [globalPermutation EXCEPT ![0] = sum]
      /\ beads' = beads /\ permutation' = permutation /\ buffer' = buffer
      /\ nextSrc = NWorker - 1 => bcast' = Broadcast(sum) /\ nextSrc' = 0 /\ Advance(0)
      /\ nextSrc # NWorker - 1 => /\ nextSrc' = nextSrc + 1 /\ bcast' = bcast
                                  /\ UNCHANGED progressVars
  BY RingOfRanks DEF Gather, Arrived, Fine, Delivery, Course, Control
<1>2. /\ nextSrc \in Others /\ PermOut(nextSrc)
      /\ LastPart(nextSrc, 0) = <<>> /\ ~FirstTo(nextSrc, 0)
      /\ Received(nextSrc, 0, 1) = permutation[nextSrc]
  BY PermutationReceived
<1>3. sum \in Perms(Part)
  <2>1. globalPermutation[0] \in Perms(Part) /\ permutation[nextSrc] \in Perms(Part)
    BY <1>1 DEF Held
  <2> QED
    BY <1>2, <2>1, AppendPerm DEF AppendRank
<1> HIDE DEF sum
<1>4. (nextSrc = NWorker - 1 /\ Leave(0)) \/ (nextSrc # NWorker - 1 /\ GatherOn)
  BY <1>1, <1>2 DEF Leave, Finished, GatherOn
<1>5. /\ KeepsSent /\ Course' /\ Copies' /\ Buffers(n)' /\ program' = program
      /\ Bcasts(n)'
  <2>1. CASE nextSrc = NWorker - 1 /\ Leave(0)
    <3>1. KeepsSent /\ Course' /\ Copies' /\ Buffers(n)' /\ program' = program
      BY <1>1, <2>1, LeaveQuiet
    <3>2. Bcasts(n)'
      BY <1>1, <1>3, <2>1, BroadcastGlobal
    <3> QED
      BY <3>1, <3>2
  <2>2. CASE nextSrc # NWorker - 1 /\ GatherOn
    <3>1. pc' = pc /\ ip' = ip /\ program' = program
      BY <2>2 DEF GatherOn, progressVars
    <3>2. KeepsSent
      BY <1>1 DEF KeepsSent
    <3>3. \A u \in Worker : View(u)' = View(u) /\ (Past(u)' <=> Past(u))
      BY <1>1, <3>1 DEF View, Past
    <3>4. \A u \in Worker : Refreshing(u) => Refreshing(u)'
      BY <1>1, <2>2, <3>1, GatherOnFlags, Neighbours DEF Refreshing, Op
    <3>5. Copies'
      BY <1>1, <3>3, <3>4, CopiesStay
    <3>6. Buffers(n)'
      <4>1. ASSUME NEW u \in Worker, Assembled(u, n)
            PROVE  Assembled(u, n)'
        BY <1>1, <4>1 DEF Assembled, Shifted, Handed
      <4> QED
        BY <1>1, <3>1, <3>3, <4>1 DEF Buffers
    <3>7. Bcasts(n)'
      <4>1. \A u \in Others : (GlobalOut(u)' <=> GlobalOut(u)) /\ (ShiftOut(u)' <=> ShiftOut(u))
        BY <1>1, <2>2, GatherOnFlags DEF Others
      <4> QED
        BY <1>1, <2>2, <4>1, BcastsStay
    <3> QED
      BY <1>1, <2>2, <3>1, <3>2, <3>5, <3>6, <3>7, GatherOnCourse
  <2> QED
    BY <1>4, <2>1, <2>2
<1>6. Queues(n)'
  <2>1. PICK x : x = nextSrc
    OBVIOUS
  <2>2. Queue(x, 0, n)' = Tail(Queue(x, 0, n))
    <3>1. <<m>> = Msg("permutation", permutation[nextSrc])
      BY DEF Msg
    <3> QED
      BY <1>1, <1>2, <1>4, <1>5, <2>1, <3>1, TakesPermutation
  <2>3. ASSUME NEW u \in Worker, NEW y \in Worker, u # x \/ y # 0
        PROVE  Queue(u, y, n)' = Queue(u, y, n)
    <3>1. CASE nextSrc = NWorker - 1 /\ Leave(0)
      BY <1>1, <1>5, <2>1, <2>3, <3>1, LeaveSame
    <3>2. CASE nextSrc # NWorker - 1 /\ GatherOn
      BY <1>1, <1>5, <2>1, <2>3, <3>2, GatherOnSame
    <3> QED
      BY <1>4, <3>1, <3>2
  <2> QED
    BY <1>1, <2>1, <2>2, <2>3, Withdrawn
<1>7. Held'
  BY <1>1, <1>3, <1>5 DEF Held
<1> QED
  BY <1>5, <1>6, <1>7 DEF Fine, Delivery


-----------------------------------------------------------------------------
(* At the beginning nothing is under way.                                  *)
LEMMA AtTheStart ==
  ASSUME Init
  PROVE  /\ Course /\ Held
         /\ \A w \in Worker : ip[w] = 1 /\ pc[w] = "ready" /\ View(w) = beads[w]
<1>1. /\ beads = [w \in Worker |-> [j \in Stored(w) |-> NoSlice]]
      /\ buffer = [w \in Worker |-> [j \in Stored(w) |-> NoSlice]]
      /\ permutation = [w \in Worker |-> Identity(Part)]
      /\ globalPermutation = [w \in Worker |-> Identity(Part)]
      /\ nextSrc = 0 /\ program \in Programs
      /\ ip = [w \in Worker |-> 1] /\ pc = [w \in Worker |-> "ready"]
  BY DEF Init, RanksInit
<1>2. \A w \in Worker : ip[w] = 1 /\ pc[w] = "ready" /\ View(w) = beads[w]
  BY <1>1 DEF View
<1>3. Control
  <2>1. ip \in [Worker -> Turn] /\ pc \in [Worker -> Places \cup {"ready"}]
    BY <1>1 DEF Turn
  <2> QED
    BY <1>1, <1>2, <2>1, RingOfRanks DEF Control
<1>4. Order
  <2>1. ASSUME NEW w \in Worker, NEW k \in Turn
        PROVE  ~(ip[w] > k) /\ ~Begun(w, k)
    BY <1>2 DEF Begun, Turn
  <2>2. ASSUME NEW w \in Worker, NEW k \in Turn, NEW S, "ready" \notin S
        PROVE  ~Reached(w, k, S)
    BY <1>2, <2>1, <2>2 DEF Reached
  <2>3. Gathered
    BY <1>2, RingOfRanks DEF Gathered
  <2>4. \A w \in Worker : NextW(w) \in Worker
    BY Neighbours
  <2>5. ASSUME NEW k \in Turn
        PROVE  InSection(k) /\ InShift(k) /\ InGlobal(k)
    <3>1. InSection(k)
      BY <2>1, <2>2, <2>4 DEF InSection
    <3>2. InShift(k)
      BY <2>1, <2>2, <2>4 DEF InShift
    <3>3. InGlobal(k)
      BY <2>1 DEF InGlobal
    <3> QED
      BY <3>1, <3>2, <3>3
  <2> QED
    BY <2>1, <2>3, <2>5 DEF Order
<1>5. Held
  <2>1. NoSlice \in SliceType
    BY DEF NoSlice, SliceType, Bead
  <2>2. Arrays(beads) /\ Arrays(buffer)
    <3> HIDE DEF NoSlice
    <3>1. \A w \in Worker : beads[w] = [j \in Stored(w) |-> NoSlice]
                            /\ buffer[w] = [j \in Stored(w) |-> NoSlice]
      BY <1>1
    <3>2. beads = [w \in Worker |-> beads[w]] /\ buffer = [w \in Worker |-> buffer[w]]
      BY <1>1
    <3> QED
      BY <2>1, <3>1, <3>2 DEF Arrays
  <2>3. /\ permutation \in [Worker -> Perms(Part)]
        /\ globalPermutation \in [Worker -> Perms(Part)]
    BY <1>1, IdentityPerm
  <2> QED
    BY <1>1, <2>2, <2>3 DEF Held
<1> QED
  BY <1>2, <1>3, <1>4, <1>5 DEF Course

(* The copies are copies, as all slices are the same, and the queues are   *)
(* empty.                                                                  *)
LEMMA InitFine ==
  ASSUME Init
  PROVE  Fine(1) /\ 1 \in 1 .. MaxShift
<1>1. /\ Course /\ Held
      /\ \A w \in Worker : ip[w] = 1 /\ pc[w] = "ready" /\ View(w) = beads[w]
  BY AtTheStart
<1>2. Copies
  <2>1. ASSUME NEW w \in Worker
        PROVE  Lower(Views, w) /\ Upper(Views, w)
    <3>1. NextW(w) \in Worker /\ permutation[w] = Identity(Part)
      BY Neighbours DEF Init
    <3>2. \A u \in Worker : \A j \in Stored(u) : Views[u][j] = NoSlice
      BY <1>1 DEF Views, Init
    <3>3. \A i \in Part : permutation[w][i] = i
      BY <3>1 DEF Identity
    <3>4. /\ Views[w][nprocSlice(w)] = NoSlice /\ Views[w][nprocSlice(w) + 1] = NoSlice
          /\ Views[NextW(w)][0] = NoSlice /\ Views[NextW(w)][1] = NoSlice
      BY <3>1, <3>2, StoredSlices
    <3> QED
      BY <3>3, <3>4 DEF Lower, Upper
  <2> QED
    BY <2>1 DEF Copies
<1>3. ASSUME NEW x \in Worker
      PROVE  ~FirstOut(x) /\ ~LastOut(x) /\ ~PermOut(x) /\ ~GlobalOut(x) /\ ~ShiftOut(x)
  <2>1. NextW(x) \in Worker
    BY Neighbours
  <2>2. ~LastOut(x)
    BY <1>1, <2>1 DEF LastOut, Reached
  <2>3. ~FirstOut(x) /\ ~PermOut(x) /\ ~GlobalOut(x) /\ ~ShiftOut(x)
    BY <1>1, RingOfRanks DEF FirstOut, PermOut, GlobalOut, ShiftOut
  <2> QED
    BY <2>2, <2>3
<1>4. Queues(1)
  <2>1. chan = [v \in Worker |-> [w \in Worker |-> [t \in Tags |-> <<>>]]]
    BY DEF Init, RanksInit
  <2>2. AreQueues(chan, Worker, Tags)
    BY <2>1 DEF AreQueues
  <2>3. ASSUME NEW x \in Worker, NEW y \in Worker
        PROVE  Queue(x, y, 1) = <<>>
    <3>1. Rest(x, y, 1) = <<>> /\ LastPart(x, y) = <<>>
      BY <1>3 DEF Rest, LastPart, FirstTo, PermTo
    <3> QED
      BY <3>1, MixedOne DEF Queue
  <2>4. \A x, y \in Worker : chan[x][y][1] = <<>>
    BY <2>1, TagAssumption
  <2> QED
    BY <2>2, <2>3, <2>4 DEF Queues
<1>5. Bcasts(1)
  <2>1. bcast = [w \in Worker |-> <<>>]
    BY DEF Init, RanksInit
  <2>2. Identity(Part) \in Perms(Part)
    BY IdentityPerm
  <2>3. ASSUME NEW w \in Others
        PROVE  bcast[w] = Join(GlobalPart(w, Identity(Part)), ShiftPart(w, 1))
    <3>1. w \in Worker
      BY DEF Others
    <3>2. GlobalPart(w, Identity(Part)) = <<>> /\ ShiftPart(w, 1) = <<>>
      BY <1>3, <3>1 DEF GlobalPart, ShiftPart
    <3> QED
      BY <2>1, <3>1, <3>2, JoinOne
  <2> QED
    BY <2>1, <2>2, <2>3 DEF Bcasts
<1>6. Buffers(1)
  BY <1>1 DEF Buffers
<1>7. 1 \in 1 .. MaxShift
  BY RingOfRanks, SlicesOfRanks
<1> QED
  BY <1>1, <1>2, <1>4, <1>5, <1>6, <1>7 DEF Fine, Delivery

(* A state is as fine as the same state before it.                         *)
LEMMA UnchangedFine ==
  ASSUME NEW n, Fine(n), UNCHANGED vars
  PROVE  Fine(n)'
<1>1. /\ beads' = beads /\ buffer' = buffer /\ permutation' = permutation
      /\ globalPermutation' = globalPermutation /\ nextSrc' = nextSrc
      /\ program' = program /\ ip' = ip /\ pc' = pc /\ chan' = chan /\ bcast' = bcast
  BY DEF vars, pathVars, rankVars
<1>2. /\ \A u : Op(u)' = Op(u)
      /\ \A k : At(k)' = At(k)
      /\ \A u, k : Begun(u, k)' <=> Begun(u, k)
      /\ \A u, k, S : Reached(u, k, S)' <=> Reached(u, k, S)
  BY <1>1 DEF Op, At, Begun, Reached
<1>3. Course'
  <2>1. Control'
    BY <1>1, <1>2 DEF Fine, Course, Control
  <2>2. Gathered'
    BY <1>1, <1>2 DEF Fine, Course, Order, Gathered
  <2>3. ASSUME NEW k
        PROVE  /\ InSection(k)' <=> InSection(k)
               /\ InShift(k)' <=> InShift(k)
               /\ InGlobal(k)' <=> InGlobal(k)
    BY <1>1, <1>2 DEF InSection, InShift, InGlobal
  <2> QED
    BY <1>1, <1>2, <2>1, <2>2, <2>3 DEF Fine, Course, Order
<1>4. Held'
  BY <1>1 DEF Fine, Held, Arrays
<1>5. /\ \A x : LastOut(x)' <=> LastOut(x)
      /\ \A x : FirstOut(x)' <=> FirstOut(x)
      /\ \A x : PermOut(x)' <=> PermOut(x)
      /\ \A x : GlobalOut(x)' <=> GlobalOut(x)
      /\ \A x : ShiftOut(x)' <=> ShiftOut(x)
  BY <1>1, <1>2 DEF LastOut, FirstOut, Consumed, PermOut, Awaited, GlobalOut, ShiftOut
<1>6. Copies'
  <2>1. \A u \in Worker : View(u)' = View(u)
    BY <1>1 DEF View
  <2>2. \A u : Refreshing(u)' <=> Refreshing(u)
    BY <1>2, <1>5 DEF Refreshing
  <2> QED
    BY <1>1, <2>1, <2>2, CopiesStay DEF Fine
<1>7. Queues(n)'
  <2>1. ASSUME NEW x \in Worker, NEW y \in Worker
        PROVE  Queue(x, y, n)' = Queue(x, y, n)
    <3>1. LastPart(x, y)' = LastPart(x, y)
      BY <1>1, <1>5 DEF LastPart
    <3>2. (FirstTo(x, y)' <=> FirstTo(x, y)) /\ (PermTo(x, y)' <=> PermTo(x, y))
      BY <1>5 DEF FirstTo, PermTo
    <3>3. FirstMsg(x, n)' = FirstMsg(x, n)
      BY <1>1, <1>2 DEF FirstMsg, Handed
    <3>4. Rest(x, y, n)' = Rest(x, y, n)
      BY <1>1, <3>2, <3>3 DEF Rest
    <3>5. Early(x, y)' <=> Early(x, y)
      BY <1>1, <3>2 DEF Early
    <3> QED
      BY <3>1, <3>4, <3>5, SameQueue
  <2> QED
    BY <1>1, <2>1, Untouched DEF Fine, Delivery
<1>8. Bcasts(n)'
  BY <1>1, <1>5, BcastsStay DEF Fine, Delivery
<1>9. Buffers(n)'
  <2>1. \A u : Past(u)' <=> Past(u)
    BY <1>1 DEF Past
  <2>2. ASSUME NEW u, Assembled(u, n)
        PROVE  Assembled(u, n)'
    BY <1>1, <2>2 DEF Assembled, Shifted, Handed
  <2> QED
    BY <1>1, <2>1, <2>2 DEF Fine, Delivery, Buffers
<1> QED
  BY <1>3, <1>4, <1>6, <1>7, <1>8, <1>9 DEF Fine, Delivery

(* Every step of a rank keeps the invariant.                               *)
LEMMA NextFine ==
  ASSUME NEW n \in 1 .. MaxShift, Fine(n), [Next]_vars
  PROVE  IInv'
<1>1. ASSUME NEW w \in Worker, Step(w)
      PROVE  IInv'
  <2>1. ASSUME NEW m \in SectionSizes, NEW sp \in Exchanges, NEW f \in FirstSlices(w, m),
               SectionRun(w, f, m, sp)
        PROVE  IInv'
    <3>1. Fine(n)'
      BY <2>1, SectionRunStep
    <3> QED
      BY <3>1 DEF IInv
  <2>2. CASE SectionRejected(w)
    BY <2>2, SectionRejectedStep DEF IInv
  <2>3. CASE RecvFirst(w)
    BY <2>3, RecvFirstStep DEF IInv
  <2>4. CASE SendLast(w)
    BY <2>4, SendLastStep DEF IInv
  <2>5. CASE RecvLast(w)
    BY <2>5, RecvLastStep DEF IInv
  <2>6. ASSUME NEW ishift \in 1 .. MaxShift, ShiftRoot(ishift)
        PROVE  IInv'
    BY <2>6, ShiftRootStep DEF IInv
  <2>7. CASE ShiftOther(w)
    BY <2>7, ShiftOtherStep DEF IInv
  <2>8. CASE RecvShift(w)
    BY <2>8, RecvShiftStep DEF IInv
  <2>9. CASE LeaveBarrier(w)
    BY <2>9, LeaveBarrierStep DEF IInv
  <2>10. CASE GatherBegin
    BY <2>10, GatherBeginStep DEF IInv
  <2>11. CASE Gather
    BY <2>11, GatherStep DEF IInv
  <2>12. CASE SendLocal(w)
    BY <2>12, SendLocalStep DEF IInv
  <2>13. CASE RecvGlobal(w)
    BY <2>13, RecvGlobalStep DEF IInv
  <2> QED
    BY <1>1, <2>1, <2>2, <2>3, <2>4, <2>5, <2>6, <2>7, <2>8, <2>9, <2>10,
       <2>11, <2>12, <2>13 DEF Step
<1>2. CASE UNCHANGED vars
  BY <1>2, UnchangedFine DEF IInv
<1> QED
  BY <1>1, <1>2 DEF Next

-----------------------------------------------------------------------------
(* In every reachable state the ranks are where the program and the calls  *)
(* they have made allow, every message and broadcast under way is the one  *)
(* its receiver waits for, and the slices of the next rank that a rank     *)
(* keeps are current.                                                      *)
THEOREM Invariance == Spec => []IInv
<1>1. Init => IInv
  BY InitFine DEF IInv
<1>2. IInv /\ [Next]_vars => IInv'
  BY NextFine DEF IInv
<1> QED
  BY <1>1, <1>2, PTL DEF Spec

(* Every rank has as many slices as it owns and two, with a bead at every  *)
(* label, and permutations that drop and duplicate none; it is at most one *)
(* operation past the end of the program.                                  *)
THEOREM TypeCorrect == Spec => []TypeOK
<1>1. IInv => TypeOK
  <2> SUFFICES ASSUME NEW n, Fine(n) PROVE TypeOK
    BY DEF IInv
  <2>1. Course /\ Held /\ Control /\ Order
    BY DEF Fine, Course
  <2>2. \A w \in Worker : /\ DOMAIN beads[w] = Stored(w) /\ DOMAIN buffer[w] = Stored(w)
                          /\ \A j \in Stored(w) : /\ beads[w][j] \in SliceType
                                                  /\ buffer[w][j] \in SliceType
    BY <2>1 DEF Held, Arrays
  <2>3. ip \in [Worker -> 1 .. Len(program) + 1]
    <3>1. Len(program) \in Nat
      BY <2>1, ProgramAssumption DEF Held
    <3>2. ASSUME NEW w \in Worker
          PROVE  ip[w] \in 1 .. Len(program) + 1
      <4>1. PICK k \in Turn : k = Len(program) + 1
        BY <3>1 DEF Turn
      <4>2. At(k) = "done"
        BY <3>1, <4>1 DEF At
      <4>3. ~(ip[w] > k)
        BY <2>1, <4>2 DEF Order
      <4> QED
        BY <2>1, <3>1, <4>1, <4>3 DEF Control, Turn
    <3> QED
      BY <2>1, <3>2 DEF Control
  <2>4. RanksTypeOK(Places)
    BY <2>1, <2>3 DEF RanksTypeOK, Control, Held
  <2> QED
    BY <2>1, <2>2, <2>4 DEF TypeOK, Held, Control, Places
<1> QED
  BY <1>1, Invariance, PTL

(* The first message in a channel is the one the receiving rank waits for: *)
(* setBuffers, shift and getGlobalPermutation share one tag, and no rank   *)
(* takes a slice of one for a slice of the other.                          *)
THEOREM MessagesUnderstood == Spec => []NoCrossTalk
<1>1. IInv => NoCrossTalk
  <2> SUFFICES ASSUME NEW n, Fine(n), NEW w \in Worker, NEW e \in Expected(w),
                      Arrived(e[1], w, 1)
               PROVE  Head(chan[e[1]][w][1]).kind = e[2]
    BY DEF IInv, NoCrossTalk
  <2>1. Course /\ Control /\ Queues(n)
    BY DEF Fine, Course, Delivery
  <2>2. CASE pc[w] = "recvFirst"
    <3>1. e = <<NextW(w), "first">> /\ NextW(w) \in Worker
      BY <2>2, Neighbours DEF Expected
    <3>2. Queue(NextW(w), w, n) # <<>>
      BY <2>1, <3>1 DEF Arrived, Queues
    <3>3. FirstOut(NextW(w)) /\ ip[NextW(w)] = ip[w]
      BY <2>1, <2>2, <3>2, ArrivedFirst, SenderIsThere
    <3>4. Op(NextW(w)) = "section"
      BY <2>1, <2>2, <3>3 DEF Control, Op
    <3>5. FirstMsg(NextW(w), n) = <<[kind |-> "first", data |-> beads[NextW(w)][1]]>>
      BY <3>4 DEF FirstMsg, Msg
    <3>6. Head(Queue(NextW(w), w, n)) = [kind |-> "first", data |-> beads[NextW(w)][1]]
      BY <2>1, <2>2, <3>3, <3>5, HeadFirst
    <3> QED
      BY <2>1, <3>1, <3>6 DEF Queues
  <2>3. CASE pc[w] = "recvLast"
    <3>1. e = <<Prev(w), "last">> /\ Prev(w) \in Worker
      BY <2>3, Neighbours DEF Expected
    <3>2. Queue(Prev(w), w, n) # <<>>
      BY <2>1, <3>1 DEF Arrived, Queues
    <3>3. LastOut(Prev(w))
      BY <2>1, <2>3, <3>2, ArrivedLast
    <3>4. <<[kind |-> "last", data |-> beads[w][0]]>> = Msg("last", beads[w][0])
      BY DEF Msg
    <3>5. Head(Queue(Prev(w), w, n)) = [kind |-> "last", data |-> beads[w][0]]
      BY <2>1, <2>3, <3>3, <3>4, HeadLast
    <3> QED
      BY <2>1, <3>1, <3>5 DEF Queues
  <2>4. CASE pc[w] = "recvShift"
    <3>1. e = <<NextW(w), "shift">> /\ NextW(w) \in Worker
      BY <2>4, Neighbours DEF Expected
    <3>2. Queue(NextW(w), w, n) # <<>>
      BY <2>1, <3>1 DEF Arrived, Queues
    <3>3. FirstOut(NextW(w)) /\ ip[NextW(w)] = ip[w]
      BY <2>1, <2>4, <3>2, ArrivedFirst, SenderIsThere
    <3>4. Op(NextW(w)) = "shift"
      BY <2>1, <2>4, <3>3 DEF Control, Op
    <3>5. FirstMsg(NextW(w), n) = <<[kind |-> "shift", data |-> Handed(NextW(w), n)]>>
      BY <3>4 DEF FirstMsg, Msg
    <3>6. Head(Queue(NextW(w), w, n)) = [kind |-> "shift", data |-> Handed(NextW(w), n)]
      BY <2>1, <2>4, <3>3, <3>5, HeadFirst
    <3> QED
      BY <2>1, <3>1, <3>6 DEF Queues
  <2>5. CASE pc[w] = "gather"
    <3>1. e = <<nextSrc, "permutation">> /\ w = 0 /\ nextSrc \in Worker
      BY <2>1, <2>5 DEF Expected, Control
    <3>2. Queue(nextSrc, 0, n) # <<>>
      BY <2>1, <3>1 DEF Arrived, Queues
    <3>3. /\ nextSrc \in Others /\ PermOut(nextSrc)
          /\ LastPart(nextSrc, 0) = <<>> /\ ~FirstTo(nextSrc, 0)
      BY <2>1, <2>5, <3>1, <3>2, ArrivedPermutation
    <3>4. <<[kind |-> "permutation", data |-> permutation[nextSrc]]>>
            = Msg("permutation", permutation[nextSrc])
      BY DEF Msg
    <3>5. Head(Queue(nextSrc, 0, n)) = [kind |-> "permutation", data |-> permutation[nextSrc]]
      BY <3>3, <3>4, HeadPermutation
    <3> QED
      BY <2>1, <3>1, <3>5 DEF Queues
  <2>6. pc[w] \in {"recvFirst", "recvLast", "recvShift", "gather"}
    BY DEF Expected
  <2> QED
    BY <2>2, <2>3, <2>4, <2>5, <2>6
<1> QED
  BY <1>1, Invariance, PTL

(* A rank about to sample or to measure sums the links of the worldlines   *)
(* that end on its first slice with their current coordinates, though they *)
(* start on a slice of the rank before it.                                 *)
THEOREM LinksAreCurrent == Spec => []SumSeesWorldlines
<1>1. IInv => SumSeesWorldlines
  <2> SUFFICES ASSUME NEW n, Fine(n), NEW w \in Worker, pc[w] = "ready",
                      NEW i \in Part
               PROVE  <<View(Prev(w))[nprocSlice(Prev(w))][i],
                        beads[w][1][permutation[Prev(w)][i]]>> \in SummedLinks(w, 1)
    BY DEF IInv, SumSeesWorldlines
  <2> DEFINE v == Prev(w)
  <2>1. v \in Worker /\ NextW(v) = w
    BY Neighbours
  <2>2. permutation[v][i] \in Part
    BY <2>1 DEF Fine, Held, Perms
  <2>3. Views[v] = View(v) /\ Views[w] = beads[w]
    BY <2>1 DEF Views, View
  <2>4. beads[w][0][permutation[v][i]] = View(v)[nprocSlice(v)][i]
    BY <2>1, <2>3 DEF Fine, Copies, Lower
  <2>5. SummedLinks(w, 1) = {<<beads[w][0][k], beads[w][1][k]>> : k \in Part}
    BY DEF SummedLinks
  <2> QED
    BY <2>2, <2>4, <2>5
<1> QED
  BY <1>1, Invariance, PTL

(* A rank about to shift, which may hand on its copy of the first slice of *)
(* the next rank, has a current one.                                       *)
THEOREM ShiftsSendCurrentSlices == Spec => []ShiftSendsFreshSlices
<1>1. IInv => ShiftSendsFreshSlices
  <2> SUFFICES ASSUME NEW n, Fine(n), NEW w \in Worker, pc[w] = "ready", Op(w) = "shift"
               PROVE  \A i \in Part : View(NextW(w))[1][permutation[w][i]]
                                        = beads[w][nprocSlice(w) + 1][i]
    BY DEF IInv, ShiftSendsFreshSlices
  <2> DEFINE u == NextW(w)
  <2>1. u \in Worker /\ Prev(u) = w /\ Course /\ Control /\ Order /\ ip[w] \in Turn /\ ip[u] \in Turn
    BY Neighbours DEF Fine, Course, Control
  <2>2. Views[w] = beads[w] /\ Views[u] = View(u)
    BY <2>1 DEF Views, View
  <2>3. ~Refreshing(w)
    <3> SUFFICES ASSUME Refreshing(w) PROVE FALSE
      OBVIOUS
    <3>1. FirstOut(u) /\ Op(u) = "section"
      BY DEF Refreshing
    <3>2. ip[w] <= ip[u]
      BY <2>1, <3>1, FirstOutHere
    <3>3. ip[u] # ip[w]
      BY <3>1 DEF Op
    <3>4. PICK k \in Turn : k = ip[w]
      BY <2>1
    <3>5. ip[u] > k /\ At(k) = "shift"
      BY <2>1, <3>2, <3>3, <3>4, OpIs DEF Turn
    <3>6. Reached(w, k, {"barrier"})
      BY <2>1, <3>5 DEF Order, InShift
    <3> QED
      BY <2>1, <3>4, <3>6 DEF Reached, Turn
  <2>4. Upper(Views, w)
    BY <2>3 DEF Fine, Copies
  <2> QED
    BY <2>2, <2>4 DEF Upper
<1> QED
  BY <1>1, Invariance, PTL


-----------------------------------------------------------------------------
(* The worldlines.  Names of the beads of a slice, label by label, and who *)
(* is joined to whom between two slices of the same labels.                *)
Names(slice) == [i \in Part |-> slice[i].id]
Joined(x, y) == [b \in Part |-> y[InverseOf(x)[b]]]

(* Beads under the same label are joined.                                  *)
LEMMA JoinedIs ==
  ASSUME NEW x \in Perms(Part), NEW y \in Perms(Part)
  PROVE  /\ \A i \in Part : Joined(x, y)[x[i]] = y[i]
         /\ \A i \in Part : x[i] \in Part
         /\ \A b \in Part : \E i \in Part : x[i] = b
<1>1. /\ InverseOf(x) \in Perms(Part)
      /\ \A i \in Part : InverseOf(x)[x[i]] = i
  BY InversePerm
<1>2. \A i \in Part : x[i] \in Part
  BY DEF Perms
<1> QED
  BY <1>1, <1>2 DEF Joined, Perms

(* A link is known by what it joins the beads of one slice to.             *)
LEMMA JoinedBy ==
  ASSUME NEW x \in Perms(Part), NEW y \in Perms(Part), NEW f,
         f = [b \in Part |-> f[b]], \A i \in Part : f[x[i]] = y[i]
  PROVE  f = Joined(x, y)
<1>1. ASSUME NEW b \in Part
      PROVE  f[b] = Joined(x, y)[b]
  <2>1. PICK i \in Part : x[i] = b
    BY JoinedIs
  <2> QED
    BY ZenonT(40), <2>1, JoinedIs
<1>2. Joined(x, y) = [b \in Part |-> Joined(x, y)[b]]
  BY DEF Joined
<1> HIDE DEF Joined
<1> QED
  BY <1>1, <1>2

(* Relabelling both slices changes no link.                                *)
LEMMA JoinedRelabelled ==
  ASSUME NEW x \in Perms(Part), NEW y \in Perms(Part), NEW p \in Perms(Part)
  PROVE  Joined(Prepend(x, p), Prepend(y, p)) = Joined(x, y)
<1>1. /\ Prepend(x, p) \in Perms(Part) /\ Prepend(y, p) \in Perms(Part)
      /\ \A i \in Part : Prepend(x, p)[i] = x[p[i]] /\ Prepend(y, p)[i] = y[p[i]]
  BY PrependPerm
<1>2. Joined(Prepend(x, p), Prepend(y, p)) = [b \in Part |-> Joined(Prepend(x, p), Prepend(y, p))[b]]
  BY DEF Joined
<1>3. ASSUME NEW k \in Part
      PROVE  Joined(Prepend(x, p), Prepend(y, p))[x[k]] = y[k]
  <2>1. PICK i \in Part : p[i] = k
    BY DEF Perms
  <2>2. Joined(Prepend(x, p), Prepend(y, p))[Prepend(x, p)[i]] = Prepend(y, p)[i]
    BY <1>1, JoinedIs
  <2> QED
    BY <1>1, <2>1, <2>2
<1> QED
  BY <1>2, <1>3, JoinedBy

(* Relabelling the later one exchanges the ends.                           *)
LEMMA JoinedAnew ==
  ASSUME NEW x \in Perms(Part), NEW y \in Perms(Part), NEW sp \in Perms(Part)
  PROVE  \A i \in Part : Joined(x, Prepend(y, sp))[x[i]] = Joined(x, y)[x[sp[i]]]
<1>1. /\ Prepend(y, sp) \in Perms(Part)
      /\ \A i \in Part : Prepend(y, sp)[i] = y[sp[i]]
  BY PrependPerm
<1>2. \A i \in Part : sp[i] \in Part
  BY DEF Perms
<1>3. \A i \in Part : Joined(x, Prepend(y, sp))[x[i]] = y[sp[i]]
  BY <1>1, JoinedIs
<1>4. \A i \in Part : Joined(x, y)[x[sp[i]]] = y[sp[i]]
  BY ZenonT(40), <1>2, JoinedIs
<1> QED
  BY <1>3, <1>4

(* The names of a relabelled slice.                                        *)
LEMMA NamesRelabelled ==
  ASSUME NEW s \in SliceType, NEW p \in Perms(Part), Names(s) \in Perms(Part)
  PROVE  /\ Names(Relabel(s, p)) = Prepend(Names(s), p)
         /\ Names(Relabel(s, p)) \in Perms(Part)
<1>1. Relabel(s, p) \in SliceType /\ \A i \in Part : Relabel(s, p)[i] = s[p[i]]
  BY RelabelSlice
<1>4. \A i \in Part : p[i] \in Part
  BY DEF Perms
<1>2. Prepend(Names(s), p) \in Perms(Part) /\ \A i \in Part : Prepend(Names(s), p)[i] = Names(s)[p[i]]
  BY PrependPerm
<1>3. Prepend(Names(s), p) = [i \in Part |-> Names(s)[p[i]]]
  BY <1>2 DEF Perms
<1> QED
  BY <1>1, <1>2, <1>3, <1>4 DEF Names


-----------------------------------------------------------------------------
(* Every rank's share of the slices.                                       *)
LEMMA Shares ==
  /\ NSlice \in Nat /\ NSlice \div NWorker \in Nat /\ NSlice % NWorker \in Nat
  /\ NSlice \div NWorker > 0
  /\ NSlice = NWorker * (NSlice \div NWorker) + (NSlice % NWorker)
<1>1. NSlice \in Nat /\ NWorker \in Nat /\ NWorker > 0
  BY SliceAssumption, WorkerAssumption
<1>2. NSlice = NWorker * (NSlice \div NWorker) + (NSlice % NWorker)
  BY <1>1
<1>3. NSlice \div NWorker \in Int /\ NSlice % NWorker \in 0 .. NWorker - 1
  BY <1>1
<1>4. NSlice \div NWorker > 0
  BY <1>3, MaxShiftAssumption
<1> QED
  BY <1>1, <1>2, <1>3, <1>4

(* Whole multiples.                                                        *)
LEMMA Multiples ==
  ASSUME NEW q \in Nat, NEW v \in Nat, NEW w \in Nat, v < w
  PROVE  q * v + q <= q * w
<1>1. PICK d \in Nat : w = v + 1 + d
  <2>1. w - v - 1 \in Nat /\ w = v + 1 + (w - v - 1)
    OBVIOUS
  <2> QED
    BY <2>1
<1>2. q * w = q * v + q + q * d
  BY <1>1
<1>3. q * d \in Nat /\ q * v \in Nat
  OBVIOUS
<1> QED
  BY <1>2, <1>3

(* The shares follow one another.                                          *)
LEMMA SharesFollow ==
  /\ \A w \in Worker : /\ ifirst(w) \in Int /\ ifirst(w) >= -1
                       /\ nprocSlice(w) \in Nat /\ nprocSlice(w) > 0
                       /\ w # 0 => ifirst(w) >= 0
                       /\ w = NWorker - 1 => ifirst(w) + nprocSlice(w) = NSlice - 1
                       /\ w # NWorker - 1 => ifirst(w) + nprocSlice(w) = ifirst(w + 1)
  /\ \A v, w \in Worker : v < w => ifirst(v) + nprocSlice(v) <= ifirst(w)
  /\ ifirst(0) = -1
<1> DEFINE q == NSlice \div NWorker
           r == NSlice % NWorker
<1>1. q \in Nat /\ r \in Nat /\ q > 0 /\ NSlice = NWorker * q + r
  BY Shares
<1>2. /\ \A w : ifirst(w) = q * w - 1
      /\ \A w : nprocSlice(w) = q + (IF w = NWorker - 1 THEN r ELSE 0)
  BY DEF ifirst, nprocSlice
<1> HIDE DEF q, r
<1>3. NWorker \in Nat /\ NWorker > 1 /\ \A w \in Worker : w \in Nat /\ w <= NWorker - 1
  BY WorkerAssumption DEF Worker
<1>4. ASSUME NEW w \in Worker
      PROVE  /\ ifirst(w) \in Int /\ ifirst(w) >= -1
             /\ nprocSlice(w) \in Nat /\ nprocSlice(w) > 0
             /\ w # 0 => ifirst(w) >= 0
             /\ w = NWorker - 1 => ifirst(w) + nprocSlice(w) = NSlice - 1
             /\ w # NWorker - 1 => ifirst(w) + nprocSlice(w) = ifirst(w + 1)
  <2>1. q * w \in Nat
    BY <1>1, <1>3
  <2>2. nprocSlice(w) \in Nat /\ nprocSlice(w) > 0
    BY <1>1, <1>2, <1>3
  <2>3. w # 0 => q * w > 0
    <3>1. w # 0 => q * 0 + q <= q * w
      BY <1>1, <1>3, Multiples
    <3> QED
      BY <1>1, <2>1, <3>1
  <2>4. w = NWorker - 1 => ifirst(w) + nprocSlice(w) = NSlice - 1
    <3>1. q * (NWorker - 1) = NWorker * q - q /\ NWorker * q \in Nat
      BY <1>1, <1>3
    <3> QED
      BY <1>1, <1>2, <3>1
  <2>5. w # NWorker - 1 => ifirst(w) + nprocSlice(w) = ifirst(w + 1)
    <3>1. q * (w + 1) = q * w + q
      BY <1>1, <1>3
    <3> QED
      BY <1>1, <1>2, <2>1, <3>1
  <2> QED
    BY <1>2, <2>1, <2>2, <2>3, <2>4, <2>5
<1>5. ASSUME NEW v \in Worker, NEW w \in Worker, v < w
      PROVE  ifirst(v) + nprocSlice(v) <= ifirst(w)
  <2>1. v # NWorker - 1 /\ q * v + q <= q * w
    BY <1>1, <1>3, <1>5, Multiples
  <2>2. q * v \in Nat /\ q * w \in Nat
    BY <1>1, <1>3
  <2> QED
    BY <1>1, <1>2, <2>1, <2>2
<1>6. ifirst(0) = -1
  BY <1>1, <1>2
<1> QED
  BY <1>4, <1>5, <1>6

(* Slice g belongs to the rank that owns it.                               *)
LEMMA OwnerIs ==
  ASSUME NEW w \in Worker, NEW j \in 1 .. nprocSlice(w)
  PROVE  ifirst(w) + j \in 0 .. NSlice - 1 /\ Owner(ifirst(w) + j) = w
<1>1. ifirst(w) \in Int /\ nprocSlice(w) \in Nat /\ j \in Nat
  BY SharesFollow
<1> DEFINE g == ifirst(w) + j
<1>2. g - ifirst(w) \in 1 .. nprocSlice(w)
  BY <1>1
<1>3. ASSUME NEW v \in Worker, g - ifirst(v) \in 1 .. nprocSlice(v)
      PROVE  v = w
  <2>1. /\ ifirst(v) \in Int /\ nprocSlice(v) \in Nat /\ v \in Nat /\ w \in Nat
        /\ v < w => ifirst(v) + nprocSlice(v) <= ifirst(w)
        /\ w < v => ifirst(w) + nprocSlice(w) <= ifirst(v)
    BY SharesFollow, RingOfRanks
  <2> QED
    BY <1>1, <1>3, <2>1
<1>4. g \in 0 .. NSlice - 1
  <2>1. /\ NWorker - 1 \in Worker /\ w \in Nat /\ NWorker - 1 \in Nat /\ w <= NWorker - 1
        /\ ifirst(NWorker - 1) + nprocSlice(NWorker - 1) = NSlice - 1
        /\ nprocSlice(NWorker - 1) \in Nat /\ ifirst(NWorker - 1) \in Int
    BY SharesFollow, RingOfRanks DEF Worker
  <2>2. ifirst(w) >= -1 /\ (w < NWorker - 1 => ifirst(w) + nprocSlice(w) <= ifirst(NWorker - 1))
    BY <2>1, SharesFollow
  <2>3. NSlice \in Nat
    BY SliceAssumption
  <2> QED
    BY <1>1, <2>1, <2>2, <2>3
<1>5. Owner(g) = w
  BY <1>2, <1>3 DEF Owner
<1> QED
  BY <1>4, <1>5


(* Every slice is owned by a rank.                                         *)
LEMMA EveryOwned ==
  ASSUME NEW g \in 0 .. NSlice - 1
  PROVE  \E w \in Worker : \E j \in 1 .. nprocSlice(w) : g = ifirst(w) + j
<1>1. NWorker \in Nat /\ NWorker > 1 /\ NSlice \in Nat
  BY WorkerAssumption, SliceAssumption
<1> DEFINE T == {w \in Worker : g <= ifirst(w) + nprocSlice(w)}
<1>2. PICK m \in T : \A w \in T : m <= w
  <2>1. NWorker - 1 \in Worker
    BY <1>1 DEF Worker
  <2>2. NWorker - 1 \in T
    BY <1>1, <2>1, SharesFollow
  <2>3. T \in SUBSET Nat
    BY DEF Worker
  <2> HIDE DEF T
  <2> QED
    BY <2>2, <2>3, LeastOf
<1>3. m \in Worker /\ m \in Nat /\ ifirst(m) \in Int /\ nprocSlice(m) \in Nat
  BY <1>2, SharesFollow DEF Worker
<1>4. g - ifirst(m) >= 1
  <2>1. CASE m = 0
    BY <1>1, <2>1, SharesFollow
  <2>2. CASE m # 0
    <3>1. m - 1 \in Worker /\ m - 1 # NWorker - 1 /\ (m - 1) + 1 = m
      BY <1>1, <1>3, <2>2 DEF Worker
    <3>2. m - 1 \notin T
      BY <1>2, <1>3
    <3>3. ifirst(m - 1) + nprocSlice(m - 1) = ifirst(m)
      BY <3>1, SharesFollow
    <3> QED
      BY <1>1, <1>3, <3>1, <3>2, <3>3
  <2> QED
    BY <2>1, <2>2
<1>5. g - ifirst(m) \in 1 .. nprocSlice(m) /\ g = ifirst(m) + (g - ifirst(m))
  BY <1>1, <1>2, <1>3, <1>4
<1> QED
  BY <1>3, <1>5

(* Of a rank's slices, its copy of the one before its own to its last but  *)
(* one, the places in the path.  Between a slice and the next both are in  *)
(* the rank's array, under the same labels.                                *)
Steps(w) == 0 .. nprocSlice(w) - 1
Place(w, j) == IF w = 0 /\ j = 0 THEN NSlice - 1 ELSE ifirst(w) + j

(* Where the copy of the slice before is.                                  *)
LEMMA PlaceOfCopy ==
  ASSUME NEW w \in Worker
  PROVE  Place(w, 0) = ifirst(Prev(w)) + nprocSlice(Prev(w))
<1>1. NWorker \in Nat /\ NWorker > 1 /\ w \in Nat /\ w <= NWorker - 1
  BY WorkerAssumption DEF Worker
<1>2. CASE w = 0
  <2>1. Prev(w) = NWorker - 1 /\ Prev(w) \in Worker
    BY <1>1, <1>2 DEF Prev, Worker
  <2> QED
    BY <1>2, <2>1, SharesFollow DEF Place
<1>3. CASE w # 0
  <2>1. w - 1 \in Worker /\ w - 1 # NWorker - 1 /\ (w - 1) + 1 = w
    BY <1>1, <1>3 DEF Worker
  <2>2. Prev(w) = w - 1
    <3>1. ((w - 1) + 1) % NWorker = w
      BY <1>1, <1>3
    <3>2. NextW(w - 1) = w
      BY <3>1 DEF NextW
    <3> QED
      BY <2>1, <3>2, Neighbours
  <2>3. ifirst(w) \in Int
    BY SharesFollow
  <2> QED
    BY <1>3, <2>1, <2>2, <2>3, SharesFollow DEF Place
<1> QED
  BY <1>2, <1>3

(* Every slice of the path has such a place.                               *)
LEMMA PlaceExists ==
  ASSUME NEW g \in 0 .. NSlice - 1
  PROVE  \E w \in Worker : \E j \in Steps(w) : g = Place(w, j)
<1>0. PICK w \in Worker : \E j \in 1 .. nprocSlice(w) : g = ifirst(w) + j
  BY EveryOwned
<1>1. PICK j \in 1 .. nprocSlice(w) : g = ifirst(w) + j
  BY <1>0
<1>2. nprocSlice(w) \in Nat
  BY SharesFollow
<1>3. CASE j < nprocSlice(w)
  <2>1. j \in Steps(w) /\ j # 0
    BY <1>2, <1>3 DEF Steps
  <2> QED
    BY <1>1, <2>1 DEF Place
<1>4. CASE j = nprocSlice(w)
  <2>1. NextW(w) \in Worker /\ Prev(NextW(w)) = w
    BY Neighbours
  <2>2. 0 \in Steps(NextW(w))
    <3>1. nprocSlice(NextW(w)) \in Nat /\ nprocSlice(NextW(w)) > 0
      BY <2>1, SharesFollow
    <3> QED
      BY <3>1 DEF Steps
  <2>3. g = Place(NextW(w), 0)
    BY <1>1, <1>4, <2>1, PlaceOfCopy
  <2> QED
    BY <2>1, <2>2, <2>3
<1> QED
  BY <1>2, <1>3, <1>4

(* All arrays hold every bead of the slices they stand for.                *)
Named(a) == \A w \in Worker : \A j \in Stored(w) :
              a[w][j] \in SliceType /\ Names(a[w][j]) \in Perms(Part)
Whole == /\ permutation \in [Worker -> Perms(Part)]
         /\ Named(Views) /\ \A w \in Worker : Lower(Views, w)
Linked(w, j) == Joined(Names(Views[w][j]), Names(Views[w][j + 1]))

(* The label of a bead is found by its name.                               *)
LEMMA LabelFound ==
  ASSUME NEW s \in SliceType, Names(s) \in Perms(Part), NEW i \in Part
  PROVE  /\ Names(s)[i] = s[i].id /\ Names(s)[i] \in Part
         /\ LabelOf(s, Names(s)[i]) = i
<1>1. \A k \in Part : Names(s)[k] = s[k].id
  BY DEF Names
<1>2. /\ \A k \in Part : Names(s)[k] = Names(s)[i] => k = i
      /\ Names(s)[i] \in Part
  BY DEF Perms
<1> HIDE DEF Names
<1>3. LabelOf(s, Names(s)[i]) = i
  BY <1>1, <1>2 DEF LabelOf
<1> QED
  BY <1>1, <1>2, <1>3

(* The link at a slice, from the array of its owner.                       *)
LEMMA LinkOwned ==
  ASSUME Whole, NEW w \in Worker, NEW j \in 1 .. nprocSlice(w), NEW i \in Part
  PROVE  /\ j < nprocSlice(w) =>
              WorldLink[ifirst(w) + j][Names(Views[w][j])[i]] = Names(Views[w][j + 1])[i]
         /\ j = nprocSlice(w) =>
              WorldLink[ifirst(w) + j][Names(Views[w][j])[i]]
                = Names(Views[NextW(w)][1])[permutation[w][i]]
<1> DEFINE g == ifirst(w) + j
<1>1. g \in 0 .. NSlice - 1 /\ Owner(g) = w
  BY OwnerIs
<1>2. g - ifirst(w) = j /\ j \in Stored(w) /\ j + 1 \in Stored(w)
  <2>1. ifirst(w) \in Int /\ nprocSlice(w) \in Nat
    BY SharesFollow
  <2> QED
    BY <2>1 DEF Stored
<1>3. NextW(w) \in Worker /\ 1 \in Stored(NextW(w))
  BY Neighbours, StoredSlices
<1>4. /\ View(w) = Views[w] /\ View(NextW(w)) = Views[NextW(w)]
  BY <1>3 DEF Views
<1>5. WorldLink[g] =
        [b \in Part |->
           LET k == LabelOf(Views[w][j], b)
           IN IF j < nprocSlice(w) THEN Views[w][j + 1][k].id
              ELSE Views[NextW(w)][1][permutation[w][k]].id]
  <2>1. WorldLink[g] =
        [b \in Part |->
           LET k == LabelOf(View(w)[g - ifirst(w)], b)
           IN IF g - ifirst(w) < nprocSlice(w) THEN View(w)[g - ifirst(w) + 1][k].id
              ELSE View(NextW(w))[1][permutation[w][k]].id]
    BY <1>1 DEF WorldLink
  <2> QED
    BY <1>2, <1>4, <2>1
<1> HIDE DEF g
<1>6. /\ Views[w][j] \in SliceType /\ Names(Views[w][j]) \in Perms(Part)
      /\ permutation[w][i] \in Part
  <2>1. Views[w][j] \in SliceType /\ Names(Views[w][j]) \in Perms(Part)
    BY <1>2 DEF Whole, Named
  <2>2. permutation[w] \in Perms(Part)
    BY DEF Whole
  <2>3. permutation[w][i] \in Part
    BY <2>2 DEF Perms
  <2> QED
    BY <2>1, <2>3
<1>7. /\ Names(Views[w][j])[i] \in Part /\ LabelOf(Views[w][j], Names(Views[w][j])[i]) = i
  BY <1>6, LabelFound
<1>8. /\ Names(Views[w][j + 1])[i] = Views[w][j + 1][i].id
      /\ Names(Views[NextW(w)][1])[permutation[w][i]] = Views[NextW(w)][1][permutation[w][i]].id
  BY <1>6 DEF Names
<1>10. j < nprocSlice(w) => WorldLink[g][Names(Views[w][j])[i]] = Views[w][j + 1][i].id
  BY <1>5, <1>7
<1>11. ~(j < nprocSlice(w)) => WorldLink[g][Names(Views[w][j])[i]]
                                 = Views[NextW(w)][1][permutation[w][i]].id
  BY <1>5, <1>7
<1>12. j = nprocSlice(w) => ~(j < nprocSlice(w))
  BY SharesFollow
<1> QED
  BY <1>8, <1>10, <1>11, <1>12 DEF g


(* The links of the path are those between the slices of the ranks'        *)
(* arrays.                                                                 *)
LEMMA LinkAtPlace ==
  ASSUME Whole, NEW w \in Worker, NEW j \in Steps(w)
  PROVE  Place(w, j) \in 0 .. NSlice - 1 /\ WorldLink[Place(w, j)] = Linked(w, j)
<1>1. /\ nprocSlice(w) \in Nat /\ nprocSlice(w) > 0 /\ j \in Nat /\ j < nprocSlice(w)
      /\ j \in Stored(w) /\ j + 1 \in Stored(w)
  BY SharesFollow DEF Steps, Stored
<1> DEFINE x == Names(Views[w][j])
           y == Names(Views[w][j + 1])
<1>2. x \in Perms(Part) /\ y \in Perms(Part)
  BY <1>1 DEF Whole, Named
<1>3. CASE j # 0
  <2>1. Place(w, j) = ifirst(w) + j /\ j \in 1 .. nprocSlice(w)
    BY <1>1, <1>3 DEF Place
  <2>2. Place(w, j) \in 0 .. NSlice - 1
    BY <2>1, OwnerIs
  <2>3. ASSUME NEW i \in Part
        PROVE  WorldLink[Place(w, j)][x[i]] = y[i]
    BY <1>1, <2>1, LinkOwned
  <2>4. WorldLink[Place(w, j)] = [b \in Part |-> WorldLink[Place(w, j)][b]]
    BY <2>2 DEF WorldLink
  <2> HIDE DEF x, y
  <2>5. WorldLink[Place(w, j)] = Joined(x, y)
    BY <1>2, <2>3, <2>4, JoinedBy
  <2> QED
    BY <2>2, <2>5 DEF Linked, x, y
<1>4. CASE j = 0
  <2> DEFINE v == Prev(w)
  <2>1. v \in Worker /\ NextW(v) = w
    BY Neighbours
  <2>2. /\ Place(w, 0) = ifirst(v) + nprocSlice(v)
        /\ nprocSlice(v) \in 1 .. nprocSlice(v) /\ nprocSlice(v) \in Stored(v)
    BY <2>1, PlaceOfCopy, SharesFollow, StoredSlices
  <2>3. Place(w, 0) \in 0 .. NSlice - 1
    BY <2>1, <2>2, OwnerIs
  <2>4. permutation[v] \in Perms(Part)
    BY <2>1 DEF Whole
  <2>5. \A i \in Part : x[permutation[v][i]] = Names(Views[v][nprocSlice(v)])[i]
    <3>1. \A i \in Part : permutation[v][i] \in Part
      BY <2>4 DEF Perms
    <3>2. \A i \in Part : Views[w][0][permutation[v][i]] = Views[v][nprocSlice(v)][i]
      BY <2>1 DEF Whole, Lower
    <3> QED
      BY <1>4, <3>1, <3>2 DEF Names
  <2>6. ASSUME NEW i \in Part
        PROVE  WorldLink[Place(w, 0)][Names(Views[v][nprocSlice(v)])[i]] = y[permutation[v][i]]
    BY <1>4, <2>1, <2>2, LinkOwned
  <2> HIDE DEF x, y, v
  <2>7. ASSUME NEW k \in Part
        PROVE  WorldLink[Place(w, 0)][x[k]] = y[k]
    <3>1. PICK i \in Part : permutation[v][i] = k
      BY <2>4 DEF Perms
    <3> QED
      BY <2>5, <2>6, <3>1
  <2>8. WorldLink[Place(w, 0)] = [b \in Part |-> WorldLink[Place(w, 0)][b]]
    BY <2>3 DEF WorldLink
  <2>9. WorldLink[Place(w, 0)] = Joined(x, y)
    BY <1>2, <2>7, <2>8, JoinedBy
  <2> QED
    BY <1>4, <2>3, <2>9 DEF Linked, x, y
<1> QED
  BY <1>3, <1>4

(* Those links for every rank and slice of its array,                      *)
LEMMA LinksAtPlaces ==
  Whole => \A w \in Worker : \A j \in Steps(w) : WorldLink[Place(w, j)] = Linked(w, j)
BY LinkAtPlace

(* also after a step.                                                      *)
LEMMA LinksAtPlacesNext ==
  (Whole => \A w \in Worker : \A j \in Steps(w) : WorldLink[Place(w, j)] = Linked(w, j))'
BY LinksAtPlaces, PTL

(* Links that do not change.                                               *)
LEMMA SameRing ==
  ASSUME Whole, Whole',
         \A w \in Worker : \A j \in Steps(w) : Linked(w, j)' = Linked(w, j)
  PROVE  WorldLink' = WorldLink
<1>1. ASSUME NEW g \in 0 .. NSlice - 1
      PROVE  WorldLink'[g] = WorldLink[g]
  <2>1. PICK w \in Worker : \E j \in Steps(w) : g = Place(w, j)
    BY PlaceExists
  <2>2. PICK j \in Steps(w) : g = Place(w, j)
    BY <2>1
  <2>3. WorldLink[Place(w, j)] = Linked(w, j)
    BY LinksAtPlaces
  <2>4. WorldLink'[Place(w, j)] = Linked(w, j)'
    BY LinksAtPlacesNext
  <2> QED
    BY <2>2, <2>3, <2>4
<1>2. /\ WorldLink = [g \in 0 .. NSlice - 1 |-> WorldLink[g]]
      /\ WorldLink' = [g \in 0 .. NSlice - 1 |-> WorldLink'[g]]
  BY DEF WorldLink
<1> QED
  BY <1>1, <1>2

(* Links of which one is joined anew.                                      *)
LEMMA CutRing ==
  ASSUME Whole, Whole', NEW w \in Worker, NEW c \in Steps(w), NEW sp \in Exchanges,
         NEW x \in Perms(Part), NEW y \in Perms(Part),
         Linked(w, c) = Joined(x, y), Linked(w, c)' = Joined(x, Prepend(y, sp)),
         \A u \in Worker : \A j \in Steps(u) : u # w \/ j # c => Linked(u, j)' = Linked(u, j)
  PROVE  Ring!Resample
<1>1. ASSUME NEW g \in 0 .. NSlice - 1, g # Place(w, c)
      PROVE  WorldLink'[g] = WorldLink[g]
  <2>1. PICK u \in Worker : \E j \in Steps(u) : g = Place(u, j)
    BY PlaceExists
  <2>2. PICK j \in Steps(u) : g = Place(u, j)
    BY <2>1
  <2>3. WorldLink[Place(u, j)] = Linked(u, j)
    BY LinksAtPlaces
  <2>4. WorldLink'[Place(u, j)] = Linked(u, j)'
    BY LinksAtPlacesNext
  <2>5. Linked(u, j)' = Linked(u, j)
    BY <1>1, <2>2
  <2> QED
    BY <2>2, <2>3, <2>4, <2>5
<1>2. /\ WorldLink[Place(w, c)] = Joined(x, y)
      /\ WorldLink'[Place(w, c)] = Joined(x, Prepend(y, sp))
  BY LinksAtPlaces, LinksAtPlacesNext
<1>3. sp \in Perms(Part)
  BY ExchangesAssumption
<1>4. Ring!Rejoined(WorldLink[Place(w, c)], WorldLink'[Place(w, c)])
  <2>1. \A i \in Part : WorldLink'[Place(w, c)][x[i]] = WorldLink[Place(w, c)][x[sp[i]]]
    BY <1>2, <1>3, JoinedAnew
  <2> HIDE DEF WorldLink
  <2> QED
    BY ZenonT(40), <2>1 DEF Ring!Rejoined, Ring!Perms, Perms
<1> QED
  BY <1>1, <1>4 DEF Ring!Resample, Ring!Slice


(* Remainders of numbers less than twice the divisor.                      *)
LEMMA Remainder ==
  ASSUME NEW N \in Nat, NEW a \in Nat, a < N + N
  PROVE  /\ a < N => a % N = a
         /\ a >= N => a % N = a - N
<1>1. a < N => a % N = a
  OBVIOUS
<1>2. ASSUME a >= N
      PROVE  a % N = a - N
  <2>1. N > 0 /\ a = N * 1 + (a - N) /\ a - N \in 0 .. N - 1
    BY <1>2
  <2> QED
    BY <2>1
<1> QED
  BY <1>1, <1>2

(* A number of slice less than one turn past the last one comes round to   *)
(* the beginning,                                                          *)
LEMMA PastTheEnd ==
  ASSUME NEW a \in Nat, NEW N \in Nat, a >= N, a < N + N, NEW b, b = a
  PROVE  b % N = a - N
BY Remainder

(* one that is not past it stays.                                          *)
LEMMA BeforeTheEnd ==
  ASSUME NEW a \in Nat, NEW N \in Nat, a < N, NEW b, b = a
  PROVE  b % N = a
BY Remainder

(* The place n slices further is in the same array or the next one.        *)
LEMMA PlaceShifted ==
  ASSUME NEW w \in Worker, NEW j \in Steps(w), NEW n \in 1 .. MaxShift
  PROVE  /\ j + n < nprocSlice(w) =>
              j + n \in Steps(w) /\ Place(w, j + n) = (Place(w, j) + n) % NSlice
         /\ j + n >= nprocSlice(w) =>
              /\ j + n - nprocSlice(w) \in Steps(NextW(w))
              /\ Place(NextW(w), j + n - nprocSlice(w)) = (Place(w, j) + n) % NSlice
<1> DEFINE u == NextW(w)
<1>1. /\ NWorker \in Nat /\ NWorker > 1 /\ w \in Nat /\ w <= NWorker - 1 /\ NSlice \in Nat
      /\ NSlice > 0 /\ n \in Nat /\ n > 0 /\ j \in Nat
  <2>1. NSlice > 0
    BY WorkerAssumption, SliceAssumption
  <2> QED
    BY <2>1, WorkerAssumption, SliceAssumption, SlicesOfRanks DEF Worker, Steps
<1>2. /\ u \in Worker
      /\ nprocSlice(w) \in Nat /\ nprocSlice(w) > 0 /\ n <= nprocSlice(w)
      /\ nprocSlice(u) \in Nat /\ nprocSlice(u) > 0 /\ n <= nprocSlice(u)
      /\ j < nprocSlice(w)
      /\ ifirst(w) \in Int /\ ifirst(u) \in Int
  BY Neighbours, SharesFollow, SlicesOfRanks DEF Steps
<1>3. n < NSlice
  <2>1. /\ ifirst(0) = -1 /\ 0 \in Worker /\ NWorker - 1 \in Worker
        /\ ifirst(0) + nprocSlice(0) <= ifirst(NWorker - 1)
        /\ ifirst(NWorker - 1) + nprocSlice(NWorker - 1) = NSlice - 1
        /\ nprocSlice(0) \in Nat /\ nprocSlice(NWorker - 1) \in Nat
        /\ nprocSlice(NWorker - 1) > 0 /\ ifirst(NWorker - 1) \in Int
        /\ n <= nprocSlice(0)
    BY <1>1, SharesFollow, SlicesOfRanks DEF Worker
  <2> QED
    BY <1>1, <2>1
<1>4. w # NWorker - 1 => u = w + 1 /\ u # 0 /\ ifirst(u) = ifirst(w) + nprocSlice(w)
  <2>1. w # NWorker - 1 => (w + 1) % NWorker = w + 1
    BY <1>1
  <2> QED
    BY <1>1, <2>1, SharesFollow DEF NextW
<1>5. w = NWorker - 1 => u = 0 /\ ifirst(w) + nprocSlice(w) = NSlice - 1 /\ ifirst(u) = -1
  <2>1. w = NWorker - 1 => (w + 1) % NWorker = 0
    BY <1>1
  <2> QED
    BY <1>1, <2>1, SharesFollow DEF NextW
<1>6. ifirst(0) = -1 /\ (w # 0 => ifirst(w) >= 0)
  BY SharesFollow
<1>7. ASSUME j + n < nprocSlice(w)
      PROVE  j + n \in Steps(w) /\ Place(w, j + n) = (Place(w, j) + n) % NSlice
  <2>1. j + n \in Steps(w) /\ j + n \in 1 .. nprocSlice(w) /\ j + n # 0
    BY <1>1, <1>2, <1>7 DEF Steps
  <2>2. ifirst(w) + (j + n) \in 0 .. NSlice - 1 /\ Place(w, j + n) = ifirst(w) + (j + n)
    BY <2>1, OwnerIs DEF Place
  <2>3. CASE w = 0 /\ j = 0
    <3>1. Place(w, j) + n = NSlice - 1 + n /\ ifirst(w) + (j + n) = n - 1
      BY <1>1, <1>6, <2>3 DEF Place
    <3> DEFINE a == NSlice - 1 + n
    <3>2. a \in Nat /\ a >= NSlice /\ a < NSlice + NSlice /\ a - NSlice = n - 1
      BY <1>1, <1>3
    <3>3. Place(w, j) + n = a
      BY <3>1
    <3> HIDE DEF a
    <3>4. (Place(w, j) + n) % NSlice = a - NSlice
      BY <1>1, <3>2, <3>3, PastTheEnd
    <3> QED
      BY <2>1, <2>2, <3>1, <3>2, <3>4
  <2>4. CASE ~(w = 0 /\ j = 0)
    <3>1. Place(w, j) + n = ifirst(w) + (j + n)
      BY <1>1, <1>2, <2>4 DEF Place
    <3> DEFINE a == ifirst(w) + (j + n)
    <3>2. a \in Nat /\ a < NSlice
      BY <1>1, <2>2
    <3> HIDE DEF a
    <3>3. (Place(w, j) + n) % NSlice = a
      BY <1>1, <3>1, <3>2, BeforeTheEnd DEF a
    <3> QED
      BY <2>1, <2>2, <3>3 DEF a
  <2> QED
    BY <2>3, <2>4
<1>8. ASSUME j + n >= nprocSlice(w), NEW k, k = j + n - nprocSlice(w)
      PROVE  k \in Steps(u) /\ Place(u, k) = (Place(w, j) + n) % NSlice
  <2>1. k \in Nat /\ k < n /\ k \in Steps(u) /\ k < nprocSlice(u)
    BY <1>1, <1>2, <1>8 DEF Steps
  <2>2. CASE w # NWorker - 1
    <3>1. Place(u, k) = ifirst(w) + j + n
      BY <1>1, <1>2, <1>4, <1>8, <2>1, <2>2 DEF Place
    <3>2. ifirst(w) + j + n \in 0 .. NSlice - 1
      <4>1. CASE k = 0
        <5>1. nprocSlice(w) \in 1 .. nprocSlice(w)
          BY <1>2
        <5>2. ifirst(w) + nprocSlice(w) \in 0 .. NSlice - 1
          BY <5>1, OwnerIs
        <5> QED
          BY <1>1, <1>2, <1>8, <4>1, <5>2
      <4>2. CASE k # 0
        <5>1. k \in 1 .. nprocSlice(u)
          BY <1>2, <2>1, <4>2
        <5>2. ifirst(u) + k \in 0 .. NSlice - 1
          BY <1>2, <5>1, OwnerIs
        <5> QED
          BY <1>1, <1>2, <1>4, <1>8, <2>1, <2>2, <5>2
      <4> QED
        BY <4>1, <4>2
    <3>3. CASE w = 0 /\ j = 0
      <4>1. Place(w, j) + n = NSlice - 1 + n /\ ifirst(w) + j + n = n - 1
        BY <1>1, <1>6, <3>3 DEF Place
      <4> DEFINE a == NSlice - 1 + n
      <4>2. a \in Nat /\ a >= NSlice /\ a < NSlice + NSlice /\ a - NSlice = n - 1
        BY <1>1, <1>3
      <4>3. Place(w, j) + n = a
        BY <4>1
      <4> HIDE DEF a
      <4>4. (Place(w, j) + n) % NSlice = a - NSlice
        BY <1>1, <4>2, <4>3, PastTheEnd
      <4> QED
        BY <2>1, <3>1, <4>1, <4>2, <4>4
    <3>4. CASE ~(w = 0 /\ j = 0)
      <4>1. Place(w, j) + n = ifirst(w) + j + n
        BY <1>1, <1>2, <3>4 DEF Place
      <4> DEFINE a == ifirst(w) + j + n
      <4>2. a \in Nat /\ a < NSlice
        BY <1>1, <3>2
      <4> HIDE DEF a
      <4>3. (Place(w, j) + n) % NSlice = a
        BY <1>1, <4>1, <4>2, BeforeTheEnd DEF a
      <4> QED
        BY <2>1, <3>1, <4>3 DEF a
    <3> QED
      BY <3>3, <3>4
  <2>3. CASE w = NWorker - 1
    <3>1. Place(w, j) + n = NSlice - 1 + k
      BY <1>1, <1>2, <1>5, <1>8, <2>1, <2>3 DEF Place
    <3>2. CASE k = 0
      <4> DEFINE a == NSlice - 1
      <4>1. a \in Nat /\ a < NSlice /\ Place(w, j) + n = a
        BY <1>1, <3>1, <3>2
      <4>2. Place(u, k) = a
        BY <1>5, <2>3, <3>2 DEF Place
      <4> HIDE DEF a
      <4>3. (Place(w, j) + n) % NSlice = a
        BY <1>1, <4>1, BeforeTheEnd
      <4> QED
        BY <2>1, <4>2, <4>3
    <3>3. CASE k # 0
      <4> DEFINE a == NSlice - 1 + k
      <4>1. a \in Nat /\ a >= NSlice /\ a < NSlice + NSlice /\ a - NSlice = -1 + k
        BY <1>1, <1>3, <2>1, <3>3
      <4>2. Place(u, k) = -1 + k
        BY <1>1, <1>5, <2>3, <3>3 DEF Place
      <4>3. Place(w, j) + n = a
        BY <3>1
      <4> HIDE DEF a
      <4>4. (Place(w, j) + n) % NSlice = a - NSlice
        BY <1>1, <4>1, <4>3, PastTheEnd
      <4> QED
        BY <2>1, <4>1, <4>2, <4>4
    <3> QED
      BY <3>2, <3>3
  <2> QED
    BY <2>2, <2>3
<1> QED
  BY <1>7, <1>8

(* The links when every array has moved on by n slices.                    *)
LEMMA RotatedRing ==
  ASSUME Whole, Whole', NEW n \in 1 .. MaxShift, permutation' = permutation,
         \A w \in Worker : \A j \in 0 .. nprocSlice(w) :
           /\ j + n < nprocSlice(w) => Names(Views[w][j])' = Names(Views[w][j + n])
           /\ j + n >= nprocSlice(w) =>
                Names(Views[w][j])'
                  = Prepend(Names(Views[NextW(w)][j + n - nprocSlice(w)]), permutation[w])
  PROVE  \E k \in Ring!Slice : Ring!Rotate(k)
<1>1. n \in Ring!Slice /\ NSlice \in Nat
  <2>1. 0 \in Worker /\ NWorker - 1 \in Worker /\ 0 < NWorker - 1 /\ NWorker \in Nat
    BY RingOfRanks DEF Worker
  <2>2. /\ ifirst(0) = -1
        /\ ifirst(0) + nprocSlice(0) <= ifirst(NWorker - 1)
        /\ ifirst(NWorker - 1) + nprocSlice(NWorker - 1) = NSlice - 1
        /\ nprocSlice(0) \in Nat /\ nprocSlice(NWorker - 1) \in Nat
        /\ nprocSlice(NWorker - 1) > 0 /\ ifirst(NWorker - 1) \in Int
        /\ n <= nprocSlice(0)
    BY <2>1, SharesFollow, SlicesOfRanks
  <2>3. NSlice \in Nat
    BY SliceAssumption
  <2> QED
    BY <2>2, <2>3 DEF Ring!Slice
<1>2. ASSUME NEW w \in Worker, NEW j \in Steps(w)
      PROVE  /\ j + n < nprocSlice(w) => Linked(w, j)' = Linked(w, j + n)
             /\ j + n >= nprocSlice(w) =>
                  Linked(w, j)' = Linked(NextW(w), j + n - nprocSlice(w))
  <2> DEFINE u == NextW(w)
  <2>1. /\ u \in Worker /\ j \in Nat /\ n \in Nat /\ n > 0 /\ nprocSlice(w) \in Nat
        /\ nprocSlice(w) > 0 /\ j < nprocSlice(w) /\ nprocSlice(u) \in Nat
        /\ n <= nprocSlice(u)
        /\ j \in 0 .. nprocSlice(w) /\ j + 1 \in 0 .. nprocSlice(w)
    BY Neighbours, SharesFollow, SlicesOfRanks DEF Steps
  <2>2. Linked(w, j)' = Joined(Names(Views[w][j])', Names(Views[w][j + 1])')
    BY DEF Linked
  <2>3. CASE j + 1 + n < nprocSlice(w)
    <3>1. /\ Names(Views[w][j])' = Names(Views[w][j + n])
          /\ Names(Views[w][j + 1])' = Names(Views[w][j + 1 + n])
      BY <2>1, <2>3
    <3>2. j + 1 + n = j + n + 1 /\ j + n < nprocSlice(w)
      BY <2>1, <2>3
    <3> QED
      BY <2>1, <2>2, <3>1, <3>2 DEF Linked
  <2>4. CASE j + n >= nprocSlice(w)
    <3> DEFINE k == j + n - nprocSlice(w)
               x == Names(Views[u][k])
               y == Names(Views[u][k + 1])
    <3>1. /\ Names(Views[w][j])' = Prepend(x, permutation[w])
          /\ Names(Views[w][j + 1])' = Prepend(y, permutation[w])
      <4>1. j + 1 + n - nprocSlice(w) = k + 1 /\ j + 1 + n >= nprocSlice(w)
        BY <2>1, <2>4
      <4> QED
        BY <2>1, <2>4, <4>1
    <3>2. k \in Stored(u) /\ k + 1 \in Stored(u)
      BY <2>1, <2>4 DEF Stored
    <3>3. x \in Perms(Part) /\ y \in Perms(Part) /\ permutation[w] \in Perms(Part)
      BY <2>1, <3>2 DEF Whole, Named
    <3> HIDE DEF x, y
    <3>4. Linked(w, j)' = Joined(x, y)
      BY <2>2, <3>1, <3>3, JoinedRelabelled
    <3>5. Linked(u, k) = Joined(x, y)
      BY DEF Linked, x, y
    <3> QED
      BY <2>1, <2>4, <3>4, <3>5
  <2>5. CASE j + 1 + n = nprocSlice(w)
    <3>1. /\ Names(Views[w][j])' = Names(Views[w][j + n])
          /\ Names(Views[w][j + 1])' = Prepend(Names(Views[u][0]), permutation[w])
      <4>1. j + n < nprocSlice(w) /\ (j + 1) + n >= nprocSlice(w) /\ (j + 1) + n - nprocSlice(w) = 0
        BY <2>1, <2>5
      <4> QED
        BY <2>1, <4>1
    <3>2. Prepend(Names(Views[u][0]), permutation[w]) = Names(Views[w][nprocSlice(w)])
      <4>1. permutation[w] \in Perms(Part) /\ Lower(Views, w)
        BY DEF Whole
      <4>2. \A i \in Part : permutation[w][i] \in Part
        BY <4>1 DEF Perms
      <4> QED
        BY <4>1, <4>2 DEF Lower, Names, Prepend
    <3>3. j + n + 1 = nprocSlice(w) /\ j + n < nprocSlice(w)
      BY <2>1, <2>5
    <3> QED
      BY <2>1, <2>2, <3>1, <3>2, <3>3 DEF Linked
  <2>6. \/ j + 1 + n < nprocSlice(w) \/ j + n >= nprocSlice(w)
        \/ j + 1 + n = nprocSlice(w)
    <3>1. j \in Nat /\ n \in Nat /\ nprocSlice(w) \in Nat
      BY <2>1
    <3> QED
      BY <3>1
  <2> QED
    BY <2>3, <2>4, <2>5, <2>6
<1>3. ASSUME NEW s \in Ring!Slice
      PROVE  WorldLink'[s] = WorldLink[(s + n) % NSlice]
  <2>1. PICK w \in Worker : \E j \in Steps(w) : s = Place(w, j)
    BY <1>3, PlaceExists DEF Ring!Slice
  <2>2. PICK j \in Steps(w) : s = Place(w, j)
    BY <2>1
  <2>3. WorldLink'[Place(w, j)] = Linked(w, j)'
    BY LinksAtPlacesNext
  <2>4. /\ nprocSlice(w) \in Nat /\ j \in Nat /\ n \in Nat /\ NextW(w) \in Worker
    BY SharesFollow, Neighbours, SlicesOfRanks DEF Steps
  <2>5. CASE j + n < nprocSlice(w)
    <3>1. j + n \in Steps(w) /\ Place(w, j + n) = (s + n) % NSlice
      BY <2>2, <2>5, PlaceShifted
    <3>2. WorldLink[Place(w, j + n)] = Linked(w, j + n)
      BY <3>1, LinksAtPlaces
    <3> QED
      BY <1>2, <2>2, <2>3, <2>5, <3>1, <3>2
  <2>6. CASE j + n >= nprocSlice(w)
    <3> DEFINE k == j + n - nprocSlice(w)
    <3>1. k \in Steps(NextW(w)) /\ Place(NextW(w), k) = (s + n) % NSlice
      BY <2>2, <2>6, PlaceShifted
    <3>2. WorldLink[Place(NextW(w), k)] = Linked(NextW(w), k)
      BY <2>4, <3>1, LinksAtPlaces
    <3> QED
      BY <1>2, <2>2, <2>3, <2>6, <3>1, <3>2
  <2> QED
    BY <2>4, <2>5, <2>6
<1> QED
  BY <1>1, <1>3 DEF Ring!Rotate


-----------------------------------------------------------------------------
(* All arrays hold whole slices.                                           *)
Full == Named(beads) /\ Named(buffer)

(* The arrays a rank stands for are whole when all arrays are and the      *)
(* copies of the slices before are current,                                *)
LEMMA WholeIs ==
  ASSUME NEW n, Fine(n), Full
  PROVE  Whole
<1>1. /\ permutation \in [Worker -> Perms(Part)]
      /\ \A w \in Worker : Lower(Views, w)
  BY DEF Fine, Held, Copies
<1>2. Named(Views)
  <2>1. \A w \in Worker : Views[w] = beads[w] \/ Views[w] = buffer[w]
    BY DEF Views, View
  <2> QED
    BY <2>1 DEF Named, Full
<1> QED
  BY <1>1, <1>2 DEF Whole

(* for every shift under way,                                              *)
LEMMA WholeIsAlways == \A n : Fine(n) /\ Full => Whole
BY WholeIs

(* and after a step.                                                       *)
LEMMA WholeIsNext == (\A n : Fine(n) /\ Full => Whole)'
BY WholeIsAlways, PTL

(* Slices a rank owns and has seen from outside do not change.             *)
LEMMA QuietRing ==
  ASSUME Whole, Whole',
         \A u \in Worker : \A j \in 0 .. nprocSlice(u) : View(u)'[j] = View(u)[j]
  PROVE  WorldLink' = WorldLink
<1>1. ASSUME NEW u \in Worker, NEW j \in Steps(u)
      PROVE  Linked(u, j)' = Linked(u, j)
  <2>1. j \in 0 .. nprocSlice(u) /\ j + 1 \in 0 .. nprocSlice(u)
    BY SharesFollow DEF Steps
  <2>2. /\ Views[u] = View(u) /\ Views'[u] = View(u)'
    BY DEF Views
  <2>3. Views'[u][j] = Views[u][j] /\ Views'[u][j + 1] = Views[u][j + 1]
    BY <2>1, <2>2
  <2> QED
    BY <2>3 DEF Linked
<1> QED
  BY <1>1, SameRing

(* A rank that goes on in its operation, its array as it was.              *)
LEMMA InsideRing ==
  ASSUME NEW n, Fine(n), NEW w \in Worker, NEW call, Onward(w, call),
         beads' = beads, \A u \in Worker : u # w => buffer'[u] = buffer[u],
         Whole, Whole'
  PROVE  WorldLink' = WorldLink
<1>1. \A u \in Worker : View(u)' = View(u)
  BY InsideViews DEF Fine
<1> QED
  BY <1>1, QuietRing

(* A rank that leaves it.                                                  *)
LEMMA LeaveRing ==
  ASSUME NEW n, Fine(n), NEW w \in Worker, Leave(w), pc[w] # "barrier",
         beads' = beads, buffer' = buffer, Whole, Whole'
  PROVE  WorldLink' = WorldLink
<1>1. \A u \in Worker : View(u)' = View(u)
  BY LeaveViews DEF Fine
<1> QED
  BY <1>1, QuietRing

(* Arrays with one slice put in, and with an array put in.                 *)
LEMMA NamedSlice ==
  ASSUME NEW a, Named(a), Arrays(a), NEW w \in Worker, NEW j \in Stored(w),
         NEW s \in SliceType, Names(s) \in Perms(Part), NEW b, PutsSlice(b, a, w, j, s)
  PROVE  Named(b)
<1>1. /\ b[w][j] = s
      /\ \A k \in Stored(w) : k # j => b[w][k] = a[w][k]
      /\ \A u \in Worker : u # w => b[u] = a[u]
  BY SliceChanged
<1> QED
  BY <1>1 DEF Named

(* The same for an array put in.                                           *)
LEMMA NamedArray ==
  ASSUME NEW a, Named(a), Arrays(a), NEW w \in Worker, NEW new \in [Stored(w) -> SliceType],
         \A j \in Stored(w) : Names(new[j]) \in Perms(Part),
         NEW b, Puts(b, a, w, new)
  PROVE  Named(b)
<1>1. b[w] = new /\ \A u \in Worker : u # w => b[u] = a[u]
  BY ArrayChanged
<1> QED
  BY <1>1 DEF Named

(* Receiving the first slice of the next rank.                             *)
LEMMA RecvFirstRing ==
  ASSUME NEW n \in 1 .. MaxShift, Fine(n), Full, NEW w \in Worker, RecvFirst(w)
  PROVE  Full' /\ (Whole' => WorldLink' = WorldLink)
<1> DEFINE u == NextW(w)
           new == Relabel(beads[u][1], permutation[w])
<1>1. /\ Onward(w, "sendLast") /\ Course /\ Held /\ buffer' = buffer
      /\ PutsSlice(beads', beads, w, nprocSlice(w) + 1, new)
  BY FirstReceived DEF RecvFirst, Fine
<1>2. new \in SliceType /\ Names(new) \in Perms(Part)
  <2>1. u \in Worker /\ 1 \in Stored(u)
    BY Neighbours, StoredSlices
  <2>2. /\ beads[u][1] \in SliceType /\ Names(beads[u][1]) \in Perms(Part)
        /\ permutation[w] \in Perms(Part)
    BY <1>1, <2>1 DEF Full, Named, Held
  <2> QED
    BY <2>2, RelabelSlice, NamesRelabelled
<1> HIDE DEF new
<1>3. /\ \A k \in Stored(w) : k # nprocSlice(w) + 1 => beads'[w][k] = beads[w][k]
      /\ \A x \in Worker : x # w => beads'[x] = beads[x]
      /\ nprocSlice(w) + 1 \in Stored(w)
  BY <1>1, <1>2, StoredSlices, SliceChanged DEF Held
<1>4. Named(beads')
  BY <1>1, <1>2, <1>3, NamedSlice DEF Full, Held
<1>5. \A x \in Worker : \A j \in 0 .. nprocSlice(x) : View(x)'[j] = View(x)[j]
  <2>1. /\ View(w) = beads[w] /\ View(w)' = beads'[w]
        /\ \A x \in Worker : x # w => View(x)' = View(x)
    BY <1>1, <1>3, InsideViews
  <2>2. \A j \in 0 .. nprocSlice(w) : j \in Stored(w) /\ j # nprocSlice(w) + 1
    BY SharesFollow DEF Stored
  <2> QED
    BY <1>3, <2>1, <2>2
<1>6. Whole
  BY WholeIs
<1> QED
  BY <1>1, <1>4, <1>5, <1>6, QuietRing DEF Full

(* Sending the last slice.                                                 *)
LEMMA SendLastRing ==
  ASSUME NEW n \in 1 .. MaxShift, Fine(n), Full, NEW w \in Worker, SendLast(w)
  PROVE  Full' /\ (Whole' => WorldLink' = WorldLink)
<1> DEFINE last == beads[NextW(w)][0]
<1>1. /\ Onward(w, "recvLast") /\ Held /\ beads' = beads
      /\ PutsSlice(buffer', buffer, w, 0, last) /\ last \in SliceType
  BY LastSent DEF SendLast, Fine, PutsSlice
<1>2. Names(last) \in Perms(Part)
  BY Neighbours, StoredSlices DEF Full, Named
<1> HIDE DEF last
<1>3. Named(buffer') /\ \A u \in Worker : u # w => buffer'[u] = buffer[u]
  BY <1>1, <1>2, NamedSlice, StoredSlices, SliceChanged DEF Full, Held
<1>4. Whole
  BY WholeIs
<1> QED
  BY <1>1, <1>3, <1>4, InsideRing DEF Full

(* Receiving the slices of a shift.                                        *)
LEMMA RecvShiftRing ==
  ASSUME NEW n \in 1 .. MaxShift, Fine(n), Full, NEW w \in Worker, RecvShift(w)
  PROVE  Full' /\ (Whole' => WorldLink' = WorldLink)
<1> DEFINE u == NextW(w)
           new == Shifted(w, n, Handed(u, n).slice)
<1>1. /\ Onward(w, "barrier") /\ Held /\ beads' = beads
      /\ Puts(buffer', buffer, w, new)
  BY ShiftReceived DEF RecvShift, Fine
<1>2. /\ new \in [Stored(w) -> SliceType]
      /\ \A j \in Stored(w) :
           /\ j + n < nprocSlice(w) => new[j] = beads[w][j + n]
           /\ j + n >= nprocSlice(w) =>
                new[j] = Relabel(beads[u][j + n - nprocSlice(w)], permutation[w])
  BY <1>1, ShiftedSlices
<1> HIDE DEF new
<1>3. ASSUME NEW j \in Stored(w)
      PROVE  Names(new[j]) \in Perms(Part)
  <2>1. /\ u \in Worker /\ nprocSlice(w) \in Nat /\ nprocSlice(u) \in Nat
        /\ n \in Nat /\ n <= nprocSlice(u) /\ j \in Nat /\ j <= nprocSlice(w) + 1
    BY Neighbours, SharesFollow, SlicesOfRanks DEF Stored
  <2>2. CASE j + n < nprocSlice(w)
    <3>1. j + n \in Stored(w)
      BY <2>1, <2>2 DEF Stored
    <3> QED
      BY <1>2, <2>2, <3>1 DEF Full, Named
  <2>3. CASE j + n >= nprocSlice(w)
    <3> DEFINE k == j + n - nprocSlice(w)
    <3>1. k \in Stored(u)
      BY <2>1, <2>3 DEF Stored
    <3>2. /\ beads[u][k] \in SliceType /\ Names(beads[u][k]) \in Perms(Part)
          /\ permutation[w] \in Perms(Part)
      BY <1>1, <2>1, <3>1 DEF Full, Named, Held
    <3>3. new[j] = Relabel(beads[u][k], permutation[w])
      BY <1>2, <2>3
    <3> QED
      BY <3>2, <3>3, NamesRelabelled
  <2> QED
    BY <2>1, <2>2, <2>3
<1>4. Named(buffer') /\ \A x \in Worker : x # w => buffer'[x] = buffer[x]
  BY <1>1, <1>2, <1>3, NamedArray, ArrayChanged DEF Full, Held
<1>5. Whole
  BY WholeIs
<1> QED
  BY <1>1, <1>4, <1>5, InsideRing DEF Full


-----------------------------------------------------------------------------
(* The names in a section put back: those before its last slice as they    *)
(* were, the others under the new labels.                                  *)
LEMMA PutNames ==
  ASSUME Held, Full, NEW w \in Worker, NEW m \in SectionSizes, NEW f \in FirstSlices(w, m),
         NEW sp \in Perms(Part), NEW put,
         put = PutBeads(beads[w], w, f, Sampled(GetBeads(w, f, m), m, sp), m, sp)
  PROVE  \A j \in Stored(w) :
           /\ j >= f + m - 1 => Names(put[j]) = Prepend(Names(beads[w][j]), sp)
           /\ j < f + m - 1 => Names(put[j]) = Names(beads[w][j])
           /\ Names(put[j]) \in Perms(Part)
<1>1. ASSUME NEW j \in Stored(w)
      PROVE  /\ j >= f + m - 1 => put[j] = Relabel(beads[w][j], sp)
             /\ j < f + m - 1 => \A i \in Part : put[j][i].id = beads[w][j][i].id
             /\ beads[w][j] \in SliceType /\ Names(beads[w][j]) \in Perms(Part)
  BY PutSlices DEF Full, Named
<1>2. \A j \in Stored(w) : j < f + m - 1 \/ j >= f + m - 1
  BY SectionAssumption, SharesFollow DEF Stored, FirstSlices
<1>3. ASSUME NEW j \in Stored(w), j >= f + m - 1
      PROVE  /\ Names(put[j]) = Prepend(Names(beads[w][j]), sp)
             /\ Names(put[j]) \in Perms(Part)
  BY <1>1, <1>3, NamesRelabelled
<1>4. ASSUME NEW j \in Stored(w), j < f + m - 1
      PROVE  Names(put[j]) = Names(beads[w][j])
  BY <1>1, <1>4 DEF Names
<1> QED
  BY <1>1, <1>2, <1>3, <1>4

(* A section joins the beads anew before its last slice and nowhere else.  *)
LEMMA SectionRunRing ==
  ASSUME NEW n \in 1 .. MaxShift, Fine(n), Full, NEW w \in Worker,
         NEW m \in SectionSizes, NEW sp \in Exchanges, NEW f \in FirstSlices(w, m),
         SectionRun(w, f, m, sp)
  PROVE  Full' /\ (Whole' => Ring!Resample)
<1>1. PICK put : /\ put = PutBeads(beads[w], w, f, Sampled(GetBeads(w, f, m), m, sp), m, sp)
                 /\ Puts(beads', beads, w, put)
  BY DEF SectionRun, Puts
<1>2. /\ Course /\ Held /\ Onward(w, "recvFirst") /\ buffer' = buffer /\ sp \in Perms(Part)
  BY ExchangesAssumption DEF SectionRun, Begins, Fine, Onward, Inside
<1>3. put \in [Stored(w) -> SliceType]
  BY <1>1, <1>2, PutSlices
<1>4. \A j \in Stored(w) :
        /\ j >= f + m - 1 => Names(put[j]) = Prepend(Names(beads[w][j]), sp)
        /\ j < f + m - 1 => Names(put[j]) = Names(beads[w][j])
        /\ Names(put[j]) \in Perms(Part)
  BY <1>1, <1>2, PutNames
<1>5. beads'[w] = put /\ \A u \in Worker : u # w => beads'[u] = beads[u]
  BY <1>1, <1>2, <1>3, ArrayChanged DEF Held
<1>6. Named(beads')
  BY <1>1, <1>2, <1>3, <1>4, NamedArray DEF Full, Held
<1>7. /\ Views[w] = beads[w] /\ Views'[w] = put
      /\ \A u \in Worker : u # w => Views'[u] = Views[u]
  BY <1>2, <1>5, InsideViews DEF Views
<1>8. Whole
  BY WholeIs
<1>9. ASSUME Whole'
      PROVE  Ring!Resample
  <2> DEFINE c == f + m - 2
             x == Names(beads[w][c])
             y == Names(beads[w][c + 1])
  <2>1. /\ m \in Nat /\ m > 1 /\ f \in Nat /\ nprocSlice(w) \in Nat
        /\ f + m - 1 <= nprocSlice(w)
    BY SectionAssumption, SharesFollow DEF FirstSlices
  <2>2. c \in Steps(w) /\ c \in Nat /\ c + 1 = f + m - 1
    BY <2>1 DEF Steps
  <2>3. \A j \in Steps(w) : j \in Stored(w) /\ j + 1 \in Stored(w) /\ j \in Nat
    BY <2>1 DEF Steps, Stored
  <2>4. x \in Perms(Part) /\ y \in Perms(Part)
    BY <2>2, <2>3 DEF Full, Named
  <2>5. Linked(w, c) = Joined(x, y)
    BY <1>7 DEF Linked
  <2> HIDE DEF c
  <2>6. Linked(w, c)' = Joined(x, Prepend(y, sp))
    <3>1. Names(put[c]) = x /\ Names(put[c + 1]) = Prepend(y, sp)
      BY <1>4, <2>1, <2>2, <2>3
    <3> QED
      BY <1>7, <3>1 DEF Linked
  <2>7. ASSUME NEW j \in Steps(w), j # c
        PROVE  Linked(w, j)' = Linked(w, j)
    <3>1. Linked(w, j) = Joined(Names(beads[w][j]), Names(beads[w][j + 1]))
      BY <1>7 DEF Linked
    <3>2. Linked(w, j)' = Joined(Names(put[j]), Names(put[j + 1]))
      BY <1>7 DEF Linked
    <3>3. CASE j < c
      <4>1. j < f + m - 1 /\ j + 1 < f + m - 1
        BY <2>1, <2>2, <2>3, <3>3
      <4> QED
        BY <1>4, <2>3, <3>1, <3>2, <4>1
    <3>4. CASE j > c
      <4>1. j >= f + m - 1 /\ j + 1 >= f + m - 1
        BY <2>1, <2>2, <2>3, <3>4
      <4>2. /\ Names(put[j]) = Prepend(Names(beads[w][j]), sp)
            /\ Names(put[j + 1]) = Prepend(Names(beads[w][j + 1]), sp)
        BY <1>4, <2>3, <4>1
      <4>3. Names(beads[w][j]) \in Perms(Part) /\ Names(beads[w][j + 1]) \in Perms(Part)
        BY <2>3 DEF Full, Named
      <4> QED
        BY <1>2, <3>1, <3>2, <4>2, <4>3, JoinedRelabelled
    <3>5. j < c \/ j > c
      BY <2>2, <2>3, <2>7
    <3> QED
      BY <3>3, <3>4, <3>5
  <2>8. ASSUME NEW u \in Worker, u # w, NEW j \in Steps(u)
        PROVE  Linked(u, j)' = Linked(u, j)
    BY <1>7, <2>8 DEF Linked
  <2> HIDE DEF x, y
  <2> QED
    BY <1>8, <1>9, <2>2, <2>4, <2>5, <2>6, <2>7, <2>8, CutRing
<1> QED
  BY <1>2, <1>6, <1>9 DEF Full


(* The first rank out of a barrier turns the ring by as many slices as all *)
(* have shifted; the others change nothing.                                *)
LEMMA LeaveBarrierRing ==
  ASSUME NEW n \in 1 .. MaxShift, Fine(n), Full, NEW w \in Worker, LeaveBarrier(w)
  PROVE  Full' /\ (Whole' => WorldLink' = WorldLink \/ \E k \in Ring!Slice : Ring!Rotate(k))
<1>1. /\ Course /\ Held /\ Buffers(n)
      /\ pc[w] = "barrier" /\ BarrierOpens(w) /\ Advance(w) /\ nextSrc' = nextSrc
      /\ Puts(beads', beads, w, buffer[w]) /\ Puts(buffer', buffer, w, beads[w])
      /\ permutation' = permutation
  BY DEF LeaveBarrier, Fine, Delivery, Puts
<1>2. beads[w] \in [Stored(w) -> SliceType] /\ buffer[w] \in [Stored(w) -> SliceType]
  BY <1>1 DEF Held, Arrays
<1>3. beads'[w] = buffer[w] /\ \A u \in Worker : u # w => beads'[u] = beads[u]
  BY <1>1, <1>2, ArrayChanged DEF Held
<1>4. \A u \in Worker : u # w => buffer'[u] = buffer[u]
  BY <1>1, <1>2, ArrayChanged DEF Held
<1>5. Leave(w)
  BY <1>1 DEF Leave, Finished
<1>6. Named(beads')
  BY <1>1, <1>2, NamedArray DEF Full, Held, Named
<1>7. Named(buffer')
  BY <1>1, <1>2, NamedArray DEF Full, Held, Named
<1>8. Whole
  BY WholeIs
<1>9. ASSUME Whole', Past(w)
      PROVE  WorldLink' = WorldLink
  <2>1. \A u \in Worker : View(u)' = View(u)
    BY <1>1, <1>3, <1>4, <1>5, <1>9, BarrierViews
  <2> QED
    BY <1>8, <1>9, <2>1, QuietRing
<1>10. ASSUME Whole', ~Past(w)
       PROVE  \E k \in Ring!Slice : Ring!Rotate(k)
  <2>1. \A u \in Worker : /\ pc[u] = "barrier" /\ ~Past(u)
                          /\ View(u) = beads[u] /\ View(u)' = buffer[u]
    BY <1>1, <1>3, <1>4, <1>5, <1>10, BarrierViews
  <2>2. \A u \in Worker : Assembled(u, n) /\ Views[u] = beads[u] /\ Views'[u] = buffer[u]
    BY <1>1, <2>1 DEF Buffers, Views
  <2>3. ASSUME NEW u \in Worker, NEW j \in 0 .. nprocSlice(u)
        PROVE  /\ j + n < nprocSlice(u) => Names(Views[u][j])' = Names(Views[u][j + n])
               /\ j + n >= nprocSlice(u) =>
                    Names(Views[u][j])'
                      = Prepend(Names(Views[NextW(u)][j + n - nprocSlice(u)]), permutation[u])
    <3> DEFINE P == nprocSlice(u)
               v == NextW(u)
               k == j + n - P
    <3>1. /\ v \in Worker /\ P \in Nat /\ nprocSlice(v) \in Nat
          /\ n \in Nat /\ n <= nprocSlice(v) /\ j \in Nat /\ j <= P
      BY Neighbours, SharesFollow, SlicesOfRanks
    <3>2. j \in Stored(u)
      BY <3>1 DEF Stored
    <3>3. /\ j + n < P => buffer[u][j] = beads[u][j + n]
          /\ j + n >= P => buffer[u][j] = Relabel(beads[v][k], permutation[u])
      BY <1>1, <2>2, <3>2, ShiftedSlices DEF Assembled
    <3>4. Views'[u][j] = buffer[u][j]
      BY <2>2
    <3>5. ASSUME j + n < P
          PROVE  Names(Views[u][j])' = Names(Views[u][j + n])
      BY <2>2, <3>3, <3>4, <3>5
    <3>6. ASSUME j + n >= P
          PROVE  Names(Views[u][j])' = Prepend(Names(Views[v][k]), permutation[u])
      <4>1. k \in Stored(v)
        BY <3>1, <3>6 DEF Stored
      <4>2. /\ beads[v][k] \in SliceType /\ Names(beads[v][k]) \in Perms(Part)
            /\ permutation[u] \in Perms(Part)
        BY <1>1, <3>1, <4>1 DEF Full, Named, Held
      <4>3. Views'[u][j] = Relabel(beads[v][k], permutation[u])
        BY <3>3, <3>4, <3>6
      <4>4. Names(Relabel(beads[v][k], permutation[u])) = Prepend(Names(beads[v][k]), permutation[u])
        BY <4>2, NamesRelabelled
      <4>5. Names(Views'[u][j]) = Prepend(Names(Views[v][k]), permutation[u])
        BY <2>2, <3>1, <4>3, <4>4
      <4> QED
        BY <4>5 DEF Names
    <3> QED
      BY <3>5, <3>6
  <2> QED
    BY <1>1, <1>8, <1>10, <2>3, RotatedRing
<1> QED
  BY <1>6, <1>7, <1>9, <1>10 DEF Full

(* The other steps: what a rank sends, hears, or receives into its copies  *)
(* changes no link.                                                        *)
LEMMA SectionRejectedRing ==
  ASSUME NEW n \in 1 .. MaxShift, Fine(n), Full, NEW w \in Worker, SectionRejected(w)
  PROVE  Full' /\ (Whole' => WorldLink' = WorldLink)
<1>1. Onward(w, "recvFirst") /\ beads' = beads /\ buffer' = buffer
  BY DEF SectionRejected, Begins, pathVars, Onward, Inside
<1> QED
  BY <1>1, WholeIs, InsideRing DEF Full, Named, Names

(* A rank begins to shift: it sends its first slices,                      *)
LEMMA BeginShiftRing ==
  ASSUME NEW n \in 1 .. MaxShift, Fine(n), Full, NEW w \in Worker,
         Onward(w, "recvShift"), NEW ishift, BeginShift(w, ishift)
  PROVE  Full' /\ (Whole' => WorldLink' = WorldLink)
<1>1. beads' = beads /\ buffer' = buffer
  BY DEF BeginShift, pathVars
<1> QED
  BY <1>1, WholeIs, InsideRing DEF Full, Named, Names

(* after hearing of the shift                                              *)
LEMMA ShiftOtherRing ==
  ASSUME NEW n \in 1 .. MaxShift, Fine(n), Full, NEW w \in Worker, ShiftOther(w)
  PROVE  Full' /\ (Whole' => WorldLink' = WorldLink)
<1>1. /\ Course /\ Bcasts(n) /\ w \in Others
      /\ pc[w] = "ready" /\ Op(w) = "shift" /\ Block(w, "recvShift")
      /\ nextSrc' = nextSrc /\ bcast[w] # <<>> /\ bcast' = Listened(w)
      /\ BeginShift(w, Head(bcast[w]))
  BY DEF ShiftOther, Begins, BeginShift, Fine, Delivery, Others
<1>2. Begun(0, ip[w])
  BY <1>1, ListenShift
<1>3. Onward(w, "recvShift")
  BY <1>1, <1>2 DEF Onward, Inside
<1> QED
  BY <1>1, <1>3, BeginShiftRing

(* or drawing it.                                                          *)
LEMMA ShiftRootRing ==
  ASSUME NEW n \in 1 .. MaxShift, Fine(n), Full, NEW ishift, ShiftRoot(ishift)
  PROVE  Full' /\ (Whole' => WorldLink' = WorldLink)
<1>1. Onward(0, "recvShift") /\ 0 \in Worker /\ BeginShift(0, ishift)
  BY RingOfRanks DEF ShiftRoot, Begins, BeginShift, Onward, Inside
<1> QED
  BY <1>1, BeginShiftRing

(* A rank begins to gather the global permutation.                         *)
LEMMA GlobalRing ==
  ASSUME NEW n \in 1 .. MaxShift, Fine(n), Full, NEW w \in Worker,
         SendLocal(w) \/ (w = 0 /\ GatherBegin)
  PROVE  Full' /\ (Whole' => WorldLink' = WorldLink)
<1>1. beads' = beads /\ buffer' = buffer
  BY DEF SendLocal, GatherBegin
<1>2. \E call : Onward(w, call)
  <2>1. CASE SendLocal(w)
    <3>1. Onward(w, "recvGlobal")
      BY <2>1 DEF SendLocal, Begins, Onward, Inside
    <3> QED
      BY <3>1
  <2>2. CASE w = 0 /\ GatherBegin
    <3>1. Onward(w, "gather")
      BY <2>2 DEF GatherBegin, Begins, Onward, Inside
    <3> QED
      BY <3>1
  <2> QED
    BY <2>1, <2>2
<1> QED
  BY <1>1, <1>2, WholeIs, InsideRing DEF Full, Named, Names

(* A rank receives into its copy of the last slice of the rank before it   *)
(* what is there.                                                          *)
LEMMA RecvLastRing ==
  ASSUME NEW n \in 1 .. MaxShift, Fine(n), Full, NEW w \in Worker, RecvLast(w)
  PROVE  Full' /\ (Whole' => WorldLink' = WorldLink)
<1>1. beads' = beads /\ buffer' = buffer /\ Leave(w) /\ pc[w] # "barrier"
  BY LastReceived DEF RecvLast
<1> QED
  BY <1>1, WholeIs, LeaveRing DEF Full, Named, Names

(* A rank hears the global permutation.                                    *)
LEMMA RecvGlobalRing ==
  ASSUME NEW n \in 1 .. MaxShift, Fine(n), Full, NEW w \in Worker, RecvGlobal(w)
  PROVE  Full' /\ (Whole' => WorldLink' = WorldLink)
<1>1. /\ Course /\ Held /\ Bcasts(n) /\ Control
      /\ pc[w] = "recvGlobal" /\ bcast[w] # <<>> /\ Advance(w)
      /\ beads' = beads /\ buffer' = buffer
      /\ nextSrc' = nextSrc /\ bcast' = Listened(w)
  BY DEF RecvGlobal, Fine, Delivery, Course
<1>2. w \in Others
  BY <1>1 DEF Control, Others
<1>3. GlobalOut(w)
  BY <1>1, <1>2, ListenGlobal
<1>4. Leave(w)
  BY <1>1, <1>3 DEF Leave, Finished
<1> QED
  BY <1>1, <1>4, WholeIs, LeaveRing DEF Full, Named, Names

(* Rank 0 appends a permutation.                                           *)
LEMMA GatherRing ==
  ASSUME NEW n \in 1 .. MaxShift, Fine(n), Full, Gather
  PROVE  Full' /\ (Whole' => WorldLink' = WorldLink)
<1>1. /\ Course /\ Queues(n) /\ 0 \in Worker /\ nextSrc \in Worker
      /\ pc[0] = "gather" /\ chan[nextSrc][0][1] # <<>>
      /\ beads' = beads /\ buffer' = buffer
      /\ nextSrc = NWorker - 1 => nextSrc' = 0 /\ Advance(0)
      /\ nextSrc # NWorker - 1 => nextSrc' = nextSrc + 1 /\ UNCHANGED progressVars
  BY RingOfRanks DEF Gather, Arrived, Fine, Delivery, Course, Control
<1>2. PermOut(nextSrc)
  BY PermutationReceived
<1>3. ASSUME Whole'
      PROVE  WorldLink' = WorldLink
  <2>1. CASE nextSrc = NWorker - 1
    <3>1. Leave(0) /\ pc[0] # "barrier"
      BY <1>1, <1>2, <2>1 DEF Leave, Finished
    <3> QED
      BY <1>1, <1>3, <3>1, WholeIs, LeaveRing
  <2>2. CASE nextSrc # NWorker - 1
    <3>1. \A u \in Worker : View(u)' = View(u)
      BY <1>1, <2>2 DEF View, progressVars
    <3> QED
      BY <1>3, <3>1, WholeIs, QuietRing
  <2> QED
    BY <2>1, <2>2
<1> QED
  BY <1>1, <1>3 DEF Full, Named, Names

(* Nothing happens.                                                        *)
LEMMA UnchangedRing ==
  ASSUME NEW n, Fine(n), Full, UNCHANGED vars
  PROVE  Full' /\ (Whole' => WorldLink' = WorldLink)
<1>1. beads' = beads /\ buffer' = buffer /\ pc' = pc /\ ip' = ip
  BY DEF vars, pathVars, rankVars, progressVars
<1>2. \A u \in Worker : View(u)' = View(u)
  BY <1>1 DEF View
<1> QED
  BY <1>1, <1>2, WholeIs, QuietRing DEF Full, Named, Names


(* At the beginning every bead is joined to the one of the same name.      *)
LEMMA InitRing ==
  ASSUME Init
  PROVE  1 \in 1 .. MaxShift /\ Fine(1) /\ Full /\ Ring!RingInit
<1>1. Fine(1) /\ 1 \in 1 .. MaxShift
  BY InitFine
<1>2. Names(NoSlice) = Identity(Part) /\ NoSlice \in SliceType
  BY DEF Names, NoSlice, Identity, SliceType, Bead
<1>3. Identity(Part) \in Perms(Part)
  BY IdentityPerm
<1>4. /\ \A w \in Worker : \A j \in Stored(w) : beads[w][j] = NoSlice
      /\ \A w \in Worker : \A j \in Stored(w) : buffer[w][j] = NoSlice
      /\ \A w \in Worker : View(w) = beads[w]
  BY DEF Init, RanksInit, View
<1>5. Full
  BY <1>2, <1>3, <1>4 DEF Full, Named
<1>6. Whole
  BY <1>1, <1>5, WholeIs
<1>7. Joined(Identity(Part), Identity(Part)) = Identity(Part)
  <2>1. \A i \in Part : Identity(Part)[Identity(Part)[i]] = Identity(Part)[i]
    BY DEF Identity
  <2>2. Identity(Part) = [b \in Part |-> Identity(Part)[b]]
    BY DEF Identity
  <2> QED
    BY <1>3, <2>1, <2>2, JoinedBy
<1>8. ASSUME NEW g \in 0 .. NSlice - 1
      PROVE  WorldLink[g] = Identity(Part)
  <2>1. PICK w \in Worker : \E j \in Steps(w) : g = Place(w, j)
    BY PlaceExists
  <2>2. PICK j \in Steps(w) : g = Place(w, j)
    BY <2>1
  <2>3. j \in Stored(w) /\ j + 1 \in Stored(w)
    BY SharesFollow DEF Steps, Stored
  <2>4. Linked(w, j) = Identity(Part)
    BY <1>2, <1>4, <1>7, <2>3 DEF Linked, Views
  <2> QED
    BY <1>6, <2>2, <2>4, LinksAtPlaces
<1>9. WorldLink = [g \in 0 .. NSlice - 1 |-> WorldLink[g]]
  BY DEF WorldLink
<1>10. Ring!RingInit
  <2>1. Ring!Identity(Part) = Identity(Part)
    BY DEF Ring!Identity, Identity
  <2> HIDE DEF WorldLink
  <2> QED
    BY <1>8, <1>9, <2>1 DEF Ring!RingInit, Ring!Slice
<1> QED
  BY <1>1, <1>5, <1>10

(* A step of the ranks is a step of the ring, or none.                     *)
LEMMA StepRing ==
  ASSUME NEW n \in 1 .. MaxShift, Fine(n), Full, [Next]_vars
  PROVE  Full' /\ (Whole' => Ring!Resample \/ (\E k \in Ring!Slice : Ring!Rotate(k))
                               \/ WorldLink' = WorldLink)
<1> DEFINE Goal == Full' /\ (Whole' => Ring!Resample \/ (\E k \in Ring!Slice : Ring!Rotate(k))
                                         \/ WorldLink' = WorldLink)
<1>1. ASSUME NEW w \in Worker, Step(w)
      PROVE  Goal
  <2>1. ASSUME NEW m \in SectionSizes, NEW sp \in Exchanges, NEW f \in FirstSlices(w, m),
               SectionRun(w, f, m, sp)
        PROVE  Goal
    BY <2>1, SectionRunRing
  <2>2. CASE SectionRejected(w)
    BY <2>2, SectionRejectedRing
  <2>3. CASE RecvFirst(w)
    BY <2>3, RecvFirstRing
  <2>4. CASE SendLast(w)
    BY <2>4, SendLastRing
  <2>5. CASE RecvLast(w)
    BY <2>5, RecvLastRing
  <2>6. ASSUME NEW ishift \in 1 .. MaxShift, ShiftRoot(ishift)
        PROVE  Goal
    BY <2>6, ShiftRootRing
  <2>7. CASE ShiftOther(w)
    BY <2>7, ShiftOtherRing
  <2>8. CASE RecvShift(w)
    BY <2>8, RecvShiftRing
  <2>9. CASE LeaveBarrier(w)
    BY <2>9, LeaveBarrierRing
  <2>10. CASE Gather
    BY <2>10, GatherRing
  <2>11. CASE SendLocal(w) \/ (w = 0 /\ GatherBegin)
    BY <2>11, GlobalRing
  <2>12. CASE RecvGlobal(w)
    BY <2>12, RecvGlobalRing
  <2> HIDE DEF Goal
  <2> QED
    BY <1>1, <2>1, <2>2, <2>3, <2>4, <2>5, <2>6, <2>7, <2>8, <2>9, <2>10,
       <2>11, <2>12 DEF Step
<1>2. CASE UNCHANGED vars
  BY <1>2, UnchangedRing
<1>3. (\E w \in Worker : Step(w)) \/ UNCHANGED vars
  BY DEF Next
<1>4. CASE \E w \in Worker : Step(w)
  <2>1. PICK w \in Worker : Step(w)
    BY <1>4
  <2> QED
    BY <1>1, <2>1
<1> QED
  BY <1>2, <1>3, <1>4

RingInv == \E n \in 1 .. MaxShift : Fine(n) /\ Full

(* The ranks begin as the ring does,                                       *)
LEMMA InitRefines == Init => RingInv /\ Ring!RingInit
BY InitRing DEF RingInv

(* and every step of theirs keeps the invariant and is a step of the ring  *)
(* or none.                                                                *)
LEMMA NextRefines == RingInv /\ [Next]_vars => RingInv' /\ [Ring!RingNext]_WorldLink
<1> SUFFICES ASSUME NEW n \in 1 .. MaxShift, Fine(n), Full, [Next]_vars
             PROVE  RingInv' /\ (Ring!RingNext \/ WorldLink' = WorldLink)
  BY DEF RingInv
<1>1. Full' /\ (Whole' => Ring!Resample \/ (\E k \in Ring!Slice : Ring!Rotate(k))
                            \/ WorldLink' = WorldLink)
  BY StepRing
<1>2. PICK k \in 1 .. MaxShift : Fine(k)'
  BY NextFine DEF IInv
<1>3. Whole'
  BY <1>1, <1>2, WholeIsNext
<1>4. RingInv'
  BY <1>1, <1>2 DEF RingInv
<1> QED
  BY <1>1, <1>3, <1>4 DEF Ring!RingNext

(* Ranks that sample, relabel, exchange and shift at their own pace        *)
(* (base/ParallelPaths.cc) do to the worldlines only what the abstract     *)
(* ring allows: putBeads re-joins beads across one pair of slices, shift   *)
(* turns the ring at the moment the first rank leaves its barrier, and     *)
(* setBuffers, getGlobalPermutation and the other ranks leaving the        *)
(* barrier change no worldline.                                            *)
THEOREM Refinement == Spec => ImplementsRing
<1>1. Spec => Ring!RingInit /\ [][Ring!RingNext]_WorldLink
  BY InitRefines, NextRefines, PTL DEF Spec
<1> QED
  BY <1>1 DEF ImplementsRing, Ring!RingSpec


-----------------------------------------------------------------------------
(* The permutations of the ranks before the k-th composed in ring order,   *)
(* one by one.                                                             *)
Composed(G, k) ==
  /\ G \in [0 .. k - 1 -> Perms(Part)] /\ G[0] = permutation[0]
  /\ \A v \in 1 .. k - 1 : G[v] = PermAppend(G[v - 1], permutation[v])
Gathering ==
  pc[0] = "gather" => \E G : Composed(G, nextSrc) /\ globalPermutation[0] = G[nextSrc - 1]

(* One more of them.                                                       *)
LEMMA ComposedNext ==
  ASSUME NEW k \in Nat \ {0}, NEW G, Composed(G, k), NEW p \in Perms(Part),
         permutation[k] = p
  PROVE  \E H : Composed(H, k + 1) /\ H[k] = PermAppend(G[k - 1], p)
<1> DEFINE H == [v \in 0 .. k |-> IF v = k THEN PermAppend(G[k - 1], p) ELSE G[v]]
<1>1. PermAppend(G[k - 1], p) \in Perms(Part)
  BY AppendPerm DEF Composed
<1>2. k + 1 - 1 = k /\ k \in 0 .. k
  OBVIOUS
<1>3. /\ H \in [0 .. k -> Perms(Part)] /\ H[k] = PermAppend(G[k - 1], p)
      /\ \A v \in 0 .. k - 1 : H[v] = G[v]
  BY <1>1 DEF Composed
<1> HIDE DEF H
<1>4. H[0] = permutation[0]
  BY <1>3 DEF Composed
<1>5. ASSUME NEW v \in 1 .. k
      PROVE  H[v] = PermAppend(H[v - 1], permutation[v])
  <2>1. CASE v = k
    BY <1>3, <2>1
  <2>2. CASE v # k
    <3>1. v \in 1 .. k - 1 /\ v \in 0 .. k - 1 /\ v - 1 \in 0 .. k - 1
      BY <2>2
    <3> QED
      BY <1>3, <3>1 DEF Composed
  <2> QED
    BY <2>1, <2>2
<1> QED
  BY <1>2, <1>3, <1>4, <1>5 DEF Composed

(* Until all are composed, they stay as they are.                          *)
LEMMA ComposedStays ==
  ASSUME NEW k \in Nat \ {0}, NEW G, Composed(G, k),
         \A v \in 0 .. k - 1 : permutation'[v] = permutation[v]
  PROVE  Composed(G, k)'
BY DEF Composed

(* A rank whose permutation has been composed does not change it.          *)
LEMMA GatheredStay ==
  ASSUME Course, pc[0] = "gather", NEW v \in 0 .. nextSrc - 1
  PROVE  v \in Worker /\ (pc[v] = "ready" => Op(v) # "section")
<1>1. /\ Control /\ nextSrc \in Worker /\ nextSrc # 0 /\ 0 \in Worker
      /\ NWorker \in Nat /\ ip \in [Worker -> Turn]
      /\ Gathered
  BY RingOfRanks, WorkerAssumption DEF Course, Order, Control
<1>2. v \in Worker
  BY <1>1 DEF Worker
<1>3. ASSUME v # 0
      PROVE  Begun(v, ip[0])
  <2>1. v \in 1 .. nextSrc - 1
    BY <1>1, <1>3 DEF Worker
  <2> QED
    BY <1>1, <2>1 DEF Gathered
<1>4. ip[v] <= ip[0]
  <2>1. At(ip[0]) = "global" /\ ip[0] \in Turn
    BY <1>1, OpIs DEF Control
  <2>2. InGlobal(ip[0])
    BY <2>1 DEF Course, Order
  <2>3. ip[0] \in Nat /\ ip[v] \in Nat
    BY <1>1, <1>2 DEF Turn
  <2>4. ip[v] > ip[0] => ip[0] > ip[0]
    BY <1>2, <2>2 DEF InGlobal
  <2> QED
    BY <2>3, <2>4
<1>5. ip[0] \in Nat /\ ip[v] \in Nat
  BY <1>1, <1>2 DEF Turn
<1> QED
  BY <1>2, <1>3, <1>4, <1>5 DEF Begun


(* While rank 0 gathers, no step but its own changes what it has gathered. *)
Aside == /\ pc[0] = "gather" =>
              /\ pc'[0] = "gather" /\ nextSrc' = nextSrc
              /\ globalPermutation'[0] = globalPermutation[0]
              /\ \A v \in 0 .. nextSrc - 1 : permutation'[v] = permutation[v]
         /\ pc[0] # "gather" => pc'[0] # "gather"

(* A step of the others, or of rank 0 outside of the gathering, leaves it  *)
(* alone                                                                   *)
LEMMA AsideCalls ==
  ASSUME Course, NEW w \in Worker, pc[w] # "gather", NEW call, call # "gather",
         Block(w, call) \/ Advance(w),
         pc[0] = "gather" => /\ nextSrc' = nextSrc
                             /\ globalPermutation'[0] = globalPermutation[0]
                             /\ \A v \in 0 .. nextSrc - 1 : permutation'[v] = permutation[v]
  PROVE  Aside
<1>1. pc \in [Worker -> Places \cup {"ready"}] /\ 0 \in Worker
  BY RingOfRanks DEF Course, Control
<1>2. /\ \A v \in Worker : v # w => pc'[v] = pc[v]
      /\ pc'[w] = call \/ pc'[w] = "ready"
  BY <1>1 DEF Block, Advance
<1> QED
  BY <1>1, <1>2 DEF Aside

(* when it is none of rank 0's two.                                        *)
LEMMA AsideStep ==
  ASSUME Course, Held, NEW w \in Worker, Step(w)
  PROVE  (w = 0 /\ GatherBegin) \/ (w = 0 /\ Gather) \/ Aside
<1>1. /\ 0 \in Worker /\ globalPermutation \in [Worker -> Perms(Part)]
      /\ permutation \in [Worker -> Perms(Part)]
      /\ pc[0] # "recvGlobal"
  BY RingOfRanks DEF Held, Course, Control
<1>2. ASSUME NEW m \in SectionSizes, NEW sp \in Exchanges, NEW f \in FirstSlices(w, m),
             SectionRun(w, f, m, sp)
      PROVE  Aside
  <2>1. /\ pc[w] = "ready" /\ Op(w) = "section" /\ Block(w, "recvFirst")
        /\ permutation' = [permutation EXCEPT ![w] = Prepend(@, sp)]
        /\ globalPermutation' = globalPermutation /\ nextSrc' = nextSrc
    BY <1>2 DEF SectionRun, Begins
  <2>2. ASSUME pc[0] = "gather", NEW v \in 0 .. nextSrc - 1
        PROVE  permutation'[v] = permutation[v]
    <3>1. v \in Worker /\ v # w
      BY <2>1, <2>2, GatheredStay
    <3> QED
      BY <1>1, <2>1, <3>1
  <2> QED
    BY <2>1, <2>2, AsideCalls
<1>3. CASE SectionRejected(w)
  <2>1. pc[w] = "ready" /\ Block(w, "recvFirst") /\ UNCHANGED <<permutation, globalPermutation, nextSrc>>
    BY <1>3 DEF SectionRejected, Begins, pathVars
  <2> QED
    BY <2>1, AsideCalls
<1>4. CASE RecvFirst(w)
  <2>1. pc[w] = "recvFirst" /\ Block(w, "sendLast") /\ UNCHANGED <<permutation, globalPermutation, nextSrc>>
    BY <1>4 DEF RecvFirst
  <2> QED
    BY <2>1, AsideCalls
<1>5. CASE SendLast(w)
  <2>1. pc[w] = "sendLast" /\ Block(w, "recvLast") /\ UNCHANGED <<permutation, globalPermutation, nextSrc>>
    BY <1>5 DEF SendLast
  <2> QED
    BY <2>1, AsideCalls
<1>6. CASE RecvLast(w)
  <2>1. pc[w] = "recvLast" /\ Advance(w) /\ UNCHANGED <<permutation, globalPermutation, nextSrc>>
    BY <1>6 DEF RecvLast
  <2> QED
    BY <2>1, AsideCalls
<1>7. ASSUME NEW ishift, ShiftRoot(ishift), w = 0
      PROVE  Aside
  <2>1. pc[w] = "ready" /\ Block(w, "recvShift") /\ UNCHANGED <<permutation, globalPermutation, nextSrc>>
    BY <1>7 DEF ShiftRoot, BeginShift, Begins, pathVars
  <2> QED
    BY <2>1, AsideCalls
<1>8. CASE ShiftOther(w)
  <2>1. pc[w] = "ready" /\ Block(w, "recvShift") /\ UNCHANGED <<permutation, globalPermutation, nextSrc>>
    BY <1>8 DEF ShiftOther, BeginShift, Begins, pathVars
  <2> QED
    BY <2>1, AsideCalls
<1>9. CASE RecvShift(w)
  <2>1. pc[w] = "recvShift" /\ Block(w, "barrier") /\ UNCHANGED <<permutation, globalPermutation, nextSrc>>
    BY <1>9 DEF RecvShift
  <2> QED
    BY <2>1, AsideCalls
<1>10. CASE LeaveBarrier(w)
  <2>1. pc[w] = "barrier" /\ Advance(w) /\ UNCHANGED <<permutation, globalPermutation, nextSrc>>
    BY <1>10 DEF LeaveBarrier
  <2> QED
    BY <2>1, AsideCalls
<1>11. CASE SendLocal(w)
  <2>1. /\ w # 0 /\ pc[w] = "ready" /\ Block(w, "recvGlobal") /\ UNCHANGED <<permutation, nextSrc>>
        /\ globalPermutation' = [globalPermutation EXCEPT ![w] = permutation[w]]
    BY <1>11 DEF SendLocal, Begins
  <2>2. globalPermutation'[0] = globalPermutation[0]
    BY <1>1, <2>1
  <2> QED
    BY <2>1, <2>2, AsideCalls
<1>12. CASE RecvGlobal(w)
  <2>1. /\ w # 0 /\ pc[w] = "recvGlobal" /\ Advance(w) /\ UNCHANGED <<permutation, nextSrc>>
        /\ globalPermutation' = [globalPermutation EXCEPT ![w] = Head(bcast[w])]
    BY <1>1, <1>12 DEF RecvGlobal
  <2>2. globalPermutation'[0] = globalPermutation[0]
    BY <1>1, <2>1
  <2> QED
    BY <2>1, <2>2, AsideCalls
<1> QED
  BY <1>2, <1>3, <1>4, <1>5, <1>6, <1>7, <1>8, <1>9, <1>10, <1>11, <1>12 DEF Step

(* What rank 0 has gathered is composed in the order of the ranks.         *)
LEMMA GatheringNext ==
  ASSUME NEW n \in 1 .. MaxShift, Fine(n), Gathering, [Next]_vars
  PROVE  Gathering'
<1>1. /\ Course /\ Held /\ nextSrc \in Nat /\ (pc[0] = "gather" => nextSrc # 0)
      /\ 0 \in Worker /\ globalPermutation \in [Worker -> Perms(Part)]
      /\ permutation \in [Worker -> Perms(Part)] /\ pc \in [Worker -> Places \cup {"ready"}]
  BY RingOfRanks DEF Fine, Course, Control, Worker, Held
<1>2. ASSUME Aside
      PROVE  Gathering'
  <2> SUFFICES ASSUME pc'[0] = "gather"
               PROVE  (\E G : Composed(G, nextSrc) /\ globalPermutation[0] = G[nextSrc - 1])'
    BY DEF Gathering
  <2>1. /\ pc[0] = "gather" /\ nextSrc' = nextSrc
        /\ globalPermutation'[0] = globalPermutation[0]
        /\ \A v \in 0 .. nextSrc - 1 : permutation'[v] = permutation[v]
    BY <1>2 DEF Aside
  <2>2. PICK G : Composed(G, nextSrc) /\ globalPermutation[0] = G[nextSrc - 1]
    BY <2>1 DEF Gathering
  <2>3. PICK k \in Nat \ {0} : k = nextSrc
    BY <1>1, <2>1
  <2>4. Composed(G, k)'
    BY <2>1, <2>2, <2>3, ComposedStays
  <2> QED
    BY <2>1, <2>2, <2>3, <2>4
<1>3. CASE GatherBegin
  <2>1. nextSrc' = 1 /\ globalPermutation'[0] = permutation[0] /\ permutation' = permutation
    BY <1>1, <1>3 DEF GatherBegin
  <2> DEFINE G == [v \in 0 .. 0 |-> permutation[0]]
  <2>2. Composed(G, 1) /\ G[0] = permutation[0]
    BY <1>1 DEF Composed
  <2>3. Composed(G, 1)'
    BY <2>1, <2>2, ComposedStays
  <2> QED
    BY <2>1, <2>2, <2>3 DEF Gathering
<1>4. CASE Gather
  <2>1. /\ Received(nextSrc, 0, 1) = permutation[nextSrc] /\ nextSrc \in Others
    BY <1>4, PermutationReceived
  <2>2. PICK k \in Nat \ {0} : k = nextSrc
    BY <1>1, <1>4 DEF Gather
  <2>3. /\ pc[0] = "gather" /\ permutation' = permutation
        /\ globalPermutation'[0] = PermAppend(globalPermutation[0], permutation[k])
        /\ k = NWorker - 1 => Advance(0)
        /\ k # NWorker - 1 => nextSrc' = k + 1
    BY <1>1, <1>4, <2>1, <2>2 DEF Gather, AppendRank
  <2> SUFFICES ASSUME pc'[0] = "gather"
               PROVE  (\E G : Composed(G, nextSrc) /\ globalPermutation[0] = G[nextSrc - 1])'
    BY DEF Gathering
  <2>4. nextSrc' = k + 1
    BY <1>1, <2>3 DEF Advance
  <2>5. PICK G : Composed(G, k) /\ globalPermutation[0] = G[k - 1]
    BY <2>2, <2>3 DEF Gathering
  <2>6. permutation[k] \in Perms(Part)
    BY <1>1, <2>1, <2>2 DEF Others
  <2>7. PICK H : Composed(H, k + 1) /\ H[k] = PermAppend(G[k - 1], permutation[k])
    BY <2>5, <2>6, ComposedNext
  <2>8. k + 1 \in Nat \ {0} /\ k + 1 - 1 = k
    BY <2>2
  <2>9. Composed(H, k + 1)'
    BY <2>3, <2>7, <2>8, ComposedStays
  <2> QED
    BY <2>3, <2>4, <2>5, <2>7, <2>8, <2>9
<1>5. CASE UNCHANGED vars
  <2>1. Aside
    BY <1>5 DEF vars, pathVars, rankVars, progressVars, Aside
  <2> QED
    BY <1>2, <2>1
<1>6. (\E w \in Worker : Step(w)) \/ UNCHANGED vars
  BY DEF Next
<1>7. CASE \E w \in Worker : Step(w)
  <2>1. PICK w \in Worker : Step(w)
    BY <1>7
  <2>2. (w = 0 /\ GatherBegin) \/ (w = 0 /\ Gather) \/ Aside
    BY <1>1, <2>1, AsideStep
  <2> QED
    BY <1>2, <1>3, <1>4, <2>2
<1> QED
  BY <1>5, <1>6, <1>7


(* Following the links from one slice to the next gives one sequence of    *)
(* slices of beads only.                                                   *)
Follows(t, first) ==
  t = [g \in 0 .. NSlice |-> IF g = 0 THEN first
                             ELSE [i \in Part |-> WorldLink[g - 1][t[g - 1][i]]]]

(* There is one sequence at most.                                          *)
LEMMA FollowsOnce ==
  ASSUME NEW t, NEW s, NEW first, Follows(t, first), Follows(s, first)
  PROVE  t = s
<1>0. NSlice \in Nat
  BY SharesFollow, Shares
<1>1. /\ t = [g \in 0 .. NSlice |-> t[g]] /\ s = [g \in 0 .. NSlice |-> s[g]]
  BY DEF Follows
<1>2. /\ t[0] = first /\ s[0] = first
      /\ \A g \in 0 .. NSlice : g # 0 =>
           /\ t[g] = [i \in Part |-> WorldLink[g - 1][t[g - 1][i]]]
           /\ s[g] = [i \in Part |-> WorldLink[g - 1][s[g - 1][i]]]
  BY SMTT(30), <1>0 DEF Follows
<1> HIDE DEF WorldLink
<1> DEFINE T == {g \in 0 .. NSlice : t[g] # s[g]}
<1>3. T = {}
  <2> SUFFICES ASSUME T # {} PROVE FALSE
    OBVIOUS
  <2>1. T \in SUBSET Nat
    BY <1>0
  <2>2. PICK m \in T : \A g \in T : m <= g
    BY <2>1, LeastOf
  <2>3. m \in 0 .. NSlice /\ m # 0 /\ m - 1 \in 0 .. NSlice /\ t[m] # s[m]
    BY <1>0, <1>2, <2>2
  <2>4. m - 1 \notin T
    BY <2>1, <2>2, <2>3
  <2>5. t[m - 1] = s[m - 1]
    BY <2>3, <2>4
  <2>6. t[m] = [i \in Part |-> WorldLink[m - 1][t[m - 1][i]]]
    BY <1>2, <2>3
  <2>7. s[m] = [i \in Part |-> WorldLink[m - 1][s[m - 1][i]]]
    BY <1>2, <2>3
  <2> QED
    BY <2>3, <2>5, <2>6, <2>7
<1>4. \A g \in 0 .. NSlice : t[g] = s[g]
  BY <1>3
<1> QED
  BY <1>1, <1>4

(* So any sequence that follows them is the one.                           *)
LEMMA AroundIs ==
  ASSUME NEW t, Follows(t, [i \in Part |-> View(0)[1][i].id])
  PROVE  Around = [i \in Part |-> LabelOf(View(0)[1], t[NSlice][i])]
<1> DEFINE first == [i \in Part |-> View(0)[1][i].id]
           Sol(s) == s = [g \in 0 .. NSlice |->
                            IF g = 0 THEN first
                            ELSE [i \in Part |-> WorldLink[g - 1][s[g - 1][i]]]]
           c == CHOOSE s : Sol(s)
<1> HIDE DEF WorldLink
<1>1. Sol(t)
  BY DEF Follows
<1>2. Sol(c)
  BY <1>1
<1>3. c = t
  <2>1. Follows(t, first) /\ Follows(c, first)
    BY <1>1, <1>2 DEF Follows
  <2> HIDE DEF c, first
  <2> QED
    BY <2>1, FollowsOnce
<1>4. Around = [i \in Part |-> LabelOf(View(0)[1], c[NSlice][i])]
  BY DEF Around
<1> QED
  BY <1>3, <1>4


(* The slices met on the way, by the labels the ranks store: those of rank *)
(* w through the permutations of the ranks before it.                      *)
Before(G, w) == IF w = 0 THEN Identity(Part) ELSE G[w - 1]
Met(G, w, j) == [i \in Part |-> Names(Views[w][j])[Before(G, w)[i]]]
Way(G) == [g \in 0 .. NSlice |->
             IF g = NSlice THEN [i \in Part |-> Names(Views[0][1])[G[NWorker - 1][i]]]
             ELSE Met(G, Owner(g), g - ifirst(Owner(g)))]

(* One more rank.                                                          *)
LEMMA BeforePerm ==
  ASSUME NEW G, Composed(G, NWorker), permutation \in [Worker -> Perms(Part)], NEW w \in Worker
  PROVE  /\ Before(G, w) \in Perms(Part) /\ G[w] \in Perms(Part)
         /\ G[w] = PermAppend(Before(G, w), permutation[w])
         /\ \A i \in Part : G[w][i] = permutation[w][Before(G, w)[i]] /\ Before(G, w)[i] \in Part
<1>1. NWorker \in Nat /\ NWorker > 1 /\ w \in Nat /\ w <= NWorker - 1
  BY WorkerAssumption DEF Worker
<1>2. w \in 0 .. NWorker - 1 /\ (w # 0 => w \in 1 .. NWorker - 1 /\ w - 1 \in 0 .. NWorker - 1)
  BY <1>1
<1>3. G \in [0 .. NWorker - 1 -> Perms(Part)] /\ permutation[w] \in Perms(Part)
  BY DEF Composed
<1>4. Before(G, w) \in Perms(Part) /\ G[w] \in Perms(Part)
  BY <1>2, <1>3, IdentityPerm DEF Before
<1>5. G[w] = PermAppend(Before(G, w), permutation[w])
  <2>1. CASE w = 0
    <3>1. PermAppend(Identity(Part), permutation[0]) = permutation[0]
      <4>1. permutation[0] \in [Part -> Part]
        BY <1>3, <2>1 DEF Perms
      <4>2. PermAppend(Identity(Part), permutation[0]) = [i \in Part |-> permutation[0][i]]
        BY DEF PermAppend, Identity
      <4> QED
        BY <4>1, <4>2
    <3> QED
      BY <2>1, <3>1 DEF Before, Composed
  <2>2. CASE w # 0
    BY <1>2, <2>2 DEF Before, Composed
  <2> QED
    BY <2>1, <2>2
<1>6. \A i \in Part : PermAppend(Before(G, w), permutation[w])[i] = permutation[w][Before(G, w)[i]]
  BY <1>3, <1>4, AppendPerm
<1>7. \A i \in Part : Before(G, w)[i] \in Part
  BY <1>4 DEF Perms
<1> QED
  BY <1>4, <1>5, <1>6, <1>7

(* The ranks in ring order.                                                *)
LEMMA NextIs ==
  ASSUME NEW w \in Worker
  PROVE  /\ w # NWorker - 1 => w + 1 \in Worker /\ NextW(w) = w + 1
         /\ w = NWorker - 1 => NextW(w) = 0
<1>1. NWorker \in Nat /\ NWorker > 1 /\ w \in 0 .. NWorker - 1
  BY WorkerAssumption DEF Worker
<1>2. NextW(w) = IF w = NWorker - 1 THEN 0 ELSE w + 1
  BY <1>1 DEF NextW
<1> QED
  BY <1>1, <1>2 DEF Worker

(* The way at the slices of one rank.                                      *)
LEMMA WayAt ==
  ASSUME NEW G, NEW w \in Worker, NEW j \in 1 .. nprocSlice(w)
  PROVE  Way(G)[ifirst(w) + j] = Met(G, w, j)
<1>1. /\ ifirst(w) + j \in 0 .. NSlice - 1 /\ Owner(ifirst(w) + j) = w
      /\ ifirst(w) \in Int /\ j \in Nat /\ NSlice \in Nat
  BY OwnerIs, SharesFollow, Shares
<1>2. ifirst(w) + j - ifirst(w) = j /\ ifirst(w) + j # NSlice /\ ifirst(w) + j \in 0 .. NSlice
  BY <1>1
<1> QED
  BY <1>1, <1>2 DEF Way

(* They are the ones the links lead to.                                    *)
LEMMA WayFollows ==
  ASSUME Whole, NEW G, Composed(G, NWorker)
  PROVE  Follows(Way(G), [i \in Part |-> View(0)[1][i].id])
<1> DEFINE first == [i \in Part |-> View(0)[1][i].id]
           t == Way(G)
<1>1. /\ NSlice \in Nat /\ NSlice > 0 /\ 0 \in Worker /\ ifirst(0) = -1
      /\ 1 \in 1 .. nprocSlice(0)
  BY RingOfRanks, SharesFollow, Shares, SliceAssumption, WorkerAssumption
<1>2. t[0] = first
  <2>1. t[ifirst(0) + 1] = Met(G, 0, 1) /\ ifirst(0) + 1 = 0
    BY <1>1, WayAt
  <2>2. Met(G, 0, 1) = first
    BY <1>1 DEF Met, Before, Identity, Names, Views
  <2> QED
    BY <2>1, <2>2
<1>3. ASSUME NEW g \in 0 .. NSlice, g # 0
      PROVE  t[g] = [i \in Part |-> WorldLink[g - 1][t[g - 1][i]]]
  <2>1. g - 1 \in 0 .. NSlice - 1
    BY <1>1, <1>3
  <2>2. PICK w \in Worker : \E j \in 1 .. nprocSlice(w) : g - 1 = ifirst(w) + j
    BY <2>1, EveryOwned
  <2>3. PICK j \in 1 .. nprocSlice(w) : g - 1 = ifirst(w) + j
    BY <2>2
  <2>4. /\ ifirst(w) \in Int /\ nprocSlice(w) \in Nat /\ j \in Nat
        /\ NWorker \in Nat /\ w \in Nat /\ w <= NWorker - 1 /\ g \in Nat
        /\ permutation \in [Worker -> Perms(Part)]
    BY SharesFollow, WorkerAssumption DEF Worker, Whole
  <2>5. t[g - 1] = Met(G, w, j)
    BY <2>3, WayAt
  <2>6. \A i \in Part : Before(G, w)[i] \in Part /\ G[w][i] = permutation[w][Before(G, w)[i]]
    BY <2>4, BeforePerm
  <2>7. ASSUME NEW i \in Part
        PROVE  /\ j < nprocSlice(w) =>
                    WorldLink[g - 1][t[g - 1][i]] = Names(Views[w][j + 1])[Before(G, w)[i]]
               /\ j = nprocSlice(w) =>
                    WorldLink[g - 1][t[g - 1][i]] = Names(Views[NextW(w)][1])[G[w][i]]
    <3>1. t[g - 1][i] = Names(Views[w][j])[Before(G, w)[i]]
      BY <2>5 DEF Met
    <3>2. PICK b \in Part : b = Before(G, w)[i]
      BY <2>6
    <3>3. /\ j < nprocSlice(w) =>
               WorldLink[ifirst(w) + j][Names(Views[w][j])[b]] = Names(Views[w][j + 1])[b]
          /\ j = nprocSlice(w) =>
               WorldLink[ifirst(w) + j][Names(Views[w][j])[b]]
                 = Names(Views[NextW(w)][1])[permutation[w][b]]
      BY LinkOwned
    <3> HIDE DEF t, WorldLink
    <3>4. G[w][i] = permutation[w][b] /\ t[g - 1][i] = Names(Views[w][j])[b]
      BY <2>6, <3>1, <3>2
    <3> QED
      BY <2>3, <3>2, <3>3, <3>4
  <2>8. CASE j < nprocSlice(w)
    <3>1. g = ifirst(w) + (j + 1) /\ j + 1 \in 1 .. nprocSlice(w)
      BY <2>3, <2>4, <2>8
    <3>2. t[g] = Met(G, w, j + 1)
      BY <3>1, WayAt
    <3> HIDE DEF t, WorldLink
    <3> QED
      BY <2>7, <2>8, <3>2 DEF Met
  <2>9. CASE j = nprocSlice(w) /\ w # NWorker - 1
    <3>1. /\ w + 1 \in Worker /\ NextW(w) = w + 1 /\ g = ifirst(w + 1) + 1
          /\ 1 \in 1 .. nprocSlice(w + 1)
      <4>1. w + 1 \in Worker /\ NextW(w) = w + 1
        BY <2>9, NextIs
      <4>2. ifirst(w) + nprocSlice(w) = ifirst(w + 1)
        BY <2>9, SharesFollow
      <4>3. nprocSlice(w + 1) \in Nat /\ nprocSlice(w + 1) > 0 /\ ifirst(w + 1) \in Int
        BY <4>1, SharesFollow
      <4> QED
        BY <2>3, <2>4, <2>9, <4>1, <4>2, <4>3
    <3>2. t[g] = Met(G, w + 1, 1)
      BY <3>1, WayAt
    <3>3. Before(G, w + 1) = G[w]
      BY <2>4 DEF Before
    <3> HIDE DEF t, WorldLink
    <3> QED
      BY <2>7, <2>9, <3>1, <3>2, <3>3 DEF Met
  <2>10. CASE j = nprocSlice(w) /\ w = NWorker - 1
    <3>1. g = NSlice /\ NextW(w) = 0
      <4>1. ifirst(w) + nprocSlice(w) = NSlice - 1
        BY <2>10, SharesFollow
      <4>2. NextW(w) = 0
        BY <2>10, NextIs
      <4> QED
        BY <1>1, <2>3, <2>4, <2>10, <4>1, <4>2
    <3>2. t[g] = [i \in Part |-> Names(Views[0][1])[G[w][i]]]
      BY <1>1, <2>10, <3>1 DEF Way
    <3> HIDE DEF t, WorldLink
    <3> QED
      BY <2>7, <2>10, <3>1, <3>2
  <2>11. j < nprocSlice(w) \/ j = nprocSlice(w)
    BY <2>4
  <2> QED
    BY <2>8, <2>9, <2>10, <2>11
<1>4. t = [g \in 0 .. NSlice |-> t[g]]
  BY DEF Way
<1> HIDE DEF t, first, WorldLink
<1>5. t = [g \in 0 .. NSlice |-> IF g = 0 THEN first
                                 ELSE [i \in Part |-> WorldLink[g - 1][t[g - 1][i]]]]
  BY <1>2, <1>3, <1>4
<1>6. Follows(t, first)
  BY <1>5 DEF Follows
<1> QED
  BY <1>6 DEF t, first

(* Once around, a bead is back under the label the permutations of all the *)
(* ranks give it.                                                          *)
LEMMA AroundComposed ==
  ASSUME Whole, NEW G, Composed(G, NWorker)
  PROVE  Around = G[NWorker - 1]
<1>1. /\ NWorker \in Nat /\ NWorker > 1 /\ NWorker - 1 \in Worker /\ 0 \in Worker /\ NSlice \in Nat
      /\ 1 \in Stored(0)
  BY WorkerAssumption, RingOfRanks, SharesFollow, Shares, StoredSlices DEF Worker
<1>2. G[NWorker - 1] \in Perms(Part)
  BY <1>1, BeforePerm DEF Whole
<1>3. View(0)[1] \in SliceType /\ Names(View(0)[1]) \in Perms(Part)
  BY <1>1 DEF Whole, Named, Views
<1>4. Around = [i \in Part |-> LabelOf(View(0)[1], Way(G)[NSlice][i])]
  BY WayFollows, AroundIs
<1>5. Way(G)[NSlice] = [i \in Part |-> Names(View(0)[1])[G[NWorker - 1][i]]]
  BY <1>1 DEF Way, Views
<1>6. ASSUME NEW i \in Part
      PROVE  LabelOf(View(0)[1], Way(G)[NSlice][i]) = G[NWorker - 1][i]
  <2>1. G[NWorker - 1][i] \in Part
    BY <1>2 DEF Perms
  <2>2. LabelOf(View(0)[1], Names(View(0)[1])[G[NWorker - 1][i]]) = G[NWorker - 1][i]
    BY <1>3, <2>1, LabelFound
  <2> QED
    BY <1>5, <2>2
<1>7. G[NWorker - 1] = [i \in Part |-> G[NWorker - 1][i]]
  BY <1>2 DEF Perms
<1> HIDE DEF Around
<1> QED
  BY <1>4, <1>6, <1>7

(* At the last permutation rank 0 has all of them.                         *)
LEMMA GatherLast ==
  ASSUME NEW n \in 1 .. MaxShift, Fine(n), Full, Gathering, [Next]_vars,
         pc[0] = "gather", pc'[0] = "ready"
  PROVE  globalPermutation'[0] = Around
<1>1. /\ Course /\ Held /\ 0 \in Worker /\ globalPermutation \in [Worker -> Perms(Part)]
      /\ permutation \in [Worker -> Perms(Part)] /\ NWorker \in Nat /\ NWorker > 1
      /\ nextSrc \in Nat /\ nextSrc # 0
  BY RingOfRanks, WorkerAssumption DEF Fine, Held, Course, Control, Worker
<1>2. Gather
  <2>1. ~Aside /\ ~GatherBegin
    BY DEF Aside, GatherBegin, Begins
  <2>2. PICK w \in Worker : Step(w)
    <3>1. ~UNCHANGED vars
      BY DEF vars, rankVars
    <3> QED
      BY <3>1 DEF Next
  <2> QED
    BY <1>1, <2>1, <2>2, AsideStep
<1>3. Received(nextSrc, 0, 1) = permutation[nextSrc] /\ nextSrc \in Others
  BY <1>2, PermutationReceived
<1>4. PICK k \in Nat \ {0} : k = nextSrc
  BY <1>1
<1>5. k = NWorker - 1
  <2>1. k # NWorker - 1 => pc' = pc
    BY <1>2, <1>4 DEF Gather, progressVars
  <2> QED
    BY <2>1
<1>6. globalPermutation'[0] = PermAppend(globalPermutation[0], permutation[k])
  BY <1>1, <1>2, <1>3, <1>4 DEF Gather, AppendRank
<1>7. PICK G : Composed(G, k) /\ globalPermutation[0] = G[k - 1]
  BY <1>4 DEF Gathering
<1>8. permutation[k] \in Perms(Part)
  BY <1>1, <1>3, <1>4 DEF Others
<1>9. PICK H : Composed(H, k + 1) /\ H[k] = PermAppend(G[k - 1], permutation[k])
  BY <1>7, <1>8, ComposedNext
<1>10. k + 1 = NWorker
  BY <1>1, <1>5
<1>11. Whole
  BY WholeIs
<1>12. Around = H[NWorker - 1]
  BY <1>9, <1>10, <1>11, AroundComposed
<1> HIDE DEF Around
<1> QED
  BY <1>5, <1>6, <1>7, <1>9, <1>12

(* getGlobalPermutation: what rank 0 broadcasts is the permutation of the  *)
(* closed worldlines at that moment, though it gathers the ranks'          *)
(* permutations one message at a time while the other ranks, until they    *)
(* have sent theirs, still sample, shift and relabel.                      *)
THEOREM GlobalPermutation == Spec => GlobalPermutationIsAround
<1>1. Init => Gathering
  BY RingOfRanks DEF Init, RanksInit, Gathering
<1>2. RingInv /\ Gathering /\ [Next]_vars => Gathering'
  BY GatheringNext DEF RingInv
<1>3. RingInv /\ Gathering /\ [Next]_vars =>
        [pc[0] = "gather" /\ pc'[0] = "ready" => globalPermutation'[0] = Around]_vars
  BY GatherLast DEF RingInv
<1> QED
  BY <1>1, <1>2, <1>3, InitRefines, NextRefines, PTL DEF Spec, GlobalPermutationIsAround
=============================================================================
