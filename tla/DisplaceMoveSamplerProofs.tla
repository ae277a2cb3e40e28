--------------------- MODULE DisplaceMoveSamplerProofs ---------------------
(***************************************************************************)
(* Several ranks displace the same worldlines by the same vectors, for     *)
(* every number of ranks and particles, every program and whatever the     *)
(* permutations of the ranks.                                              *)
(***************************************************************************)
EXTENDS DisplaceMoveSampler, DataLemmas,
        FiniteSetTheorems

Maps == [Part -> Part]
Other == Worker \ {0}

(* The labels of rank 0, as ranks 0 .. n - 1 hand them on to rank n.       *)
Along[n \in 0 .. NWorker] ==
  IF n = 0 THEN Identity(Part) ELSE PermAppend(Along[n - 1], permutation[n - 1][1])

Permutes == \A w \in Worker : permutation[w][1] \in Perms(Part)

-----------------------------------------------------------------------------
UpTo(g, n) == /\ g \in [0 .. n -> Maps]
              /\ g[0] = Identity(Part)
              /\ \A i \in 1 .. n : g[i] = PermAppend(g[i - 1], permutation[i - 1][1])
ChainExists(n) == \E g : UpTo(g, n)

(* Handing labels on through one more rank.                                *)
LEMMA AppendType ==
  ASSUME Permutes, NEW w \in Worker, NEW f \in Maps
  PROVE  /\ PermAppend(f, permutation[w][1]) \in Maps
         /\ \A i \in Part : PermAppend(f, permutation[w][1])[i] = permutation[w][1][f[i]]
BY DEF Permutes, Perms, PermAppend, Maps

(* A chain of labels can be handed on by one more rank.                    *)
LEMMA OneMoreRank ==
  ASSUME Permutes, NEW n \in 0 .. NWorker - 1, ChainExists(n)
  PROVE  ChainExists(n + 1)
<1> USE WorkerAssumption
<1>1. PICK g : UpTo(g, n)
  BY DEF ChainExists
<1> DEFINE h == [i \in 0 .. n + 1 |->
                   IF i = n + 1 THEN PermAppend(g[n], permutation[n][1]) ELSE g[i]]
<1>2. \A i \in 0 .. n : g[i] \in Maps
  BY <1>1 DEF UpTo
<1>3. h \in [0 .. n + 1 -> Maps]
  <2>1. n \in Worker /\ g[n] \in Maps
    BY <1>2 DEF Worker
  <2>2. PermAppend(g[n], permutation[n][1]) \in Maps
    BY <2>1, AppendType
  <2> QED
    BY <1>2, <2>2
<1>4. h[0] = Identity(Part)
  BY <1>1 DEF UpTo
<1>5. ASSUME NEW i \in 1 .. n + 1
      PROVE  h[i] = PermAppend(h[i - 1], permutation[i - 1][1])
  <2>1. CASE i = n + 1
    BY <2>1
  <2>2. CASE i # n + 1
    <3>1. i \in 1 .. n /\ h[i] = g[i] /\ h[i - 1] = g[i - 1]
      BY <2>2
    <3> QED
      BY <1>1, <3>1 DEF UpTo
  <2> QED
    BY <2>1, <2>2
<1> HIDE DEF h
<1>6. UpTo(h, n + 1)
  BY <1>3, <1>4, <1>5 DEF UpTo
<1> QED
  BY <1>6 DEF ChainExists

(* Along exists.                                                           *)
LEMMA AllChainsExist ==
  ASSUME Permutes
  PROVE  ChainExists(NWorker)
<1> USE WorkerAssumption
<1> DEFINE T == {n \in 0 .. NWorker : ~ChainExists(n)}
<1> SUFFICES ASSUME T # {} PROVE FALSE
  OBVIOUS
<1>1. PICK m \in T : \A n \in T : m <= n
  <2>1. T \in SUBSET Nat
    OBVIOUS
  <2> HIDE DEF T
  <2> QED
    BY <2>1, LeastOf
<1>2. m # 0
  <2>1. Identity(Part) \in Maps
    BY DEF Identity, Maps
  <2>2. UpTo([i \in 0 .. 0 |-> Identity(Part)], 0)
    BY <2>1 DEF UpTo
  <2> QED
    BY <2>2 DEF ChainExists
<1>3. m - 1 \in 0 .. NWorker - 1 /\ ChainExists(m - 1)
  BY <1>1, <1>2
<1>4. ChainExists((m - 1) + 1)
  BY <1>3, OneMoreRank
<1> QED
  BY <1>4

(* The recursive definition of Along has a solution.                       *)
LEMMA AlongIsDefined ==
  ASSUME Permutes
  PROVE  /\ Along = [n \in 0 .. NWorker |->
                       IF n = 0 THEN Identity(Part)
                                ELSE PermAppend(Along[n - 1], permutation[n - 1][1])]
<1> USE WorkerAssumption
<1>1. PICK g : UpTo(g, NWorker)
  BY AllChainsExist DEF ChainExists
<1> DEFINE F(f) == [n \in 0 .. NWorker |->
                      IF n = 0 THEN Identity(Part)
                               ELSE PermAppend(f[n - 1], permutation[n - 1][1])]
<1>2. g = F(g)
  <2>1. /\ DOMAIN g = 0 .. NWorker /\ g = [n \in 0 .. NWorker |-> g[n]]
        /\ g[0] = Identity(Part)
    BY <1>1 DEF UpTo
  <2>2. \A n \in 0 .. NWorker : n # 0 => g[n] = PermAppend(g[n - 1], permutation[n - 1][1])
    BY <1>1 DEF UpTo
  <2>3. \A n \in 0 .. NWorker :
          g[n] = IF n = 0 THEN Identity(Part)
                          ELSE PermAppend(g[n - 1], permutation[n - 1][1])
    BY <2>1, <2>2
  <2> QED
    BY <2>1, <2>3, Zenon
<1>3. \E f : f = F(f)
  BY <1>2
<1>4. Along = CHOOSE f : f = F(f)
  BY Zenon DEF Along
<1> HIDE DEF F
<1>5. Along = F(Along)
  BY <1>3, <1>4, Zenon
<1> QED
  BY <1>5, Zenon DEF F

(* Along is the function its definition describes.                         *)
LEMMA AlongIs ==
  ASSUME Permutes
  PROVE  /\ Along[0] = Identity(Part)
         /\ \A n \in 0 .. NWorker : Along[n] \in Maps
         /\ \A n \in Worker, i \in Part :
              Along[n + 1][i] = permutation[n][1][Along[n][i]]
<1> USE WorkerAssumption
<1>1. /\ Along[0] = Identity(Part)
      /\ \A n \in 1 .. NWorker : Along[n] = PermAppend(Along[n - 1], permutation[n - 1][1])
  <2>1. \A n \in 0 .. NWorker :
          Along[n] = IF n = 0 THEN Identity(Part)
                              ELSE PermAppend(Along[n - 1], permutation[n - 1][1])
    BY AlongIsDefined, Zenon
  <2> QED
    BY <2>1
<1>2. \A n \in 0 .. NWorker : Along[n] \in Maps
  <2> DEFINE T == {n \in 0 .. NWorker : Along[n] \notin Maps}
  <2> SUFFICES ASSUME T # {} PROVE FALSE
    OBVIOUS
  <2>1. PICK m \in T : \A n \in T : m <= n
    <3>1. T \in SUBSET Nat
      OBVIOUS
    <3> HIDE DEF T
    <3> QED
      BY <3>1, LeastOf
  <2>2. m # 0
    BY <1>1 DEF Identity, Maps
  <2>3. m \in 1 .. NWorker /\ m - 1 \in Worker /\ Along[m - 1] \in Maps
    BY <2>1, <2>2 DEF Worker
  <2>4. Along[m] \in Maps
    BY <1>1, <2>3, AppendType
  <2> QED
    BY <2>4
<1>3. ASSUME NEW n \in Worker, NEW i \in Part
      PROVE  Along[n + 1][i] = permutation[n][1][Along[n][i]]
  <2>1. n + 1 \in 1 .. NWorker /\ n \in 0 .. NWorker /\ (n + 1) - 1 = n
    BY DEF Worker
  <2>2. Along[n + 1] = PermAppend(Along[n], permutation[n][1])
    BY <1>1, <2>1
  <2> QED
    BY <1>2, <2>1, <2>2, AppendType
<1> QED
  BY <1>1, <1>2, <1>3

-----------------------------------------------------------------------------
(* The trial, as the other ranks see it.  Rank 0 waits for the permutation *)
(* of w; it has passed the labels on to w; it has proposed.                *)
Underway == pc[0] \in {"distribute", "propose", "reduce"}
Awaited(w) == pc[0] = "ready" \/ (pc[0] = "gather" /\ peer <= w)
Given(w) == pc[0] \in {"propose", "reduce"} \/ (pc[0] = "distribute" /\ w < peer)

Labels(w) == [k \in DOMAIN chosen |-> Along[w][chosen[k]]]

Channels(w, perm, labels, sum) ==
  chan[w][0][1] = perm /\ chan[0][w][111] = labels /\ chan[w][0][Sum] = sum
PassedTo(w) == IF Given(w) THEN Msg("moving", Labels(w)) ELSE <<>>

(* A decision of rank 0 is still to reach w.                               *)
Late(w) ==
  /\ Awaited(w) /\ ip[w] = ip[0] - 1 /\ Channels(w, <<>>, <<>>, <<>>)
  /\ \/ pc[w] = "reject" /\ bcast[w] = <<TRUE>>
     \/ pc[w] = "decision" /\ \E r \in BOOLEAN : bcast[w] = <<r>>
(* w has yet to begin; has sent its permutation; rank 0 has taken it.      *)
Fresh(w) ==
  /\ Awaited(w) /\ ip[w] = ip[0] /\ pc[w] = "ready" /\ bcast[w] = <<>>
  /\ Channels(w, <<>>, <<>>, <<>>)
Sent(w) ==
  /\ Awaited(w) /\ ip[w] = ip[0] /\ pc[w] = "reject" /\ bcast[w] = <<>>
  /\ Channels(w, Msg("permutation", permutation[w][1]), <<>>, <<>>)
Taken(w) ==
  /\ pc[0] = "gather" /\ w < peer
  /\ ip[w] = ip[0] /\ pc[w] = "reject" /\ bcast[w] = <<>>
  /\ Channels(w, <<>>, <<>>, <<>>)
(* The trial goes on: w does not know; waits for labels; has them; has     *)
(* moved its buffer slices.                                                *)
Unaware(w) ==
  /\ Underway /\ ip[w] = ip[0] /\ pc[w] = "reject"
  /\ Channels(w, <<>>, PassedTo(w), <<>>)
  /\ bcast[w] = IF pc[0] = "reduce" THEN <<FALSE, 0>> ELSE <<FALSE>>
Proposed == IF pc[0] = "reduce" THEN <<0>> ELSE <<>>
Waiting(w) ==
  /\ Underway /\ ip[w] = ip[0] /\ pc[w] = "moving"
  /\ Channels(w, <<>>, PassedTo(w), <<>>) /\ bcast[w] = Proposed
Informed(w) ==
  /\ Underway /\ Given(w) /\ ip[w] = ip[0] /\ pc[w] = "displacement"
  /\ Channels(w, <<>>, <<>>, <<>>) /\ bcast[w] = Proposed /\ movingIndex[w] = Labels(w)
Tried(w) ==
  /\ pc[0] = "reduce" /\ ip[w] = ip[0] /\ pc[w] = "decision" /\ bcast[w] = <<>>
  /\ Channels(w, <<>>, <<>>, Msg("deltaAction", 0)) /\ movingIndex[w] = Labels(w)

Phase(w) == \/ Late(w) \/ Fresh(w) \/ Sent(w) \/ Taken(w)
            \/ Unaware(w) \/ Waiting(w) \/ Informed(w) \/ Tried(w)

(* What rank 0 has gathered and passed on.                                 *)
Root ==
  /\ pc[0] \in {"ready", "gather", "distribute", "propose", "reduce"}
  /\ pc[0] = "gather" =>
       /\ peer \in Other
       /\ globalPermutation = Along[peer]
       /\ \A v \in 0 .. peer - 1 : gathered[v] = permutation[v][1]
  /\ Underway =>
       /\ \A v \in Worker : gathered[v] = permutation[v][1]
       /\ \A k \in DOMAIN chosen : Along[NWorker][chosen[k]] = chosen[k]
       /\ movingIndex[0] = chosen
  /\ pc[0] = "distribute" => peer \in Other /\ passing = Labels(peer - 1)
  /\ pc[0] = "reduce" => displacement[0] = 0

IsChan(c) == AreQueues(c, Worker, Tags)
Shapes ==
  /\ ip \in [Worker -> Int] /\ pc = [w \in Worker |-> pc[w]]
  /\ IsChan(chan) /\ bcast = [w \in Worker |-> bcast[w]]
  /\ movingIndex \in [Worker -> Seq(Part)]
  /\ displacement = [w \in Worker |-> displacement[w]]
  /\ gathered = [w \in Worker |-> gathered[w]]
  /\ chosen \in Seq(Part) /\ peer \in Int

Protocol == Permutes /\ Shapes /\ Root /\ \A w \in Other : Phase(w)

-----------------------------------------------------------------------------
(* The ranks are numbered from 0, and there are others than rank 0.        *)
LEMMA Workers ==
  /\ 0 \in Worker /\ Other = 1 .. NWorker - 1 /\ NWorker \in Nat /\ NWorker > 1
  /\ Tags = {0, 1, 111}
  /\ \A w \in Worker : w \in Other \/ w = 0
BY WorkerAssumption, DisplaceAssumption DEF Worker, Other

(* A send puts a message at the end of one channel.                        *)
LEMMA Posts ==
  ASSUME IsChan(chan), NEW v \in Worker, NEW w \in Worker, NEW t \in Tags,
         NEW kind, NEW data, Post(v, w, t, kind, data)
  PROVE  /\ IsChan(chan')
         /\ chan'[v][w][t] = Append(chan[v][w][t], [kind |-> kind, data |-> data])
         /\ \A x, y \in Worker, s \in Tags :
              x # v \/ y # w \/ s # t => chan'[x][y][s] = chan[x][y][s]
<1> DEFINE q == Append(chan[v][w][t], [kind |-> kind, data |-> data])
<1>1. Replaces(chan', chan, v, w, t, q)
  BY DEF Post, Posted, Replaces
<1> HIDE DEF q
<1>2. /\ IsChan(chan') /\ chan'[v][w][t] = q
      /\ \A x, y \in Worker, s \in Tags :
           x # v \/ y # w \/ s # t => chan'[x][y][s] = chan[x][y][s]
  BY <1>1, QueueChanged DEF IsChan
<1> QED
  BY <1>2, Zenon DEF q

(* A receive takes a message off the front of one channel.                 *)
LEMMA Takes ==
  ASSUME IsChan(chan), NEW v \in Worker, NEW w \in Worker, NEW t \in Tags,
         chan' = Take(v, w, t)
  PROVE  /\ IsChan(chan')
         /\ chan'[v][w][t] = Tail(chan[v][w][t])
         /\ \A x, y \in Worker, s \in Tags :
              x # v \/ y # w \/ s # t => chan'[x][y][s] = chan[x][y][s]
<1> DEFINE q == Tail(chan[v][w][t])
<1>1. Replaces(chan', chan, v, w, t, q)
  BY DEF Take, Replaces
<1> HIDE DEF q
<1>2. /\ IsChan(chan') /\ chan'[v][w][t] = q
      /\ \A x, y \in Worker, s \in Tags :
           x # v \/ y # w \/ s # t => chan'[x][y][s] = chan[x][y][s]
  BY <1>1, QueueChanged DEF IsChan
<1> QED
  BY <1>2, Zenon DEF q

(* The labels handed on depend on the permutations only.                   *)
LEMMA AlongStays == permutation' = permutation => Along' = Along
BY DEF Along

(* Nothing that Phase(u) speaks of changes.                                *)
SameRoot == /\ pc'[0] = pc[0] /\ ip'[0] = ip[0] /\ peer' = peer /\ chosen' = chosen
            /\ permutation' = permutation
SameChannels(u) == /\ chan'[u][0][1] = chan[u][0][1]
                   /\ chan'[0][u][111] = chan[0][u][111]
                   /\ chan'[u][0][Sum] = chan[u][0][Sum]
Same(u) == /\ pc'[u] = pc[u] /\ ip'[u] = ip[u] /\ bcast'[u] = bcast[u]
           /\ SameChannels(u) /\ movingIndex'[u] = movingIndex[u]

(* So do the labels that each rank is to be told.                          *)
LEMMA SameNames ==
  ASSUME SameRoot
  PROVE  /\ Underway' = Underway /\ Proposed' = Proposed
         /\ \A u \in Other : /\ Awaited(u)' = Awaited(u) /\ Given(u)' = Given(u)
                             /\ Labels(u)' = Labels(u) /\ PassedTo(u)' = PassedTo(u)
<1>1. Along' = Along
  BY AlongStays DEF SameRoot
<1> QED
  BY <1>1 DEF SameRoot, Underway, Proposed, Awaited, Given, Labels, PassedTo, Msg

(* A rank that a step of another rank does not concern stays in its phase. *)
LEMMA PhaseStays ==
  ASSUME SameRoot, NEW u \in Other, Same(u), Phase(u)
  PROVE  Phase(u)'
<1>1. /\ Underway' = Underway /\ Proposed' = Proposed
      /\ Awaited(u)' = Awaited(u) /\ Given(u)' = Given(u)
      /\ Labels(u)' = Labels(u) /\ PassedTo(u)' = PassedTo(u)
  BY SameNames
<1>2. \A x, y, z : Channels(u, x, y, z)' <=> Channels(u, x, y, z)
  BY DEF Same, SameChannels, Channels
<1> USE <1>1, <1>2 DEF SameRoot, Same
<1>3. Late(u) => Late(u)'
  BY DEF Late
<1>4. Fresh(u) => Fresh(u)'
  BY DEF Fresh
<1>5. Sent(u) => Sent(u)'
  BY DEF Sent, Msg
<1>6. Taken(u) => Taken(u)'
  BY DEF Taken
<1>7. Unaware(u) => Unaware(u)'
  BY DEF Unaware
<1>8. Waiting(u) => Waiting(u)'
  BY DEF Waiting
<1>9. Informed(u) => Informed(u)'
  BY DEF Informed
<1>10. Tried(u) => Tried(u)'
  BY DEF Tried, Msg
<1> QED
  BY <1>3, <1>4, <1>5, <1>6, <1>7, <1>8, <1>9, <1>10 DEF Phase

(* ... nor anything that Root does.                                        *)
LEMMA RootStays ==
  ASSUME SameRoot, Root,
         UNCHANGED <<globalPermutation, gathered, passing>>,
         movingIndex'[0] = movingIndex[0], displacement'[0] = displacement[0]
  PROVE  Root'
<1>1. Along' = Along
  BY AlongStays DEF SameRoot
<1> QED
  BY <1>1 DEF SameRoot, Root, Underway, Labels

(* What Block, Advance, Listened and Broadcast change.                     *)
LEMMA Goes ==
  ASSUME Shapes, NEW w \in Worker, NEW where, Block(w, where)
  PROVE  /\ ip' = ip /\ pc'[w] = where /\ pc' = [v \in Worker |-> pc'[v]]
         /\ \A u \in Worker : u # w => pc'[u] = pc[u]
BY DEF Shapes, Block

LEMMA Advances ==
  ASSUME Shapes, NEW w \in Worker, Advance(w)
  PROVE  /\ ip' \in [Worker -> Int] /\ ip'[w] = ip[w] + 1
         /\ pc' = [v \in Worker |-> pc'[v]] /\ pc'[w] = "ready"
         /\ \A u \in Worker : u # w => pc'[u] = pc[u] /\ ip'[u] = ip[u]
<1>1. ip' \in [Worker -> Int] /\ ip'[w] = ip[w] + 1 /\ \A u \in Worker : u # w => ip'[u] = ip[u]
  BY DEF Shapes, Advance
<1>2. /\ pc' = [v \in Worker |-> pc'[v]] /\ pc'[w] = "ready"
      /\ \A u \in Worker : u # w => pc'[u] = pc[u]
  BY DEF Shapes, Advance
<1> QED
  BY <1>1, <1>2

LEMMA Listens ==
  ASSUME Shapes, NEW w \in Worker, bcast' = Listened(w)
  PROVE  /\ bcast' = [v \in Worker |-> bcast'[v]] /\ bcast'[w] = Tail(bcast[w])
         /\ \A u \in Worker : u # w => bcast'[u] = bcast[u]
BY DEF Shapes, Listened

LEMMA Broadcasts ==
  ASSUME Shapes, NEW x, bcast' = Broadcast(x)
  PROVE  /\ bcast' = [v \in Worker |-> bcast'[v]]
         /\ \A u \in Other : bcast'[u] = Append(bcast[u], x)
BY DEF Shapes, Broadcast, Other

(* A step of rank w, not 0, that touches its own state and channels only.  *)
OwnStep(w) ==
  /\ UNCHANGED <<permutation, rootVars>>
  /\ \A u \in Worker : u # w =>
       /\ pc'[u] = pc[u] /\ ip'[u] = ip[u] /\ bcast'[u] = bcast[u]
       /\ movingIndex'[u] = movingIndex[u] /\ displacement'[u] = displacement[u]
       /\ SameChannels(u)

(* A step of one rank keeps the protocol if it takes the rank from one     *)
(* phase to another.                                                       *)
LEMMA OwnStepProtocol ==
  ASSUME Protocol, NEW w \in Other, OwnStep(w), Shapes', Phase(w)'
  PROVE  Protocol'
<1>1. w \in Worker /\ w # 0 /\ 0 \in Worker /\ Other \subseteq Worker
  BY Workers DEF Other
<1>2. SameRoot
  BY <1>1 DEF OwnStep, SameRoot, rootVars
<1>3. Root'
  BY <1>1, <1>2, RootStays DEF OwnStep, rootVars, Protocol
<1>4. ASSUME NEW u \in Other, u # w
      PROVE  Phase(u)'
  <2>1. Same(u)
    BY <1>1, <1>4 DEF OwnStep, Same
  <2> QED
    BY <1>2, <2>1, PhaseStays DEF Protocol
<1>5. Permutes'
  BY DEF Protocol, Permutes, OwnStep
<1> QED
  BY <1>3, <1>4, <1>5 DEF Protocol

(* What the others need not change to be in the same place.                *)
LEMMA ChansApart ==
  ASSUME NEW w \in Other, NEW v \in Worker, NEW x \in Worker, NEW t \in Tags,
         v = w \/ x = w,
         \A a, b \in Worker, s \in Tags :
           a # v \/ b # x \/ s # t => chan'[a][b][s] = chan[a][b][s]
  PROVE  \A u \in Worker : u # w => SameChannels(u)
BY Workers DEF SameChannels, Other, Sum

(* One lemma for each action: it keeps the protocol.                       *)
LEMMA SendLocalStep ==
  ASSUME Protocol, NEW w \in Worker, SendLocal(w)
  PROVE  Protocol'
<1>1. w \in Other /\ 0 \in Worker /\ 1 \in Tags /\ Shapes /\ Phase(w)
  BY Workers DEF SendLocal, Other, Protocol
<1>2. pc[w] = "ready" /\ Block(w, "reject") /\ UNCHANGED <<permutation, moveVars, rootVars, bcast>>
  BY DEF SendLocal, Begins, pathVars
<1>3. Fresh(w)
  BY <1>1, <1>2 DEF Phase, Late, Sent, Taken, Unaware, Waiting, Informed, Tried
<1>4. /\ IsChan(chan')
      /\ chan'[w][0][1] = Append(chan[w][0][1], [kind |-> "permutation", data |-> permutation[w][1]])
      /\ \A x, y \in Worker, s \in Tags :
           x # w \/ y # 0 \/ s # 1 => chan'[x][y][s] = chan[x][y][s]
  BY SMTT(30), <1>1, Posts DEF SendLocal, Shapes
<1>5. Shapes'
  BY <1>1, <1>2, <1>4, Goes DEF Shapes, moveVars, rootVars
<1>6. OwnStep(w)
  BY <1>1, <1>2, <1>4, Goes, ChansApart DEF OwnStep, moveVars, rootVars
<1>7. Phase(w)'
  <2>1. chan'[w][0][1] = Msg("permutation", permutation[w][1])
    BY <1>3, <1>4, QueueOne DEF Fresh, Channels, Msg
  <2>2. chan'[0][w][111] = <<>> /\ chan'[w][0][Sum] = <<>>
    BY <1>1, <1>3, <1>4, Workers DEF Fresh, Channels, Sum, Other
  <2>3. pc'[w] = "reject" /\ pc'[0] = pc[0] /\ ip' = ip
    BY <1>1, <1>2, Goes DEF Other
  <2>4. Sent(w)'
    BY <1>2, <1>3, <2>1, <2>2, <2>3 DEF Sent, Fresh, Channels, Awaited, rootVars, Msg
  <2> QED
    BY <2>4 DEF Phase
<1> QED
  BY <1>1, <1>5, <1>6, <1>7, OwnStepProtocol

LEMMA RecvRejectStep ==
  ASSUME Protocol, NEW w \in Other, RecvReject(w)
  PROVE  Protocol'
<1>1. w \in Worker /\ 0 \in Worker /\ w # 0 /\ Shapes /\ Phase(w)
  BY Workers DEF Other, Protocol
<1>2. /\ pc[w] = "reject" /\ bcast[w] # <<>> /\ bcast' = Listened(w)
      /\ UNCHANGED <<permutation, moveVars, rootVars, chan>>
  BY DEF RecvReject, pathVars
<1>3. (Late(w) /\ bcast[w] = <<TRUE>>) \/ Unaware(w)
  BY <1>1, <1>2 DEF Phase, Late, Fresh, Sent, Taken, Waiting, Informed, Tried
<1>4. CASE Late(w) /\ bcast[w] = <<TRUE>>
  <2>1. Head(bcast[w]) /\ Tail(bcast[w]) = <<>>
    BY <1>4, QueueOne, TailOne
  <2>2. Advance(w)
    BY <2>1 DEF RecvReject
  <2>3. Shapes'
    BY <1>1, <1>2, <2>2, Advances, Listens DEF Shapes, moveVars, rootVars
  <2>4. OwnStep(w)
    BY <1>1, <1>2, <2>2, Advances, Listens DEF OwnStep, moveVars, rootVars, SameChannels
  <2>5. Fresh(w)'
    <3>1. pc'[w] = "ready" /\ pc'[0] = pc[0] /\ ip'[w] = ip'[0] /\ bcast'[w] = <<>>
      <4>1. ip'[w] = ip[w] + 1 /\ ip'[0] = ip[0] /\ pc'[w] = "ready" /\ pc'[0] = pc[0]
        BY <1>1, <2>2, Advances
      <4>2. ip[w] = ip[0] - 1 /\ ip[0] \in Int
        BY <1>1, <1>4 DEF Late, Shapes
      <4>3. bcast'[w] = <<>>
        BY <1>1, <1>2, <2>1, Listens
      <4> QED
        BY <4>1, <4>2, <4>3
    <3> QED
      BY <1>2, <1>4, <3>1 DEF Late, Fresh, Channels, Awaited, rootVars
  <2> QED
    BY <2>3, <2>4, <2>5, OwnStepProtocol DEF Phase
<1>5. CASE Unaware(w)
  <2>1. ~Head(bcast[w]) /\ Tail(bcast[w]) = Proposed
    BY ZenonT(40), <1>5, QueueOne, TailOne, HeadTwo, TailTwo DEF Unaware, Proposed
  <2>2. Block(w, "moving")
    BY <2>1 DEF RecvReject
  <2>3. Shapes'
    BY <1>1, <1>2, <2>2, Goes, Listens DEF Shapes, moveVars, rootVars
  <2>4. OwnStep(w)
    BY <1>1, <1>2, <2>2, Goes, Listens DEF OwnStep, moveVars, rootVars, SameChannels
  <2>5. SameRoot
    BY <1>1, <1>2, <2>2, Goes DEF SameRoot, rootVars
  <2>6. Waiting(w)'
    <3>1. pc'[w] = "moving" /\ ip' = ip /\ bcast'[w] = Proposed
      BY <1>1, <1>2, <2>1, <2>2, Goes, Listens
    <3>2. Underway' = Underway /\ Proposed' = Proposed /\ PassedTo(w)' = PassedTo(w)
      BY <2>5, SameNames
    <3> QED
      BY <1>2, <1>5, <3>1, <3>2 DEF Unaware, Waiting, Channels
  <2> QED
    BY <2>3, <2>4, <2>6, OwnStepProtocol DEF Phase
<1> QED
  BY <1>3, <1>4, <1>5

LEMMA RecvMovingStep ==
  ASSUME Protocol, NEW w \in Other, RecvMoving(w)
  PROVE  Protocol'
<1>1. w \in Worker /\ 0 \in Worker /\ w # 0 /\ Shapes /\ Phase(w) /\ 111 \in Tags
  BY Workers DEF Other, Protocol
<1>2. /\ pc[w] = "moving" /\ chan[0][w][111] # <<>> /\ chan' = Take(0, w, 111)
      /\ movingIndex' = [movingIndex EXCEPT ![w] = Head(chan[0][w][111]).data]
      /\ Block(w, "displacement")
      /\ UNCHANGED <<permutation, displacement, rootVars, bcast>>
  BY DEF RecvMoving, Arrived, Received, pathVars
<1>3. Waiting(w)
  BY <1>1, <1>2 DEF Phase, Late, Fresh, Sent, Taken, Unaware, Informed, Tried
<1>4. Given(w) /\ chan[0][w][111] = Msg("moving", Labels(w))
  BY <1>2, <1>3 DEF Waiting, Channels, PassedTo
<1>5. Labels(w) \in Seq(Part)
  <2>1. \A k \in DOMAIN chosen : Along[w][chosen[k]] \in Part
    <3>1. w \in 0 .. NWorker /\ Permutes
      BY <1>1, WorkerAssumption DEF Worker, Protocol
    <3>2. \A k \in DOMAIN chosen : chosen[k] \in Part
      BY <1>1 DEF Shapes
    <3> QED
      BY <3>1, <3>2, AlongIs DEF Maps
  <2>2. DOMAIN chosen = 1 .. Len(chosen) /\ Len(chosen) \in Nat
    BY <1>1 DEF Shapes
  <2> QED
    BY <2>1, <2>2 DEF Labels
<1>6. movingIndex' = [movingIndex EXCEPT ![w] = Labels(w)]
  <2>1. Head(chan[0][w][111]).data = Labels(w)
    BY <1>4, MsgIs
  <2> QED
    BY <1>2, <2>1
<1>7. /\ IsChan(chan') /\ chan'[0][w][111] = <<>>
      /\ \A x, y \in Worker, s \in Tags :
           x # 0 \/ y # w \/ s # 111 => chan'[x][y][s] = chan[x][y][s]
  <2>1. IsChan(chan) /\ Tail(chan[0][w][111]) = <<>>
    BY <1>1, <1>4, MsgIs DEF Shapes
  <2>2. chan' = Take(0, w, 111)
    BY <1>2
  <2>3. /\ IsChan(chan') /\ chan'[0][w][111] = Tail(chan[0][w][111])
        /\ \A x, y \in Worker, s \in Tags :
             x # 0 \/ y # w \/ s # 111 => chan'[x][y][s] = chan[x][y][s]
    BY <1>1, <2>1, <2>2, Takes
  <2> QED
    BY <2>1, <2>3
<1>8. Shapes'
  BY <1>1, <1>2, <1>5, <1>6, <1>7, Goes DEF Shapes, rootVars
<1>9. OwnStep(w)
  <2>1. \A u \in Worker : u # w => movingIndex'[u] = movingIndex[u]
    BY <1>1, <1>6 DEF Shapes
  <2>2. \A u \in Worker : u # w => SameChannels(u)
    BY <1>1, <1>7, Workers DEF SameChannels, Sum
  <2> QED
    BY <1>1, <1>2, <2>1, <2>2, Goes DEF OwnStep
<1>10. SameRoot
  BY <1>1, <1>2, Goes DEF SameRoot, rootVars
<1>11. Informed(w)'
  <2>1. pc'[w] = "displacement" /\ ip' = ip
    BY <1>1, <1>2, Goes
  <2>2. /\ Underway' = Underway /\ Proposed' = Proposed
        /\ Given(w)' = Given(w) /\ Labels(w)' = Labels(w)
    BY <1>10, SameNames
  <2>3. movingIndex'[w] = Labels(w)
    BY <1>1, <1>6 DEF Shapes
  <2>4. chan'[w][0][1] = <<>> /\ chan'[w][0][Sum] = <<>>
    BY <1>1, <1>3, <1>7, Workers DEF Waiting, Channels, Sum
  <2> QED
    BY <1>2, <1>3, <1>4, <1>7, <2>1, <2>2, <2>3, <2>4 DEF Waiting, Informed, Channels
<1> QED
  BY <1>8, <1>9, <1>11, OwnStepProtocol DEF Phase

LEMMA ProposeOtherStep ==
  ASSUME Protocol, ~Collective, NEW w \in Other, ProposeOther(w)
  PROVE  /\ Protocol' /\ pc[0] = "reduce" /\ pc' = [pc EXCEPT ![w] = "decision"]
         /\ movingIndex[w] = Labels(w) /\ coords' = Displaced(w, 0, Boundary)
         /\ displacement' = [displacement EXCEPT ![w] = 0] /\ bcast'[w] = <<>>
<1>1. w \in Worker /\ 0 \in Worker /\ w # 0 /\ Shapes /\ Phase(w) /\ Sum \in Tags
  BY Workers DEF Other, Protocol, Sum
<1>2. /\ pc[w] = "displacement" /\ bcast[w] # <<>> /\ bcast' = Listened(w)
      /\ displacement' = [displacement EXCEPT ![w] = Head(bcast[w])]
      /\ coords' = Displaced(w, Head(bcast[w]), Boundary)
      /\ Post(w, 0, Sum, "deltaAction", 0) /\ Block(w, "decision")
      /\ UNCHANGED <<permutation, movingIndex, rootVars>>
  BY DEF ProposeOther
<1>3. Informed(w)
  BY <1>1, <1>2 DEF Phase, Late, Fresh, Sent, Taken, Unaware, Waiting, Tried
<1>4. pc[0] = "reduce" /\ bcast[w] = <<0>>
  BY <1>2, <1>3 DEF Informed, Proposed
<1>5. Head(bcast[w]) = 0 /\ Tail(bcast[w]) = <<>>
  BY <1>4, QueueOne, TailOne
<1>6. /\ IsChan(chan') /\ chan'[w][0][Sum] = Msg("deltaAction", 0)
      /\ \A x, y \in Worker, s \in Tags :
           x # w \/ y # 0 \/ s # Sum => chan'[x][y][s] = chan[x][y][s]
  <2>1. IsChan(chan) /\ chan[w][0][Sum] = <<>>
    BY <1>1, <1>3 DEF Shapes, Informed, Channels
  <2>2. /\ IsChan(chan')
        /\ chan'[w][0][Sum] = Append(chan[w][0][Sum], [kind |-> "deltaAction", data |-> 0])
        /\ \A x, y \in Worker, s \in Tags :
             x # w \/ y # 0 \/ s # Sum => chan'[x][y][s] = chan[x][y][s]
    BY <1>1, <1>2, <2>1, Posts
  <2> QED
    BY <2>1, <2>2, MsgIs
<1>7. Shapes'
  BY <1>1, <1>2, <1>5, <1>6, Goes, Listens DEF Shapes, rootVars
<1>8. OwnStep(w)
  <2>1. \A u \in Worker : u # w => SameChannels(u)
    BY <1>1, <1>6, Workers DEF SameChannels, Sum
  <2>2. \A u \in Worker : u # w => displacement'[u] = displacement[u]
    BY <1>1, <1>2 DEF Shapes
  <2> QED
    BY <1>1, <1>2, <2>1, <2>2, Goes, Listens DEF OwnStep
<1>9. SameRoot
  BY <1>1, <1>2, Goes DEF SameRoot, rootVars
<1>10. bcast'[w] = <<>>
  BY <1>1, <1>2, <1>5, Listens
<1>11. Tried(w)'
  <2>1. pc'[w] = "decision" /\ ip' = ip /\ pc'[0] = pc[0]
    BY <1>1, <1>2, Goes
  <2>2. Labels(w)' = Labels(w)
    BY <1>9, SameNames
  <2>3. chan'[w][0][1] = <<>> /\ chan'[0][w][111] = <<>>
    BY <1>1, <1>3, <1>6, Workers DEF Informed, Channels, Sum
  <2> QED
    BY <1>2, <1>3, <1>4, <1>6, <1>10, <2>1, <2>2, <2>3 DEF Informed, Tried, Channels, Msg
<1>12. Protocol'
  BY <1>7, <1>8, <1>11, OwnStepProtocol DEF Phase
<1> QED
  BY <1>2, <1>3, <1>4, <1>5, <1>10, <1>12 DEF Informed, Block

LEMMA DecideOtherStep ==
  ASSUME Protocol, NEW w \in Other, DecideOther(w)
  PROVE  /\ Protocol' /\ pc[w] = "decision" /\ pc'[w] = "ready"
         /\ \E r \in BOOLEAN : bcast[w] = <<r>> /\ Decide(w, r)
<1>1. w \in Worker /\ 0 \in Worker /\ w # 0 /\ Shapes /\ Phase(w)
  BY Workers DEF Other, Protocol
<1>2. /\ pc[w] = "decision" /\ bcast[w] # <<>> /\ Decide(w, Head(bcast[w]))
      /\ bcast' = Listened(w) /\ Advance(w)
      /\ UNCHANGED <<permutation, moveVars, rootVars, chan>>
  BY DEF DecideOther
<1>3. Late(w)
  BY <1>1, <1>2 DEF Phase, Fresh, Sent, Taken, Unaware, Waiting, Informed, Tried
<1>4. PICK r \in BOOLEAN : bcast[w] = <<r>>
  BY <1>2, <1>3 DEF Late
<1>5. Head(bcast[w]) = r /\ Tail(bcast[w]) = <<>>
  BY <1>4, QueueOne, TailOne
<1>6. Shapes'
  BY <1>1, <1>2, Advances, Listens DEF Shapes, moveVars, rootVars
<1>7. OwnStep(w)
  BY <1>1, <1>2, Advances, Listens DEF OwnStep, moveVars, rootVars, SameChannels
<1>8. Fresh(w)'
  <2>1. ip'[w] = ip[w] + 1 /\ ip'[0] = ip[0] /\ pc'[w] = "ready" /\ pc'[0] = pc[0]
    BY <1>1, <1>2, Advances
  <2>2. ip[w] = ip[0] - 1 /\ ip[0] \in Int
    BY <1>1, <1>3 DEF Late, Shapes
  <2>3. bcast'[w] = <<>>
    BY <1>1, <1>2, <1>5, Listens
  <2> QED
    BY <1>2, <1>3, <2>1, <2>2, <2>3 DEF Late, Fresh, Channels, Awaited, rootVars
<1>9. Protocol'
  BY <1>6, <1>7, <1>8, OwnStepProtocol DEF Phase
<1>10. Decide(w, r)
  BY <1>2, <1>5
<1> QED
  BY <1>1, <1>2, <1>4, <1>9, <1>10, Advances

-----------------------------------------------------------------------------
(* The steps of rank 0.  The ranks it still waits for remain where they    *)
(* are.                                                                    *)
Still(u) == /\ pc'[u] = pc[u] /\ ip'[u] = ip[u] /\ ip'[0] = ip[0]
            /\ bcast'[u] = bcast[u] /\ SameChannels(u) /\ permutation' = permutation

(* A rank whose permutation rank 0 does not receive now stays in its       *)
(* phase.                                                                  *)
LEMMA AwaitedStill ==
  ASSUME NEW u \in Other, Late(u) \/ Fresh(u) \/ Sent(u), Still(u), Awaited(u)'
  PROVE  Phase(u)'
<1>1. \A x, y, z : Channels(u, x, y, z)' <=> Channels(u, x, y, z)
  BY DEF Still, SameChannels, Channels
<1>2. Late(u) => Late(u)'
  BY <1>1 DEF Still, Late
<1>3. Fresh(u) => Fresh(u)'
  BY <1>1 DEF Still, Fresh
<1>4. Sent(u) => Sent(u)'
  BY <1>1 DEF Still, Sent, Msg
<1> QED
  BY <1>2, <1>3, <1>4 DEF Phase

(* Rank 0 knows its own labels.                                            *)
LEMMA FirstLabels ==
  ASSUME Permutes, NEW c \in Seq(Part)
  PROVE  /\ [k \in DOMAIN c |-> Along[0][c[k]]] = c
         /\ permutation[0][1] = Along[1]
<1>1. /\ Along[0] = Identity(Part) /\ 0 \in Worker /\ Along[1] \in Maps
      /\ permutation[0][1] \in Maps
      /\ \A i \in Part : Along[0 + 1][i] = permutation[0][1][Along[0][i]]
  <2>1. 0 \in Worker /\ 1 \in 0 .. NWorker
    BY Workers
  <2>2. permutation[0][1] \in Maps
    BY <2>1 DEF Permutes, Perms, Maps
  <2>3. \A i \in Part : Along[0 + 1][i] = permutation[0][1][Along[0][i]]
    BY <2>1, AlongIs
  <2> QED
    BY <2>1, <2>2, <2>3, AlongIs
<1>2. permutation[0][1] = Along[1]
  BY <1>1 DEF Identity, Maps
<1>3. \A k \in DOMAIN c : Along[0][c[k]] = c[k]
  BY <1>1 DEF Identity
<1> QED
  BY <1>2, <1>3

LEMMA ChooseRootStep ==
  ASSUME Protocol, NEW c \in Choices, ChooseRoot(c)
  PROVE  Protocol'
<1>1. 0 \in Worker /\ 1 \in Other /\ Other \subseteq Worker /\ Shapes /\ c \in Seq(Part)
      /\ \A u \in Other : Phase(u)
  BY Workers, ChoicesAssumption DEF Other, Protocol
<1>2. /\ pc[0] = "ready" /\ chosen' = c /\ peer' = 1 /\ Block(0, "gather")
      /\ gathered' = [gathered EXCEPT ![0] = permutation[0][1]]
      /\ globalPermutation' = permutation[0][1]
      /\ UNCHANGED <<permutation, moveVars, chan, bcast>>
  BY DEF ChooseRoot, Begins, pathVars, messageVars
<1>3. pc'[0] = "gather" /\ ip' = ip /\ \A u \in Other : pc'[u] = pc[u]
  BY <1>1, <1>2, Goes DEF Other
<1>4. Shapes'
  <2>1. /\ pc' = [w \in Worker |-> pc'[w]] /\ ip' \in [Worker -> Int]
        /\ gathered' = [w \in Worker |-> gathered'[w]]
    BY <1>1, <1>2, Goes DEF Shapes
  <2> QED
    BY <1>1, <1>2, <2>1 DEF Shapes, moveVars
<1>5. Root'
  <2>1. Along' = Along /\ permutation[0][1] = Along[1]
    BY <1>1, <1>2, AlongStays, FirstLabels DEF Protocol
  <2>2. gathered'[0] = permutation[0][1]
    BY <1>1, <1>2 DEF Shapes
  <2> QED
    BY <1>1, <1>2, <1>3, <2>1, <2>2 DEF Root, Underway
<1>6. ASSUME NEW u \in Other
      PROVE  Phase(u)'
  <2>1. Late(u) \/ Fresh(u) \/ Sent(u)
    BY <1>1, <1>2 DEF Phase, Taken, Unaware, Waiting, Informed, Tried, Underway
  <2>2. Awaited(u)'
    BY <1>1, <1>2, <1>3, Workers DEF Awaited
  <2> QED
    BY <1>2, <1>3, <2>1, <2>2, AwaitedStill DEF Still, SameChannels
<1>7. Permutes'
  BY <1>2 DEF Protocol, Permutes
<1> QED
  BY <1>4, <1>5, <1>6, <1>7 DEF Protocol

(* What Gather receives, and what it knows then.                           *)
LEMMA Gathers ==
  ASSUME Protocol, Gather
  PROVE  /\ peer \in Other /\ Sent(peer)
         /\ gathered' = [gathered EXCEPT ![peer] = permutation[peer][1]]
         /\ globalPermutation' = Along[peer + 1]
         /\ chan' = Take(peer, 0, 1)
         /\ LET reject == Permuting(chosen, Along[peer + 1])
            IN IF ~LastRank(peer)
               THEN /\ peer' = peer + 1
                    /\ UNCHANGED <<movingIndex, passing, bcast, program, ip, pc>>
               ELSE /\ bcast' = Broadcast(reject)
                    /\ IF reject
                       THEN /\ peer' = 0
                            /\ UNCHANGED <<movingIndex, passing>>
                            /\ Advance(0)
                       ELSE /\ peer' = 1
                            /\ movingIndex' = [movingIndex EXCEPT ![0] = chosen]
                            /\ passing' = chosen
                            /\ Block(0, "distribute")
         /\ UNCHANGED <<permutation, displacement, chosen>>
<1>1. pc[0] = "gather" /\ chan[peer][0][1] # <<>>
  BY DEF Gather, Arrived
<1>2. peer \in Other /\ peer \in Worker /\ globalPermutation = Along[peer] /\ Phase(peer)
  BY <1>1 DEF Protocol, Root, Other
<1>3. Sent(peer)
  BY <1>1, <1>2 DEF Phase, Late, Fresh, Taken, Unaware, Waiting, Informed, Tried, Channels
<1>4. Received(peer, 0, 1) = permutation[peer][1]
  BY <1>3, MsgIs DEF Sent, Channels, Received
<1>5. PermAppend(globalPermutation, permutation[peer][1]) = Along[peer + 1]
  <2>1. peer \in 0 .. NWorker /\ peer + 1 \in 0 .. NWorker /\ Permutes
    BY <1>2, WorkerAssumption DEF Worker, Protocol
  <2>2. /\ Along[peer] \in Maps /\ Along[peer + 1] \in Maps
        /\ \A i \in Part : Along[peer + 1][i] = permutation[peer][1][Along[peer][i]]
    BY <1>2, <2>1, AlongIs
  <2> QED
    BY <1>2, <2>2 DEF PermAppend, Maps
<1> QED
  BY <1>2, <1>3, <1>4, <1>5 DEF Gather, pathVars

(* The one channel that Gather changes.                                    *)
LEMMA GatherChannels ==
  ASSUME Protocol, Gather
  PROVE  /\ IsChan(chan')
         /\ \A u \in Other : u # peer => SameChannels(u)
         /\ chan'[peer][0][1] = <<>> /\ chan'[0][peer][111] = <<>> /\ chan'[peer][0][Sum] = <<>>
<1>1. /\ 0 \in Worker /\ 1 \in Tags /\ peer \in Worker /\ peer # 0 /\ Sent(peer)
      /\ chan' = Take(peer, 0, 1) /\ Other \subseteq Worker
  BY Gathers, Workers DEF Other
<1>2. IsChan(chan) /\ Tail(chan[peer][0][1]) = <<>>
  BY <1>1, MsgIs DEF Protocol, Shapes, Sent, Channels
<1>3. /\ IsChan(chan') /\ chan'[peer][0][1] = Tail(chan[peer][0][1])
      /\ \A x, y \in Worker, s \in Tags :
           x # peer \/ y # 0 \/ s # 1 => chan'[x][y][s] = chan[x][y][s]
  BY <1>1, <1>2, Takes
<1>4. \A u \in Other : u # peer => SameChannels(u)
  BY <1>1, <1>3, Workers DEF SameChannels, Sum, Other
<1>5. chan'[peer][0][1] = <<>> /\ chan'[0][peer][111] = <<>> /\ chan'[peer][0][Sum] = <<>>
  BY ZenonT(40), <1>1, <1>2, <1>3, Workers DEF Sent, Channels, Sum
<1> QED
  BY <1>3, <1>4, <1>5

LEMMA GatherStep ==
  ASSUME Protocol, Gather
  PROVE  Protocol'
<1> DEFINE p == peer
           reject == Permuting(chosen, Along[peer + 1])
<1>1. /\ 0 \in Worker /\ p \in Other /\ p \in Worker /\ p # 0 /\ Other \subseteq Worker
      /\ p \in Int /\ p + 1 \in Int /\ Shapes /\ Permutes /\ pc[0] = "gather"
      /\ \A u \in Other : Phase(u)
  BY Gathers, Workers DEF Other, Protocol, Gather
<1>2. /\ Sent(p) /\ gathered' = [gathered EXCEPT ![p] = permutation[p][1]]
      /\ globalPermutation' = Along[p + 1]
      /\ UNCHANGED <<permutation, displacement, chosen>> /\ Along' = Along
  BY Gathers, AlongStays
<1>3. /\ IsChan(chan') /\ \A u \in Other : u # p => SameChannels(u)
      /\ chan'[p][0][1] = <<>> /\ chan'[0][p][111] = <<>> /\ chan'[p][0][Sum] = <<>>
  BY GatherChannels
<1>4. ASSUME NEW u \in Other, u # p
      PROVE  \/ p < u /\ (Late(u) \/ Fresh(u) \/ Sent(u))
             \/ u < p /\ Taken(u)
  <2>1. Late(u) \/ Fresh(u) \/ Sent(u) \/ Taken(u)
    BY <1>1 DEF Phase, Unaware, Waiting, Informed, Tried, Underway
  <2>2. u \in Int /\ peer \in Int /\ u # peer
    BY <1>1, <1>4, Workers
  <2>3. Taken(u) => u < peer
    BY DEF Taken
  <2>4. Late(u) \/ Fresh(u) \/ Sent(u) => peer <= u
    BY <1>1 DEF Late, Fresh, Sent, Awaited
  <2> QED
    BY <2>1, <2>2, <2>3, <2>4
<1>5. /\ gathered' = [w \in Worker |-> gathered'[w]]
      /\ \A v \in 0 .. p : gathered'[v] = permutation[v][1]
  <2>1. \A v \in 0 .. p - 1 : gathered[v] = permutation[v][1]
    BY <1>1 DEF Protocol, Root
  <2>2. gathered = [w \in Worker |-> gathered[w]] /\ peer \in Worker
    BY <1>1 DEF Shapes
  <2>3. /\ gathered' = [w \in Worker |-> gathered'[w]] /\ gathered'[peer] = permutation[peer][1]
        /\ \A v \in Worker : v # peer => gathered'[v] = gathered[v]
    BY <1>2, <2>2, OneChanged
  <2>4. ASSUME NEW v \in 0 .. peer
        PROVE  gathered'[v] = permutation[v][1]
    <3>1. v \in Worker /\ (v = peer \/ v \in 0 .. peer - 1)
      <4>1. peer \in 0 .. NWorker - 1 /\ NWorker \in Nat
        BY <1>1, Workers DEF Worker
      <4> QED
        BY <4>1 DEF Worker
    <3> QED
      BY <2>1, <2>3, <3>1
  <2> QED
    BY <2>3, <2>4
<1>6. Permutes'
  BY <1>2 DEF Protocol, Permutes
<1>7. CASE ~LastRank(p)
  <2>1. p + 1 \in Other
    BY <1>1, <1>7, Workers DEF LastRank
  <2>2. peer' = p + 1 /\ UNCHANGED <<movingIndex, passing, bcast, program, ip, pc>>
    BY <1>7, Gathers
  <2>3. Shapes'
    BY <1>1, <1>2, <1>3, <1>5, <2>2 DEF Shapes
  <2>4. Root'
    <3>1. \A v \in 0 .. peer' - 1 : gathered'[v] = permutation'[v][1]
      BY <1>1, <1>2, <1>5, <2>2
    <3> QED
      BY <1>1, <1>2, <2>1, <2>2, <3>1 DEF Root, Underway
  <2>5. ASSUME NEW u \in Other
        PROVE  Phase(u)'
    <3>1. CASE u = p
      <4>1. Taken(u)'
        BY <1>1, <1>2, <1>3, <2>2, <3>1 DEF Sent, Taken, Channels
      <4> QED
        BY <4>1 DEF Phase
    <3>2. CASE u # p /\ Taken(u)
      <4>1. Taken(u)'
        BY <1>1, <1>3, <1>4, <2>2, <3>2, Workers DEF Taken, Channels, SameChannels
      <4> QED
        BY <4>1 DEF Phase
    <3>3. CASE p < u /\ (Late(u) \/ Fresh(u) \/ Sent(u))
      <4>1. Still(u) /\ Awaited(u)'
        BY <1>1, <1>2, <1>3, <2>2, <3>3, Workers DEF Still, Awaited
      <4> QED
        BY <3>3, <4>1, AwaitedStill
    <3> QED
      BY <1>4, <3>1, <3>2, <3>3
  <2> QED
    BY <1>6, <2>3, <2>4, <2>5 DEF Protocol
<1>8. ASSUME LastRank(p), NEW u \in Other
      PROVE  pc[u] = "reject" /\ ip[u] = ip[0] /\ bcast[u] = <<>> /\ Channels(u, <<>>, <<>>, <<>>)'
  <2>1. CASE u = p
    BY <1>2, <1>3, <2>1 DEF Sent, Channels
  <2>2. CASE u # p
    <3>1. Taken(u)
      BY <1>1, <1>4, <1>8, <2>2, Workers DEF LastRank
    <3> QED
      BY <1>3, <2>2, <3>1 DEF Taken, Channels, SameChannels
  <2> QED
    BY <2>1, <2>2
<1>9. CASE LastRank(p) /\ reject
  <2>1. bcast' = Broadcast(TRUE) /\ Advance(0) /\ UNCHANGED movingIndex /\ peer' = 0
    <3>1. bcast' = Broadcast(reject) /\ Advance(0) /\ UNCHANGED movingIndex /\ peer' = 0
      BY <1>9, Gathers
    <3>2. reject = TRUE
      BY <1>9 DEF Permuting
    <3> QED
      BY <3>1, <3>2
  <2>2. /\ pc'[0] = "ready" /\ ip'[0] = ip[0] + 1 /\ ip' \in [Worker -> Int]
        /\ \A u \in Other : pc'[u] = pc[u] /\ ip'[u] = ip[u] /\ bcast'[u] = Append(bcast[u], TRUE)
    BY <1>1, <2>1, Advances, Broadcasts DEF Other
  <2>3. Shapes'
    <3>1. /\ pc' = [w \in Worker |-> pc'[w]] /\ bcast' = [w \in Worker |-> bcast'[w]]
          /\ peer' \in Int
      <4>1. pc' = [w \in Worker |-> pc'[w]]
        BY <1>1, <2>1, Advances
      <4>2. bcast' = [w \in Worker |-> bcast'[w]]
        BY <1>1, <2>1, Broadcasts
      <4>3. peer' \in Int
        BY <2>1
      <4> QED
        BY <4>1, <4>2, <4>3
    <3> QED
      BY <1>1, <1>2, <1>3, <1>5, <2>1, <2>2, <3>1 DEF Shapes
  <2>4. Root'
    BY <2>2 DEF Root, Underway
  <2>5. ASSUME NEW u \in Other
        PROVE  Phase(u)'
    <3>1. bcast'[u] = <<TRUE>>
      BY <1>8, <1>9, <2>2, QueueOne
    <3>2. ip'[u] = ip'[0] - 1
      <4>1. ip[u] = ip[0] /\ ip[0] \in Int
        BY <1>1, <1>8, <1>9 DEF Shapes
      <4>2. ip'[u] = ip[u] /\ ip'[0] = ip[0] + 1
        BY <2>2
      <4> QED
        BY <4>1, <4>2
    <3>3. Late(u)'
      BY <1>8, <1>9, <2>2, <3>1, <3>2 DEF Late, Awaited
    <3> QED
      BY <3>3 DEF Phase
  <2> QED
    BY <1>6, <2>3, <2>4, <2>5 DEF Protocol
<1>10. CASE LastRank(p) /\ ~reject
  <2>1. /\ bcast' = Broadcast(FALSE) /\ Block(0, "distribute") /\ passing' = chosen
        /\ movingIndex' = [movingIndex EXCEPT ![0] = chosen] /\ peer' = 1
    <3>1. /\ bcast' = Broadcast(reject) /\ Block(0, "distribute") /\ passing' = chosen
          /\ movingIndex' = [movingIndex EXCEPT ![0] = chosen] /\ peer' = 1
      BY <1>10, Gathers
    <3>2. reject = FALSE
      BY <1>10 DEF Permuting
    <3> QED
      BY <3>1, <3>2
  <2>2. /\ pc'[0] = "distribute" /\ ip' = ip
        /\ \A u \in Other : pc'[u] = pc[u] /\ bcast'[u] = Append(bcast[u], FALSE)
    BY <1>1, <2>1, Goes, Broadcasts DEF Other
  <2>3. Shapes'
    <3>1. movingIndex' \in [Worker -> Seq(Part)]
      BY <1>1, <2>1 DEF Shapes
    <3>2. /\ pc' = [w \in Worker |-> pc'[w]] /\ bcast' = [w \in Worker |-> bcast'[w]]
          /\ peer' \in Int
      BY <1>1, <2>1, Goes, Broadcasts
    <3> QED
      BY <1>1, <1>2, <1>3, <1>5, <2>2, <3>1, <3>2 DEF Shapes
  <2>4. Root'
    <3>1. \A v \in Worker : gathered'[v] = permutation'[v][1]
      BY <1>1, <1>2, <1>5, <1>10, Workers DEF LastRank, Worker
    <3>2. \A k \in DOMAIN chosen : Along[NWorker][chosen[k]] = chosen[k]
      BY <1>1, <1>10, Workers DEF LastRank, Permuting
    <3>3. passing' = [k \in DOMAIN chosen |-> Along[0][chosen[k]]]
      BY <1>1, <2>1, FirstLabels DEF Shapes
    <3>4. movingIndex'[0] = chosen /\ 1 \in Other /\ peer' - 1 = 0
      BY <1>1, <2>1, Workers DEF Shapes
    <3> QED
      BY <1>2, <2>1, <2>2, <3>1, <3>2, <3>3, <3>4 DEF Root, Underway, Labels
  <2>5. ASSUME NEW u \in Other
        PROVE  Phase(u)'
    <3>1. bcast'[u] = <<FALSE>>
      BY <1>8, <1>10, <2>2, QueueOne
    <3>2. ~Given(u)' /\ Underway'
      BY <2>1, <2>2, Workers DEF Given, Underway
    <3>3. Unaware(u)'
      BY <1>8, <1>10, <2>2, <3>1, <3>2 DEF Unaware, PassedTo
    <3> QED
      BY <3>3 DEF Phase
  <2> QED
    BY <1>6, <2>3, <2>4, <2>5 DEF Protocol
<1> QED
  BY <1>7, <1>9, <1>10

(* The labels that Distribute sends are those by which the rank knows the  *)
(* moving particles.                                                       *)
LEMMA PassesOn ==
  ASSUME Protocol, Distribute
  PROVE  peer \in Other /\ PassedOn(passing) = Labels(peer)
<1>1. /\ pc[0] = "distribute" /\ Permutes /\ chosen \in Seq(Part)
      /\ \A v \in Worker : gathered[v] = permutation[v][1]
      /\ peer \in Other /\ passing = Labels(peer - 1)
  BY DEF Distribute, Protocol, Root, Underway, Shapes
<1>2. /\ peer - 1 \in Worker /\ peer \in Worker
      /\ \A i \in Part : Along[peer][i] = permutation[peer - 1][1][Along[peer - 1][i]]
  <2>1. peer \in 1 .. NWorker - 1 /\ NWorker \in Nat
    BY <1>1, Workers
  <2>2. peer - 1 \in Worker /\ peer \in Worker /\ (peer - 1) + 1 = peer
    BY <2>1 DEF Worker
  <2> QED
    BY <1>1, <2>2, AlongIs
<1>3. \A k \in DOMAIN chosen : chosen[k] \in Part
  BY <1>1
<1>4. \A k \in DOMAIN chosen :
        gathered[peer - 1][passing[k]] = Along[peer][chosen[k]]
  BY <1>1, <1>2, <1>3 DEF Labels
<1>5. DOMAIN passing = DOMAIN chosen
  BY <1>1 DEF Labels
<1> QED
  BY <1>1, <1>4, <1>5 DEF PassedOn, Labels

LEMMA DistributeStep ==
  ASSUME Protocol, Distribute
  PROVE  Protocol'
<1>1. /\ 0 \in Worker /\ peer \in Other /\ peer \in Worker /\ peer # 0 /\ Other \subseteq Worker
      /\ peer \in Int /\ Shapes /\ pc[0] = "distribute" /\ 111 \in Tags
      /\ \A u \in Other : Phase(u)
  BY PassesOn, Workers DEF Other, Protocol, Distribute
<1>2. /\ passing' = Labels(peer) /\ Post(0, peer, 111, "moving", Labels(peer))
      /\ UNCHANGED <<permutation, moveVars, gathered, chosen, bcast>>
  BY PassesOn DEF Distribute, pathVars
<1>3. IF LastRank(peer) THEN peer' = 0 /\ Block(0, "propose")
                        ELSE peer' = peer + 1 /\ UNCHANGED progressVars
  BY DEF Distribute
<1>4. /\ pc'[0] = (IF LastRank(peer) THEN "propose" ELSE "distribute") /\ ip' = ip
      /\ pc' = [w \in Worker |-> pc'[w]] /\ \A u \in Other : pc'[u] = pc[u]
  <2>1. CASE LastRank(peer)
    BY <1>1, <1>3, <2>1, Goes DEF Other
  <2>2. CASE ~LastRank(peer)
    BY <1>1, <1>3, <2>2 DEF progressVars, Shapes
  <2> QED
    BY <2>1, <2>2
<1>5. Along' = Along /\ Permutes' /\ \A u \in Other : Labels(u)' = Labels(u)
  BY <1>2, AlongStays DEF Protocol, Permutes, Labels
<1>6. ASSUME NEW u \in Other
      PROVE  /\ Given(u) <=> u < peer
             /\ Given(u)' <=> u <= peer
  <2>1. u \in 1 .. NWorker - 1 /\ NWorker \in Nat
    BY Workers
  <2>2. CASE LastRank(peer)
    BY <1>1, <1>4, <2>1, <2>2 DEF Given, LastRank
  <2>3. CASE ~LastRank(peer)
    BY <1>1, <1>3, <1>4, <2>1, <2>3 DEF Given
  <2> QED
    BY <2>2, <2>3
<1>7. /\ IsChan(chan')
      /\ chan'[0][peer][111]
           = Append(chan[0][peer][111], [kind |-> "moving", data |-> Labels(peer)])
      /\ \A x, y \in Worker, s \in Tags :
           x # 0 \/ y # peer \/ s # 111 => chan'[x][y][s] = chan[x][y][s]
  <2>1. IsChan(chan)
    BY <1>1 DEF Shapes
  <2> QED
    BY <1>1, <1>2, <2>1, Posts
<1>8. Shapes'
  <2>1. peer' \in Int
    BY <1>1, <1>3
  <2> QED
    BY <1>1, <1>2, <1>4, <1>7, <2>1 DEF Shapes, moveVars
<1>9. Root'
  <2>1. /\ \A v \in Worker : gathered[v] = permutation[v][1]
        /\ \A k \in DOMAIN chosen : Along[NWorker][chosen[k]] = chosen[k]
        /\ movingIndex[0] = chosen
    BY <1>1 DEF Protocol, Root, Underway
  <2>2. pc'[0] = "distribute" => peer' \in Other /\ passing' = Labels(peer' - 1)
    <3>1. SUFFICES ASSUME ~LastRank(peer)
                   PROVE  peer' \in Other /\ passing' = Labels(peer' - 1)
      BY <1>4
    <3>2. peer' = peer + 1
      BY <1>3, <3>1
    <3>3. peer' \in Other /\ peer' - 1 = peer
      BY <1>1, <3>1, <3>2, Workers DEF LastRank
    <3> QED
      BY <1>2, <3>3
  <2>3. pc'[0] = "distribute" => peer' \in Other /\ passing' = Labels(peer - 1)'
    BY <1>2, <1>5, <2>2 DEF Labels
  <2> QED
    BY <1>2, <1>4, <1>5, <2>1, <2>3 DEF Root, Underway, moveVars
<1>10. ASSUME NEW u \in Other
       PROVE  Phase(u)'
  <2>1. Unaware(u) \/ Waiting(u) \/ Informed(u)
    BY <1>1 DEF Phase, Late, Fresh, Sent, Taken, Tried, Awaited
  <2>2. chan'[u][0][1] = chan[u][0][1] /\ chan'[u][0][Sum] = chan[u][0][Sum]
    BY <1>1, <1>7, Workers DEF Sum
  <2>3. PassedTo(u)' = IF u <= peer THEN Msg("moving", Labels(u)) ELSE <<>>
    BY <1>5, <1>6 DEF PassedTo, Msg
  <2>4. Unaware(u) \/ Waiting(u) => chan'[0][u][111] = PassedTo(u)'
    <3>1. SUFFICES ASSUME chan[0][u][111] = PassedTo(u)
                   PROVE  chan'[0][u][111] = PassedTo(u)'
      BY DEF Unaware, Waiting, Channels
    <3>2. CASE u = peer
      <4>1. chan[0][u][111] = <<>>
        BY <1>1, <1>6, <3>1, <3>2 DEF PassedTo
      <4>2. chan'[0][u][111] = Msg("moving", Labels(u))
        BY <1>7, <3>2, <4>1, MsgIs
      <4> QED
        BY <1>1, <2>3, <3>2, <4>2
    <3>3. CASE u # peer
      <4>1. chan'[0][u][111] = chan[0][u][111]
        BY <1>1, <1>7, <3>3
      <4>2. u <= peer <=> u < peer
        BY <1>1, <3>3, Workers
      <4> QED
        BY <1>6, <2>3, <3>1, <4>1, <4>2 DEF PassedTo
    <3> QED
      BY <3>2, <3>3
  <2>5. Unaware(u) => Unaware(u)'
    BY <1>1, <1>2, <1>4, <2>2, <2>4 DEF Unaware, Channels, Underway
  <2>6. Waiting(u) => Waiting(u)'
    BY <1>1, <1>2, <1>4, <2>2, <2>4 DEF Waiting, Channels, Underway, Proposed
  <2>7. Informed(u) => Informed(u)'
    <3>1. Informed(u) => u < peer /\ chan'[0][u][111] = chan[0][u][111]
      BY <1>1, <1>6, <1>7, Workers DEF Informed
    <3>2. u < peer => Given(u)'
      BY <1>1, <1>6, Workers
    <3> QED
      BY <1>1, <1>2, <1>4, <1>5, <2>2, <3>1, <3>2 DEF Informed, Channels, Underway, Proposed,
         moveVars
  <2> QED
    BY <2>1, <2>5, <2>6, <2>7 DEF Phase
<1> QED
  BY <1>5, <1>8, <1>9, <1>10 DEF Protocol

LEMMA ProposeRootStep ==
  ASSUME Protocol, ~Collective, ProposeRoot
  PROVE  /\ Protocol' /\ pc[0] = "propose" /\ pc' = [pc EXCEPT ![0] = "reduce"]
         /\ displacement' = [displacement EXCEPT ![0] = 0] /\ coords' = Displaced(0, 0, Boundary)
         /\ UNCHANGED <<ip, movingIndex, permutation>>
<1>1. /\ 0 \in Worker /\ Shapes /\ Permutes /\ pc[0] = "propose" /\ Other \subseteq Worker
      /\ \A u \in Other : Phase(u)
  BY Workers DEF Other, Protocol, ProposeRoot
<1>2. /\ displacement' = [displacement EXCEPT ![0] = 0] /\ bcast' = Broadcast(0)
      /\ coords' = Displaced(0, 0, Boundary) /\ Block(0, "reduce")
      /\ UNCHANGED <<permutation, movingIndex, rootVars, chan>>
  BY DEF ProposeRoot
<1>3. /\ pc'[0] = "reduce" /\ ip' = ip /\ pc' = [w \in Worker |-> pc'[w]]
      /\ \A u \in Other : pc'[u] = pc[u]
  BY <1>1, <1>2, Goes DEF Other
<1>4. bcast' = [w \in Worker |-> bcast'[w]] /\ \A u \in Other : bcast'[u] = Append(bcast[u], 0)
  BY <1>1, <1>2, Broadcasts
<1>5. Along' = Along /\ Permutes' /\ \A u \in Other : Labels(u)' = Labels(u)
  BY <1>1, <1>2, AlongStays DEF Permutes, Labels, rootVars
<1>6. displacement' = [w \in Worker |-> displacement'[w]] /\ displacement'[0] = 0
  <2>1. displacement = [w \in Worker |-> displacement[w]]
    BY <1>1 DEF Shapes
  <2> QED
    BY <1>1, <1>2, <2>1, OneChanged
<1>7. Shapes'
  BY <1>1, <1>2, <1>3, <1>4, <1>6 DEF Shapes, rootVars
<1>8. Root'
  <2>1. /\ \A v \in Worker : gathered[v] = permutation[v][1]
        /\ \A k \in DOMAIN chosen : Along[NWorker][chosen[k]] = chosen[k]
        /\ movingIndex[0] = chosen
    BY <1>1 DEF Protocol, Root, Underway
  <2> QED
    BY <1>2, <1>3, <1>5, <1>6, <2>1 DEF Root, Underway, rootVars
<1>9. ASSUME NEW u \in Other
      PROVE  Phase(u)'
  <2>1. Unaware(u) \/ Waiting(u) \/ Informed(u)
    BY <1>1 DEF Phase, Late, Fresh, Sent, Taken, Tried, Awaited
  <2>2. Given(u) /\ Given(u)' /\ Underway' /\ PassedTo(u)' = PassedTo(u)
    BY <1>1, <1>3, <1>5 DEF Given, Underway, PassedTo, Msg
  <2>3. Unaware(u) => Unaware(u)'
    <3>1. Unaware(u) => bcast'[u] = <<FALSE, 0>>
      BY <1>1, <1>4, QueueTwo DEF Unaware
    <3> QED
      BY <1>1, <1>2, <1>3, <2>2, <3>1 DEF Unaware, Channels
  <2>4. bcast[u] = Proposed => bcast'[u] = Proposed'
    BY <1>1, <1>3, <1>4, QueueOne DEF Proposed
  <2>5. Waiting(u) => Waiting(u)'
    BY <1>1, <1>2, <1>3, <2>2, <2>4 DEF Waiting, Channels
  <2>6. Informed(u) => Informed(u)'
    BY <1>1, <1>2, <1>3, <1>5, <2>2, <2>4 DEF Informed, Channels
  <2> QED
    BY <2>1, <2>3, <2>5, <2>6 DEF Phase
<1>10. Protocol'
  BY <1>5, <1>7, <1>8, <1>9 DEF Protocol
<1> QED
  BY <1>1, <1>2, <1>10 DEF Block

(* When all actions have arrived, all ranks have tried the same move.      *)
LEMMA DecideRootStep ==
  ASSUME Protocol, NEW reject \in BOOLEAN, DecideRoot(reject)
  PROVE  /\ Protocol' /\ pc[0] = "reduce" /\ pc'[0] = "ready" /\ Decide(0, reject)
         /\ \A u \in Other : /\ Tried(u) /\ pc'[u] = pc[u] /\ ip'[u] = ip[u]
                             /\ bcast'[u] = <<reject>>
<1>1. /\ 0 \in Worker /\ Shapes /\ Permutes /\ pc[0] = "reduce" /\ Other \subseteq Worker
      /\ Sum \in Tags /\ \A u \in Other : Phase(u) /\ u # 0
  BY Workers DEF Other, Protocol, DecideRoot, Sum
<1>2. /\ bcast' = Broadcast(reject) /\ Decide(0, reject) /\ Advance(0)
      /\ UNCHANGED <<permutation, moveVars, rootVars>>
      /\ \A v \in Other : chan[v][0][Sum] # <<>>
      /\ chan' = [v \in Worker |-> IF v = 0 THEN chan[v]
                                            ELSE [chan[v] EXCEPT ![0][Sum] = Tail(@)]]
  BY DEF DecideRoot, Arrived, Other
<1>3. ASSUME NEW u \in Other
      PROVE  Tried(u)
  BY <1>1, <1>2 DEF Phase, Late, Fresh, Sent, Taken, Unaware, Waiting, Informed, Channels,
     Awaited
<1>4. /\ pc'[0] = "ready" /\ ip'[0] = ip[0] + 1 /\ ip' \in [Worker -> Int]
      /\ pc' = [w \in Worker |-> pc'[w]]
      /\ \A u \in Other : pc'[u] = pc[u] /\ ip'[u] = ip[u]
  BY <1>1, <1>2, Advances DEF Other
<1>5. bcast' = [w \in Worker |-> bcast'[w]] /\ \A u \in Other : bcast'[u] = <<reject>>
  <2>1. bcast' = [w \in Worker |-> bcast'[w]] /\ \A u \in Other : bcast'[u] = Append(bcast[u], reject)
    BY <1>1, <1>2, Broadcasts
  <2>2. \A u \in Other : bcast[u] = <<>>
    BY <1>3 DEF Tried
  <2> QED
    BY <2>1, <2>2, QueueOne
<1>6. IsChan(chan')
  BY ZenonT(40), <1>1, <1>2 DEF Shapes, IsChan, AreQueues
<1>7. ASSUME NEW u \in Other
      PROVE  Channels(u, <<>>, <<>>, <<>>)'
  <2>1. chan'[0] = chan[0]
    BY <1>1, <1>2
  <2>2. u \in Worker /\ u # 0
    BY <1>1
  <2>3. chan'[u] = [chan[u] EXCEPT ![0][Sum] = Tail(chan[u][0][Sum])]
    BY <1>2, <2>2
  <2>4. chan[u] = [w \in Worker |-> chan[u][w]] /\ chan[u][0] = [t \in Tags |-> chan[u][0][t]]
    BY <1>1, <2>2 DEF Shapes, IsChan, AreQueues
  <2>5. chan'[u][0] = [chan[u][0] EXCEPT ![Sum] = Tail(chan[u][0][Sum])]
    BY <1>1, <2>3, <2>4
  <2>6. chan'[u][0][Sum] = Tail(chan[u][0][Sum]) /\ chan'[u][0][1] = chan[u][0][1]
    BY <1>1, <2>4, <2>5, Workers DEF Sum
  <2>7. /\ chan[u][0][1] = <<>> /\ chan[0][u][111] = <<>>
        /\ chan[u][0][Sum] = Msg("deltaAction", 0)
    BY <1>3 DEF Tried, Channels
  <2> QED
    BY <2>1, <2>6, <2>7, MsgIs DEF Channels
<1>8. Shapes'
  BY <1>1, <1>2, <1>4, <1>5, <1>6 DEF Shapes, moveVars, rootVars
<1>9. Root' /\ Permutes'
  BY <1>1, <1>2, <1>4 DEF Root, Underway, Permutes
<1>10. ASSUME NEW u \in Other
       PROVE  Phase(u)'
  <2>1. ip'[u] = ip'[0] - 1
    <3>1. ip[u] = ip[0] /\ ip[0] \in Int
      BY <1>1, <1>3 DEF Shapes, Tried
    <3>2. ip'[u] = ip[u] /\ ip'[0] = ip[0] + 1
      BY <1>4
    <3> QED
      BY <3>1, <3>2
  <2>2. Late(u)'
    BY <1>3, <1>4, <1>5, <1>7, <2>1 DEF Late, Awaited, Tried
  <2> QED
    BY <2>2 DEF Phase
<1>11. Protocol'
  BY <1>8, <1>9, <1>10 DEF Protocol
<1> QED
  BY <1>1, <1>2, <1>3, <1>4, <1>5, <1>11

-----------------------------------------------------------------------------
(* All actions together: Protocol is an invariant.                         *)
LEMMA ProtocolInit == Init => Protocol
<1> SUFFICES ASSUME Init PROVE Protocol
  OBVIOUS
<1>1. /\ permutation \in [Worker -> [Half -> Exchanges]] /\ 1 \in Half
      /\ movingIndex = [w \in Worker |-> <<>>]
      /\ displacement = [w \in Worker |-> w]
      /\ gathered = [w \in Worker |-> Identity(Part)]
      /\ chosen = <<>> /\ peer = 0
      /\ ip = [w \in Worker |-> 1]
      /\ pc = [w \in Worker |-> "ready"]
      /\ chan = [v \in Worker |-> [w \in Worker |-> [t \in Tags |-> <<>>]]]
      /\ bcast = [w \in Worker |-> <<>>]
  BY DEF Init, RanksInit, Half
<1>2. Permutes
  BY <1>1, ExchangesAssumption DEF Permutes
<1>3. <<>> \in Seq(Part)
  OBVIOUS
<1>4. IsChan(chan)
  BY <1>1 DEF IsChan, AreQueues
<1>5. Shapes
  BY <1>1, <1>3, <1>4 DEF Shapes
<1>6. Root
  BY <1>1, Workers DEF Root, Underway
<1>7. \A u \in Other : Fresh(u)
  BY <1>1, Workers DEF Fresh, Awaited, Channels, Other, Sum
<1> QED
  BY <1>2, <1>5, <1>6, <1>7 DEF Protocol, Phase

LEMMA ProtocolStutters ==
  ASSUME Protocol, UNCHANGED vars
  PROVE  Protocol'
<1>1. UNCHANGED <<permutation, rootVars, moveVars, ip, pc, chan, bcast>>
  BY DEF vars, pathVars, rankVars
<1>2. SameRoot /\ \A u \in Other : Same(u)
  BY <1>1 DEF SameRoot, Same, SameChannels, rootVars, moveVars
<1>3. Root'
  BY <1>1, <1>2, RootStays DEF Protocol, rootVars, moveVars
<1>4. Shapes' /\ Permutes'
  BY <1>1 DEF Protocol, Shapes, Permutes, rootVars, moveVars
<1> QED
  BY <1>2, <1>3, <1>4, PhaseStays DEF Protocol

LEMMA StepProtocol ==
  ASSUME Protocol, ~Collective, NEW w \in Worker, Step(w)
  PROVE  Protocol'
<1>1. w = 0 \/ w \in Other
  BY Workers
<1>2. ProposeOther(w) \/ DecideOther(w) \/ RecvReject(w) \/ RecvMoving(w) => w \in Other
  BY <1>1 DEF ProposeOther, DecideOther, RecvReject, RecvMoving, Protocol, Root
<1>3. ASSUME NEW c \in Choices, ChooseRoot(c)
      PROVE  Protocol'
  BY <1>3, ChooseRootStep
<1>4. ASSUME NEW reject \in BOOLEAN, DecideRoot(reject)
      PROVE  Protocol'
  BY <1>4, DecideRootStep
<1> QED
  BY <1>2, <1>3, <1>4, SendLocalStep, GatherStep, DistributeStep, RecvRejectStep,
     RecvMovingStep, ProposeRootStep, ProposeOtherStep, DecideOtherStep DEF Step

-----------------------------------------------------------------------------
(* Ranks that go for a decision were told the same: rank 0's vector, and   *)
(* labels of the same worldlines.                                          *)
Follow(v, w) ==
  movingIndex[w] = [k \in DOMAIN movingIndex[v] |-> permutation[v][1][movingIndex[v][k]]]

Agreement ==
  /\ \A w \in Other : pc[w] = "decision" => displacement[w] = 0
  /\ \A v, w \in Other :
       w = v + 1 /\ pc[v] = "decision" /\ pc[w] = "decision" => Follow(v, w)

(* Neighbouring ranks that have proposed move the same worldlines.         *)
LEMMA TriedFollow ==
  ASSUME Protocol, pc[0] = "reduce", NEW v \in Worker, v = 0 \/ Tried(v),
         NextW(v) = 0 \/ Tried(NextW(v))
  PROVE  Follow(v, NextW(v)) /\ ip[NextW(v)] = ip[v]
<1>1. /\ Permutes /\ chosen \in Seq(Part) /\ movingIndex[0] = chosen
      /\ \A k \in DOMAIN chosen : Along[NWorker][chosen[k]] = chosen[k]
      /\ 0 \in Worker /\ v \in 0 .. NWorker - 1 /\ NWorker \in Nat /\ NWorker > 1
  BY Workers DEF Protocol, Shapes, Root, Underway, Worker
<1>2. movingIndex[v] = Labels(v)
  <2>1. movingIndex[0] = Labels(0)
    BY <1>1, FirstLabels DEF Labels
  <2> QED
    BY <2>1 DEF Tried
<1>3. \A k \in DOMAIN chosen : Along[v + 1][chosen[k]] = permutation[v][1][Along[v][chosen[k]]]
  BY <1>1, AlongIs
<1>4. movingIndex[NextW(v)] = [k \in DOMAIN chosen |-> Along[v + 1][chosen[k]]]
  <2>1. CASE v = NWorker - 1
    <3>1. NextW(v) = 0
      BY <1>1, <2>1 DEF NextW
    <3>2. chosen = [k \in DOMAIN chosen |-> Along[NWorker][chosen[k]]]
      BY <1>1
    <3> QED
      BY <1>1, <2>1, <3>1, <3>2
  <2>2. CASE v # NWorker - 1
    <3>1. NextW(v) = v + 1 /\ NextW(v) # 0
      BY <1>1, <2>2 DEF NextW
    <3>2. movingIndex[NextW(v)] = Labels(NextW(v))
      BY <3>1 DEF Tried
    <3> QED
      BY <3>1, <3>2 DEF Labels
  <2> QED
    BY <2>1, <2>2
<1>5. DOMAIN movingIndex[v] = DOMAIN chosen
      /\ \A k \in DOMAIN chosen : movingIndex[v][k] = Along[v][chosen[k]]
  BY <1>2 DEF Labels
<1>6. Follow(v, NextW(v))
  BY <1>3, <1>4, <1>5 DEF Follow
<1>7. ip[NextW(v)] = ip[v]
  BY DEF Tried
<1> QED
  BY <1>6, <1>7

(* A rank goes for a decision only when rank 0 has proposed, and forgets   *)
(* nothing until it comes.                                                 *)
Deciding(u) ==
  pc'[u] = "decision" =>
    \/ pc[u] = "decision" /\ movingIndex'[u] = movingIndex[u] /\ displacement'[u] = displacement[u]
    \/ pc[0] = "reduce" /\ pc'[0] = "reduce" /\ displacement'[u] = 0

(* A rank enters the decision with the random numbers of rank 0.           *)
LEMMA StepDeciding ==
  ASSUME Protocol, ~Collective, NEW w \in Worker, Step(w), NEW u \in Other
  PROVE  Deciding(u)
<1>1. /\ u \in Worker /\ u # 0 /\ 0 \in Worker /\ Shapes /\ (w = 0 \/ w \in Other)
      /\ (w \in Other => w # 0)
  BY Workers DEF Other, Protocol
<1>2. ASSUME NEW where, where # "decision", Block(w, where)
      PROVE  pc'[u] = "decision" => pc[u] = "decision" /\ u # w
  BY <1>1, <1>2, Goes
<1>3. Advance(w) => (pc'[u] = "decision" => pc[u] = "decision" /\ u # w)
  BY <1>1, Advances
<1>4. ASSUME NEW c \in Choices, ChooseRoot(c), w = 0
      PROVE  Deciding(u)
  BY <1>1, <1>2, <1>4 DEF ChooseRoot, Deciding, moveVars
<1>5. CASE SendLocal(w)
  BY <1>1, <1>2, <1>5 DEF SendLocal, Deciding, moveVars
<1>6. CASE w = 0 /\ Gather
  <2>1. movingIndex'[u] = movingIndex[u] /\ displacement' = displacement
    BY <1>1, <1>6, Gathers DEF Shapes
  <2>2. pc'[u] = "decision" => pc[u] = "decision"
    BY <1>1, <1>2, <1>3, <1>6, Gathers
  <2> QED
    BY <2>1, <2>2 DEF Deciding
<1>7. CASE w = 0 /\ Distribute
  BY <1>1, <1>2, <1>7 DEF Distribute, Deciding, moveVars, progressVars
<1>8. CASE RecvReject(w)
  BY <1>1, <1>2, <1>3, <1>8 DEF RecvReject, Deciding, moveVars
<1>9. CASE RecvMoving(w)
  <2>1. u # w => movingIndex'[u] = movingIndex[u]
    BY <1>1, <1>9 DEF RecvMoving, Shapes
  <2>2. Block(w, "displacement") /\ displacement' = displacement
    BY <1>9 DEF RecvMoving
  <2> QED
    BY <1>1, <1>2, <2>1, <2>2 DEF Deciding
<1>10. CASE w = 0 /\ ProposeRoot
  <2>1. /\ pc' = [pc EXCEPT ![0] = "reduce"] /\ displacement' = [displacement EXCEPT ![0] = 0]
        /\ movingIndex' = movingIndex
    BY <1>10, ProposeRootStep
  <2> QED
    BY <1>1, <2>1 DEF Deciding, Shapes
<1>11. CASE ProposeOther(w)
  <2>1. w \in Other
    BY <1>1, <1>11 DEF ProposeOther, Protocol, Root
  <2>2. /\ pc[0] = "reduce" /\ pc' = [pc EXCEPT ![w] = "decision"]
        /\ displacement' = [displacement EXCEPT ![w] = 0] /\ movingIndex' = movingIndex
    BY <1>11, <2>1, ProposeOtherStep DEF ProposeOther
  <2> QED
    BY <1>1, <2>1, <2>2 DEF Deciding, Shapes
<1>12. ASSUME NEW reject \in BOOLEAN, DecideRoot(reject), w = 0
       PROVE  Deciding(u)
  BY <1>1, <1>3, <1>12 DEF DecideRoot, Deciding, moveVars
<1>13. CASE DecideOther(w)
  BY <1>1, <1>3, <1>13 DEF DecideOther, Deciding, moveVars
<1> QED
  BY <1>4, <1>5, <1>6, <1>7, <1>8, <1>9, <1>10, <1>11, <1>12, <1>13 DEF Step

LEMMA InDecision ==
  ASSUME Protocol, NEW u \in Other, pc[u] = "decision"
  PROVE  Tried(u) \/ (Late(u) /\ pc[0] # "reduce")
BY DEF Protocol, Phase, Late, Fresh, Sent, Taken, Unaware, Waiting, Informed, Awaited

TriedAgree ==
  pc[0] = "reduce" =>
    \A v, w \in Other : w = v + 1 /\ pc[v] = "decision" /\ pc[w] = "decision" => Follow(v, w)

LEMMA TriedAgreement == Protocol => TriedAgree
<1> SUFFICES ASSUME Protocol, pc[0] = "reduce", NEW v \in Other, NEW w \in Other, w = v + 1,
                    pc[v] = "decision", pc[w] = "decision"
             PROVE  Follow(v, w)
  BY DEF TriedAgree
<1>1. Tried(v) /\ Tried(w)
  BY InDecision
<1>2. v \in Worker /\ w = NextW(v)
  BY Workers DEF NextW, Other
<1> QED
  BY <1>1, <1>2, TriedFollow

LEMMA TriedAgreementNext == Protocol' => TriedAgree'
BY TriedAgreement, PTL

(* Agreement is kept by every step.                                        *)
LEMMA AgreementStep ==
  ASSUME Protocol, Agreement, Protocol', permutation' = permutation,
         \A u \in Other : Deciding(u)
  PROVE  Agreement'
<1>1. ASSUME NEW u \in Other, pc'[u] = "decision"
      PROVE  displacement'[u] = 0
  BY <1>1 DEF Deciding, Agreement
<1>2. ASSUME NEW v \in Other, NEW w \in Other, w = v + 1, pc'[v] = "decision", pc'[w] = "decision"
      PROVE  Follow(v, w)'
  <2>1. CASE pc'[0] = "reduce"
    BY <1>2, <2>1, TriedAgreementNext DEF TriedAgree
  <2>2. CASE pc'[0] # "reduce"
    <3>1. /\ pc[v] = "decision" /\ movingIndex'[v] = movingIndex[v]
          /\ pc[w] = "decision" /\ movingIndex'[w] = movingIndex[w]
      BY <1>2, <2>2 DEF Deciding
    <3> QED
      BY <1>2, <3>1 DEF Agreement, Follow
  <2> QED
    BY <2>1, <2>2
<1> QED
  BY <1>1, <1>2 DEF Agreement

(* Ranks that evaluate the same trial go for the same displacement of the  *)
(* same worldlines.                                                        *)
LEMMA NeighboursAgree ==
  ASSUME Protocol, Agreement, NEW w \in Worker, pc[w] \in {"reduce", "decision"},
         pc[NextW(w)] \in {"reduce", "decision"}
  PROVE  /\ displacement[w] = 0 /\ displacement[NextW(w)] = 0
         /\ ip[NextW(w)] = ip[w] => Follow(w, NextW(w))
<1>1. w \in 0 .. NWorker - 1 /\ NWorker \in Nat /\ NWorker > 1
      /\ NextW(w) \in Worker /\ NextW(w) # w
      /\ (NextW(w) = 0 \/ NextW(w) = w + 1)
  BY Workers DEF Worker, NextW
<1>2. ASSUME NEW u \in Worker, pc[u] \in {"reduce", "decision"}
      PROVE  /\ displacement[u] = 0
             /\ \/ u = 0 /\ pc[0] = "reduce"
                \/ u \in Other /\ pc[u] = "decision"
  <2>1. CASE u = 0
    BY <1>2, <2>1 DEF Protocol, Root
  <2>2. CASE u \in Other
    <3>1. pc[u] = "decision"
      BY <1>2, <2>2 DEF Protocol, Phase, Late, Fresh, Sent, Taken, Unaware, Waiting,
         Informed, Tried
    <3> QED
      BY <2>2, <3>1 DEF Agreement
  <2> QED
    BY <2>1, <2>2, Workers
<1>3. CASE pc[0] = "reduce"
  <2>1. (w = 0 \/ Tried(w)) /\ (NextW(w) = 0 \/ Tried(NextW(w)))
    BY <1>1, <1>2, <1>3, InDecision
  <2> QED
    BY <1>1, <1>2, <1>3, <2>1, TriedFollow
<1>4. CASE pc[0] # "reduce"
  <2>1. w \in Other /\ NextW(w) \in Other /\ pc[w] = "decision" /\ pc[NextW(w)] = "decision"
    BY <1>1, <1>2, <1>4
  <2>2. NextW(w) = w + 1
    BY <1>1, <2>1 DEF Other
  <2> QED
    BY <1>1, <1>2, <2>1, <2>2 DEF Agreement
<1> QED
  BY <1>3, <1>4

(* Ranks that follow one another displace the same worldlines by the same  *)
(* vectors.                                                                *)
LEMMA FollowersVectors ==
  ASSUME Permutes, NEW v \in Worker, NEW w \in Worker, movingIndex[v] \in Seq(Part),
         Follow(v, w), ip[w] = ip[v], NEW d, NEW i \in Part
  PROVE  Vectors(v, d, i) = Vectors(w, d, permutation[v][1][i])
<1>1. DOMAIN movingIndex[w] = DOMAIN movingIndex[v]
  BY DEF Follow
<1>2. ASSUME NEW m \in DOMAIN movingIndex[v]
      PROVE  movingIndex[v][m] = i <=> movingIndex[w][m] = permutation[v][1][i]
  <2>1. movingIndex[v][m] \in Part /\ permutation[v][1] \in Perms(Part)
    BY DEF Permutes
  <2>2. movingIndex[w][m] = permutation[v][1][movingIndex[v][m]]
    BY DEF Follow
  <2> QED
    BY <2>1, <2>2 DEF Perms
<1>3. {m \in DOMAIN movingIndex[v] : movingIndex[v][m] = i}
        = {m \in DOMAIN movingIndex[w] : movingIndex[w][m] = permutation[v][1][i]}
  BY <1>1, <1>2
<1>4. {<<ip[v], d, k>> : k \in {m \in DOMAIN movingIndex[v] : movingIndex[v][m] = i}}
        = {<<ip[w], d, k>> : k \in {m \in DOMAIN movingIndex[w] :
                                      movingIndex[w][m] = permutation[v][1][i]}}
  BY <1>3
<1> QED
  BY <1>4 DEF Vectors

LEMMA AgreementShown ==
  ASSUME Protocol, Agreement, ~Double
  PROVE  ProposalsAgree
<1> SUFFICES ASSUME NEW w \in Worker, NEW h \in Half, NEW i \in Part,
                    pc[w] \in {"reduce", "decision"}, pc[NextW(w)] \in {"reduce", "decision"},
                    ip[NextW(w)] = ip[w]
             PROVE  Vectors(w, displacement[w], i)
                      = Vectors(NextW(w), displacement[NextW(w)], NextLabel(w, h, i))
  BY DEF ProposalsAgree
<1>1. h = 1 /\ NextW(w) \in Worker /\ movingIndex[w] \in Seq(Part) /\ Permutes
  BY Workers DEF Half, NextW, Worker, Protocol, Shapes
<1>2. displacement[w] = 0 /\ displacement[NextW(w)] = 0 /\ Follow(w, NextW(w))
  BY NeighboursAgree
<1>3. Vectors(w, 0, i) = Vectors(NextW(w), 0, permutation[w][1][i])
  BY <1>1, <1>2, FollowersVectors
<1> QED
  BY <1>1, <1>2, <1>3 DEF NextLabel

-----------------------------------------------------------------------------
(* Bags of displacements.                                                  *)
LEMMA BagSum ==
  ASSUME NEW A, NEW B, IsABag(A), IsABag(B)
  PROVE  IsABag(A (+) B)
BY DEF IsABag, (+), BagToSet

(* A displacement added and taken back leaves the coordinate as it was.    *)
LEMMA BagBack ==
  ASSUME NEW A, NEW B, IsABag(A), IsABag(B)
  PROVE  (A (+) B) (-) B = A
<1> DEFINE S == A (+) B
           D == [e \in DOMAIN S |-> IF e \in DOMAIN B THEN S[e] - B[e] ELSE S[e]]
<1>1. /\ A \in [DOMAIN A -> {n \in Nat : n > 0}] /\ B \in [DOMAIN B -> {n \in Nat : n > 0}]
      /\ A = [e \in DOMAIN A |-> A[e]]
  BY DEF IsABag
<1>2. S = [e \in DOMAIN A \cup DOMAIN B |->
             (IF e \in DOMAIN A THEN A[e] ELSE 0) + (IF e \in DOMAIN B THEN B[e] ELSE 0)]
  BY DEF (+), BagToSet
<1>3. S (-) B = [e \in {d \in DOMAIN D : D[d] > 0} |-> D[e]]
  BY DEF (-), BagToSet
<1> HIDE DEF S
<1>4. \A e \in DOMAIN A \cup DOMAIN B : D[e] = IF e \in DOMAIN A THEN A[e] ELSE 0
  BY <1>1, <1>2
<1>5. DOMAIN D = DOMAIN A \cup DOMAIN B
  BY <1>2
<1> HIDE DEF D
<1>6. {d \in DOMAIN D : D[d] > 0} = DOMAIN A
  BY <1>1, <1>4, <1>5
<1>7. S (-) B = [e \in DOMAIN A |-> A[e]]
  BY <1>3, <1>4, <1>6
<1> QED
  BY <1>1, <1>7 DEF S

LEMMA SetBag ==
  ASSUME NEW S
  PROVE  IsABag(SetToBag(S))
BY DEF IsABag, SetToBag

LEMMA NoVector == EmptyBag (+) EmptyBag = EmptyBag
BY DEF EmptyBag, SetToBag, (+), BagToSet

-----------------------------------------------------------------------------
(* The coordinates on all ranks, once the decisions on their way are       *)
(* carried out.                                                            *)
Owned(w, i) == coords[w][1]["owned"][i]
Accepted(w) == w # 0 /\ pc[w] = "decision" /\ bcast[w] = <<FALSE>>
Final(w, i) == IF Accepted(w) THEN Owned(w, i) (+) Vectors(w, 0, i) ELSE Owned(w, i)
Trying(w) == pc[w] \in {"reduce", "decision"}

Coordinates ==
  /\ coords = [w \in Worker |-> coords[w]]
  /\ \A w \in Worker, i \in Part : IsABag(Owned(w, i))
(* The buffer slices follow the owned ones, but for the move on trial.     *)
Boundaries ==
  \A w \in Worker, p \in Boundary, i \in Part :
    coords[w][1][p][i] = IF Trying(w) THEN Owned(w, i) (+) Vectors(w, 0, i) ELSE Owned(w, i)
Rigid == \A w \in Worker, i, j \in Part :
           permutation[w][1][i] = j => Final(w, i) = Final(NextW(w), j)
Staying == \A i \in Part : Along[NWorker][i] # i => Owned(0, i) = EmptyBag

Moved == Coordinates /\ Boundaries /\ Rigid /\ Staying

(* What the two kinds of move do to one coordinate.                        *)
LEMMA Displaces ==
  ASSUME coords = [u \in Worker |-> coords[u]], NEW w \in Worker, NEW d, NEW places,
         coords' = Displaced(w, d, places)
  PROVE  /\ coords' = [u \in Worker |-> coords'[u]]
         /\ \A u \in Worker : u # w => coords'[u] = coords[u]
         /\ \A p \in Place, i \in Part :
              coords'[w][1][p][i] = IF p \notin places THEN coords[w][1][p][i]
                                    ELSE coords[w][1][p][i] (+) Vectors(w, d, i)
<1> DEFINE new == [h \in Half |-> [p \in Place |-> [i \in Part |->
                     IF p \notin places THEN coords[w][h][p][i]
                     ELSE coords[w][h][p][i] (+) Vectors(w, d, i)]]]
<1>1. coords' = [coords EXCEPT ![w] = new]
  BY DEF Displaced, Combined
<1>2. 1 \in Half
  BY DEF Half
<1>3. \A p \in Place, i \in Part :
        new[1][p][i] = IF p \notin places THEN coords[w][1][p][i]
                       ELSE coords[w][1][p][i] (+) Vectors(w, d, i)
  BY <1>2
<1> HIDE DEF new
<1>4. /\ coords' = [u \in Worker |-> coords'[u]] /\ coords'[w] = new
      /\ \A u \in Worker : u # w => coords'[u] = coords[u]
  BY <1>1, OneChanged
<1> QED
  BY <1>3, <1>4

LEMMA Restores ==
  ASSUME coords = [u \in Worker |-> coords[u]], NEW w \in Worker, NEW d,
         coords' = Restored(w, d)
  PROVE  /\ coords' = [u \in Worker |-> coords'[u]]
         /\ \A u \in Worker : u # w => coords'[u] = coords[u]
         /\ \A p \in Place, i \in Part :
              coords'[w][1][p][i] = IF p \notin Boundary THEN coords[w][1][p][i]
                                    ELSE coords[w][1][p][i] (-) Vectors(w, d, i)
<1> DEFINE new == [h \in Half |-> [p \in Place |-> [i \in Part |->
                     IF p \notin Boundary THEN coords[w][h][p][i]
                     ELSE coords[w][h][p][i] (-) Vectors(w, d, i)]]]
<1>1. coords' = [coords EXCEPT ![w] = new]
  BY DEF Restored, Combined
<1>2. 1 \in Half
  BY DEF Half
<1>3. \A p \in Place, i \in Part :
        new[1][p][i] = IF p \notin Boundary THEN coords[w][1][p][i]
                       ELSE coords[w][1][p][i] (-) Vectors(w, d, i)
  BY <1>2
<1> HIDE DEF new
<1>4. /\ coords' = [u \in Worker |-> coords'[u]] /\ coords'[w] = new
      /\ \A u \in Worker : u # w => coords'[u] = coords[u]
  BY <1>1, OneChanged
<1> QED
  BY <1>3, <1>4

LEMMA Slices == /\ Boundary \subseteq Place /\ "owned" \in Place /\ "owned" \notin Boundary
                /\ \A p \in Boundary : p # "owned"
BY DEF Boundary, Place

LEMMA VectorsBag == \A w, d, i : IsABag(Vectors(w, d, i))
BY SetBag DEF Vectors

(* Everything on rank u that the coordinates are compared by.              *)
SameTrial(u) ==
  /\ (Trying(u)' <=> Trying(u))
  /\ Trying(u) => movingIndex'[u] = movingIndex[u] /\ ip'[u] = ip[u]
  /\ (Accepted(u)' <=> Accepted(u))

(* A rank that is not concerned by a step has the same positions before it *)
(* and after.                                                              *)
LEMMA SameFinal ==
  ASSUME NEW u \in Worker, SameTrial(u), coords'[u] = coords[u]
  PROVE  /\ \A i \in Part : Final(u, i)' = Final(u, i) /\ Owned(u, i)' = Owned(u, i)
         /\ \A i : Trying(u) => Vectors(u, 0, i)' = Vectors(u, 0, i)
<1>1. \A i : Trying(u) => Vectors(u, 0, i)' = Vectors(u, 0, i)
  BY DEF SameTrial, Vectors
<1>2. Accepted(u) => Trying(u)
  BY DEF Accepted, Trying
<1> QED
  BY <1>1, <1>2 DEF SameTrial, Final, Owned

(* Steps that leave the coordinates alone.                                 *)
LEMMA MovedStays ==
  ASSUME Moved, UNCHANGED <<coords, permutation>>, \A u \in Worker : SameTrial(u)
  PROVE  Moved'
<1>1. \A u \in Worker : NextW(u) \in Worker
  BY Workers DEF Worker, NextW
<1>2. \A u \in Worker, i \in Part : Final(u, i)' = Final(u, i) /\ Owned(u, i)' = Owned(u, i)
  BY SameFinal
<1>3. Coordinates'
  BY <1>2 DEF Moved, Coordinates
<1>4. Boundaries'
  BY <1>2, SameFinal DEF Moved, Boundaries, SameTrial
<1>5. Rigid'
  BY <1>1, <1>2 DEF Moved, Rigid
<1>6. Staying'
  <2>1. 0 \in Worker /\ Along' = Along
    BY Workers, AlongStays
  <2> QED
    BY <1>2, <2>1 DEF Moved, Staying
<1> QED
  BY <1>3, <1>4, <1>5, <1>6 DEF Moved

LEMMA Nexts == \A w \in Worker : NextW(w) \in Worker
BY Workers DEF Worker, NextW

(* The proposal of rank w, which was not trying a move.                    *)
LEMMA MovedTries ==
  ASSUME Moved, NEW w \in Worker, ~Trying(w), Trying(w)', ~Accepted(w)',
         coords' = Displaced(w, 0, Boundary), UNCHANGED <<permutation, movingIndex, ip>>,
         \A u \in Worker : u # w => SameTrial(u)
  PROVE  Moved'
<1>1. /\ coords' = [u \in Worker |-> coords'[u]]
      /\ \A u \in Worker : u # w => coords'[u] = coords[u]
      /\ \A p \in Place, i \in Part :
           coords'[w][1][p][i] = IF p \notin Boundary THEN coords[w][1][p][i]
                                 ELSE coords[w][1][p][i] (+) Vectors(w, 0, i)
  BY Displaces DEF Moved, Coordinates
<1>2. \A i \in Part : Owned(w, i)' = Owned(w, i)
  BY <1>1, Slices DEF Owned
<1>3. ASSUME NEW u \in Worker, NEW i \in Part
      PROVE  Final(u, i)' = Final(u, i) /\ Owned(u, i)' = Owned(u, i)
  <2>1. CASE u = w
    <3>1. ~Accepted(w)
      BY DEF Accepted, Trying
    <3> QED
      BY <1>2, <2>1, <3>1 DEF Final
  <2>2. CASE u # w
    BY <1>1, <2>2, SameFinal
  <2> QED
    BY <2>1, <2>2
<1>4. Coordinates'
  BY <1>1, <1>3 DEF Moved, Coordinates
<1>5. Boundaries'
  <2> SUFFICES ASSUME NEW u \in Worker, NEW p \in Boundary, NEW i \in Part
               PROVE  coords'[u][1][p][i] = IF Trying(u)' THEN Owned(u, i)' (+) Vectors(u, 0, i)'
                                            ELSE Owned(u, i)'
    BY DEF Boundaries
  <2>1. CASE u = w
    <3>1. coords[w][1][p][i] = Owned(w, i)
      BY DEF Moved, Boundaries
    <3>2. coords'[w][1][p][i] = Owned(w, i) (+) Vectors(w, 0, i)
      BY <1>1, <3>1, Slices
    <3>3. Vectors(w, 0, i)' = Vectors(w, 0, i)
      BY DEF Vectors
    <3> QED
      BY <1>2, <2>1, <3>2, <3>3
  <2>2. CASE u # w
    BY <1>1, <1>3, <2>2, SameFinal DEF Moved, Boundaries, SameTrial
  <2> QED
    BY <2>1, <2>2
<1>6. Rigid'
  BY <1>3, Nexts DEF Moved, Rigid
<1>7. Staying'
  <2>1. 0 \in Worker /\ Along' = Along
    BY Workers, AlongStays
  <2> QED
    BY <1>3, <2>1 DEF Moved, Staying
<1> QED
  BY <1>4, <1>5, <1>6, <1>7 DEF Moved

(* The decision on rank w: its coordinates, and its buffer slices, end as  *)
(* they were or with the vectors of the trial.                             *)
LEMMA DecidesTo ==
  ASSUME Moved, NEW w \in Worker, Trying(w), displacement[w] = 0, NEW reject \in BOOLEAN,
         Decide(w, reject)
  PROVE  /\ coords' = [u \in Worker |-> coords'[u]]
         /\ \A u \in Worker : u # w => coords'[u] = coords[u]
         /\ \A i \in Part :
              /\ coords'[w][1]["owned"][i] = IF reject THEN Owned(w, i)
                                             ELSE Owned(w, i) (+) Vectors(w, 0, i)
              /\ \A p \in Boundary : coords'[w][1][p][i] = coords'[w][1]["owned"][i]
<1>1. \A p \in Boundary, i \in Part : coords[w][1][p][i] = Owned(w, i) (+) Vectors(w, 0, i)
  BY DEF Moved, Boundaries
<1>2. CASE reject
  <2>1. /\ coords' = [u \in Worker |-> coords'[u]]
        /\ \A u \in Worker : u # w => coords'[u] = coords[u]
        /\ \A p \in Place, i \in Part :
             coords'[w][1][p][i] = IF p \notin Boundary THEN coords[w][1][p][i]
                                   ELSE coords[w][1][p][i] (-) Vectors(w, 0, i)
    <3>1. coords' = Restored(w, 0)
      BY <1>2 DEF Decide
    <3> QED
      BY <3>1, Restores DEF Moved, Coordinates
  <2>2. \A i \in Part : (Owned(w, i) (+) Vectors(w, 0, i)) (-) Vectors(w, 0, i) = Owned(w, i)
    BY BagBack, VectorsBag DEF Moved, Coordinates
  <2> QED
    BY <1>1, <1>2, <2>1, <2>2, Slices DEF Owned
<1>3. CASE ~reject
  <2>1. /\ coords' = [u \in Worker |-> coords'[u]]
        /\ \A u \in Worker : u # w => coords'[u] = coords[u]
        /\ \A p \in Place, i \in Part :
             coords'[w][1][p][i] = IF p \notin {"owned"} THEN coords[w][1][p][i]
                                   ELSE coords[w][1][p][i] (+) Vectors(w, 0, i)
    <3>1. coords' = Displaced(w, 0, {"owned"})
      BY <1>3 DEF Decide
    <3> QED
      BY <3>1, Displaces DEF Moved, Coordinates
  <2> QED
    BY <1>1, <1>3, <2>1, Slices DEF Owned
<1> QED
  BY <1>2, <1>3

(* After the decision the buffer slices are those of the owned ones.       *)
LEMMA DecidedSlices ==
  ASSUME Moved, NEW w \in Worker, ~Trying(w)',
         coords' = [u \in Worker |-> coords'[u]],
         \A u \in Worker : u # w => coords'[u] = coords[u] /\ (Trying(u)' <=> Trying(u))
                                    /\ (Trying(u) => movingIndex'[u] = movingIndex[u]
                                                     /\ ip'[u] = ip[u]),
         \A i \in Part : /\ IsABag(coords'[w][1]["owned"][i])
                         /\ \A p \in Boundary : coords'[w][1][p][i] = coords'[w][1]["owned"][i]
  PROVE  Coordinates' /\ Boundaries'
<1>1. \A u \in Worker, i \in Part : u # w => Owned(u, i)' = Owned(u, i)
  BY DEF Owned
<1>2. \A i \in Part : Owned(w, i)' = coords'[w][1]["owned"][i]
  BY DEF Owned
<1>3. Coordinates'
  BY <1>1, <1>2 DEF Moved, Coordinates
<1>4. ASSUME NEW u \in Worker, NEW p \in Boundary, NEW i \in Part
      PROVE  coords'[u][1][p][i] = IF Trying(u)' THEN Owned(u, i)' (+) Vectors(u, 0, i)'
                                   ELSE Owned(u, i)'
  <2>1. CASE u = w
    BY <1>2, <2>1
  <2>2. CASE u # w
    <3>1. Trying(u) => Vectors(u, 0, i)' = Vectors(u, 0, i)
      BY <2>2 DEF Vectors
    <3> QED
      BY <1>1, <2>2, <3>1 DEF Moved, Boundaries
  <2> QED
    BY <2>1, <2>2
<1> QED
  BY <1>3, <1>4 DEF Boundaries

(* A decision carried out: the rank already stands, in Final, where it     *)
(* moves.                                                                  *)
LEMMA DecideOtherMoved ==
  ASSUME Protocol, Agreement, Moved, NEW w \in Other, DecideOther(w)
  PROVE  Moved'
<1>1. /\ w \in Worker /\ w # 0 /\ 0 \in Worker /\ Shapes
      /\ pc[w] = "decision" /\ pc'[w] = "ready" /\ displacement[w] = 0
      /\ UNCHANGED <<permutation, movingIndex>>
  BY DecideOtherStep, Workers DEF Other, Agreement, Protocol, DecideOther, moveVars
<1>2. PICK r \in BOOLEAN : bcast[w] = <<r>> /\ Decide(w, r)
  BY DecideOtherStep
<1>3. Trying(w) /\ ~Trying(w)' /\ ~Accepted(w)'
  BY <1>1 DEF Trying, Accepted
<1>4. /\ coords' = [u \in Worker |-> coords'[u]]
      /\ \A u \in Worker : u # w => coords'[u] = coords[u]
      /\ \A i \in Part :
           /\ coords'[w][1]["owned"][i] = IF r THEN Owned(w, i)
                                          ELSE Owned(w, i) (+) Vectors(w, 0, i)
           /\ \A p \in Boundary : coords'[w][1][p][i] = coords'[w][1]["owned"][i]
  BY <1>1, <1>2, <1>3, DecidesTo
<1>5. \A u \in Worker : u # w => /\ pc'[u] = pc[u] /\ ip'[u] = ip[u]
                                 /\ bcast'[u] = bcast[u]
  BY <1>1, Advances, Listens DEF DecideOther
<1>6. \A u \in Worker : u # w => SameTrial(u)
  BY <1>1, <1>5 DEF SameTrial, Trying, Accepted
<1>7. Accepted(w) <=> ~r
  <2>1. Head(<<r>>) = r /\ Head(<<FALSE>>) = FALSE
    BY QueueOne
  <2>2. CASE r
    <3>1. <<r>> # <<FALSE>>
      BY <2>1, <2>2
    <3> QED
      BY <1>2, <2>2, <3>1 DEF Accepted
  <2>3. CASE ~r
    <3>1. r = FALSE
      BY <2>3
    <3> QED
      BY <1>1, <1>2, <3>1 DEF Accepted
  <2> QED
    BY <2>2, <2>3
<1>8. ASSUME NEW u \in Worker, NEW i \in Part
      PROVE  Final(u, i)' = Final(u, i)
  <2>1. CASE u = w
    <3>1. Final(w, i)' = coords'[w][1]["owned"][i]
      BY <1>3 DEF Final, Owned
    <3> QED
      BY <1>4, <1>7, <2>1, <3>1 DEF Final
  <2>2. CASE u # w
    BY <1>4, <1>6, <2>2, SameFinal
  <2> QED
    BY <2>1, <2>2
<1>9. Coordinates' /\ Boundaries'
  <2>1. \A i \in Part : IsABag(coords'[w][1]["owned"][i])
    <3>1. \A i \in Part : IsABag(Owned(w, i)) /\ IsABag(Owned(w, i) (+) Vectors(w, 0, i))
      BY <1>1, BagSum, VectorsBag DEF Moved, Coordinates
    <3> QED
      BY <1>4, <3>1
  <2>2. \A u \in Worker : u # w => coords'[u] = coords[u] /\ (Trying(u)' <=> Trying(u))
                                    /\ (Trying(u) => movingIndex'[u] = movingIndex[u]
                                                     /\ ip'[u] = ip[u])
    BY <1>4, <1>6 DEF SameTrial
  <2> QED
    BY <1>1, <1>3, <1>4, <2>1, <2>2, DecidedSlices
<1>10. Rigid'
  BY <1>1, <1>8, Nexts DEF Moved, Rigid
<1>11. Staying'
  <2>1. Along' = Along /\ \A i \in Part : Owned(0, i)' = Owned(0, i)
    BY <1>1, <1>4, AlongStays DEF Owned
  <2> QED
    BY <2>1 DEF Moved, Staying
<1> QED
  BY <1>9, <1>10, <1>11 DEF Moved

(* A decision taken: all ranks are in the trial and move, or none does.    *)
LEMMA DecideRootMoved ==
  ASSUME Protocol, Moved, NEW reject \in BOOLEAN, DecideRoot(reject)
  PROVE  Moved'
<1>1. /\ 0 \in Worker /\ Shapes /\ Permutes /\ Root /\ displacement[0] = 0
      /\ pc[0] = "reduce" /\ pc'[0] = "ready" /\ Decide(0, reject)
      /\ \A u \in Other : /\ Tried(u) /\ pc'[u] = pc[u] /\ ip'[u] = ip[u]
                          /\ bcast'[u] = <<reject>>
      /\ UNCHANGED <<permutation, movingIndex>>
  BY DecideRootStep, Workers DEF Protocol, Root, DecideRoot, moveVars
<1>2. Trying(0) /\ ~Trying(0)' /\ ~Accepted(0) /\ ~Accepted(0)'
  BY <1>1 DEF Trying, Accepted
<1>3. /\ coords' = [u \in Worker |-> coords'[u]]
      /\ \A u \in Worker : u # 0 => coords'[u] = coords[u]
      /\ \A i \in Part :
           /\ coords'[0][1]["owned"][i] = IF reject THEN Owned(0, i)
                                          ELSE Owned(0, i) (+) Vectors(0, 0, i)
           /\ \A p \in Boundary : coords'[0][1][p][i] = coords'[0][1]["owned"][i]
  BY <1>1, <1>2, DecidesTo
<1>4. \A u \in Other : /\ u \in Worker /\ u # 0 /\ Trying(u) /\ Trying(u)' /\ ~Accepted(u)
                       /\ (Accepted(u)' <=> ~reject)
  <2>1. Head(<<reject>>) = reject /\ Head(<<FALSE>>) = FALSE /\ <<FALSE>> # <<>>
    BY QueueOne
  <2>2. <<reject>> = <<FALSE>> <=> ~reject
    <3>1. CASE reject
      BY <2>1, <3>1
    <3>2. CASE ~reject
      <4>1. reject = FALSE
        BY <3>2
      <4> QED
        BY <3>2, <4>1
    <3> QED
      BY <3>1, <3>2
  <2>3. ASSUME NEW u \in Other
        PROVE  /\ pc[u] = "decision" /\ pc'[u] = "decision" /\ u # 0 /\ u \in Worker
               /\ bcast[u] = <<>> /\ bcast'[u] = <<reject>>
    BY <1>1 DEF Tried, Other
  <2>4. ASSUME NEW u \in Other
        PROVE  ~Accepted(u) /\ (Accepted(u)' <=> ~reject)
    <3>1. Accepted(u)' <=> (u # 0 /\ pc'[u] = "decision" /\ bcast'[u] = <<FALSE>>)
      BY DEF Accepted
    <3>2. bcast'[u] = <<FALSE>> <=> ~reject
      BY <2>2, <2>3, Zenon
    <3>3. ~Accepted(u)
      BY <2>1, <2>3, Zenon DEF Accepted
    <3> QED
      BY <2>3, <3>1, <3>2, <3>3, Zenon
  <2> QED
    BY <2>3, <2>4 DEF Trying
<1>5. \A u \in Worker, i \in Part : Final(u, i) = Owned(u, i)
  BY <1>2, <1>4, Workers DEF Final
<1>6. ASSUME NEW u \in Worker, NEW i \in Part
      PROVE  Final(u, i)' = IF reject THEN Owned(u, i) ELSE Owned(u, i) (+) Vectors(u, 0, i)
  <2>1. CASE u = 0
    <3>1. Final(0, i)' = coords'[0][1]["owned"][i]
      BY <1>2 DEF Final, Owned
    <3> QED
      BY <1>3, <2>1, <3>1
  <2>2. CASE u \in Other
    <3>1. Owned(u, i)' = Owned(u, i) /\ Vectors(u, 0, i)' = Vectors(u, 0, i)
      <4>1. u \in Worker /\ u # 0 /\ coords'[u] = coords[u] /\ ip'[u] = ip[u]
            /\ movingIndex'[u] = movingIndex[u]
        BY <1>1, <1>3, <1>4, <2>2
      <4> QED
        BY <4>1 DEF Owned, Vectors
    <3> QED
      BY <1>4, <2>2, <3>1 DEF Final
  <2> QED
    BY <2>1, <2>2, Workers
<1>7. ASSUME NEW u \in Worker, NEW i \in Part
      PROVE  Vectors(u, 0, i) = Vectors(NextW(u), 0, permutation[u][1][i])
  <2>1. Follow(u, NextW(u)) /\ ip[NextW(u)] = ip[u]
    BY <1>1, TriedFollow, Workers, Nexts
  <2> QED
    BY <1>1, <2>1, Nexts, FollowersVectors DEF Shapes
<1>8. Rigid'
  <2> SUFFICES ASSUME NEW u \in Worker, NEW i \in Part, NEW j \in Part, permutation[u][1][i] = j
               PROVE  Final(u, i)' = Final(NextW(u), j)'
    BY <1>1 DEF Rigid
  <2>1. Owned(u, i) = Owned(NextW(u), j)
    BY <1>5, Nexts DEF Moved, Rigid
  <2>2. Vectors(u, 0, i) = Vectors(NextW(u), 0, j)
    BY <1>7
  <2>3. NextW(u) \in Worker
    BY Nexts
  <2> QED
    BY <1>6, <2>1, <2>2, <2>3
<1>9. Coordinates' /\ Boundaries'
  <2>1. \A i \in Part : IsABag(coords'[0][1]["owned"][i])
    <3>1. \A i \in Part : IsABag(Owned(0, i)) /\ IsABag(Owned(0, i) (+) Vectors(0, 0, i))
      BY <1>1, BagSum, VectorsBag DEF Moved, Coordinates
    <3> QED
      BY <1>3, <3>1
  <2>2. \A u \in Worker : u # 0 => coords'[u] = coords[u] /\ (Trying(u)' <=> Trying(u))
                                    /\ (Trying(u) => movingIndex'[u] = movingIndex[u]
                                                     /\ ip'[u] = ip[u])
    <3>1. \A u \in Worker : u # 0 => u \in Other
      BY Workers
    <3> QED
      BY <1>1, <1>3, <1>4, <3>1
  <2> QED
    BY <1>1, <1>2, <1>3, <2>1, <2>2, DecidedSlices
<1>10. Staying'
  <2>1. ASSUME NEW i \in Part, Along[NWorker][i] # i
        PROVE  Vectors(0, 0, i) = EmptyBag
    <3>1. movingIndex[0] = chosen /\ \A k \in DOMAIN chosen : Along[NWorker][chosen[k]] = chosen[k]
      BY <1>1 DEF Root, Underway
    <3>2. {m \in DOMAIN movingIndex[0] : movingIndex[0][m] = i} = {}
      BY <2>1, <3>1
    <3>3. {<<ip[0], 0, k>> : k \in {m \in DOMAIN movingIndex[0] : movingIndex[0][m] = i}} = {}
      BY <3>2
    <3> QED
      BY <3>3 DEF Vectors, EmptyBag
  <2>2. Along' = Along /\ \A i \in Part : Owned(0, i)' = coords'[0][1]["owned"][i]
    BY <1>1, AlongStays DEF Owned
  <2> QED
    BY <1>3, <2>1, <2>2, NoVector DEF Moved, Staying
<1> QED
  BY <1>8, <1>9, <1>10 DEF Moved

(* The steps before a trial, of rank w, that move nothing.                 *)
LEMMA QuietTrial ==
  ASSUME NEW w \in Worker, pc[w] \notin {"reduce", "decision"}, pc'[w] \notin {"reduce", "decision"},
         \A u \in Worker : u # w => /\ pc'[u] = pc[u] /\ ip'[u] = ip[u]
                                    /\ movingIndex'[u] = movingIndex[u]
                                    /\ pc[u] = "decision" => bcast'[u] = bcast[u],
         NEW u \in Worker
  PROVE  SameTrial(u)
<1>1. CASE u = w
  BY <1>1 DEF SameTrial, Trying, Accepted
<1>2. CASE u # w
  <2>1. pc'[u] = pc[u] /\ ip'[u] = ip[u] /\ movingIndex'[u] = movingIndex[u]
        /\ (pc[u] = "decision" => bcast'[u] = bcast[u])
    BY <1>2
  <2>2. Trying(u)' <=> Trying(u)
    BY <2>1 DEF Trying
  <2>3. Accepted(u)' <=> Accepted(u)
    BY <2>1 DEF Accepted
  <2> QED
    BY <2>1, <2>2, <2>3 DEF SameTrial
<1> QED
  BY <1>1, <1>2

(* All actions together: Moved is an invariant.                            *)
LEMMA StepMoved ==
  ASSUME Protocol, Agreement, Moved, ~Collective, NEW w \in Worker, Step(w)
  PROVE  Moved'
<1>1. 0 \in Worker /\ Shapes /\ (w = 0 \/ w \in Other)
  BY Workers DEF Protocol
<1> DEFINE Apart(u) == /\ pc'[u] = pc[u] /\ ip'[u] = ip[u]
                       /\ movingIndex'[u] = movingIndex[u]
                       /\ pc[u] = "decision" => bcast'[u] = bcast[u]
<1>2. ASSUME pc[w] \notin {"reduce", "decision"}, pc'[w] \notin {"reduce", "decision"},
             \A u \in Worker : u # w => Apart(u), UNCHANGED <<coords, permutation>>
      PROVE  Moved'
  BY <1>2, QuietTrial, MovedStays
<1>3. ASSUME NEW c \in Choices, ChooseRoot(c), w = 0
      PROVE  Moved'
  <2>1. /\ pc[0] = "ready" /\ Block(0, "gather") /\ UNCHANGED <<coords, permutation>>
        /\ UNCHANGED <<movingIndex, bcast>>
    BY <1>3 DEF ChooseRoot, Begins, pathVars, moveVars, messageVars
  <2> QED
    BY <1>1, <1>2, <1>3, <2>1, Goes
<1>4. CASE SendLocal(w)
  <2>1. /\ pc[w] = "ready" /\ Block(w, "reject") /\ UNCHANGED <<coords, permutation>>
        /\ UNCHANGED <<movingIndex, bcast>>
    BY <1>4 DEF SendLocal, Begins, pathVars, moveVars
  <2> QED
    BY <1>1, <1>2, <2>1, Goes
<1>5. CASE w = 0 /\ Gather
  <2>1. pc[0] = "gather" /\ UNCHANGED <<coords, permutation>> /\ peer \in Other /\ Sent(peer)
    BY <1>5, Gathers DEF Gather, pathVars
  <2>2. \A u \in Other : movingIndex'[u] = movingIndex[u] /\ u # 0
    <3>1. movingIndex' = movingIndex \/ movingIndex' = [movingIndex EXCEPT ![0] = chosen]
      BY <1>5, Gathers
    <3>2. \A u \in Other : u \in Worker /\ u # 0
      BY DEF Other
    <3> QED
      BY <1>1, <3>1, <3>2 DEF Shapes
  <2>3. CASE ~LastRank(peer)
    BY <1>1, <1>2, <1>5, <2>1, <2>2, <2>3, Gathers, Workers
  <2>4. CASE LastRank(peer)
    <3>1. ASSUME NEW u \in Other
          PROVE  pc[u] # "decision"
      <4>1. SUFFICES ASSUME pc[u] = "decision" PROVE FALSE
        OBVIOUS
      <4>2. Late(u)
        BY <2>1, <4>1, InDecision DEF Tried
      <4>3. peer <= u
        BY <2>1, <4>2 DEF Late, Awaited
      <4>4. u = peer
        BY <2>1, <2>4, <4>3, Workers DEF LastRank
      <4> QED
        BY <2>1, <4>1, <4>4 DEF Sent
    <3>2. /\ pc'[0] \in {"ready", "distribute"}
          /\ \A u \in Other : pc'[u] = pc[u] /\ ip'[u] = ip[u]
      <4>1. Advance(0) \/ Block(0, "distribute")
        BY <1>5, <2>4, Gathers
      <4> QED
        BY <1>1, <2>2, <4>1, Advances, Goes DEF Other
    <3> QED
      BY <1>1, <1>2, <1>5, <2>1, <2>2, <3>1, <3>2, Workers
  <2> QED
    BY <2>3, <2>4
<1>6. CASE w = 0 /\ Distribute
  <2>1. /\ pc[0] = "distribute" /\ UNCHANGED <<coords, permutation>>
        /\ UNCHANGED <<movingIndex, bcast>>
        /\ Block(0, "propose") \/ UNCHANGED <<pc, ip>>
    BY <1>6 DEF Distribute, pathVars, moveVars, progressVars
  <2> QED
    BY <1>1, <1>2, <1>6, <2>1, Goes
<1>7. CASE RecvReject(w)
  <2>1. /\ pc[w] = "reject" /\ UNCHANGED <<coords, permutation>> /\ movingIndex' = movingIndex
        /\ bcast' = Listened(w)
        /\ Advance(w) \/ Block(w, "moving")
    BY <1>7 DEF RecvReject, pathVars, moveVars
  <2> QED
    BY <1>1, <1>2, <2>1, Advances, Goes, Listens
<1>8. CASE RecvMoving(w)
  <2>1. /\ pc[w] = "moving" /\ UNCHANGED <<coords, permutation>> /\ bcast' = bcast
        /\ Block(w, "displacement")
    BY <1>8 DEF RecvMoving, pathVars
  <2>2. \A u \in Worker : u # w => movingIndex'[u] = movingIndex[u]
    BY <1>1, <1>8 DEF RecvMoving, Shapes
  <2> QED
    BY <1>1, <1>2, <2>1, <2>2, Goes
<1>9. ASSUME Trying(w)', ~Trying(w), ~Accepted(w)', coords' = Displaced(w, 0, Boundary),
             UNCHANGED <<permutation, movingIndex, ip>>,
             \A u \in Worker : u # w => /\ pc'[u] = pc[u]
                                        /\ pc[u] = "decision" => bcast'[u] = bcast[u]
      PROVE  Moved'
  <2>1. ASSUME NEW u \in Worker, u # w
        PROVE  SameTrial(u)
    <3>1. pc'[u] = pc[u] /\ (pc[u] = "decision" => bcast'[u] = bcast[u])
      BY <1>9, <2>1
    <3>2. Accepted(u)' <=> Accepted(u)
      BY <3>1 DEF Accepted
    <3> QED
      BY <1>9, <3>1, <3>2 DEF SameTrial, Trying
  <2> QED
    BY <1>9, <2>1, MovedTries
<1>10. CASE w = 0 /\ ProposeRoot
  <2>1. /\ pc[0] = "propose" /\ pc' = [pc EXCEPT ![0] = "reduce"]
        /\ coords' = Displaced(0, 0, Boundary) /\ UNCHANGED <<ip, movingIndex, permutation>>
    BY <1>10, ProposeRootStep
  <2>2. ASSUME NEW u \in Other
        PROVE  pc[u] # "decision"
    BY <2>1, InDecision DEF Tried, Late, Awaited
  <2>3. Trying(0)' /\ ~Trying(0) /\ ~Accepted(0)' /\ \A u \in Worker : u # 0 => pc'[u] = pc[u]
    BY <1>1, <2>1 DEF Trying, Accepted, Shapes
  <2> QED
    BY <1>9, <1>10, <2>1, <2>2, <2>3, Workers
<1>11. CASE ProposeOther(w)
  <2>1. w \in Other
    BY <1>1, <1>11 DEF ProposeOther, Protocol, Root
  <2>2. /\ pc[w] = "displacement" /\ pc' = [pc EXCEPT ![w] = "decision"]
        /\ coords' = Displaced(w, 0, Boundary) /\ bcast' = Listened(w) /\ bcast'[w] = <<>>
        /\ UNCHANGED <<ip, movingIndex, permutation>>
    BY <1>11, <2>1, ProposeOtherStep DEF ProposeOther, Block
  <2>3. Trying(w)' /\ ~Trying(w)
    BY <1>1, <2>2 DEF Trying, Shapes
  <2>4. ~Accepted(w)'
    <3>1. <<FALSE>> # <<>>
      BY QueueOne
    <3> QED
      BY <2>2, <3>1, Zenon DEF Accepted
  <2>5. \A u \in Worker : u # w => pc'[u] = pc[u] /\ bcast'[u] = bcast[u]
    BY <1>1, <2>2, Listens DEF Shapes
  <2> QED
    BY <1>9, <2>2, <2>3, <2>4, <2>5
<1>12. ASSUME NEW reject \in BOOLEAN, DecideRoot(reject)
       PROVE  Moved'
  BY <1>12, DecideRootMoved
<1>13. CASE DecideOther(w)
  <2>1. w \in Other
    BY <1>1, <1>13 DEF DecideOther, Protocol, Root
  <2> QED
    BY <1>13, <2>1, DecideOtherMoved
<1> QED
  BY <1>3, <1>4, <1>5, <1>6, <1>7, <1>8, <1>10, <1>11, <1>12, <1>13 DEF Step

LEMMA MovedInit == Init => Moved
<1> SUFFICES ASSUME Init PROVE Moved
  OBVIOUS
<1>1. /\ permutation \in [Worker -> [Half -> Exchanges]] /\ 1 \in Half
      /\ coords = [w \in Worker |-> [h \in Half |-> [p \in Place |-> [i \in Part |-> EmptyBag]]]]
      /\ pc = [w \in Worker |-> "ready"] /\ 0 \in Worker
  BY Workers DEF Init, RanksInit, Half
<1>2. \A w \in Worker, p \in Place, i \in Part : coords[w][1][p][i] = EmptyBag
  BY <1>1
<1>3. \A w \in Worker : ~Trying(w) /\ ~Accepted(w)
  BY <1>1 DEF Trying, Accepted
<1>4. IsABag(EmptyBag)
  BY SetBag DEF EmptyBag
<1>5. \A w \in Worker, i \in Part : Owned(w, i) = EmptyBag
  BY <1>2, Slices DEF Owned
<1>6. Coordinates
  BY <1>1, <1>4, <1>5 DEF Coordinates
<1>7. Boundaries
  BY <1>2, <1>3, <1>5, Slices DEF Boundaries
<1>8. Rigid
  BY <1>3, <1>5, Nexts DEF Rigid, Final
<1>9. Staying
  BY <1>1, <1>5 DEF Staying
<1> QED
  BY <1>6, <1>7, <1>8, <1>9 DEF Moved

LEMMA AgreementInit == Init => Agreement
BY Workers DEF Init, RanksInit, Agreement, Other

LEMMA PermutationStays ==
  ASSUME NEW w \in Worker, Step(w)
  PROVE  permutation' = permutation
BY DEF Step, ChooseRoot, SendLocal, Gather, Distribute, RecvReject, RecvMoving, ProposeRoot,
   ProposeOther, DecideRoot, DecideOther, pathVars

-----------------------------------------------------------------------------
(* The inductive invariant: where every rank and every message of a trial  *)
(* can be, what the ranks that try a move agree on, and how the            *)
(* coordinates of neighbouring ranks compare meanwhile.                    *)
IInv == Protocol /\ Agreement /\ Moved

(* The inductive invariant of the sampler with UniformMover, for any       *)
(* number of ranks and particles, Double or not: each rank is in one phase *)
(* of the trial, follows the rank before it, and has moved what its phase  *)
(* says.                                                                   *)
THEOREM Invariance == ~Collective => (Spec => []IInv)
<1> SUFFICES ASSUME ~Collective PROVE Spec => []IInv
  OBVIOUS
<1>1. Init => IInv
  BY ProtocolInit, AgreementInit, MovedInit DEF IInv
<1>2. IInv /\ [Next]_vars => IInv'
  <2> SUFFICES ASSUME IInv, [Next]_vars PROVE IInv'
    OBVIOUS
  <2> USE DEF IInv
  <2>1. ASSUME NEW w \in Worker, Step(w)
        PROVE  IInv'
    <3>1. Protocol'
      BY <2>1, StepProtocol
    <3>2. Agreement'
      BY <2>1, <3>1, StepDeciding, PermutationStays, AgreementStep
    <3>3. Moved'
      BY <2>1, StepMoved
    <3> QED
      BY <3>1, <3>2, <3>3
  <2>2. CASE UNCHANGED vars
    <3>1. UNCHANGED <<coords, permutation, movingIndex, displacement, pc, ip, bcast>>
      BY <2>2 DEF vars, pathVars, moveVars, rankVars
    <3>2. Protocol'
      BY <2>2, ProtocolStutters
    <3>3. \A u \in Other : Deciding(u)
      BY <3>1 DEF Deciding
    <3>4. Agreement'
      BY <3>1, <3>2, <3>3, AgreementStep
    <3>5. \A u \in Worker : SameTrial(u)
      BY <3>1 DEF SameTrial, Trying, Accepted
    <3> QED
      BY <3>1, <3>2, <3>4, <3>5, MovedStays
  <2> QED
    BY <2>1, <2>2 DEF Next
<1> QED
  BY <1>1, <1>2, PTL DEF Spec

-----------------------------------------------------------------------------
(* Once around the ring, the labels are those that rank 0 computes.        *)
RingPlace(i) == [n \in 0 .. NWorker |-> [rank |-> n % NWorker, half |-> 1, label |-> Along[n][i]]]
Onward(b) == [rank  |-> NextW(b.rank), half |-> Continues(b.rank, b.half),
              label |-> NextLabel(b.rank, b.half, b.label)]
Ring(i, f) == f = [n \in 0 .. NWorker |->
                     IF n = 0 THEN [rank |-> 0, half |-> 1, label |-> i] ELSE Onward(f[n - 1])]

LEMMA OneHalf ==
  ASSUME ~Double
  PROVE  /\ Half = {1} /\ Cardinality(Half) = 1
         /\ \A w, h : Continues(w, h) = h
<1>1. Half = {1}
  BY DEF Half
<1> QED
  BY <1>1, FS_Singleton DEF Continues

(* AroundLabel, for paths of one half, is the label handed back to rank 0. *)
LEMMA RingExists ==
  ASSUME Permutes, ~Double, NEW i \in Part
  PROVE  Ring(i, RingPlace(i))
<1>1. NWorker \in Nat /\ NWorker > 1
  BY WorkerAssumption
<1>2. RingPlace(i)[0] = [rank |-> 0, half |-> 1, label |-> i]
  <2>1. 0 % NWorker = 0
    BY <1>1
  <2>2. Along[0][i] = i
    BY AlongIs DEF Identity
  <2> QED
    BY <1>1, <2>1, <2>2 DEF RingPlace
<1>3. ASSUME NEW n \in 0 .. NWorker, n # 0
      PROVE  RingPlace(i)[n] = Onward(RingPlace(i)[n - 1])
  <2>1. n - 1 \in 0 .. NWorker - 1 /\ n - 1 \in Worker /\ (n - 1) + 1 = n
    BY <1>1, <1>3 DEF Worker
  <2>2. (n - 1) % NWorker = n - 1
    BY <1>1, <2>1
  <2>3. NextW(n - 1) = n % NWorker
    BY <2>1 DEF NextW
  <2>4. RingPlace(i)[n - 1] = [rank |-> n - 1, half |-> 1, label |-> Along[n - 1][i]]
    BY <1>1, <2>1, <2>2 DEF RingPlace
  <2>5. Along[n][i] = permutation[n - 1][1][Along[n - 1][i]]
    BY <2>1, AlongIs
  <2>6. Onward(RingPlace(i)[n - 1])
          = [rank |-> NextW(n - 1), half |-> Continues(n - 1, 1),
             label |-> permutation[n - 1][1][Along[n - 1][i]]]
    BY <2>4 DEF Onward, NextLabel
  <2>7. RingPlace(i)[n] = [rank |-> n % NWorker, half |-> 1, label |-> Along[n][i]]
    BY DEF RingPlace
  <2>8. Continues(n - 1, 1) = 1
    BY OneHalf
  <2> QED
    BY <2>3, <2>5, <2>6, <2>7, <2>8
<1>4. RingPlace(i) = [n \in 0 .. NWorker |-> RingPlace(i)[n]]
  BY DEF RingPlace
<1> HIDE DEF RingPlace
<1> DEFINE g == RingPlace(i)
<1>5. \A n \in 0 .. NWorker :
        g[n] = IF n = 0 THEN [rank |-> 0, half |-> 1, label |-> i] ELSE Onward(g[n - 1])
  BY <1>2, <1>3
<1>6. g = [n \in 0 .. NWorker |-> g[n]]
  BY <1>4
<1> HIDE DEF g
<1>7. g = [n \in 0 .. NWorker |->
             IF n = 0 THEN [rank |-> 0, half |-> 1, label |-> i] ELSE Onward(g[n - 1])]
  BY <1>5, <1>6, Zenon
<1> QED
  BY <1>7 DEF Ring, g

LEMMA RingIs ==
  ASSUME Permutes, ~Double, NEW i \in Part, NEW f, Ring(i, f)
  PROVE  f[NWorker].label = Along[NWorker][i]
<1> DEFINE T == {n \in 0 .. NWorker : f[n] # RingPlace(i)[n]}
<1>1. NWorker \in Nat
  BY WorkerAssumption
<1>2. T = {}
  <2> SUFFICES ASSUME T # {} PROVE FALSE
    OBVIOUS
  <2>1. PICK m \in T : \A n \in T : m <= n
    <3>1. T \in SUBSET Nat
      BY <1>1
    <3> HIDE DEF T
    <3> QED
      BY <3>1, LeastOf
  <2>2. /\ f[0] = [rank |-> 0, half |-> 1, label |-> i]
        /\ \A n \in 1 .. NWorker : f[n] = Onward(f[n - 1])
    BY <1>1 DEF Ring
  <2>3. /\ RingPlace(i)[0] = [rank |-> 0, half |-> 1, label |-> i]
        /\ \A n \in 1 .. NWorker : RingPlace(i)[n] = Onward(RingPlace(i)[n - 1])
    BY <1>1, RingExists DEF Ring
  <2>4. m \in 1 .. NWorker /\ m - 1 \in 0 .. NWorker /\ m - 1 \notin T
    BY <1>1, <2>1, <2>2, <2>3
  <2>5. f[m - 1] = RingPlace(i)[m - 1]
    BY <2>4
  <2> QED
    BY <2>1, <2>2, <2>3, <2>4, <2>5
<1>3. f[NWorker] = RingPlace(i)[NWorker]
  BY <1>1, <1>2
<1> QED
  BY <1>1, <1>3 DEF RingPlace

LEMMA AroundIs ==
  ASSUME Permutes, ~Double, NEW i \in Part
  PROVE  AroundLabel(i) = Along[NWorker][i]
<1>1. NWorker * Cardinality(Half) = NWorker
  BY OneHalf, WorkerAssumption
<1> DEFINE at == CHOOSE f : Ring(i, f)
<1>2. Ring(i, at)
  BY RingExists
<1>3. AroundLabel(i) = at[NWorker].label
  BY <1>1 DEF AroundLabel, Ring, Onward
<1> QED
  BY <1>2, <1>3, RingIs

-----------------------------------------------------------------------------
(* Between two trials every decision has been carried out.                 *)
LEMMA RigidlyShown ==
  ASSUME Protocol, Moved, ~Double
  PROVE  WorldlinesMoveRigidly
<1> SUFFICES ASSUME BetweenTrials, NEW w \in Worker, NEW h \in Half, NEW i \in Part
             PROVE  Cardinality({coords[w][h]["owned"][i], coords[w][h]["upper"][i],
                      coords[NextW(w)][Continues(w, h)]["owned"][NextLabel(w, h, i)],
                      coords[NextW(w)][Continues(w, h)]["lower"][NextLabel(w, h, i)]}) = 1
  BY DEF WorldlinesMoveRigidly
<1> DEFINE j == permutation[w][1][i]
<1>1. h = 1 /\ Continues(w, h) = 1 /\ NextLabel(w, h, i) = j /\ NextW(w) \in Worker /\ j \in Part
  BY OneHalf, Nexts DEF NextLabel, Protocol, Permutes, Perms
<1>2. \A u \in Worker : ~Trying(u) /\ ~Accepted(u)
  BY DEF BetweenTrials, Trying, Accepted
<1>3. Owned(w, i) = Owned(NextW(w), j)
  BY <1>1, <1>2 DEF Moved, Rigid, Final
<1>4. /\ coords[w][1]["upper"][i] = Owned(w, i)
      /\ coords[NextW(w)][1]["lower"][j] = Owned(NextW(w), j)
  BY <1>1, <1>2 DEF Moved, Boundaries, Boundary
<1>5. Cardinality({Owned(w, i)}) = 1
  BY FS_Singleton
<1> HIDE DEF j
<1> QED
  BY <1>1, <1>3, <1>4, <1>5 DEF Owned

(* Neighbouring ranks that evaluate the action of the same proposal do it  *)
(* for the same path (UniformMover; the vectors of CollectiveMover depend  *)
(* on each rank's own random numbers), whatever the permutations of the    *)
(* ranks and however far one is ahead of the other.                        *)
THEOREM ProposalsAlwaysAgree == ~Double /\ ~Collective => (Spec => []ProposalsAgree)
<1> SUFFICES ASSUME ~Double, ~Collective PROVE Spec => []ProposalsAgree
  OBVIOUS
<1>1. IInv => ProposalsAgree
  BY AgreementShown DEF IInv
<1> QED
  BY <1>1, Invariance, PTL

(* A displacement, accepted or rejected, leaves no rank with another       *)
(* position of a bead than its neighbour's, nor a worldline torn apart.    *)
THEOREM WorldlinesAlwaysRigid ==
  ~Double /\ ~Collective => (Spec => []WorldlinesMoveRigidly)
<1> SUFFICES ASSUME ~Double, ~Collective PROVE Spec => []WorldlinesMoveRigidly
  OBVIOUS
<1>1. IInv => WorldlinesMoveRigidly
  BY RigidlyShown DEF IInv
<1> QED
  BY <1>1, Invariance, PTL

(* The rejection of permuting particles in DisplaceMoveSampler::run: a     *)
(* particle on a permuting worldline is never moved, though each rank      *)
(* knows only its part of the permutation that getGlobalPermutation builds.*)
THEOREM PermutingAlwaysStay == ~Double /\ ~Collective => (Spec => []PermutingStay)
<1> SUFFICES ASSUME ~Double, ~Collective PROVE Spec => []PermutingStay
  OBVIOUS
<1>1. IInv => PermutingStay
  BY AroundIs DEF IInv, Protocol, Moved, Staying, Owned, PermutingStay
<1> QED
  BY <1>1, Invariance, PTL
=============================================================================
