----------------------------- MODULE DataLemmas -----------------------------
(***************************************************************************)
(* Facts about the data of the models, for the proofs of several modules.  *)
(*                                                                         *)
(* Permutations: every operator of Permutations maps permutations of a set *)
(* of labels to permutations.                                              *)
(*                                                                         *)
(* Numbers: induction over the natural numbers, as a fact about sets that  *)
(* the provers can apply: a counterexample has a least one.  With it, the  *)
(* bisection of a section: the slices between its ends are the odd         *)
(* multiples of the powers of two below its length.                        *)
(*                                                                         *)
(* Sums over finite sets, which are what the folds of the community        *)
(* modules come to: how a sum changes with the set and with its terms.     *)
(***************************************************************************)
EXTENDS Permutations, SequenceTheorems, FiniteSetTheorems, WellFoundedInduction, TLAPS

(* The identity is a permutation. *)
LEMMA IdentityPerm ==
  ASSUME NEW S
  PROVE  Identity(S) \in Perms(S)
BY DEF Identity, Perms

(* Reading a slice, or a permutation, through another permutation gives a  *)
(* permutation: prepend and relabelling drop and duplicate nothing.        *)
LEMMA PrependPerm ==
  ASSUME NEW S, NEW q \in Perms(S), NEW p \in Perms(S)
  PROVE  /\ Prepend(q, p) \in Perms(S)
         /\ \A i \in S : Prepend(q, p)[i] = q[p[i]]
<1>1. /\ q \in [S -> S] /\ p \in [S -> S]
      /\ DOMAIN q = S
  BY DEF Perms
<1>2. Prepend(q, p) = [i \in S |-> q[p[i]]]
  BY <1>1 DEF Prepend
<1>3. \A i, j \in S : q[p[i]] = q[p[j]] => i = j
  BY DEF Perms
<1>4. \A j \in S : \E i \in S : q[p[i]] = j
  <2> SUFFICES ASSUME NEW j \in S
               PROVE  \E i \in S : q[p[i]] = j
    OBVIOUS
  <2>1. PICK k \in S : q[k] = j
    BY DEF Perms
  <2>2. PICK i \in S : p[i] = k
    BY DEF Perms
  <2> QED
    BY <2>1, <2>2
<1> QED
  BY <1>1, <1>2, <1>3, <1>4 DEF Perms

(* The same for append. *)
LEMMA AppendPerm ==
  ASSUME NEW S, NEW q \in Perms(S), NEW p \in Perms(S)
  PROVE  /\ PermAppend(q, p) \in Perms(S)
         /\ \A i \in S : PermAppend(q, p)[i] = p[q[i]]
<1>1. PermAppend(q, p) = Prepend(p, q)
  BY DEF PermAppend, Prepend, Perms
<1> QED
  BY <1>1, PrependPerm

(* And for the relabelling of a slice. *)
LEMMA RelabelPerm ==
  ASSUME NEW S, NEW slice \in Perms(S), NEW p \in Perms(S)
  PROVE  /\ Relabel(slice, p) \in Perms(S)
         /\ \A i \in S : Relabel(slice, p)[i] = slice[p[i]]
<1>1. Relabel(slice, p) = Prepend(slice, p)
  BY DEF Relabel, Prepend
<1> QED
  BY <1>1, PrependPerm

(* setToInverse computes a two-sided inverse of a permutation. *)
LEMMA InversePerm ==
  ASSUME NEW S, NEW p \in Perms(S)
  PROVE  /\ InverseOf(p) \in Perms(S)
         /\ \A j \in S : p[InverseOf(p)[j]] = j
         /\ \A i \in S : InverseOf(p)[p[i]] = i
<1>1. p \in [S -> S] /\ DOMAIN p = S
  BY DEF Perms
<1>2. \A j \in S : InverseOf(p)[j] \in S /\ p[InverseOf(p)[j]] = j
  <2> SUFFICES ASSUME NEW j \in S
               PROVE  InverseOf(p)[j] \in S /\ p[InverseOf(p)[j]] = j
    OBVIOUS
  <2>1. \E i \in S : p[i] = j
    BY DEF Perms
  <2>2. InverseOf(p)[j] = CHOOSE i \in S : p[i] = j
    BY <1>1 DEF InverseOf
  <2> QED
    BY <2>1, <2>2
<1>3. InverseOf(p) \in [S -> S]
  BY <1>1, <1>2 DEF InverseOf
<1>4. \A i \in S : InverseOf(p)[p[i]] = i
  <2> SUFFICES ASSUME NEW i \in S
               PROVE  InverseOf(p)[p[i]] = i
    OBVIOUS
  <2>1. p[i] \in S
    BY <1>1
  <2>2. p[InverseOf(p)[p[i]]] = p[i]
    BY <2>1, <1>2
  <2> QED
    BY <2>1, <2>2, <1>2 DEF Perms
<1>5. \A i, j \in S : InverseOf(p)[i] = InverseOf(p)[j] => i = j
  BY <1>2
<1>6. \A j \in S : \E i \in S : InverseOf(p)[i] = j
  BY <1>4, <1>1
<1> QED
  BY <1>2, <1>3, <1>4, <1>5, <1>6 DEF Perms

(* Storing a slice under permuted labels is reading it through the inverse.*)
LEMMA ScatterPerm ==
  ASSUME NEW S, NEW slice \in Perms(S), NEW p \in Perms(S)
  PROVE  /\ Scatter(slice, p) \in Perms(S)
         /\ \A i \in S : Scatter(slice, p)[p[i]] = slice[i]
<1>1. Scatter(slice, p) = Relabel(slice, InverseOf(p))
  BY DEF Scatter, Relabel
<1>2. InverseOf(p) \in Perms(S)
  BY InversePerm
<1>3. \A i \in S : p[i] \in S
  BY DEF Perms
<1> QED
  BY <1>1, <1>2, <1>3, InversePerm, RelabelPerm

-----------------------------------------------------------------------------
Smaller == {w \in Nat \X Nat : w[1] < w[2]}

LEMMA SmallerIsWellFounded == IsWellFoundedOn(Smaller, Nat)
<1>1. Smaller = OpToRel(<, Nat)
  BY Zenon DEF OpToRel, Smaller
<1> QED
  BY <1>1, NatLessThanWellFounded, Zenon

LEMMA LeastOf ==
  ASSUME NEW T \in SUBSET Nat, T # {}
  PROVE  \E m \in T : \A n \in T : m <= n
<1>1. PICK m \in T : \A n \in T : <<n, m>> \notin Smaller
  BY SmallerIsWellFounded, WFMin, Zenon
<1>2. ASSUME NEW n \in T
      PROVE  m <= n
  <2>1. <<n, m>> \notin Smaller
    BY <1>1
  <2>2. m \in Nat /\ n \in Nat
    OBVIOUS
  <2> QED
    BY <2>1, <2>2 DEF Smaller
<1> QED
  BY <1>1, <1>2

-----------------------------------------------------------------------------
(* The laws of the powers of two, up to level N.                           *)
Powers(N) == /\ 2 ^ 0 = 1
             /\ \A l \in 0 .. N : 2 ^ (l + 1) = 2 * 2 ^ l

LEMMA PowerPositive ==
  ASSUME NEW N \in Nat, Powers(N)
  PROVE  \A l \in 0 .. N + 1 : 2 ^ l \in Nat \ {0}
<1> DEFINE T == {l \in 0 .. N + 1 : 2 ^ l \notin Nat \ {0}}
<1> SUFFICES ASSUME T # {} PROVE FALSE
  OBVIOUS
<1>1. PICK m \in T : \A n \in T : m <= n
  <2>1. T \in SUBSET Nat
    OBVIOUS
  <2> QED
    BY <2>1, LeastOf
<1>2. m \in 1 .. N + 1
  <2>1. 2 ^ m \notin Nat \ {0}
    OBVIOUS
  <2>2. 2 ^ 0 \in Nat \ {0}
    BY DEF Powers
  <2>3. m # 0
    BY <2>1, <2>2, Zenon
  <2> QED
    BY <2>3
<1>3. 2 ^ (m - 1) \in Nat \ {0}
  BY <1>1, <1>2
<1>4. 2 ^ ((m - 1) + 1) = 2 * 2 ^ (m - 1)
  BY <1>2 DEF Powers
<1>5. (m - 1) + 1 = m
  BY <1>2
<1> QED
  BY <1>3, <1>4, <1>5

(* A higher level strides over an even number of strides of a lower one.   *)
Strides(l, n) == \E c \in Nat : 2 ^ n = 2 * c * 2 ^ l

LEMMA EvenStrides ==
  ASSUME NEW N \in Nat, Powers(N), NEW l \in 0 .. N
  PROVE  \A n \in l + 1 .. N + 1 : Strides(l, n)
<1> DEFINE T == {n \in l + 1 .. N + 1 : ~Strides(l, n)}
<1> SUFFICES ASSUME T # {} PROVE FALSE
  OBVIOUS
<1>1. PICK m \in T : \A n \in T : m <= n
  <2>1. T \in SUBSET Nat
    OBVIOUS
  <2> QED
    BY <2>1, LeastOf
<1>2. 2 ^ m = 2 * 2 ^ (m - 1)
  <2>1. m - 1 \in 0 .. N /\ (m - 1) + 1 = m
    OBVIOUS
  <2> QED
    BY <2>1 DEF Powers
<1>3. 2 ^ l \in Nat \ {0}
  BY PowerPositive
<1>4. CASE m = l + 1
  <2>1. 2 ^ m = 2 * 1 * 2 ^ l
    BY <1>2, <1>3, <1>4
  <2> QED
    BY <2>1 DEF Strides
<1>5. CASE m # l + 1
  <2>1. m - 1 \in l + 1 .. N + 1
    BY <1>5
  <2>2. Strides(l, m - 1)
    BY <1>1, <2>1
  <2>3. PICK c \in Nat : 2 ^ (m - 1) = 2 * c * 2 ^ l
    BY <2>2 DEF Strides
  <2>4. 2 ^ m = 2 * (2 * c) * 2 ^ l
    BY <1>2, <1>3, <2>3
  <2>5. 2 * c \in Nat
    OBVIOUS
  <2>6. Strides(l, m)
    BY <2>4, <2>5 DEF Strides
  <2> QED
    BY <2>6
<1> QED
  BY <1>4, <1>5

(* Slices below 2^n are on a level below n.                                *)
OddMultiple(s, l) == \E k \in 0 .. s : s = (2 * k + 1) * 2 ^ l
Covered(n) == \A s \in 1 .. 2 ^ n - 1 : \E l \in 0 .. n - 1 : OddMultiple(s, l)

LEMMA CoveredNext ==
  ASSUME NEW N \in Nat, Powers(N), NEW n \in 0 .. N, Covered(n)
  PROVE  Covered(n + 1)
<1>1. 2 ^ n \in Nat \ {0} /\ 2 ^ (n + 1) = 2 * 2 ^ n /\ n \in Nat
  BY PowerPositive DEF Powers
<1> SUFFICES ASSUME NEW s \in 1 .. 2 ^ (n + 1) - 1
             PROVE  \E l \in 0 .. n : OddMultiple(s, l)
  BY <1>1 DEF Covered
<1>2. CASE s < 2 ^ n
  <2>1. s \in 1 .. 2 ^ n - 1
    BY <1>1, <1>2
  <2> QED
    BY <1>1, <2>1 DEF Covered
<1>3. CASE s = 2 ^ n
  <2>1. s = (2 * 0 + 1) * 2 ^ n
    BY <1>1, <1>3
  <2> QED
    BY <1>1, <2>1 DEF OddMultiple
<1>4. CASE s > 2 ^ n
  <2>1. s - 2 ^ n \in 1 .. 2 ^ n - 1
    BY <1>1, <1>4
  <2>2. PICK l \in 0 .. n - 1 : OddMultiple(s - 2 ^ n, l)
    BY <2>1 DEF Covered
  <2>3. PICK k \in 0 .. s - 2 ^ n : s - 2 ^ n = (2 * k + 1) * 2 ^ l
    BY <2>2 DEF OddMultiple
  <2>4. PICK c \in Nat : 2 ^ n = 2 * c * 2 ^ l
    <3>1. n \in l + 1 .. N + 1 /\ l \in 0 .. N
      BY <1>1
    <3> QED
      BY <3>1, EvenStrides DEF Strides
  <2>5. 2 ^ l \in Nat \ {0}
    BY <1>1, PowerPositive
  <2>6. s = (2 * (k + c) + 1) * 2 ^ l
    BY <1>1, <2>3, <2>4, <2>5
  <2>7. k + c \in 0 .. s
    BY <1>1, <2>5, <2>6
  <2>8. OddMultiple(s, l)
    BY <2>6, <2>7 DEF OddMultiple
  <2>9. l \in 0 .. n
    BY <1>1
  <2> QED
    BY <2>8, <2>9
<1>5. s < 2 ^ n \/ s = 2 ^ n \/ s > 2 ^ n
  BY <1>1
<1> QED
  BY <1>2, <1>3, <1>4, <1>5

LEMMA EverySliceCovered ==
  ASSUME NEW N \in Nat, Powers(N)
  PROVE  \A n \in 0 .. N : Covered(n)
<1> DEFINE T == {n \in 0 .. N : ~Covered(n)}
<1> SUFFICES ASSUME T # {} PROVE FALSE
  OBVIOUS
<1>1. PICK m \in T : \A n \in T : m <= n
  <2>1. T \in SUBSET Nat
    OBVIOUS
  <2> QED
    BY <2>1, LeastOf
<1>2. CASE m = 0
  BY <1>2 DEF Covered, Powers
<1>3. CASE m # 0
  <2>1. m - 1 \in 0 .. N /\ m - 1 \notin T
    BY <1>1, <1>3
  <2>2. Covered((m - 1) + 1)
    BY <2>1, CoveredNext
  <2>3. (m - 1) + 1 = m
    OBVIOUS
  <2> QED
    BY <2>2, <2>3
<1> QED
  BY <1>2, <1>3

(* Every slice between the ends of a section of 2^N links is moved on a    *)
(* level below N, at least a stride away from the last slice.              *)
LEMMA BisectionCovers ==
  ASSUME NEW N \in Nat, Powers(N), NEW s \in 1 .. 2 ^ N - 1
  PROVE  \E l \in 0 .. N - 1 : \E k \in 0 .. 2 ^ N :
           s = (2 * k + 1) * 2 ^ l /\ s <= 2 ^ N - 2 ^ l
<1>1. 2 ^ N \in Nat \ {0}
  BY PowerPositive
<1>2. PICK l \in 0 .. N - 1 : OddMultiple(s, l)
  BY EverySliceCovered DEF Covered
<1>3. PICK k \in 0 .. s : s = (2 * k + 1) * 2 ^ l
  BY <1>2 DEF OddMultiple
<1>4. PICK c \in Nat : 2 ^ N = 2 * c * 2 ^ l
  <2>1. N \in l + 1 .. N + 1 /\ l \in 0 .. N
    OBVIOUS
  <2> QED
    BY <2>1, EvenStrides DEF Strides
<1>5. 2 ^ l \in Nat \ {0}
  BY PowerPositive
<1>6. (2 * k + 1) * 2 ^ l < (2 * c) * 2 ^ l
  BY <1>1, <1>3, <1>4, <1>5
<1>7. 2 * k + 1 < 2 * c
  BY <1>5, <1>6
<1>8. (2 * k + 2) * 2 ^ l <= (2 * c) * 2 ^ l
  BY <1>5, <1>7
<1>9. s <= 2 ^ N - 2 ^ l
  BY <1>1, <1>3, <1>4, <1>5, <1>8
<1> QED
  BY <1>1, <1>3, <1>9

-----------------------------------------------------------------------------
(* Queues of a message or two.                                             *)
LEMMA QueueOne == ASSUME NEW x
  PROVE  Append(<<>>, x) = <<x>> /\ Head(<<x>>) = x /\ <<x>> # <<>>
<1>1. Append(<<>>, x) = <<x>>
  OBVIOUS
<1>2. Head(<<x>>) = x /\ <<x>> # <<>>
  OBVIOUS
<1> QED
  BY <1>1, <1>2

LEMMA TailOne == ASSUME NEW x PROVE Tail(<<x>>) = <<>>
OBVIOUS

LEMMA QueueTwo == ASSUME NEW x, NEW y
  PROVE  Append(<<x>>, y) = <<x, y>>
<1>1. <<x>> \in Seq({x, y}) /\ <<x, y>> \in Seq({x, y}) /\ Len(<<x>>) = 1 /\ Len(<<x, y>>) = 2
  OBVIOUS
<1>2. /\ Append(<<x>>, y) \in Seq({x, y}) /\ Len(Append(<<x>>, y)) = 2
      /\ Append(<<x>>, y)[1] = x /\ Append(<<x>>, y)[2] = y
  BY <1>1, AppendProperties
<1>3. \A i \in 1 .. 2 : Append(<<x>>, y)[i] = <<x, y>>[i]
  BY <1>2
<1> QED
  BY <1>1, <1>2, <1>3, SeqEqual

LEMMA HeadTwo == ASSUME NEW x, NEW y PROVE Head(<<x, y>>) = x /\ <<x, y>> # <<>>
OBVIOUS

LEMMA TailTwo == ASSUME NEW x, NEW y PROVE Tail(<<x, y>>) = <<y>>
OBVIOUS

(* A queue made of two that hold a message at most. *)
Join(a, b) == IF a = <<>> THEN b ELSE IF b = <<>> THEN a ELSE <<a[1], b[1]>>

LEMMA JoinOne == ASSUME NEW a PROVE Join(<<>>, a) = a /\ Join(a, <<>>) = a
BY DEF Join

LEMMA JoinTwo ==
  ASSUME NEW x, NEW y
  PROVE  /\ Join(<<x>>, <<y>>) # <<>> /\ Head(Join(<<x>>, <<y>>)) = x
         /\ Tail(Join(<<x>>, <<y>>)) = <<y>> /\ Append(<<x>>, y) = Join(<<x>>, <<y>>)
<1>1. Join(<<x>>, <<y>>) = <<x, y>>
  <2>1. <<x>> # <<>> /\ <<y>> # <<>> /\ <<x>>[1] = x /\ <<y>>[1] = y
    OBVIOUS
  <2> QED
    BY <2>1 DEF Join
<1> QED
  BY <1>1, QueueTwo, HeadTwo, TailTwo

(* A queue of one message. *)
Msg(kind, data) == <<[kind |-> kind, data |-> data]>>

LEMMA MsgIs ==
  ASSUME NEW kind, NEW data
  PROVE  /\ Head(Msg(kind, data)).data = data /\ Head(Msg(kind, data)).kind = kind
         /\ Tail(Msg(kind, data)) = <<>> /\ Msg(kind, data) # <<>>
         /\ Append(<<>>, [kind |-> kind, data |-> data]) = Msg(kind, data)
<1> DEFINE m == [kind |-> kind, data |-> data]
<1>1. m.data = data /\ m.kind = kind
  OBVIOUS
<1>2. Msg(kind, data) = <<m>>
  BY DEF Msg
<1> HIDE DEF m
<1>3. Head(<<m>>) = m /\ Tail(<<m>>) = <<>> /\ <<m>> # <<>> /\ Append(<<>>, m) = <<m>>
  BY QueueOne, TailOne
<1>4. Head(Msg(kind, data)).data = data /\ Head(Msg(kind, data)).kind = kind
  BY <1>1, <1>2, <1>3
<1> QED
  BY <1>2, <1>3, <1>4 DEF m

-----------------------------------------------------------------------------
(* One entry of a function changed, the others as they were.               *)
LEMMA OneChanged ==
  ASSUME NEW S, NEW f, f = [a \in S |-> f[a]], NEW v \in S, NEW q,
         NEW g, g = [f EXCEPT ![v] = q]
  PROVE  g = [a \in S |-> g[a]] /\ g[v] = q /\ \A a \in S : a # v => g[a] = f[a]
OBVIOUS

(* The queues between all pairs of V, one for each of T. *)
AreQueues(c, V, T) ==
  /\ c = [v \in V |-> c[v]]
  /\ \A v \in V : c[v] = [w \in V |-> c[v][w]]
  /\ \A v, w \in V : c[v][w] = [t \in T |-> c[v][w][t]]

Replaces(g, f, v, w, t, q) == g = [f EXCEPT ![v][w][t] = q]

(* One of these queues replaced by another. *)
LEMMA QueueChanged ==
  ASSUME NEW V, NEW T, NEW f, AreQueues(f, V, T),
         NEW v \in V, NEW w \in V, NEW t \in T, NEW q,
         NEW g, Replaces(g, f, v, w, t, q)
  PROVE  /\ AreQueues(g, V, T)
         /\ g[v][w][t] = q
         /\ \A x, y \in V, s \in T : x # v \/ y # w \/ s # t => g[x][y][s] = f[x][y][s]
<1>1. g = [f EXCEPT ![v] = [f[v] EXCEPT ![w] = [f[v][w] EXCEPT ![t] = q]]]
  BY DEF Replaces
<1> DEFINE h == [f[v][w] EXCEPT ![t] = q]
           k == [f[v] EXCEPT ![w] = h]
<1>2. h = [a \in T |-> h[a]] /\ h[t] = q /\ \A a \in T : a # t => h[a] = f[v][w][a]
  <2>1. f[v][w] = [a \in T |-> f[v][w][a]]
    BY DEF AreQueues
  <2> HIDE DEF h
  <2>2. h = [f[v][w] EXCEPT ![t] = q]
    BY DEF h
  <2> QED
    BY <2>1, <2>2, OneChanged
<1> HIDE DEF h
<1>3. k = [a \in V |-> k[a]] /\ k[w] = h /\ \A a \in V : a # w => k[a] = f[v][a]
  <2>1. f[v] = [a \in V |-> f[v][a]]
    BY DEF AreQueues
  <2> HIDE DEF k
  <2>2. k = [f[v] EXCEPT ![w] = h]
    BY DEF k
  <2> QED
    BY <2>1, <2>2, OneChanged
<1>4. g = [f EXCEPT ![v] = k]
  BY <1>1 DEF k, h
<1> HIDE DEF k
<1>5. g = [a \in V |-> g[a]] /\ g[v] = k /\ \A a \in V : a # v => g[a] = f[a]
  BY <1>4, OneChanged DEF AreQueues
<1>6. g[v][w][t] = q
  BY <1>2, <1>3, <1>5
<1>7. \A x, y \in V, s \in T : x # v \/ y # w \/ s # t => g[x][y][s] = f[x][y][s]
  BY <1>2, <1>3, <1>5
<1>8. ASSUME NEW x \in V
      PROVE  g[x] = [y \in V |-> g[x][y]]
  <2>1. CASE x = v
    BY <1>3, <1>5, <2>1
  <2>2. CASE x # v
    <3>1. g[x] = f[x]
      BY <1>5, <2>2
    <3> QED
      BY <3>1 DEF AreQueues
  <2> QED
    BY <2>1, <2>2
<1>9. ASSUME NEW x \in V, NEW y \in V
      PROVE  g[x][y] = [s \in T |-> g[x][y][s]]
  <2>1. CASE x = v /\ y = w
    BY <1>2, <1>3, <1>5, <2>1
  <2>2. CASE ~(x = v /\ y = w)
    <3>1. g[x][y] = f[x][y]
      BY <1>3, <1>5, <2>2
    <3> QED
      BY <3>1 DEF AreQueues
  <2> QED
    BY <2>1, <2>2
<1> QED
  BY <1>5, <1>6, <1>7, <1>8, <1>9 DEF AreQueues

-----------------------------------------------------------------------------
(* Sums over finite sets.  What holds of a set when it holds of all it     *)
(* loses an element to holds of every finite set.                          *)
LEMMA SetInduction ==
  ASSUME NEW S, IsFiniteSet(S), NEW U,
         \A T \in SUBSET S : (\A x \in T : T \ {x} \in U) => T \in U
  PROVE  \A T \in SUBSET S : T \in U
<1> DEFINE C == {Cardinality(T) : T \in {A \in SUBSET S : A \notin U}}
<1> SUFFICES ASSUME NEW T0 \in SUBSET S, T0 \notin U PROVE FALSE
  OBVIOUS
<1>1. \A T \in SUBSET S : IsFiniteSet(T) /\ Cardinality(T) \in Nat
  BY FS_Subset, FS_CardinalityType
<1>2. C \in SUBSET Nat /\ C # {}
  BY <1>1
<1>3. PICK m \in C : \A n \in C : m <= n
  <2> HIDE DEF C
  <2> QED
    BY <1>2, LeastOf
<1>4. PICK T \in SUBSET S : T \notin U /\ Cardinality(T) = m
  OBVIOUS
<1>5. ASSUME NEW x \in T
      PROVE  T \ {x} \in U
  <2>1. Cardinality(T \ {x}) = m - 1 /\ m \in Nat /\ T \ {x} \in SUBSET S
    BY <1>1, <1>4, FS_RemoveElement
  <2>2. \A n \in C : n >= m
    BY <1>2, <1>3
  <2>3. m - 1 \notin C
    BY <2>1, <2>2
  <2> QED
    BY <2>1, <2>3
<1> QED
  BY <1>4, <1>5

SomeOf(s) == CHOOSE x \in s : TRUE
Sums(g, f, S) ==
  g = [s \in SUBSET S |-> IF s = {} THEN 0 ELSE f[SomeOf(s)] + g[s \ {SomeOf(s)}]]
SumOver(f, S) == (CHOOSE g : Sums(g, f, S))[S]

(* The element a fold starts with is one of the set.                       *)
LEMMA SomeOfIs == ASSUME NEW s, s # {} PROVE SomeOf(s) \in s
BY DEF SomeOf

(* There is one such function on the subsets of a finite set at most,      *)
LEMMA SumsOnce ==
  ASSUME NEW S, IsFiniteSet(S), NEW f, NEW g, NEW h, NEW R, S \in SUBSET R,
         Sums(g, f, S), Sums(h, f, R)
  PROVE  \A T \in SUBSET S : g[T] = h[T]
<1> DEFINE U == {T \in SUBSET S : g[T] = h[T]}
<1>1. ASSUME NEW T \in SUBSET S, \A x \in T : T \ {x} \in U
      PROVE  T \in U
  <2>1. /\ g[T] = IF T = {} THEN 0 ELSE f[SomeOf(T)] + g[T \ {SomeOf(T)}]
        /\ h[T] = IF T = {} THEN 0 ELSE f[SomeOf(T)] + h[T \ {SomeOf(T)}]
    BY Zenon DEF Sums
  <2>2. CASE T = {}
    BY <2>1, <2>2
  <2>3. CASE T # {}
    <3>1. T \ {SomeOf(T)} \in U
      BY <1>1, <2>3, SomeOfIs
    <3>2. g[T \ {SomeOf(T)}] = h[T \ {SomeOf(T)}]
      BY <3>1
    <3> QED
      BY <2>1, <2>3, <3>2
  <2> QED
    BY <2>2, <2>3
<1>2. \A T \in SUBSET S : T \in U
  <2> HIDE DEF U
  <2> QED
    BY <1>1, SetInduction
<1> QED
  BY <1>2

(* it is the same on smaller sets,                                         *)
LEMMA SumsWithin ==
  ASSUME NEW R, NEW f, NEW g, Sums(g, f, R), NEW S \in SUBSET R
  PROVE  Sums([a \in SUBSET S |-> g[a]], f, S)
<1> DEFINE k == [a \in SUBSET S |-> g[a]]
<1>1. \A a \in SUBSET S : g[a] = IF a = {} THEN 0 ELSE f[SomeOf(a)] + g[a \ {SomeOf(a)}]
  BY Zenon DEF Sums
<1>2. k = [a \in SUBSET S |-> IF a = {} THEN 0 ELSE f[SomeOf(a)] + k[a \ {SomeOf(a)}]]
  BY <1>1
<1> HIDE DEF k
<1>3. Sums(k, f, S)
  BY <1>2 DEF Sums
<1> QED
  BY <1>3 DEF k

HasSums(f, S) == \E g : Sums(g, f, S)

(* A sum is the value at some element and the sum over the others.         *)
LEMMA SumStep ==
  ASSUME NEW S, IsFiniteSet(S), NEW f, HasSums(f, S)
  PROVE  SumOver(f, S) = IF S = {} THEN 0 ELSE f[SomeOf(S)] + SumOver(f, S \ {SomeOf(S)})
<1> DEFINE G == CHOOSE g : Sums(g, f, S)
<1>1. Sums(G, f, S) /\ SumOver(f, S) = G[S]
  BY DEF HasSums, SumOver
<1> HIDE DEF G
<1>2. G[S] = IF S = {} THEN 0 ELSE f[SomeOf(S)] + G[S \ {SomeOf(S)}]
  BY <1>1, Zenon DEF Sums
<1>3. CASE S # {}
  <2> DEFINE T == S \ {SomeOf(S)}
             H == CHOOSE g : Sums(g, f, T)
  <2>1. IsFiniteSet(T) /\ T \in SUBSET S
    BY FS_Subset
  <2>2. Sums(H, f, T) /\ SumOver(f, T) = H[T]
    <3>1. \E g : Sums(g, f, T)
      <4>1. Sums([a \in SUBSET T |-> G[a]], f, T)
        <5> HIDE DEF T
        <5> QED
          BY <1>1, <2>1, SumsWithin
      <4> QED
        BY <4>1
    <3> QED
      BY <3>1 DEF SumOver
  <2> HIDE DEF H, T
  <2>3. H[T] = G[T]
    BY <1>1, <2>1, <2>2, SumsOnce
  <2> QED
    BY <1>1, <1>2, <1>3, <2>2, <2>3 DEF T
<1> QED
  BY <1>1, <1>2, <1>3

(* and there is one.                                                       *)
LEMMA SumsExist ==
  ASSUME NEW S, IsFiniteSet(S), NEW f
  PROVE  \A T \in SUBSET S : HasSums(f, T)
<1> DEFINE U == {T \in SUBSET S : HasSums(f, T)}
<1>1. ASSUME NEW T \in SUBSET S, \A x \in T : T \ {x} \in U
      PROVE  T \in U
  <2> DEFINE h == [s \in SUBSET T |-> IF s = {} THEN 0 ELSE f[SomeOf(s)] + SumOver(f, s \ {SomeOf(s)})]
  <2>1. ASSUME NEW s \in SUBSET T, s # T
        PROVE  h[s] = SumOver(f, s)
    <3>1. PICK x \in T : s \subseteq T \ {x}
      BY <2>1
    <3>2. HasSums(f, s)
      <4>1. HasSums(f, T \ {x})
        BY <1>1
      <4> QED
        BY <3>1, <4>1, SumsWithin DEF HasSums
    <3>3. IsFiniteSet(s)
      BY FS_Subset
    <3>4. SumOver(f, s) = IF s = {} THEN 0 ELSE f[SomeOf(s)] + SumOver(f, s \ {SomeOf(s)})
      BY <3>2, <3>3, SumStep
    <3> QED
      BY <3>4
  <2>2. ASSUME NEW s \in SUBSET T, s # {}
        PROVE  h[s \ {SomeOf(s)}] = SumOver(f, s \ {SomeOf(s)})
    <3>1. s \ {SomeOf(s)} \in SUBSET T /\ s \ {SomeOf(s)} # T
      BY <2>2, SomeOfIs
    <3> QED
      BY <2>1, <3>1
  <2>3. h = [s \in SUBSET T |-> IF s = {} THEN 0 ELSE f[SomeOf(s)] + h[s \ {SomeOf(s)}]]
    <3>1. \A s \in SUBSET T : h[s] = IF s = {} THEN 0 ELSE f[SomeOf(s)] + h[s \ {SomeOf(s)}]
      BY <2>2
    <3>2. h = [s \in SUBSET T |-> h[s]]
      OBVIOUS
    <3> HIDE DEF h
    <3> QED
      BY <3>1, <3>2
  <2> HIDE DEF h
  <2>4. Sums(h, f, T)
    BY <2>3 DEF Sums
  <2> QED
    BY <2>4 DEF HasSums
<1>2. \A T \in SUBSET S : T \in U
  <2> HIDE DEF U
  <2> QED
    BY <1>1, SetInduction
<1> QED
  BY <1>2

(* The sum is zero over the empty set, and over any other finite set the   *)
(* value at one element and the sum over the rest.                         *)
LEMMA SumIs ==
  ASSUME NEW S, IsFiniteSet(S), NEW f
  PROVE  SumOver(f, S) = IF S = {} THEN 0 ELSE f[SomeOf(S)] + SumOver(f, S \ {SomeOf(S)})
BY SumsExist, SumStep

(* Laws of sums of integers.                                               *)
LEMMA SumType ==
  ASSUME NEW S, IsFiniteSet(S), NEW f, \A x \in S : f[x] \in Int
  PROVE  \A T \in SUBSET S : SumOver(f, T) \in Int
<1> DEFINE U == {T \in SUBSET S : SumOver(f, T) \in Int}
<1>1. ASSUME NEW T \in SUBSET S, \A x \in T : T \ {x} \in U
      PROVE  T \in U
  <2>1. SumOver(f, T) = IF T = {} THEN 0 ELSE f[SomeOf(T)] + SumOver(f, T \ {SomeOf(T)})
    BY SumIs, FS_Subset
  <2>2. T # {} => f[SomeOf(T)] \in Int /\ SumOver(f, T \ {SomeOf(T)}) \in Int
    BY <1>1, SomeOfIs
  <2> QED
    BY <2>1, <2>2
<1>2. \A T \in SUBSET S : T \in U
  <2> HIDE DEF U
  <2> QED
    BY <1>1, SetInduction
<1> QED
  BY <1>2

(* Any element may be taken first,                                         *)
LEMMA SumTake ==
  ASSUME NEW S, IsFiniteSet(S), NEW f, \A x \in S : f[x] \in Int
  PROVE  \A T \in SUBSET S : \A x \in T : SumOver(f, T) = f[x] + SumOver(f, T \ {x})
<1> DEFINE U == {T \in SUBSET S : \A x \in T : SumOver(f, T) = f[x] + SumOver(f, T \ {x})}
<1>0. \A T \in SUBSET S : IsFiniteSet(T) /\ SumOver(f, T) \in Int
  BY FS_Subset, SumType
<1>1. ASSUME NEW T \in SUBSET S, \A x \in T : T \ {x} \in U
      PROVE  T \in U
  <2> SUFFICES ASSUME NEW x \in T PROVE SumOver(f, T) = f[x] + SumOver(f, T \ {x})
    OBVIOUS
  <2> DEFINE a == SomeOf(T)
  <2>1. a \in T /\ SumOver(f, T) = f[a] + SumOver(f, T \ {a})
    BY <1>0, SumIs, SomeOfIs
  <2> HIDE DEF a
  <2>2. CASE x # a
    <3>1. SumOver(f, T \ {a}) = f[x] + SumOver(f, (T \ {a}) \ {x})
      BY <1>1, <2>1, <2>2
    <3>2. SumOver(f, T \ {x}) = f[a] + SumOver(f, (T \ {x}) \ {a})
      BY <1>1, <2>1, <2>2
    <3>3. (T \ {a}) \ {x} = (T \ {x}) \ {a}
      OBVIOUS
    <3>4. f[a] \in Int /\ f[x] \in Int /\ SumOver(f, (T \ {x}) \ {a}) \in Int
      BY <1>0, <2>1
    <3>5. \A i, j, k \in Int : i + (j + k) = j + (i + k)
      OBVIOUS
    <3>6. f[a] + (f[x] + SumOver(f, (T \ {x}) \ {a})) = f[x] + (f[a] + SumOver(f, (T \ {x}) \ {a}))
      BY <3>4, <3>5
    <3>7. SumOver(f, T) = f[a] + SumOver(f, T \ {a})
      BY <2>1
    <3> HIDE DEF U
    <3> QED
      BY <3>1, <3>2, <3>3, <3>6, <3>7
  <2> QED
    BY <2>1, <2>2
<1>2. \A T \in SUBSET S : T \in U
  <2> HIDE DEF U
  <2> QED
    BY <1>1, SetInduction
<1> QED
  BY <1>2

(* sums can be added,                                                      *)
LEMMA SumAdds ==
  ASSUME NEW S, IsFiniteSet(S), NEW f, NEW g, NEW h,
         \A x \in S : f[x] \in Int /\ g[x] \in Int /\ h[x] = f[x] + g[x]
  PROVE  SumOver(h, S) = SumOver(f, S) + SumOver(g, S)
<1> DEFINE U == {T \in SUBSET S : SumOver(h, T) = SumOver(f, T) + SumOver(g, T)}
<1>0. \A T \in SUBSET S : IsFiniteSet(T) /\ SumOver(f, T) \in Int /\ SumOver(g, T) \in Int
  BY FS_Subset, SumType
<1>1. ASSUME NEW T \in SUBSET S, \A x \in T : T \ {x} \in U
      PROVE  T \in U
  <2>1. /\ SumOver(f, T) = IF T = {} THEN 0 ELSE f[SomeOf(T)] + SumOver(f, T \ {SomeOf(T)})
        /\ SumOver(g, T) = IF T = {} THEN 0 ELSE g[SomeOf(T)] + SumOver(g, T \ {SomeOf(T)})
        /\ SumOver(h, T) = IF T = {} THEN 0 ELSE h[SomeOf(T)] + SumOver(h, T \ {SomeOf(T)})
    BY <1>0, SumIs
  <2>2. CASE T # {}
    <3>1. SomeOf(T) \in S /\ T \ {SomeOf(T)} \in U /\ T \ {SomeOf(T)} \in SUBSET S
      BY <1>1, <2>2, SomeOfIs
    <3>2. SumOver(h, T \ {SomeOf(T)}) = SumOver(f, T \ {SomeOf(T)}) + SumOver(g, T \ {SomeOf(T)})
      BY <3>1
    <3>3. /\ SumOver(f, T \ {SomeOf(T)}) \in Int /\ SumOver(g, T \ {SomeOf(T)}) \in Int
          /\ f[SomeOf(T)] \in Int /\ g[SomeOf(T)] \in Int /\ h[SomeOf(T)] = f[SomeOf(T)] + g[SomeOf(T)]
      BY <1>0, <3>1
    <3> QED
      BY <2>1, <2>2, <3>2, <3>3
  <2> QED
    BY <2>1, <2>2
<1>2. \A T \in SUBSET S : T \in U
  <2> HIDE DEF U
  <2> QED
    BY <1>1, SetInduction
<1> QED
  BY <1>2

(* and depend on the values summed only.                                   *)
LEMMA SumSame ==
  ASSUME NEW S, IsFiniteSet(S), NEW f, NEW h, \A x \in S : h[x] = f[x]
  PROVE  SumOver(h, S) = SumOver(f, S)
<1> DEFINE U == {T \in SUBSET S : SumOver(h, T) = SumOver(f, T)}
<1>1. ASSUME NEW T \in SUBSET S, \A x \in T : T \ {x} \in U
      PROVE  T \in U
  <2>1. /\ SumOver(f, T) = IF T = {} THEN 0 ELSE f[SomeOf(T)] + SumOver(f, T \ {SomeOf(T)})
        /\ SumOver(h, T) = IF T = {} THEN 0 ELSE h[SomeOf(T)] + SumOver(h, T \ {SomeOf(T)})
    BY FS_Subset, SumIs
  <2>2. T # {} => /\ h[SomeOf(T)] = f[SomeOf(T)]
                  /\ SumOver(h, T \ {SomeOf(T)}) = SumOver(f, T \ {SomeOf(T)})
    BY <1>1, SomeOfIs
  <2> QED
    BY <2>1, <2>2
<1>2. \A T \in SUBSET S : T \in U
  <2> HIDE DEF U
  <2> QED
    BY <1>1, SetInduction
<1> QED
  BY <1>2

(* One of the values changed.                                              *)
LEMMA SumOne ==
  ASSUME NEW S, IsFiniteSet(S), NEW f, NEW h, NEW v \in S, NEW d \in Int,
         \A x \in S : f[x] \in Int /\ h[x] = f[x] + (IF x = v THEN d ELSE 0)
  PROVE  SumOver(h, S) = SumOver(f, S) + d
<1>1. \A x \in S : h[x] \in Int
  OBVIOUS
<1>2. /\ SumOver(f, S) = f[v] + SumOver(f, S \ {v})
      /\ SumOver(h, S) = h[v] + SumOver(h, S \ {v})
  BY <1>1, SumTake
<1>3. SumOver(h, S \ {v}) = SumOver(f, S \ {v})
  <2>1. \A x \in S \ {v} : h[x] = f[x]
    OBVIOUS
  <2>2. IsFiniteSet(S \ {v})
    BY FS_Subset
  <2> QED
    BY <2>1, <2>2, SumSame
<1>4. SumOver(f, S \ {v}) \in Int
  BY SumType
<1> QED
  BY <1>2, <1>3, <1>4

-----------------------------------------------------------------------------
(* Sums over a queue.                                                      *)
LEMMA SumNext ==
  ASSUME NEW n \in Nat, NEW f, \A i \in 1 .. n + 1 : f[i] \in Int
  PROVE  SumOver(f, 1 .. n + 1) = SumOver(f, 1 .. n) + f[n + 1]
<1>1. (1 .. n + 1) \ {n + 1} = 1 .. n /\ n + 1 \in 1 .. n + 1 /\ 1 .. n \in SUBSET (1 .. n + 1)
  OBVIOUS
<1>2. IsFiniteSet(1 .. n + 1)
  BY FS_Interval
<1>3. SumOver(f, 1 .. n + 1) = f[n + 1] + SumOver(f, 1 .. n)
  BY <1>1, <1>2, SumTake
<1>4. SumOver(f, 1 .. n) \in Int
  BY <1>1, <1>2, SumType
<1> QED
  BY <1>1, <1>3, <1>4

(* Nothing sums to zero.                                                   *)
LEMMA SumNone == ASSUME NEW f PROVE SumOver(f, {}) = 0
BY FS_EmptySet, SumIs

OneAhead(f, g, N) == /\ \A i \in 1 .. N + 1 : f[i] \in Int
                     /\ \A i \in 1 .. N : g[i] = f[i + 1]
SumsShift(f, g, N) == \A n \in 0 .. N : SumOver(f, 1 .. n + 1) = f[1] + SumOver(g, 1 .. n)

(* The sum over a sequence is its first value and the sum over what is     *)
(* behind it.                                                              *)
LEMMA SumTail ==
  ASSUME NEW f, NEW g, NEW N \in Nat, OneAhead(f, g, N)
  PROVE  SumsShift(f, g, N)
<1> USE DEF OneAhead, SumsShift
<1> DEFINE T == {n \in 0 .. N : SumOver(f, 1 .. n + 1) # f[1] + SumOver(g, 1 .. n)}
<1> SUFFICES ASSUME T # {} PROVE FALSE
  OBVIOUS
<1>1. PICK m \in T : \A n \in T : m <= n
  <2>1. T \in SUBSET Nat
    OBVIOUS
  <2> HIDE DEF T
  <2> QED
    BY <2>1, LeastOf
<1>2. SumOver(f, 1 .. m + 1) = SumOver(f, 1 .. m) + f[m + 1]
  BY SumNext
<1>3. CASE m = 0
  <2>1. 1 .. m = {} /\ 0 + 1 = 1 /\ f[1] \in Int
    BY <1>3
  <2> QED
    BY <1>2, <1>3, <2>1, SumNone
<1>4. CASE m # 0
  <2>1. m - 1 \in Nat /\ m - 1 \in 0 .. N /\ m - 1 \notin T /\ (m - 1) + 1 = m
    BY <1>1, <1>4
  <2>2. SumOver(f, 1 .. m) = f[1] + SumOver(g, 1 .. m - 1)
    BY <2>1
  <2>3. SumOver(g, 1 .. m) = SumOver(g, 1 .. m - 1) + g[m]
    <3>1. \A i \in 1 .. m : g[i] \in Int
      OBVIOUS
    <3> QED
      BY <2>1, <3>1, SumNext
  <2>4. g[m] = f[m + 1] /\ f[m + 1] \in Int /\ f[1] \in Int
    BY <2>1
  <2>5. SumOver(g, 1 .. m - 1) \in Int
    <3>1. \A i \in 1 .. m - 1 : g[i] \in Int
      OBVIOUS
    <3>2. IsFiniteSet(1 .. m - 1)
      BY <2>1, FS_Interval
    <3> QED
      BY <3>1, <3>2, SumType
  <2> QED
    BY <1>2, <2>2, <2>3, <2>4, <2>5
<1> QED
  BY <1>3, <1>4
=============================================================================
