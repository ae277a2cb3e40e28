--------------------------- MODULE Permutations ---------------------------
(***************************************************************************)
(* The class Permutation (util/Permutation.cc): an array holding, for each *)
(* particle label, another label.  A permutation is here a function on the *)
(* set S of labels; the receiver of a C++ method is the first argument and *)
(* the result is the receiver's new value.                                 *)
(***************************************************************************)
EXTENDS Integers

Perms(S) == {p \in [S -> S] : /\ \A i, j \in S : p[i] = p[j] => i = j
                             /\ \A j \in S : \E i \in S : p[i] = j}

(* Permutation(n) and reset() *)
Identity(S) == [i \in S |-> i]

(* isIdentity() *)
IsIdentity(p) == \A i \in DOMAIN p : p[i] = i

(* Reading labels while they are being overwritten, as prepend and the     *)
(* relabelling loops would without their copy of the array.                *)
InPlace(a, p) == LET new[i \in DOMAIN a] == IF p[i] < i THEN new[p[i]] ELSE a[p[i]]
                 IN new
PrependInPlace(q, p) == InPlace(q, p)
RelabelInPlace(slice, p) == InPlace(slice, p)

(* q.prepend(p): p is applied first, then q *)
Prepend(q, p) == [i \in DOMAIN q |-> q[p[i]]]

(* q.append(p): q is applied first, then p *)
PermAppend(q, p) == [i \in DOMAIN q |-> p[q[i]]]

(* q.setToInverse(p) writes q[p[i]] = i for every i *)
InverseOf(p) == [j \in DOMAIN p |-> CHOOSE i \in DOMAIN p : p[i] = j]

(* The copies "for i: buffer(i) = beads(p[i],islice); beads(.,islice) =    *)
(* buffer" by which SerialPaths and ParallelPaths relabel one slice.       *)
Relabel(slice, p) == [i \in DOMAIN slice |-> slice[p[i]]]

(* copySlice(isliceIn, beadsOut, p, isliceOut): beadsOut(p[i]) = beadsIn(i).*)
Scatter(slice, p) == [j \in DOMAIN slice |-> slice[InverseOf(p)[j]]]
=============================================================================
