---------------------------- MODULE WalkingChooser ----------------------------
(***************************************************************************)
(* How a WalkingChooser (advancer/WalkingChooser.cc) finds the cycle that a *)
(* MultiLevelSampler tries: it walks from particle to particle, drawing the *)
(* next one with the free propagators of its table, and then accepts the   *)
(* cycle with a probability of its own.  What makes the sampling right is   *)
(* detailed balance: the probability to propose a cycle here must fit the   *)
(* probability to propose its inverse in the section the cycle leads to.    *)
(*                                                                         *)
(* Propagators are even integers, and a draw is an odd one below their sum: *)
(* it stands for a real number of probability density 1/sum that meets no   *)
(* bound of an interval.  Probabilities are fractions <<n, d>>.             *)
(***************************************************************************)
EXTENDS MultiLevelSampler, Functions

CONSTANT Weight   \* Weight[i][j]: half the propagator from the bead fetched as
                  \* i on the first slice to the one fetched as j on the last

ASSUME WeightAssumption == Weight \in [Part -> [Part -> Nat \ {0}]]

(* The n-cycle that the constructor sets.                                  *)
Cycle(n) == [i \in 1 .. n |-> (i % n) + 1]

(* Species of all particles, so that index and label are the same number.  *)
ASSUME WalkAssumption ==
  \A k \in DOMAIN Samplers :
    Samplers[k].walks => /\ Samplers[k].pool = Part
                         /\ Samplers[k].perms = {Cycle(Samplers[k].nmoving)}

npart == Cardinality(Part)

(* init: the table t of a section, given its ends, and the sums of its rows.*)
Propagators(ends) ==
  [i \in Part |-> [j \in Part |-> 2 * Weight[ends[1][i][1]][ends[2][j][1]]]]
cump(t) ==
  [i \in Part |-> LET c[j \in Part] == IF j = 0 THEN t[i][0] ELSE c[j - 1] + t[i][j]
                  IN c]
RowSum(t, i) == cump(t)[i][npart - 1]

(* iSearch(part, x), c the row of cump: bisection in at most npart-1 turns. *)
iSearchLow(c, x) ==
  LET loop[k \in 0 .. npart - 1, ilo \in Part, ihi \in Part] ==
        IF k = npart - 1 \/ ihi = ilo + 1 THEN ilo
        ELSE LET mid == (ilo + ihi) \div 2
             IN IF c[mid] > x THEN loop[k + 1, ilo, mid] ELSE loop[k + 1, mid, ihi]
  IN IF x < c[0] THEN 0
     ELSE IF c[npart - 2] < x THEN npart - 1 ELSE loop[0, 0, npart - 2]
iSearch(c, x) ==
  LET loop[k \in 0 .. npart - 1, ilo \in Part, ihi \in Part, mid \in Part] ==
        IF k = npart - 1 THEN mid
        ELSE IF ihi = ilo + 1 THEN ihi
        ELSE LET m == (ilo + ihi) \div 2
             IN IF c[m] > x THEN loop[k + 1, ilo, m, m] ELSE loop[k + 1, m, ihi, m]
  IN IF x < c[0] THEN 0
     ELSE IF c[npart - 2] < x THEN npart - 1 ELSE loop[0, 0, npart - 2, 0]

-----------------------------------------------------------------------------
(* Fractions, in lowest terms.                                              *)
gcd[a \in Nat, b \in Nat] == IF b = 0 THEN a ELSE gcd[b, a % b]
Fraction(n, d) == LET g == gcd[n, d] IN <<n \div g, d \div g>>
Plus(p, q) == Fraction(p[1] * q[2] + q[1] * p[2], p[2] * q[2])
Times(p, q) == LET a == Fraction(p[1], q[2])
                   b == Fraction(q[1], p[2])
               IN <<a[1] * b[1], a[2] * b[2]>>
Over(p, q) == Times(p, <<q[2], q[1]>>)
AtMostOne(p) == IF p[1] > p[2] THEN <<1, 1>> ELSE p
SumOf(f) == FoldFunction(Plus, <<0, 1>>, f)
ProductOf(f) == FoldFunction(Times, <<1, 1>>, f)

(* choosePermutation, for the cycle ix[1] -> ix[2] -> ... -> ix[1].  One    *)
(* step of the walk, and a walk that starts anywhere on the cycle and stops *)
(* one step short of closing it.                                            *)
Along(ix, i) == ix[Cycle(Len(ix))[i]]
StepChance(t, i, j) ==
  LET draws == {x \in 1 .. RowSum(t, i) : x % 2 = 1}
  IN Fraction(Cardinality({x \in draws : iSearch(cump(t)[i], x) = j}),
              Cardinality(draws))
WalkChance(t, ix) ==
  Over(SumOf([last \in DOMAIN ix |->
                ProductOf([i \in DOMAIN ix \ {last} |->
                             StepChance(t, ix[i], Along(ix, i))])]),
       <<npart, 1>>)

(* The sums accumulated on the way, the acceptance, and prob.               *)
tranProb(t, ix) ==
  SumOf([i \in DOMAIN ix |-> Fraction(RowSum(t, ix[i]), t[ix[i]][Along(ix, i)])])
revTranProb(t, ix) ==
  SumOf([i \in DOMAIN ix |-> Fraction(RowSum(t, ix[i]), t[ix[i]][ix[i]])])
AcceptCycle(t, ix) == AtMostOne(Over(revTranProb(t, ix), tranProb(t, ix)))
prob(t, ix) ==
  ProductOf([i \in DOMAIN ix |-> Fraction(t[ix[i]][ix[i]], t[ix[i]][Along(ix, i)])])

-----------------------------------------------------------------------------
Backward(ix) == [i \in DOMAIN ix |-> ix[Len(ix) + 1 - i]]
Proposed(t, ix) == Times(WalkChance(t, ix), AcceptCycle(t, ix))

(* Detailed balance of the permutations: when a cycle enters the section,   *)
(* the chance to propose it from the table in use and the chance to propose *)
(* its inverse from the section as it becomes differ by exactly the factor  *)
(* prob, which getLnTranProb hands to tryMove to cancel the free action of  *)
(* the new ends.  The bisection, the sums kept along the walk, the table,   *)
(* kept from the last accepted move, and the relabelling of the last slice  *)
(* must all fit together for it.                                            *)
WalkIsReversible ==
  [][AcceptMove /\ Samplers[sampler].walks =>
       LET there == Propagators(table)
           back == Propagators(<<sectionBeads'[0], sectionBeads'[Last]>>)
       IN Times(Proposed(there, movingIndex), prob(there, movingIndex))
            = Proposed(back, Backward(movingIndex))]_vars
=============================================================================
