---------------------------- MODULE MCSimulation ----------------------------
(* Up to four ranks: two clones of two workers, three clones of one, one   *)
(* of three; blocks of one or two measurements.                            *)
EXTENDS Simulation

In0(w, c, es, nb, nm) ==
  [nworker |-> w, nclone |-> c, estimators |-> es, nblock |-> nb, nmeasure |-> nm,
   sampler |-> FALSE, timed |-> FALSE, target |-> -1]

WithSampler(i, target) == [i EXCEPT !.sampler = TRUE, !.target = target]
Timed(i) == [i EXCEPT !.timed = TRUE]

MCInputs ==
  {In0(2, 2, <<"scalar", "array">>, 2, 2),
   In0(1, 3, <<"accumulator", "array">>, 2, 2),
   In0(2, 1, <<"array", "accumulator">>, 1, 1),
   In0(2, 1, <<"accrej", "array">>, 1, 2),
   Timed(In0(2, 2, <<"array", "accrej">>, 3, 1)),
   WithSampler(In0(2, 2, <<"accrej">>, 2, 1), -1),
   WithSampler(In0(3, 1, <<"scalar", "accrej">>, 2, 2), 2),
   WithSampler(In0(1, 2, <<"partitioned", "accrej">>, 2, 2), 1)}
=============================================================================
