---------------------------- MODULE MCExecutor ----------------------------
(***************************************************************************)
(* The instances of the executor that TLC checks: two fairness keys, one   *)
(* with weight 2 and one with weight 1.                                    *)
(***************************************************************************)
EXTENDS ExecutorProperties

CONSTANTS a1, a2, b1, ka, kb

MCKeyOf == [j \in Jobs |-> IF j = b1 THEN kb ELSE ka]
\* The requests of key ka are interchangeable.
MCSymmetry == Permutations(Jobs \ {b1})

\* Bound: at most two handles are ever cancelled.
MCFewCancels == Cardinality({j \in Jobs : cancelled[j]}) <= 2

MCCost == [k \in Keys |-> IF k = ka THEN 1 ELSE 2]
===========================================================================
