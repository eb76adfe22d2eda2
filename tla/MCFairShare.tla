---------------------------- MODULE MCFairShare ----------------------------
(***************************************************************************)
(* Two clients that compete for one model: the requests of ka have weight  *)
(* 2 and those of kb weight 1.                                             *)
(***************************************************************************)
EXTENDS FairShare

CONSTANTS a1, a2, a3, a4, b1, b2, b3, ka, kb

AJobs == {a1, a2, a3, a4} \intersect Jobs

MCKeyOf == [j \in Jobs |-> IF j \in AJobs THEN ka ELSE kb]
MCCost == [k \in Keys |-> IF k = ka THEN 1 ELSE 2]

\* The requests of one key are interchangeable.
MCSymmetry == Permutations(AJobs) \union Permutations(Jobs \ AJobs)
============================================================================
