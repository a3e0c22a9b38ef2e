---------------------------- MODULE MCContinuity ----------------------------
(* Instances of Continuity for TLC: products are model values, and where no *)
(* liveness is checked they are interchangeable.                            *)
EXTENDS Continuity, TLC

ProductSymmetry == Permutations(Products)
=============================================================================
