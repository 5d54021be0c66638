---------------------------- MODULE MCOptimizer ----------------------------
(* Instances of Optimizer for TLC, see the cfg files.                     *)
EXTENDS Optimizer, TLC

Threads == Permutations(Thread)
=============================================================================
