------------------------------ MODULE MCScheduler ------------------------------
(* Scheduler on small instances.                                             *)
EXTENDS Scheduler, TLC

CONSTANTS p2, p3, p4, p5

EveryLevel == -1 .. 1
EveryPriority == -1 .. 1
Symmetric == Permutations({p3, p4, p5})
=============================================================================
