-------------------------- MODULE MCEventListener --------------------------
(* The listener on small sets; tasks and outside publishers are alike.     *)
EXTENDS EventListener, TLC

TaskSymmetry == Permutations(Tasks)
=============================================================================
