------------------------------ MODULE MCWorkerCaps ------------------------------
(* Interchangeable isolated dispatches. *)
EXTENDS WorkerCaps, TLC

MCSymmetry == Permutations(Dispatches)
=============================================================================
