---------------------------- MODULE MCWorkerPool ----------------------------
(* Instances of WorkerPool for TLC: frames and processes are interchangeable. *)
EXTENDS WorkerPool, TLC

Symmetry == Permutations(Frames) \cup Permutations(Procs)
=============================================================================
