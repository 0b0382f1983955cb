---------------------------- MODULE MCDiskCache ----------------------------
(* Instances of DiskCache for TLC: processes, keys and nodes are model values. *)
EXTENDS DiskCache

\* Processes and keys are interchangeable in the safety runs.
Symmetry == Permutations(Procs) \cup Permutations(Keys)
=============================================================================
