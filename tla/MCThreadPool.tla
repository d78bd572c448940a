----------------------------- MODULE MCThreadPool -----------------------------
(* Instances of ThreadPool for TLC. *)
EXTENDS ThreadPool, TLC

\* Tasks are interchangeable, and so are the callers of threadpool_destroy.
Symmetry == Permutations(Tasks) \cup Permutations(Destroyers)
=============================================================================
