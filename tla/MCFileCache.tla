----------------------------- MODULE MCFileCache -----------------------------
(* Instances of FileCache for TLC. *)
EXTENDS FileCache, TLC

\* Text files are interchangeable, and so are the threads.
Symmetry == Permutations(Paths \ BinaryPaths) \cup Permutations(Readers)
=============================================================================
