---------------------------- MODULE MCBenchmark -----------------------------
(* Instances of Benchmark for TLC. *)
EXTENDS Benchmark

\* A call with three threads of two requests each, and one with a single thread.
TwoRuns == <<[threads |-> 3, requests |-> 2], [threads |-> 1, requests |-> 2]>>
=============================================================================
