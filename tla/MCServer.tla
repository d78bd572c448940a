------------------------------ MODULE MCServer ------------------------------
(* Instances of Server for TLC. *)
EXTENDS Server, TLC

\* load_config with HTTPS on or off and the pool on or off.
AllConfigs == [https : BOOLEAN, threadpool : BOOLEAN]
PooledTLS == {[https |-> TRUE, threadpool |-> TRUE]}
PooledPlain == {[https |-> FALSE, threadpool |-> TRUE]}

\* Clients are interchangeable.
Symmetry == Permutations(Conns)
=============================================================================
