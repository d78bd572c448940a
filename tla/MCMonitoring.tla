---------------------------- MODULE MCMonitoring ----------------------------
(* Instances of Monitoring for TLC. *)
EXTENDS Monitoring

\* A failed login and another event from one address, a failed login from another.
SomeSources ==
  {[ip |-> "a", type |-> "AUTH_FAILURE"], [ip |-> "a", type |-> "API_CALL"],
   [ip |-> "b", type |-> "AUTH_FAILURE"]}
=============================================================================
