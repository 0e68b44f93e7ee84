-------------------------- MODULE MCLoadBalancerRR --------------------------
(* A six-bit int and up to five workers. *)
EXTENDS LoadBalancerRR

SomeRanges == {<<1, n>> : n \in 1 .. 5}
==============================================================================
