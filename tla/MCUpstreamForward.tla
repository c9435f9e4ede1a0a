-------------------------- MODULE MCUpstreamForward --------------------------
(* Instances of UpstreamForward for TLC.                                   *)
EXTENDS UpstreamForward, TLC

CONSTANTS u1, u2

At(to, priority) == [to |-> to, priority |-> priority]

\* Two upstreams of one tier and the pool beside them; two tiers and no pool.
TwoRoutes ==
  [ beside |-> <<At(Pool, 1), At(u1, 1), At(u2, 1)>>,
    paid   |-> <<At(u2, 2), At(u1, 1)>> ]
==============================================================================
