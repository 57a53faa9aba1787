-------------------------------- MODULE MCEdge --------------------------------
(* Instance of Edge: two proxies of ours, two machines outside; sizes in units  *)
(* of 32 KiB.                                                                   *)
EXTENDS Edge, TLC
CONSTANTS caddy, front, alice, mallory

Fields == [r \in Route |-> 1]

Symmetry == Permutations({caddy, front}) \cup Permutations({alice, mallory})
=============================================================================
