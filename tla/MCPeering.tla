----------------------------- MODULE MCPeering -----------------------------
(* Instances of Peering for TLC.                                           *)
EXTENDS Peering, TLC

CONSTANTS c1, c2, p1, p2, eth0, r1, r2

OnePortEach == p1 :> c1 @@ p2 :> c2

AllTC       == [c \in Cubes |-> "tc"]
Mixed       == c1 :> "tc" @@ c2 :> "xdp"

Requests == {"set_peer", "connect", "disconnect", "add_port", "remove_port",
             "destroy_cube", "attach", "detach", "none"}

\* A port goes while another client disconnects it.
GoesMeanwhile == {{"disconnect", "remove_port"}}

\* The listener overlaps with a request, or two requests do.
AnyPair == {{a, b} : a, b \in Requests \cup {"netlink"}}

\* With one port of the same type in each cube the cubes can be exchanged
\* together with their ports, and so can the workers.
ClientSymmetry ==
  {f \in Permutations({c1, c2, p1, p2, r1, r2}) :
     /\ f[c1] \in Cubes /\ f[r1] \in Workers
     /\ \A p \in Ports : f[p] \in Ports /\ CubeOf[f[p]] = f[CubeOf[p]]}
=============================================================================
