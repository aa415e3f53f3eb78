--------------------------- MODULE MCNatSessions ---------------------------
(* Instances of NatSessions for TLC: two inner hosts and an outer one.     *)
EXTENDS NatSessions, TLC

CONSTANTS c1, c2

CpuSymmetry == Permutations({c1, c2})

\* Two hosts open a session to the same service, one of them from the port of
\* its server.
TwoOutbound == {Key("h1", "r", 9, 7, "udp"), Key("h2", "r", 1, 7, "udp")}

\* The outer host sends from the port it answers from to a forwarded port that
\* is among those given out.
OneInbound == {Key("r", "e", 7, 4, "udp")}

TheServer == {[ip |-> "h1", port |-> 9]}
=============================================================================
