----------------------------- MODULE MCNatRules -----------------------------
(* Instances of NatRules for TLC.                                          *)
EXTENDS NatRules

\* The threads that report the address do the same, and neither hosts nor
\* addresses differ.
Exchanges == Permutations(Callers) \cup Permutations(Addresses) \cup Permutations(Hosts)

\* The last one is 0.0.0.0/0.
TheNets == {[net |-> {h}, to |-> "a"] : h \in Hosts} \cup {[net |-> Hosts, to |-> "b"]}

Sent(port, proto) == [ip |-> "e", port |-> port, proto |-> proto]

ThePackets == {Sent(1, "tcp"), Sent(1, "udp"), Sent(2, "tcp")}

TheDnats == {[ip |-> "e", to |-> "s0"]}

TheForwards == {[ip |-> "e", port |-> 1, proto |-> "all", to |-> "s1"],
                [ip |-> "e", port |-> 1, proto |-> "tcp", to |-> "s2"]}
=============================================================================
