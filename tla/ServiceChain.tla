---------------------------- MODULE ServiceChain ----------------------------
(***************************************************************************)
(* The service chains around a link: the transparent cubes attached to a   *)
(* port or to a network interface (PeerIface, Port, ExtIface,              *)
(* TransparentCube) and the next-program pointers compiled into them.      *)
(* Every change of the chain relinks a few neighbours; the packets follow  *)
(* the pointers.                                                           *)
(*                                                                         *)
(* A link and what is attached to it is on one hook.  On the XDP hook      *)
(* every egress program has a twin on the TC hook: the XDP programs handle *)
(* what cubes send out, the twins what the stack of the host sends, and    *)
(* the two are chained by different pointers.                              *)
(*                                                                         *)
(* A step is one call under the lock of the port or interface, with every  *)
(* relinking it makes on its peer.  The pointers are fields of the record  *)
(* net, and the operators below return the record after a call.            *)
(***************************************************************************)
EXTENDS Integers, Sequences, FiniteSets

CONSTANTS
  Ports,         \* ports of standard cubes
  Ifaces,        \* network interfaces (ExtIfaceTC or ExtIfaceXDP)
  Hooks,         \* the hooks to look at: "tc", "xdp" or both
  TCubes,        \* transparent cubes
  WithIngress,   \* the transparent cubes with an ingress program
  WithEgress,    \* the transparent cubes with an egress program
  ParentEgress,  \* the ports whose cube has an egress program
  Position,      \* Position[c]: place of the service of c in the list of
                 \* compare_position, or Unknown
  Unknown,
  NoEnd          \* the null PeerIface

Ends == Ports \cup Ifaces

ASSUME HooksAssumption == Hooks \subseteq {"tc", "xdp"}
ASSUME EndsAssumption == Ports \cap Ifaces = {} /\ NoEnd \notin Ends
ASSUME ProgramsAssumption == WithIngress \subseteq TCubes /\ WithEgress \subseteq TCubes
                             /\ ParentEgress \subseteq Ports
ASSUME PositionAssumption == Position \in [TCubes -> Nat \cup {Unknown}]

VARIABLES
  hook,     \* the hook of the link
  net,      \* lists, links and the pointers in programs and tables
  parent,   \* TransparentCube::parent_
  crashed   \* a vector was accessed outside its bounds

vars == <<hook, net, parent, crashed>>

\* Where a packet goes next: a program in the patch panel (of a transparent
\* cube or of the cube of a port), a network device, the stack (0xffff), or
\* nowhere (0).
To(kind, x) == [kind |-> kind, of |-> x]
Stack   == To("stack", NoEnd)
Nowhere == To("none", NoEnd)

Init ==
  /\ net = [cubes |-> [e \in Ends |-> <<>>],
            link |-> [e \in Ends |-> NoEnd],
            next_in |-> [c \in TCubes |-> Nowhere],
            next_out |-> [c \in TCubes |-> Nowhere],
            egress_next_tc |-> [c \in TCubes |-> Nowhere],  \* the member
            next_twin |-> [c \in TCubes |-> Nowhere],       \* as compiled
            index |-> [i \in Ifaces |-> Stack],             \* ExtIface::index_
            port_index |-> [p \in Ports |-> To("parent_in", p)],
            fwd |-> [p \in Ports |-> [next |-> Nowhere, port |-> p]],
            rx |-> [i \in Ifaces |-> [next |-> Stack, port |-> NoEnd]],
            tx |-> [i \in Ifaces |-> [next |-> Stack, port |-> NoEnd]],
            out_next |-> [p \in Ports |-> Nowhere],
            out_next_xdp |-> [p \in Ports |-> Nowhere]]
  /\ hook \in Hooks
  /\ parent = [c \in TCubes |-> NoEnd]
  /\ crashed = FALSE

-----------------------------------------------------------------------------
(* Linking a list of cubes.                                                *)

\* The places of s that hold a cube of S.
Places(s, S) == {i \in DOMAIN s : s[i] \in S}

Highest(I) == CHOOSE i \in I : \A j \in I : j <= i
Lowest(I)  == CHOOSE i \in I : \A j \in I : i <= j

\* The program at the highest or lowest of the places I, target if there is
\* none; kind is "in" or "out".
AtHighest(s, I, kind, target) == IF I = {} THEN target ELSE To(kind, s[Highest(I)])
AtLowest(s, I, kind, target)  == IF I = {} THEN target ELSE To(kind, s[Lowest(I)])

\* Walking up the list (i++), every cube of S is given the previous one of S
\* as its next, the first one is given target.
LinkUp(f, s, S, kind, target) ==
  [c \in TCubes |->
     IF \E i \in Places(s, S) : s[i] = c
     THEN LET i == CHOOSE k \in Places(s, S) : s[k] = c
          IN AtHighest(s, {j \in Places(s, S) : j < i}, kind, target)
     ELSE f[c]]

LinkDown(f, s, S, kind, target) ==
  [c \in TCubes |->
     IF \E i \in Places(s, S) : s[i] = c
     THEN LET i == CHOOSE k \in Places(s, S) : s[k] = c
          IN AtLowest(s, {j \in Places(s, S) : j > i}, kind, target)
     ELSE f[c]]

\* The last value of next after each walk: the entry of the chain.
TopEntry(s, S, kind, target)    == AtHighest(s, Places(s, S), kind, target)
BottomEntry(s, S, kind, target) == AtLowest(s, Places(s, S), kind, target)

-----------------------------------------------------------------------------
(* set_next_index: the peer of e has a new entry point.                    *)

\* Port::update_parent_fwd_table: a packet for another port carries the id of
\* that port, one for an interface that of p.
SetForwarding(n, p, target) ==
  [n EXCEPT !.fwd[p] = [next |-> target, port |-> IF n.link[p] \in Ports THEN n.link[p] ELSE p]]

\* TransparentCube::set_next of every cube, INGRESS: one whose next changes
\* compiles all its programs again, the twin of the egress program too.
LinkIn(n, next) ==
  [n EXCEPT !.next_in = next,
            !.next_twin = [c \in TCubes |-> IF next[c] # n.next_in[c]
                                            THEN n.egress_next_tc[c] ELSE n.next_twin[c]]]

\* EGRESS: the twin is given a next of its own, which is compiled when the
\* next of the XDP program changes or the cube is in last (set_egress_next).
LinkOut(n, next, twin, last) ==
  [n EXCEPT !.next_out = next,
            !.egress_next_tc = twin,
            !.next_twin = [c \in TCubes |-> IF next[c] # n.next_out[c] \/ c \in last
                                            THEN twin[c] ELSE n.next_twin[c]]]

SetNext(n, c, kind, target) ==
  IF kind = "in" THEN LinkIn(n, [n.next_in EXCEPT ![c] = target])
  ELSE LinkOut(n, [n.next_out EXCEPT ![c] = target],
               [n.egress_next_tc EXCEPT ![c] = target], {})

\* Where index x of interface i leads: 0xffff is the device itself.
Resolve(x, i) == IF x = Stack THEN To("netdev", i) ELSE x

\* Mutant of PortSetNextIndex: the next of the innermost cube is set.
PortSetNextInnermost(n, p, index) ==
  LET target == Resolve(index, n.link[p])
  IN IF Places(n.cubes[p], WithEgress) = {}
     THEN SetForwarding(n, p, target)
     ELSE SetNext(n, n.cubes[p][Lowest(Places(n.cubes[p], WithEgress))], "out", target)

PortSetNextIndex(n, p, index) ==
  LET target == Resolve(index, n.link[p])
  IN IF Places(n.cubes[p], WithEgress) = {}
     THEN SetForwarding(n, p, target)
     ELSE SetNext(n, n.cubes[p][Highest(Places(n.cubes[p], WithEgress))], "out", target)

\* Mutant of SetRx: the port of the program that is replaced is kept.
SetRxKeepsPort(n, i, target) == [n EXCEPT !.rx[i].next = target]

\* ExtIface::set_next(INGRESS): the receive program is loaded with the next
\* program and the id of the port.
SetRx(n, i, target) ==
  [n EXCEPT !.rx[i] = [next |-> target, port |-> n.link[i]]]
SetTx(n, i, target) ==
  [n EXCEPT !.tx[i] = [next |-> target, port |-> n.link[i]]]

\* The loop starts at the last cube and counts up: it leaves the vector when
\* the last cube has no ingress program.
LeavesVector(n, i) ==
  n.cubes[i] # <<>> /\ n.cubes[i][Len(n.cubes[i])] \notin WithIngress

IfaceSetNextIndex(n, i, target) ==
  IF n.cubes[i] = <<>> THEN SetRx(n, i, target)
  ELSE SetNext(n, n.cubes[i][Len(n.cubes[i])], "in", target)

-----------------------------------------------------------------------------
(* update_indexes.                                                         *)

\* Port: port <- cubes[0] <- ... <- cubes[N-1] <- peer, then the egress chain.
PortChains(n, p) ==
  LET s == n.cubes[p]
      q == n.link[p]
      target == IF q \in Ifaces THEN Resolve(n.index[q], q)
                ELSE IF q \in Ports THEN n.port_index[q] ELSE Nowhere
      into == LinkIn(n, LinkUp(n.next_in, s, WithIngress, "in", To("parent_in", p)))
      linked == LinkOut(into, LinkDown(n.next_out, s, WithEgress, "out", target),
                        LinkDown(n.egress_next_tc, s, WithEgress, "out", target), {})
  IN SetForwarding(
       [linked EXCEPT !.port_index[p] = TopEntry(s, WithIngress, "in", To("parent_in", p))],
       p, BottomEntry(s, WithEgress, "out", target))

UpdatePort(n, p) ==
  LET m == PortChains(n, p)
      q == n.link[p]
  IN IF q \in Ifaces THEN IfaceSetNextIndex(m, q, m.port_index[p])
     ELSE IF q \in Ports THEN PortSetNextIndex(m, q, m.port_index[p])
     ELSE m

\* ExtIface::update_indexes, the links between the cubes of the interface:
\* peer/stack <- cubes[N-1] <- ... <- cubes[0] <- iface, and out the other way.
\* The last egress program of a TC interface lets the packet pass; that of an
\* XDP interface redirects it to the device, and its twin lets it pass.
IfaceChains(n, i) ==
  LET s == n.cubes[i]
      p == n.link[i]
      target == IF p = NoEnd THEN Stack ELSE n.port_index[p]
      out == Places(s, WithEgress)
      last == IF hook = "xdp" /\ out # {} THEN {s[Lowest(out)]} ELSE {}
      into == LinkIn(n, LinkDown(n.next_in, s, WithIngress, "in", target))
      linked == LinkOut(into,
                  LinkUp(n.next_out, s, WithEgress, "out",
                         IF hook = "xdp" THEN To("netdev", i) ELSE Stack),
                  LinkUp(n.egress_next_tc, s, WithEgress, "out", Stack), last)
  IN SetRx(linked, i, BottomEntry(s, WithIngress, "in", target))

\* set_parent_egress_next: both hooks run the egress program of the cube.
SetParentNext(n, p, index) ==
  [n EXCEPT !.out_next[p] = index,
            !.out_next_xdp[p] = IF hook = "xdp" THEN Resolve(index, n.link[p]) ELSE @]

\* The program that handles what goes out through i first.
OutEntry(n, i) ==
  IF n.link[i] \in ParentEgress THEN To("parent_out", n.link[i])
  ELSE TopEntry(n.cubes[i], WithEgress, "out", Stack)

\* An XDP interface that is entered at another program tells the port; n is
\* the network before the update.
EnterAt(n, m, i, index) ==
  IF hook = "tc" THEN m
  ELSE [(IF n.link[i] # NoEnd /\ n.index[i] # index
         THEN PortSetNextIndex(m, n.link[i], index) ELSE m)
        EXCEPT !.index[i] = index]

\* Mutant of UpdateIface: the egress program of the peer is not relinked.
UpdateIfaceForgetsPeer(n, i) ==
  EnterAt(n, SetTx(IfaceChains(n, i), i, OutEntry(n, i)), i, OutEntry(n, i))

UpdateIface(n, i) ==
  LET p == n.link[i]
      chains == IfaceChains(n, i)
      m == IF p \in ParentEgress
           THEN SetParentNext(chains, p, TopEntry(n.cubes[i], WithEgress, "out", Stack))
           ELSE chains
  IN EnterAt(n, SetTx(m, i, OutEntry(n, i)), i, OutEntry(n, i))

Update(n, e) == IF e \in Ports THEN UpdatePort(n, e) ELSE UpdateIface(n, e)

\* Updating e makes its peer leave its vector of cubes.
UpdateCrashes(n, e) ==
  e \in Ports /\ n.link[e] \in Ifaces /\ LeavesVector(n, n.link[e])

-----------------------------------------------------------------------------
(* Operations.                                                             *)

SetPeerIface(n, e, f) == Update([n EXCEPT !.link[e] = f], e)
SetPeerCrashes(n, e, f) == UpdateCrashes([n EXCEPT !.link[e] = f], e)

\* Port::connect(p, e) of a port to an interface or another port.
Connect(p, e) ==
  /\ ~crashed
  /\ p # e /\ net.link[p] = NoEnd /\ net.link[e] = NoEnd
  /\ IF SetPeerCrashes(net, p, e)
     THEN crashed' = TRUE /\ UNCHANGED <<hook, net, parent>>
     ELSE /\ net' = SetPeerIface(SetPeerIface(net, p, e), e, p)
          /\ UNCHANGED <<hook, parent, crashed>>

Unconnect(p) ==
  /\ ~crashed
  /\ net.link[p] # NoEnd
  /\ net' = SetPeerIface(SetPeerIface(net, p, NoEnd), net.link[p], NoEnd)
  /\ UNCHANGED <<hook, parent, crashed>>

\* compare_position: the place of the service of c relative to that of d.
ComparePosition(c, d) ==
  CASE Position[c] = Unknown \/ Position[d] = Unknown -> "unknown"
    [] Position[c] # Unknown /\ Position[d] # Unknown /\ Position[c] < Position[d] -> "before"
    [] Position[c] # Unknown /\ Position[d] # Unknown /\ Position[c] > Position[d] -> "after"
    [] OTHER -> "unknown"

\* position "auto": after the last cube that c comes after.  An unknown
\* relation stops the scan from the front, and the scan from the back that
\* follows throws when it meets the same cube.
AutoIndexes(c, s) ==
  LET after == {i \in DOMAIN s : ComparePosition(c, s[i]) = "after"}
  IN IF \E i \in DOMAIN s : ComparePosition(c, s[i]) = "unknown" THEN {}
     ELSE {IF after = {} THEN 0 ELSE Highest(after)}

\* "before" and "after" other.  The test for a missing other looks at the
\* wrong variable: it throws only when the list is empty.
OtherIndex(s, other) ==
  IF \E i \in DOMAIN s : s[i] = other
  THEN (CHOOSE i \in DOMAIN s : s[i] = other) - 1
  ELSE Len(s)

\* The index (counted from 0) add_cube inserts c at; none when it throws.
Indexes(c, s, position, other) ==
  CASE position = "auto"   -> AutoIndexes(c, s)
    [] position = "first"  -> {0}
    [] position = "last"   -> {Len(s)}
    [] position = "before" -> IF s = <<>> THEN {} ELSE {OtherIndex(s, other)}
    [] position = "after"  -> IF s = <<>> THEN {} ELSE {OtherIndex(s, other) + 1}

Inserted(s, i, c) == SubSeq(s, 1, i) \o <<c>> \o SubSeq(s, i + 1, Len(s))

\* PolycubedCore::attach and PeerIface::add_cube
Attach(c, e, position, other) ==
  /\ ~crashed
  /\ parent[c] = NoEnd
  /\ \E i \in Indexes(c, net.cubes[e], position, other) :
       LET n == [net EXCEPT !.cubes[e] = Inserted(@, i, c)]
       IN IF i > Len(net.cubes[e]) \/ UpdateCrashes(n, e)
          THEN crashed' = TRUE /\ UNCHANGED <<hook, net, parent>>
          ELSE /\ net' = Update(n, e)
               /\ parent' = [parent EXCEPT ![c] = e]
               /\ UNCHANGED <<hook, crashed>>

\* cubes_.erase at the place where std::find met c.
Without(s, c) ==
  LET i == CHOOSE k \in DOMAIN s : s[k] = c
  IN SubSeq(s, 1, i - 1) \o SubSeq(s, i + 1, Len(s))

\* PeerIface::remove_cube
RemoveCube(n, e, c) == Update([n EXCEPT !.cubes[e] = Without(@, c)], e)

\* PolycubedCore::detach, and TransparentCube::uninit of a cube that goes.
Detach(c) ==
  /\ ~crashed
  /\ parent[c] # NoEnd
  /\ LET e == parent[c]
     IN IF UpdateCrashes([net EXCEPT !.cubes[e] = Without(@, c)], e)
        THEN crashed' = TRUE /\ UNCHANGED <<hook, net, parent>>
        ELSE /\ net' = RemoveCube(net, e, c)
             /\ parent' = [parent EXCEPT ![c] = NoEnd]
             /\ UNCHANGED <<hook, crashed>>

\* ~PeerIface: a port or an interface that is not linked any more goes (and a
\* new one may take its name); its cubes are let go.
Goes(e) ==
  /\ ~crashed
  /\ net.link[e] = NoEnd /\ net.cubes[e] # <<>>
  /\ parent' = [c \in TCubes |-> IF parent[c] = e THEN NoEnd ELSE parent[c]]
  /\ LET n == [net EXCEPT !.cubes[e] = <<>>]
         fresh == [next |-> Stack, port |-> NoEnd]
     IN net' = IF e \in Ports
               THEN [n EXCEPT !.port_index[e] = To("parent_in", e),
                              !.fwd[e] = [next |-> Nowhere, port |-> e]]
               ELSE [n EXCEPT !.rx[e] = fresh, !.tx[e] = fresh, !.index[e] = Stack]
  /\ UNCHANGED <<hook, crashed>>

-----------------------------------------------------------------------------
(* The data plane: the program a packet is handed to next.                 *)

\* The receive program of interface i.
ReceiveHop(i) == net.rx[i].next

\* A program of a transparent cube, or its twin on the TC hook, that lets the
\* packet pass.
TransparentHop(t, plane) ==
  IF t.kind = "in" THEN net.next_in[t.of]
  ELSE IF plane = hook THEN net.next_out[t.of] ELSE net.next_twin[t.of]

\* The egress program of the cube of port p that lets the packet pass.
EgressHop(p, plane) == IF plane = "tc" THEN net.out_next[p] ELSE net.out_next_xdp[p]

\* The ingress program of a cube redirects the packet to port p.
ForwardHop(p) == net.fwd[p].next

-----------------------------------------------------------------------------
(* Packets that services send.                                             *)

\* Port::send_packet_out of a port with a peer: the egress cubes of the port
\* are passed over.
PortOut(p) ==
  LET q == net.link[p]
  IN IF q \in Ifaces THEN [next |-> Resolve(net.index[q], q), port |-> p]
     ELSE [next |-> net.port_index[q], port |-> q]

\* Mutant of OutPort: the packet keeps the id of the port it leaves.
OutPortOwn(c, direction) == parent[c]

\* The port a packet of transparent cube c carries.
OutPort(c, direction) ==
  LET e == parent[c]
  IN IF e \in Ifaces THEN IF net.link[e] # NoEnd THEN net.link[e] ELSE e
     ELSE IF direction = "out" /\ net.link[e] \in Ports THEN net.link[e] ELSE e

\* TransparentCube::send_packet_out, and the receive program of the controller:
\* on the TC hook a packet of the egress side that would go to the stack is
\* sent to the device with the number in the field of the port.
CubeOut(c, direction) ==
  LET next == IF direction = "in" THEN net.next_in[c] ELSE net.next_out[c]
      port == OutPort(c, direction)
  IN [next |-> IF hook = "tc" /\ direction = "out" /\ next = Stack
               THEN To("netdev", port) ELSE next,
      port |-> port]

Next ==
  \/ \E p \in Ports : Unconnect(p) \/ \E e \in Ends : Connect(p, e)
  \/ \E c \in TCubes, e \in Ends :
       \/ \E position \in {"auto", "first", "last"} : Attach(c, e, position, NoEnd)
       \/ \E position \in {"before", "after"}, other \in TCubes \ {c} :
            Attach(c, e, position, other)
  \/ \E c \in TCubes : Detach(c)
  \/ \E e \in Ends : Goes(e)

Spec == Init /\ [][Next]_vars

-----------------------------------------------------------------------------
(* Properties.                                                             *)

\* A program that hands the packet on, and what it hands the packet to.
IsProgram(t) == t.kind \in {"in", "out", "parent_out"}
Hop(t, plane) ==
  IF t.kind = "parent_out" THEN EgressHop(t.of, plane) ELSE TransparentHop(t, plane)

\* A packet handed to start visits exactly the members of way: the pointers
\* are followed until there is no program to follow.
Leads(start, plane, way) ==
  /\ way # <<>> /\ way[1] = start
  /\ \A k \in 1 .. Len(way) - 1 : IsProgram(way[k]) /\ way[k + 1] = Hop(way[k], plane)
  /\ ~ IsProgram(way[Len(way)])

\* The places I in increasing order.
Listing(I) ==
  CHOOSE f \in [1 .. Cardinality(I) -> I] :
    \A j, k \in 1 .. Cardinality(I) : j < k => f[j] < f[k]

\* The way of a packet, read off the lists of cubes.
InnerFirst(s, S, kind) ==
  LET l == Listing(Places(s, S)) IN [k \in 1 .. Len(l) |-> To(kind, s[l[k]])]
OuterFirst(s, S, kind) ==
  LET l == Listing(Places(s, S)) IN [k \in 1 .. Len(l) |-> To(kind, s[l[Len(l) + 1 - k]])]

IntoPort(p) == OuterFirst(net.cubes[p], WithIngress, "in") \o <<To("parent_in", p)>>

\* A packet received from an interface goes through all the ingress programs
\* of the interface from the first to the last cube, then through those of
\* the linked port from the last to the first, with that port as its input
\* port, and into the cube: update_indexes and set_next_index relink every
\* neighbour of a change.
ReceivePath ==
  ~crashed => \A i \in Ifaces :
    /\ Leads(ReceiveHop(i), hook,
             InnerFirst(net.cubes[i], WithIngress, "in")
               \o (IF net.link[i] = NoEnd THEN <<Stack>> ELSE IntoPort(net.link[i])))
    /\ net.rx[i].port = net.link[i]

\* The programs between the egress side of interface i and its device.
OutThrough(i) ==
  (IF net.link[i] \in ParentEgress THEN <<To("parent_out", net.link[i])>> ELSE <<>>)
    \o OuterFirst(net.cubes[i], WithEgress, "out")

\* The port that a packet carries among the cubes of e.
Carried(e, direction) ==
  IF e \in Ifaces THEN net.link[e]
  ELSE IF direction = "out" /\ net.link[e] \in Ports THEN net.link[e] ELSE e

\* What a packet visits that leaves port p: the ingress programs of the other
\* port, or the device, on the XDP hook behind the egress programs.
Beyond(p) ==
  LET q == net.link[p]
  IN IF q \in Ports THEN IntoPort(q)
     ELSE (IF hook = "xdp" THEN OutThrough(q) ELSE <<>>) \o <<To("netdev", q)>>

\* A packet a cube sends out of a linked port goes through the egress
\* programs of the port from the first to the last cube and on to the network
\* device or through the ingress programs of the other port, with the port
\* that these programs expect.
SendPath ==
  ~crashed => \A p \in Ports : net.link[p] # NoEnd =>
    /\ Leads(ForwardHop(p), hook, InnerFirst(net.cubes[p], WithEgress, "out") \o Beyond(p))
    /\ net.fwd[p].port = Carried(p, "out")

\* A packet that the stack of the host sends through an interface goes through
\* the egress program of the linked cube and then the egress programs of the
\* interface from the last to the first cube, all on the TC hook.
TransmitPath ==
  ~crashed => \A i \in Ifaces :
    /\ Leads(net.tx[i].next, "tc", OutThrough(i) \o <<Stack>>)
    /\ net.tx[i].port = net.link[i]

\* What is left of way behind target t.
Behind(t, way) ==
  LET i == CHOOSE k \in DOMAIN way : way[k] = t IN SubSeq(way, i + 1, Len(way))

\* The way of a packet through the cubes of e.
Way(e, direction) ==
  IF e \in Ports
  THEN IF direction = "in" THEN IntoPort(e)
       ELSE InnerFirst(net.cubes[e], WithEgress, "out") \o Beyond(e)
  ELSE IF direction = "in"
       THEN InnerFirst(net.cubes[e], WithIngress, "in")
              \o (IF net.link[e] = NoEnd THEN <<Stack>> ELSE IntoPort(net.link[e]))
       ELSE OuterFirst(net.cubes[e], WithEgress, "out") \o <<To("netdev", e)>>

\* The egress side of a TC interface is meant to run on a packet that leaves the
\* device; one that a service sends there enters behind the device of the
\* controller, and ends in the stack or, behind the last cube of a linked
\* interface, at the device that has the number of the port.
EndsElsewhere(c, direction) ==
  /\ hook = "tc" /\ direction = "out" /\ parent[c] \in Ifaces
  /\ net.next_out[c] # Stack \/ net.link[parent[c]] # NoEnd

Elsewhere(c) ==
  IF net.next_out[c] = Stack THEN To("netdev", net.link[parent[c]]) ELSE Stack

Programs(way) == SubSeq(way, 1, Len(way) - 1)

\* A packet that a service sends from a port goes on behind the egress cubes of
\* the port, one that a transparent cube sends goes through the programs behind
\* that cube and to the same end (but for EndsElsewhere), each with the port of
\* a packet that comes there by itself.
ServicePath ==
  ~crashed =>
    /\ \A p \in Ports : net.link[p] # NoEnd =>
         Leads(PortOut(p).next, hook, Beyond(p)) /\ PortOut(p).port = net.fwd[p].port
    /\ \A c \in TCubes, direction \in {"in", "out"} :
         /\ parent[c] # NoEnd /\ c \in (IF direction = "in" THEN WithIngress ELSE WithEgress)
         /\ parent[c] \in Ports /\ direction = "out" => net.link[parent[c]] # NoEnd
         => LET m == CubeOut(c, direction)
                way == Behind(To(direction, c), Way(parent[c], direction))
            IN /\ Leads(m.next, hook, IF EndsElsewhere(c, direction)
                                      THEN Programs(way) \o <<Elsewhere(c)>> ELSE way)
               /\ net.link[parent[c]] # NoEnd => m.port = Carried(parent[c], direction)
=============================================================================
