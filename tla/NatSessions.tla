----------------------------- MODULE NatSessions -----------------------------
(***************************************************************************)
(* The data plane of the service pcn-nat (Nat_dp.c, Nat_dp_egress.c,       *)
(* Nat_dp_ingress.c): the two session tables and the counter of external   *)
(* ports, shared by the programs that run on every CPU at once.            *)
(*                                                                         *)
(* The egress program handles what leaves: it looks up the session of the  *)
(* packet, else a SNAT or MASQUERADE rule, and then takes an external port *)
(* and writes an entry for each direction.  The ingress program does the   *)
(* same for what arrives, with the DNAT and PORTFORWARDING rules.  Each    *)
(* access to a table is a step of its own.                                 *)
(*                                                                         *)
(* The rule tables appear as what a lookup in them finds; module NatRules  *)
(* is about their content.  Checksums and the headers that are not part of *)
(* a session are left out.                                                 *)
(***************************************************************************)
EXTENDS Integers, FiniteSets

CONSTANTS
  Cpus,       \* CPUs that run the programs
  Outbound,   \* sessions that inner hosts open, as keys of egress packets
  Inbound,    \* sessions that outer hosts open, as keys of ingress packets
  External,   \* external addresses of SNAT and MASQUERADE rules
  Servers,    \* [ip, port] an inbound session may be forwarded to
  NoRule,     \* a lookup in a rule table that finds nothing
  NoPacket,   \* the packet of a CPU that has none
  FirstPort,  \* 1024
  LastPort,   \* 65535, which is never given out
  MapDim,     \* NAT_MAP_DIM
  MaxPorts,   \* bound: external ports taken in a behaviour
  MaxChanges  \* bound: changes of the control plane in a behaviour

Ports == FirstPort .. LastPort - 1

\* Ports that are taken before one is taken again.
Cycle == LastPort - FirstPort

\* struct st_k
Key(sip, dip, sport, dport, proto) ==
  [src |-> sip, dst |-> dip, sport |-> sport, dport |-> dport, proto |-> proto]

ASSUME PortsAssumption == FirstPort \in Nat \ {0} /\ LastPort \in Nat /\ FirstPort < LastPort
ASSUME BoundsAssumption == MapDim \in Nat \ {0} /\ MaxPorts \in Nat /\ MaxChanges \in Nat

VARIABLES
  egress,      \* egress_session_table
  ingress,     \* ingress_session_table
  free_port,   \* first_free_port
  sm_rules,    \* per inner host: its external address, or NoRule
  dp_rules,    \* per inbound session: the server it is forwarded to, or NoRule
  pc,          \* per CPU: place in the program
  packet,      \* per CPU: key of the packet
  new,         \* per CPU: new_ip and new_port
  flushing,    \* delNattingTableList has emptied the first table
  changes,     \* changes of the control plane so far
  taken,       \* history: how many ports were taken
  sent,        \* history: the packets that left, with their external endpoint,
               \* until its port is taken again
  lossy,       \* history: an entry was evicted, flushed or not written
  raced,       \* history: keys of the ingress table for the replies of a session
               \* that may be gone to another one, see WriteReverse
  crossed      \* history: keys of the egress table for the answers to a
               \* forwarded session that a session from inside has taken

vars == <<egress, ingress, free_port, sm_rules, dp_rules, pc, packet, new,
          flushing, changes, taken, sent, lossy, raced, crossed>>
tables   == <<egress, ingress>>
rules    == <<sm_rules, dp_rules>>
programs == <<pc, packet, new>>
control  == <<flushing, changes>>
mixed    == <<raced, crossed>>
history  == <<taken, sent, lossy, mixed>>

\* A new endpoint; nth counts the ports taken until then, 0 for none.
To(ip, port, nth) == [ip |-> ip, port |-> port, nth |-> nth]
Nothing == To(NoRule, 0, 0)

Hosts == {k.src : k \in Outbound}

\* The first packets meet the rules of the configuration.
Init ==
  /\ egress = <<>> /\ ingress = <<>>
  /\ free_port = 0
  /\ sm_rules \in [Hosts -> External]
  /\ dp_rules \in [Inbound -> Servers]
  /\ pc = [c \in Cpus |-> "idle"]
  /\ packet = [c \in Cpus |-> NoPacket]
  /\ new = [c \in Cpus |-> Nothing]
  /\ flushing = FALSE /\ changes = 0
  /\ taken = 0 /\ sent = {} /\ lossy = FALSE
  /\ raced = {} /\ crossed = {}

-----------------------------------------------------------------------------
(* The tables.                                                             *)

\* Mutant of GetFreePort: the range is restarted one port early.
GetFreePortEarly ==
  IF free_port < FirstPort \/ free_port = LastPort - 1 THEN FirstPort ELSE free_port

\* get_free_port, the port; the counter is the port after it.
GetFreePort ==
  IF free_port < FirstPort \/ free_port = LastPort THEN FirstPort ELSE free_port

\* The tables that an update of an lru_hash may leave.  The entries that the
\* kernel evicts to make room are not chosen by the program, and it may begin
\* before the table is full.
Updated(table, key, value) ==
  {[k \in kept \cup {key} |-> IF k = key THEN value ELSE table[k]] :
     kept \in {old \in SUBSET (DOMAIN table \ {key}) : Cardinality(old) < MapDim}}

\* Entries of a session opened from inside; k is the key of its packets.
\* ICMP has one identifier in place of two ports.
ReplyKey(k, v) ==
  Key(k.dst, v.ip, IF k.proto = "icmp" THEN v.port ELSE k.dport, v.port, k.proto)
ReplyValue(k, v) == To(k.src, k.sport, v.nth)

\* Mutant of AnswerValue: the answers leave with the port of the server.
AnswerValueInner(k, v) == To(k.dst, v.port, 0)

\* Entries of a session opened from outside; k is the key of its packets.
AnswerKey(k, v) ==
  Key(v.ip, k.src, v.port, IF k.proto = "icmp" THEN v.port ELSE k.sport, k.proto)
AnswerValue(k, v) == To(k.dst, k.dport, 0)

-----------------------------------------------------------------------------
(* The egress program.                                                     *)

\* The port of b was not taken again when n ports were taken.
Young(b, n) == n - b.nth < Cycle

\* The program ends.
Done(c) ==
  /\ pc' = [pc EXCEPT ![c] = "idle"]
  /\ packet' = [packet EXCEPT ![c] = NoPacket]
  /\ new' = [new EXCEPT ![c] = Nothing]

\* The session is known: the packet leaves with the endpoint of the entry.
Hit(c, k) ==
  /\ pc[c] = "idle" /\ k \in DOMAIN egress
  /\ egress[k].nth > 0
  /\ sent' = {s \in sent \cup {[key |-> k, via |-> egress[k]]} : Young(s.via, taken)}
  /\ UNCHANGED <<tables, free_port, rules, programs, control, taken, lossy, mixed>>

Miss(c, k) ==
  /\ pc[c] = "idle" /\ k \notin DOMAIN egress
  /\ packet' = [packet EXCEPT ![c] = k]
  /\ pc' = [pc EXCEPT ![c] = "out_rule"]
  /\ UNCHANGED <<tables, free_port, rules, new, control, history>>

\* A packet without a rule passes as it is.
NoSnat(c) ==
  /\ pc[c] = "out_rule" /\ sm_rules[packet[c].src] = NoRule
  /\ Done(c)
  /\ UNCHANGED <<tables, free_port, rules, control, history>>

\* A program ends before the counter has gone around once.
NotOvertaken ==
  \A d \in Cpus : pc[d] \in {"out_forward", "out_reverse"} => taken - new[d].nth < Cycle - 1

\* The rule is found and a port is taken, under the spin lock of the counter.
TakePort(c) ==
  /\ pc[c] = "out_rule" /\ sm_rules[packet[c].src] # NoRule
  /\ taken < MaxPorts /\ NotOvertaken
  /\ taken' = taken + 1
  /\ new' = [new EXCEPT ![c] = To(sm_rules[packet[c].src], GetFreePort, taken + 1)]
  /\ free_port' = GetFreePort + 1
  /\ pc' = [pc EXCEPT ![c] = "out_forward"]
  /\ sent' = {s \in sent : Young(s.via, taken')}
  /\ UNCHANGED <<tables, rules, packet, control, lossy, mixed>>

\* update() has stored the entry, or it has failed, which no program looks at.
InEgress(key, value) ==
  \/ /\ egress' \in Updated(egress, key, value)
     /\ lossy' = (lossy \/ ~(DOMAIN egress \subseteq DOMAIN egress'))
  \/ /\ egress' = egress
     /\ lossy' = TRUE

\* The entry may be that of the answers to a forwarded session.
WriteForward(c) ==
  /\ pc[c] = "out_forward"
  /\ InEgress(packet[c], new[c])
  /\ crossed' = crossed \cup {k \in {packet[c]} \cap DOMAIN egress : egress[k].nth = 0}
  /\ pc' = [pc EXCEPT ![c] = "out_reverse"]
  /\ UNCHANGED <<ingress, free_port, rules, packet, new, control, taken, sent, raced>>

\* A packet from outside with this key is being forwarded.
Forwarding(key) ==
  \E d \in Cpus : pc[d] \in {"in_rule", "in_forward", "in_reverse"} /\ packet[d] = key

\* The second table is written and the packet leaves.  A packet that already
\* missed this key, to a forwarded port that was given out now, goes on and
\* writes its own entry; and if the update fails an older one may stay.
ReverseWritten(c, key) ==
  \/ /\ ingress' \in Updated(ingress, key, ReplyValue(packet[c], new[c]))
     /\ lossy' = (lossy \/ ~(DOMAIN ingress \subseteq DOMAIN ingress'))
     /\ raced' = IF Forwarding(key) THEN raced \cup {key} ELSE raced \ {key}
  \/ /\ ingress' = ingress
     /\ lossy' = TRUE
     /\ raced' = raced \cup {key}

\* Mutant of WriteReverse: a session that has an entry already is not updated.
WriteReverseOnce(c) ==
  /\ pc[c] = "out_reverse"
  /\ IF ReplyKey(packet[c], new[c]) \in DOMAIN ingress
     THEN UNCHANGED <<ingress, lossy, raced>>
     ELSE ReverseWritten(c, ReplyKey(packet[c], new[c]))
  /\ sent' = sent \cup {[key |-> packet[c], via |-> new[c]]}
  /\ Done(c)
  /\ UNCHANGED <<egress, free_port, rules, control, taken, crossed>>

WriteReverse(c) ==
  /\ pc[c] = "out_reverse"
  /\ ReverseWritten(c, ReplyKey(packet[c], new[c]))
  /\ sent' = sent \cup {[key |-> packet[c], via |-> new[c]]}
  /\ Done(c)
  /\ UNCHANGED <<egress, free_port, rules, control, taken, crossed>>

-----------------------------------------------------------------------------
(* The ingress program.  A packet of a known session, and one without a    *)
(* rule, changes no table.                                                 *)

MissIn(c, k) ==
  /\ pc[c] = "idle" /\ k \notin DOMAIN ingress
  /\ packet' = [packet EXCEPT ![c] = k]
  /\ pc' = [pc EXCEPT ![c] = "in_rule"]
  /\ UNCHANGED <<tables, free_port, rules, new, control, history>>

NoForwarding(c) ==
  /\ pc[c] = "in_rule" /\ dp_rules[packet[c]] = NoRule
  /\ Done(c)
  /\ UNCHANGED <<tables, free_port, rules, control, history>>

\* A DNAT rule keeps the port: the server's port is then that of the packet.
Forward(c) ==
  /\ pc[c] = "in_rule" /\ dp_rules[packet[c]] # NoRule
  /\ new' = [new EXCEPT ![c] = To(dp_rules[packet[c]].ip, dp_rules[packet[c]].port, 0)]
  /\ pc' = [pc EXCEPT ![c] = "in_forward"]
  /\ UNCHANGED <<tables, free_port, rules, packet, control, history>>

WriteAnswer(c) ==
  /\ pc[c] = "in_forward"
  /\ InEgress(AnswerKey(packet[c], new[c]), AnswerValue(packet[c], new[c]))
  /\ crossed' = crossed \ {AnswerKey(packet[c], new[c])}
  /\ pc' = [pc EXCEPT ![c] = "in_reverse"]
  /\ UNCHANGED <<ingress, free_port, rules, packet, new, control, taken, sent, raced>>

WriteRequest(c) ==
  /\ pc[c] = "in_reverse"
  /\ \/ /\ ingress' \in Updated(ingress, packet[c], new[c])
        /\ lossy' = (lossy \/ ~(DOMAIN ingress \subseteq DOMAIN ingress'))
     \/ /\ ingress' = ingress
        /\ lossy' = TRUE
  /\ Done(c)
  /\ UNCHANGED <<egress, free_port, rules, control, taken, sent, mixed>>

-----------------------------------------------------------------------------
(* The control plane.                                                      *)

SetSnat(h, ip) ==
  /\ changes < MaxChanges /\ changes' = changes + 1
  /\ sm_rules' = [sm_rules EXCEPT ![h] = ip]
  /\ UNCHANGED <<tables, free_port, dp_rules, programs, flushing, history>>

SetForwarding(k, server) ==
  /\ changes < MaxChanges /\ changes' = changes + 1
  /\ dp_rules' = [dp_rules EXCEPT ![k] = server]
  /\ UNCHANGED <<tables, free_port, sm_rules, programs, flushing, history>>

\* delNattingTableList empties one table and then the other.
FlushEgress ==
  /\ ~flushing
  /\ changes < MaxChanges /\ changes' = changes + 1
  /\ egress' = <<>> /\ flushing' = TRUE /\ lossy' = TRUE
  /\ UNCHANGED <<ingress, free_port, rules, programs, taken, sent, mixed>>

FlushIngress ==
  /\ flushing
  /\ ingress' = <<>> /\ flushing' = FALSE
  /\ UNCHANGED <<egress, free_port, rules, programs, changes, history>>

-----------------------------------------------------------------------------
Program(c) ==
  \/ \E k \in Outbound : Hit(c, k) \/ Miss(c, k)
  \/ NoSnat(c) \/ TakePort(c) \/ WriteForward(c) \/ WriteReverse(c)
  \/ \E k \in Inbound : MissIn(c, k)
  \/ NoForwarding(c) \/ Forward(c) \/ WriteAnswer(c) \/ WriteRequest(c)

Control ==
  \/ \E h \in Hosts, ip \in External \cup {NoRule} : SetSnat(h, ip)
  \/ \E k \in Inbound, server \in Servers \cup {NoRule} : SetForwarding(k, server)
  \/ FlushEgress \/ FlushIngress

Next == (\E c \in Cpus : Program(c)) \/ Control

Spec == Init /\ [][Next]_vars

-----------------------------------------------------------------------------
(* Properties.                                                             *)

\* The ports in use: of the entries and of the programs about to write one.
Bindings ==
  {b \in {egress[k] : k \in DOMAIN egress} \cup {new[c] : c \in Cpus} : b.nth > 0}

\* A port is taken again only after all the others were: two sessions that
\* have the same external port are at least a full range of sessions apart,
\* whatever CPUs open them.
PortsInTurn ==
  \A a, b \in Bindings : a.port = b.port => a.nth = b.nth \/ a.nth - b.nth >= Cycle
                                            \/ b.nth - a.nth >= Cycle

\* The program that writes the entry for the replies has not got there.
Unfinished(b) == \E c \in Cpus : pc[c] = "out_reverse" /\ new[c] = b

\* The reply of an outer host to a packet k that reached it from v, and the
\* answer of a server v to a packet k: both swap the ends, and ICMP has one
\* identifier.
Reply(k, v)  == Key(k.dst, v.ip, IF k.proto = "icmp" THEN v.port ELSE k.dport, v.port, k.proto)
Answer(k, v) == Key(v.ip, k.src, v.port, IF k.proto = "icmp" THEN v.port ELSE k.sport, k.proto)

\* A reply to a packet that left through the NAT is given back to the host and
\* port the packet came from, also when two CPUs opened the session at once,
\* until the external port is taken again.  A reply whose entry was evicted,
\* flushed or not written may go to the server of a forwarded port, and so may
\* one whose port is forwarded, if the outer host used it before it was given
\* out and the CPUs race; but no reply goes to another inner session.
RepliesReturn ==
  \A s \in sent : ~Unfinished(s.via) =>
    LET r == Reply(s.key, s.via)
    IN \/ r \in raced
       \/ /\ r \in DOMAIN ingress
          /\ ingress[r].ip = s.key.src /\ ingress[r].port = s.key.sport
       \/ lossy /\ (r \in DOMAIN ingress => ingress[r].nth = 0)

\* An answer of a server to a forwarded session leaves with an address that
\* the outer host has sent to, as long as nothing was evicted, flushed or not
\* written, and no inner host opened a session with the two ends of this
\* answer: the program writes both under one key of the egress table.
AnswersKeepAddress ==
  lossy \/ \A r \in Inbound \cap DOMAIN ingress : ingress[r].nth = 0 =>
    LET a == Answer(r, ingress[r])
    IN \/ a \in crossed
       \/ /\ a \in DOMAIN egress
          /\ \E q \in Inbound : /\ a = Answer(q, ingress[r])
                                /\ egress[a].ip = q.dst /\ egress[a].port = q.dport
=============================================================================
