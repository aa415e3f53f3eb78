-------------------------- MODULE NatSessionsProofs --------------------------
(***************************************************************************)
(* Theorems about NatSessions, with their proofs: for any number of CPUs,  *)
(* sessions and rules, any range of ports and any size of the tables.      *)
(***************************************************************************)
EXTENDS NatSessions, TLAPS

\* The places of the egress program where a port is taken and not yet given to
\* both tables, and the places of the ingress program after its lookup.
Out == {"out_forward", "out_reverse"}
In  == {"in_rule", "in_forward", "in_reverse"}

\* A session with the endpoint it was given.
Session(k, v) == [key |-> k, via |-> v]

\* The sessions that have a port: of a program, of an entry, or seen outside.
Sessions ==
  sent \cup {Session(k, egress[k]) : k \in {j \in DOMAIN egress : egress[j].nth > 0}}
       \cup {Session(packet[c], new[c]) : c \in {d \in Cpus : pc[d] \in Out}}

-----------------------------------------------------------------------------
(* The inductive invariant.                                                *)

\* What the programs hold at each of their places, and what the rules and the
\* tables hold.
Places ==
  /\ DOMAIN pc = Cpus /\ DOMAIN packet = Cpus /\ DOMAIN new = Cpus
  /\ dp_rules \in [Inbound -> Servers \cup {NoRule}]
  /\ taken \in Nat /\ lossy \in BOOLEAN /\ (flushing => lossy)
  /\ \A c \in Cpus :
       /\ pc[c] \in {"out_rule"} \cup Out => packet[c] \in Outbound
       /\ pc[c] \in In => packet[c] \in Inbound
       /\ pc[c] \notin Out => new[c].nth = 0
       /\ pc[c] \in {"in_forward", "in_reverse"} =>
            \E v \in Servers : new[c] = To(v.ip, v.port, 0)
  /\ \A k \in DOMAIN egress : egress[k].nth \in Nat

\* The counter is one behind the last port that was taken.
Counter == IF taken = 0 THEN free_port = 0 ELSE free_port \in FirstPort + 1 .. LastPort

\* Where the port of a session lies, seen from the counter: the ports of the
\* last round are as far behind it as their numbers are behind taken.
Behind(v) == \/ free_port - 1 - v.port = taken - v.nth
             \/ free_port - 1 - v.port = taken - v.nth - Cycle

Numbered ==
  \A s \in Sessions :
    /\ s.key \in Outbound
    /\ s.via.nth \in Nat /\ 1 <= s.via.nth /\ s.via.nth <= taken
    /\ s.via.port \in Int /\ FirstPort <= s.via.port /\ s.via.port < LastPort
    /\ Young(s.via, taken) => Behind(s.via)

\* Ports that are taken in the same round differ.
Apart(a, b) == a.port = b.port => a.nth = b.nth \/ a.nth - b.nth >= Cycle
                                 \/ b.nth - a.nth >= Cycle

\* A number is that of one session, and ports come in turn.
Distinct ==
  \A s, u \in Sessions : (s.via.nth = u.via.nth => s = u) /\ Apart(s.via, u.via)

\* The ports that programs and outer hosts have are not taken again yet.
Fresh ==
  /\ \A s \in sent : Young(s.via, taken)
  /\ \A c \in Cpus : pc[c] \in Out => Young(new[c], taken)

\* A port is taken by one CPU, and seen by nobody before its first entry.
Owners ==
  /\ \A c, d \in Cpus :
       pc[c] \in Out /\ pc[d] \in Out /\ new[c].nth = new[d].nth => c = d
  /\ \A c \in Cpus : pc[c] = "out_forward" =>
       /\ \A s \in sent : s.via # new[c]
       /\ \A k \in DOMAIN egress : egress[k] # new[c]

\* A program has still to write an entry with endpoint v.
Pending(v) == \E c \in Cpus : pc[c] \in Out /\ new[c] = v

\* The entry that brings the replies of s back is right, and no packet that
\* missed it is under way; or it was lost, or raced.
Returns(s) ==
  LET r == Reply(s.key, s.via)
  IN \/ r \in raced
     \/ /\ r \in DOMAIN ingress
        /\ ingress[r].ip = s.key.src /\ ingress[r].port = s.key.sport
        /\ ~Forwarding(r)
     \/ lossy /\ (r \in DOMAIN ingress => ingress[r].nth = 0)

Served ==
  \A s \in Sessions : Young(s.via, taken) /\ ~Pending(s.via) => Returns(s)

SessionsInv == Places /\ Counter /\ Numbered /\ Distinct /\ Fresh /\ Owners /\ Served

\* An answer of server v to k finds the entry of a session that the outer host
\* has opened, unless an inner session has taken the entry.
Answered(k, v) ==
  LET a == Answer(k, v)
  IN \/ a \in crossed
     \/ /\ a \in DOMAIN egress
        /\ \E q \in Inbound : a = Answer(q, v) /\ egress[a] = To(q.dst, q.dport, 0)

\* The answers of the sessions that were forwarded, or are just being so.
Answers ==
  \/ lossy
  \/ /\ \A r \in Inbound \cap DOMAIN ingress :
          ingress[r].nth = 0 => Answered(r, ingress[r])
     /\ \A c \in Cpus : pc[c] = "in_reverse" => Answered(packet[c], new[c])

-----------------------------------------------------------------------------
(* The operators.                                                          *)

\* A table that an update of k with v may leave, whether it failed or not.
Stored(t, u, k, v) ==
  \A j \in DOMAIN u : \/ j = k /\ u[j] = v
                      \/ j \in DOMAIN t /\ u[j] = t[j]

\* What an update of a table leaves: the new entry, and some of the old ones
\* as they were.
LEMMA UpdatedTable ==
  ASSUME NEW t, NEW k, NEW v, NEW u \in Updated(t, k, v)
  PROVE  /\ k \in DOMAIN u /\ u[k] = v
         /\ DOMAIN u \subseteq DOMAIN t \cup {k}
         /\ \A j \in DOMAIN u \ {k} : u[j] = t[j]
         /\ Stored(t, u, k, v)
<1>1. PICK kept \in SUBSET (DOMAIN t \ {k}) :
        u = [j \in kept \cup {k} |-> IF j = k THEN v ELSE t[j]]
  BY DEF Updated
<1>2. DOMAIN u = kept \cup {k} /\ \A j \in DOMAIN u : u[j] = IF j = k THEN v ELSE t[j]
  BY <1>1
<1> QED BY <1>2 DEF Stored

\* The same for an update of the egress table that may fail.
LEMMA EgressTable ==
  ASSUME lossy \in BOOLEAN, NEW k, NEW v, InEgress(k, v)
  PROVE  /\ Stored(egress, egress', k, v)
         /\ lossy' \in BOOLEAN /\ (lossy => lossy')
         /\ ~lossy' => /\ ~lossy /\ k \in DOMAIN egress' /\ egress'[k] = v
                       /\ DOMAIN egress \subseteq DOMAIN egress'
                       /\ \A j \in DOMAIN egress \ {k} : egress'[j] = egress[j]
<1>1. CASE /\ egress' \in Updated(egress, k, v)
           /\ lossy' = (lossy \/ ~(DOMAIN egress \subseteq DOMAIN egress'))
  <2>1. /\ k \in DOMAIN egress' /\ egress'[k] = v
        /\ Stored(egress, egress', k, v)
        /\ \A j \in DOMAIN egress' \ {k} : egress'[j] = egress[j]
    BY <1>1, UpdatedTable DEF Stored
  <2>2. ~lossy' => ~lossy /\ DOMAIN egress \subseteq DOMAIN egress'
    BY <1>1
  <2>3. ~lossy' => \A j \in DOMAIN egress \ {k} : egress'[j] = egress[j]
    BY <2>1, <2>2
  <2> QED BY <1>1, <2>1, <2>2, <2>3
<1>2. CASE egress' = egress /\ lossy' = TRUE
  BY <1>2 DEF Stored
<1> QED BY <1>1, <1>2 DEF InEgress

\* And of the ingress table, by either program.
LEMMA IngressTable ==
  ASSUME lossy \in BOOLEAN, NEW k, NEW v,
         \/ /\ ingress' \in Updated(ingress, k, v)
            /\ lossy' = (lossy \/ ~(DOMAIN ingress \subseteq DOMAIN ingress'))
         \/ ingress' = ingress /\ lossy' = TRUE
  PROVE  /\ Stored(ingress, ingress', k, v)
         /\ lossy' \in BOOLEAN /\ (lossy => lossy')
         /\ lossy' \/ DOMAIN ingress \subseteq DOMAIN ingress'
<1>1. CASE /\ ingress' \in Updated(ingress, k, v)
           /\ lossy' = (lossy \/ ~(DOMAIN ingress \subseteq DOMAIN ingress'))
  BY <1>1, UpdatedTable
<1>2. CASE ingress' = ingress /\ lossy' = TRUE
  BY <1>2 DEF Stored
<1> QED BY <1>1, <1>2

\* The reply and the answer that the properties speak of have the keys that
\* the programs write.
LEMMA KeysAgree ==
  ASSUME NEW k, NEW v
  PROVE  ReplyKey(k, v) = Reply(k, v) /\ AnswerKey(k, v) = Answer(k, v)
BY DEF ReplyKey, AnswerKey, Reply, Answer

\* The port of a reply is its destination.
LEMMA ReplyPort ==
  ASSUME NEW k, NEW v
  PROVE  Reply(k, v).dport = v.port
BY DEF Reply, Key

\* A session has a port when it is seen, has an entry or is a program's.
LEMMA SessionOf ==
  ASSUME NEW s
  PROVE  s \in Sessions <=>
           \/ s \in sent
           \/ \E k \in DOMAIN egress : egress[k].nth > 0 /\ s = Session(k, egress[k])
           \/ \E c \in Cpus : pc[c] \in Out /\ s = Session(packet[c], new[c])
BY DEF Sessions

\* The sessions of the next state.
LEMMA SessionOfNext ==
  ASSUME NEW s
  PROVE  s \in Sessions' <=>
           \/ s \in sent'
           \/ \E k \in DOMAIN egress' : egress'[k].nth > 0 /\ s = Session(k, egress'[k])
           \/ \E c \in Cpus : pc'[c] \in Out /\ s = Session(packet'[c], new'[c])
BY DEF Sessions

\* The port that is taken lies in the range and is the next one.
LEMMA NextPort ==
  ASSUME Places, Counter
  PROVE  /\ GetFreePort \in Int /\ FirstPort <= GetFreePort /\ GetFreePort < LastPort
         /\ taken > 0 => GetFreePort = free_port \/ GetFreePort = free_port - Cycle
         /\ taken > 0 => free_port \in Int /\ FirstPort < free_port /\ free_port <= LastPort
BY PortsAssumption DEF Places, Counter, GetFreePort, Cycle

\* A program that has a port has a session, and an entry that has one too.
LEMMA HasSession ==
  /\ \A c \in Cpus : pc[c] \in Out =>
       /\ Session(packet[c], new[c]) \in Sessions
       /\ Session(packet[c], new[c]).key = packet[c] /\ Session(packet[c], new[c]).via = new[c]
  /\ \A k \in DOMAIN egress : egress[k].nth > 0 =>
       /\ Session(k, egress[k]) \in Sessions
       /\ Session(k, egress[k]).key = k /\ Session(k, egress[k]).via = egress[k]
BY DEF Sessions, Session

-----------------------------------------------------------------------------
(* Every step keeps what the programs hold.                                *)

\* No step puts a program, a rule or a table where it must not be.
LEMMA PlacesStep == Places /\ Numbered /\ [Next]_vars => Places'
<1> SUFFICES ASSUME Places, Numbered, [Next]_vars PROVE Places'
  OBVIOUS
<1> USE DEF Out, In
<1>1. ASSUME NEW c \in Cpus, NEW k \in Outbound, Hit(c, k) PROVE Places'
  BY <1>1 DEF Places, Hit, tables, rules, programs, control
<1>2. ASSUME NEW c \in Cpus, NEW k \in Outbound, Miss(c, k) PROVE Places'
  BY <1>2 DEF Places, Miss, tables, rules, programs, control, history
<1>3. ASSUME NEW c \in Cpus, NoSnat(c) PROVE Places'
  BY <1>3 DEF Places, NoSnat, Done, Nothing, To, tables, rules, programs, control, history
<1>4. ASSUME NEW c \in Cpus, TakePort(c) PROVE Places'
  BY <1>4 DEF Places, TakePort, To, tables, rules, programs, control, history
<1>5. ASSUME NEW c \in Cpus, WriteForward(c) PROVE Places'
  <2>1. new[c].nth \in Nat
    BY <1>5, HasSession DEF WriteForward, Numbered
  <2>2. /\ Stored(egress, egress', packet[c], new[c])
        /\ lossy' \in BOOLEAN /\ (lossy => lossy')
    BY <1>5, EgressTable DEF WriteForward, Places
  <2>7. \A k \in DOMAIN egress' : egress'[k].nth \in Nat
    BY <2>1, <2>2 DEF Stored, Places
  <2>3. /\ pc' = [pc EXCEPT ![c] = "out_reverse"] /\ pc[c] = "out_forward"
        /\ UNCHANGED <<dp_rules, taken, flushing, packet, new>>
    BY <1>5 DEF WriteForward, rules, control
  <2> HIDE DEF Out, In
  <2>4. c \in DOMAIN pc /\ DOMAIN pc' = Cpus /\ pc[c] \in Out /\ pc'[c] \in Out /\ pc'[c] \notin In
        /\ pc'[c] \notin {"in_forward", "in_reverse"}
    BY <2>3 DEF Out, In, Places
  <2>5. \A d \in Cpus \ {c} : pc'[d] = pc[d]
    BY <2>3 DEF Places
  <2> QED BY <2>2, <2>3, <2>4, <2>5, <2>7 DEF Places
<1>6. ASSUME NEW c \in Cpus, WriteReverse(c) PROVE Places'
  BY <1>6 DEF Places, WriteReverse, ReverseWritten, Done, Nothing, To, rules, control
<1>7. ASSUME NEW c \in Cpus, NEW k \in Inbound, MissIn(c, k) PROVE Places'
  BY <1>7 DEF Places, MissIn, tables, rules, programs, control, history
<1>8. ASSUME NEW c \in Cpus, NoForwarding(c) PROVE Places'
  BY <1>8 DEF Places, NoForwarding, Done, Nothing, To, tables, rules, programs, control, history
<1>9. ASSUME NEW c \in Cpus, Forward(c) PROVE Places'
  BY <1>9 DEF Places, Forward, To, tables, rules, programs, control, history
<1>10. ASSUME NEW c \in Cpus, WriteAnswer(c) PROVE Places'
  <2>1. AnswerValue(packet[c], new[c]).nth \in Nat
    BY DEF AnswerValue, To
  <2>2. /\ Stored(egress, egress', AnswerKey(packet[c], new[c]), AnswerValue(packet[c], new[c]))
        /\ lossy' \in BOOLEAN /\ (lossy => lossy')
    BY <1>10, EgressTable DEF WriteAnswer, Places
  <2>3. \A k \in DOMAIN egress' : egress'[k].nth \in Nat
    BY <2>1, <2>2 DEF Stored, Places
  <2>4. /\ pc' = [pc EXCEPT ![c] = "in_reverse"] /\ pc[c] = "in_forward"
        /\ UNCHANGED <<dp_rules, taken, flushing, packet, new>>
    BY <1>10 DEF WriteAnswer, rules, control
  <2> QED BY <2>2, <2>3, <2>4 DEF Places
<1>11. ASSUME NEW c \in Cpus, WriteRequest(c) PROVE Places'
  BY <1>11 DEF Places, WriteRequest, Done, Nothing, To, rules, control
<1>12. ASSUME NEW h \in Hosts, NEW ip \in External \cup {NoRule}, SetSnat(h, ip) PROVE Places'
  BY <1>12 DEF Places, SetSnat, tables, programs, history
<1>13. ASSUME NEW k \in Inbound, NEW server \in Servers \cup {NoRule}, SetForwarding(k, server)
       PROVE  Places'
  BY <1>13 DEF Places, SetForwarding, tables, programs, history
<1>14. ASSUME FlushEgress PROVE Places'
  BY <1>14 DEF Places, FlushEgress, rules, programs
<1>15. ASSUME FlushIngress PROVE Places'
  BY <1>15 DEF Places, FlushIngress, rules, programs, history
<1>16. CASE UNCHANGED vars
  BY <1>16 DEF Places, vars
<1> HIDE DEF Out, In
<1> QED
  BY <1>1, <1>2, <1>3, <1>4, <1>5, <1>6, <1>7, <1>8, <1>9, <1>10, <1>11, <1>12, <1>13,
     <1>14, <1>15, <1>16 DEF Next, Program, Control

-----------------------------------------------------------------------------
(* Sessions, their numbers and their ports.                                *)

\* Every step but TakePort leaves the counter alone and adds no session; it
\* only moves ports on from a program to an entry or to an outer host.
Moves ==
  /\ taken' = taken /\ free_port' = free_port
  /\ Sessions' \subseteq Sessions
  /\ \A c \in Cpus : pc'[c] \in Out => pc[c] \in Out /\ new'[c] = new[c]
  /\ \A s \in sent' : s \in sent \/ Young(s.via, taken)

\* A step of the control plane, or one that leaves sent, egress and the
\* programs that have a port alone, adds no session.
LEMMA MovesSame ==
  ASSUME taken' = taken, free_port' = free_port, sent' = sent,
         \A k \in DOMAIN egress' : egress'[k].nth > 0 => k \in DOMAIN egress /\ egress'[k] = egress[k],
         \A c \in Cpus : pc'[c] \in Out =>
           pc[c] \in Out /\ new'[c] = new[c] /\ packet'[c] = packet[c]
  PROVE  Moves
<1>1. ASSUME NEW s \in Sessions' PROVE s \in Sessions
  <2>1. CASE s \in sent'
    BY <2>1, SessionOf
  <2>2. ASSUME NEW k \in DOMAIN egress', egress'[k].nth > 0, s = Session(k, egress'[k])
        PROVE  s \in Sessions
    BY <2>2, SessionOf
  <2>3. ASSUME NEW c \in Cpus, pc'[c] \in Out, s = Session(packet'[c], new'[c])
        PROVE  s \in Sessions
    BY <2>3, SessionOf
  <2> QED BY <2>1, <2>2, <2>3, SessionOfNext
<1> QED BY <1>1 DEF Moves

\* Which steps move ports only.
LEMMA MostMove ==
  ASSUME Places, Fresh, [Next]_vars, ~(\E c \in Cpus : TakePort(c))
  PROVE  Moves
<1>1. ASSUME NEW c \in Cpus, NEW k \in Outbound, Hit(c, k) PROVE Moves
  <2>1. /\ egress' = egress /\ pc' = pc /\ new' = new /\ packet' = packet
        /\ taken' = taken /\ free_port' = free_port
        /\ k \in DOMAIN egress /\ egress[k].nth > 0
        /\ \A s \in sent' : s \in sent \/ s = Session(k, egress[k])
        /\ \A s \in sent' : Young(s.via, taken)
    BY <1>1 DEF Hit, Session, tables, programs
  <2>2. ASSUME NEW s \in Sessions' PROVE s \in Sessions
    <3>1. CASE s \in sent'
      BY <2>1, <3>1, SessionOf
    <3>2. ASSUME NEW j \in DOMAIN egress', egress'[j].nth > 0, s = Session(j, egress'[j])
          PROVE  s \in Sessions
      BY <2>1, <3>2, SessionOf
    <3>3. ASSUME NEW d \in Cpus, pc'[d] \in Out, s = Session(packet'[d], new'[d])
          PROVE  s \in Sessions
      BY <2>1, <3>3, SessionOf
    <3> QED BY <3>1, <3>2, <3>3, SessionOfNext
  <2> QED BY <2>1, <2>2 DEF Moves
<1>2. ASSUME NEW c \in Cpus, NEW k \in Outbound, Miss(c, k) PROVE Moves
  BY <1>2, MovesSame DEF Miss, Places, Out, tables, history
<1>3. ASSUME NEW c \in Cpus, NoSnat(c) PROVE Moves
  BY <1>3, MovesSame DEF NoSnat, Done, Places, Out, tables, history
<1>4. ASSUME NEW c \in Cpus, WriteForward(c) PROVE Moves
  <2>1. /\ Stored(egress, egress', packet[c], new[c])
        /\ pc[c] \in Out /\ \A d \in Cpus : pc'[d] \in Out => pc[d] \in Out
        /\ sent' = sent /\ new' = new /\ packet' = packet
        /\ taken' = taken /\ free_port' = free_port
    BY <1>4, EgressTable DEF WriteForward, Places, Out
  <2>2. ASSUME NEW s \in Sessions' PROVE s \in Sessions
    <3>1. CASE s \in sent'
      BY <2>1, <3>1, SessionOf
    <3>2. ASSUME NEW j \in DOMAIN egress', egress'[j].nth > 0, s = Session(j, egress'[j])
          PROVE  s \in Sessions
      <4>1. CASE j = packet[c] /\ egress'[j] = new[c]
        BY <2>1, <3>2, <4>1, SessionOf
      <4>2. CASE j \in DOMAIN egress /\ egress'[j] = egress[j]
        BY <3>2, <4>2, SessionOf
      <4> QED BY <2>1, <4>1, <4>2 DEF Stored
    <3>3. ASSUME NEW d \in Cpus, pc'[d] \in Out, s = Session(packet'[d], new'[d])
          PROVE  s \in Sessions
      BY <2>1, <3>3, SessionOf
    <3> QED BY <3>1, <3>2, <3>3, SessionOfNext
  <2> QED BY <2>1, <2>2 DEF Moves
<1>5. ASSUME NEW c \in Cpus, WriteReverse(c) PROVE Moves
  <2>1. /\ egress' = egress /\ taken' = taken /\ free_port' = free_port
        /\ pc[c] \in Out
        /\ sent' = sent \cup {Session(packet[c], new[c])}
        /\ \A d \in Cpus : pc'[d] \in Out =>
             pc[d] \in Out /\ new'[d] = new[d] /\ packet'[d] = packet[d]
    BY <1>5 DEF WriteReverse, Done, Session, Places, Out
  <2>2. ASSUME NEW s \in Sessions' PROVE s \in Sessions
    <3>1. CASE s \in sent'
      BY <2>1, <3>1, SessionOf
    <3>2. ASSUME NEW j \in DOMAIN egress', egress'[j].nth > 0, s = Session(j, egress'[j])
          PROVE  s \in Sessions
      BY <2>1, <3>2, SessionOf
    <3>3. ASSUME NEW d \in Cpus, pc'[d] \in Out, s = Session(packet'[d], new'[d])
          PROVE  s \in Sessions
      BY <2>1, <3>3, SessionOf
    <3> QED BY <3>1, <3>2, <3>3, SessionOfNext
  <2>3. Young(Session(packet[c], new[c]).via, taken)
    BY <2>1 DEF Fresh, Session
  <2> QED BY <2>1, <2>2, <2>3 DEF Moves
<1>6. ASSUME NEW c \in Cpus, NEW k \in Inbound, MissIn(c, k) PROVE Moves
  BY <1>6, MovesSame DEF MissIn, Places, Out, tables, history
<1>7. ASSUME NEW c \in Cpus, NoForwarding(c) PROVE Moves
  BY <1>7, MovesSame DEF NoForwarding, Done, Places, Out, tables, history
<1>8. ASSUME NEW c \in Cpus, Forward(c) PROVE Moves
  BY <1>8, MovesSame DEF Forward, Places, Out, tables, history
<1>9. ASSUME NEW c \in Cpus, WriteAnswer(c) PROVE Moves
  <2>1. \A k \in DOMAIN egress' : egress'[k].nth > 0 => k \in DOMAIN egress /\ egress'[k] = egress[k]
    <3>1. AnswerValue(packet[c], new[c]).nth = 0
      BY DEF AnswerValue, To
    <3>2. Stored(egress, egress', AnswerKey(packet[c], new[c]), AnswerValue(packet[c], new[c]))
      BY <1>9, EgressTable DEF WriteAnswer, Places
    <3> QED BY <3>1, <3>2 DEF Stored
  <2> QED BY <1>9, <2>1, MovesSame DEF WriteAnswer, Places, Out
<1>10. ASSUME NEW c \in Cpus, WriteRequest(c) PROVE Moves
  BY <1>10, MovesSame DEF WriteRequest, Done, Places, Out
<1>11. ASSUME Control PROVE Moves
  <2>1. /\ taken' = taken /\ free_port' = free_port /\ sent' = sent
        /\ pc' = pc /\ new' = new /\ packet' = packet
    BY <1>11 DEF Control, SetSnat, SetForwarding, FlushEgress, FlushIngress, programs, history
  <2>2. egress' = egress \/ egress' = <<>>
    BY <1>11 DEF Control, SetSnat, SetForwarding, FlushEgress, FlushIngress, tables
  <2> QED BY <2>1, <2>2, MovesSame
<1>12. CASE UNCHANGED vars
  BY <1>12, MovesSame DEF vars
<1> QED
  BY <1>1, <1>2, <1>3, <1>4, <1>5, <1>6, <1>7, <1>8, <1>9, <1>10, <1>11, <1>12
  DEF Next, Program

\* TakePort adds one session, with the next number and the next port.
LEMMA TakePortSession ==
  ASSUME Places, Counter, Numbered, NEW c \in Cpus, TakePort(c)
  PROVE  LET fresh == Session(packet[c], To(sm_rules[packet[c].src], GetFreePort, taken + 1))
         IN /\ Sessions' \subseteq Sessions \cup {fresh}
            /\ fresh.key \in Outbound /\ new'[c] = fresh.via /\ packet' = packet
            /\ fresh.via.nth = taken + 1 /\ fresh.via.port = GetFreePort
            /\ \A d \in Cpus \ {c} : new'[d] = new[d] /\ pc'[d] = pc[d]
            /\ pc'[c] = "out_forward" /\ pc[c] \notin Out
            /\ taken' = taken + 1 /\ free_port' = GetFreePort + 1
            /\ egress' = egress /\ ingress' = ingress /\ lossy' = lossy
            /\ sent' = {s \in sent : Young(s.via, taken + 1)}
<1> DEFINE v == To(sm_rules[packet[c].src], GetFreePort, taken + 1)
           fresh == Session(packet[c], v)
<1>1. /\ fresh.key = packet[c] /\ fresh.via = v /\ packet[c] \in Outbound
      /\ v.nth = taken + 1 /\ v.port = GetFreePort
  BY DEF TakePort, Places, To, Session
<1>2. /\ new' = [new EXCEPT ![c] = v] /\ pc' = [pc EXCEPT ![c] = "out_forward"]
      /\ pc[c] = "out_rule" /\ packet' = packet
      /\ taken' = taken + 1 /\ free_port' = GetFreePort + 1
      /\ egress' = egress /\ ingress' = ingress /\ lossy' = lossy
      /\ sent' = {s \in sent : Young(s.via, taken + 1)}
  BY DEF TakePort, tables
<1> HIDE DEF v
<1>3. new'[c] = v /\ pc'[c] = "out_forward" /\ pc[c] \notin Out
      /\ \A d \in Cpus \ {c} : new'[d] = new[d] /\ pc'[d] = pc[d]
  BY <1>2 DEF Places, Out
<1>4. ASSUME NEW s \in Sessions' PROVE s \in Sessions \cup {fresh}
  <2>1. CASE s \in sent'
    BY <1>2, <2>1, SessionOf
  <2>2. ASSUME NEW k \in DOMAIN egress', egress'[k].nth > 0, s = Session(k, egress'[k])
        PROVE  s \in Sessions
    BY <1>2, <2>2, SessionOf
  <2>3. ASSUME NEW d \in Cpus, pc'[d] \in Out, s = Session(packet'[d], new'[d])
        PROVE  s \in Sessions \cup {fresh}
    BY <1>2, <1>3, <2>3, SessionOf
  <2> QED BY <2>1, <2>2, <2>3, SessionOfNext
<1> QED BY <1>1, <1>2, <1>3, <1>4 DEF v

\* Every step keeps the counter in its range.
LEMMA CounterStep == Places /\ Numbered /\ Counter /\ Fresh /\ [Next]_vars => Counter'
<1> SUFFICES ASSUME Places, Numbered, Counter, Fresh, [Next]_vars PROVE Counter'
  OBVIOUS
<1>1. ASSUME NEW c \in Cpus, TakePort(c) PROVE Counter'
  <2>1. taken' = taken + 1 /\ free_port' = GetFreePort + 1
    BY <1>1, TakePortSession
  <2> QED BY <2>1, NextPort, PortsAssumption DEF Counter, Places
<1>2. CASE ~(\E c \in Cpus : TakePort(c))
  BY <1>2, MostMove DEF Moves, Counter
<1> QED BY <1>1, <1>2

\* Every step keeps the numbers and the ports of the sessions in their ranges,
\* and the ports of the last round in their order.
LEMMA NumberedStep == Places /\ Counter /\ Numbered /\ Fresh /\ [Next]_vars => Numbered'
<1> SUFFICES ASSUME Places, Counter, Numbered, Fresh, [Next]_vars PROVE Numbered'
  OBVIOUS
<1>1. ASSUME NEW c \in Cpus, TakePort(c) PROVE Numbered'
  <2> DEFINE v == To(sm_rules[packet[c].src], GetFreePort, taken + 1)
             fresh == Session(packet[c], v)
  <2>1. /\ Sessions' \subseteq Sessions \cup {fresh}
        /\ fresh.key \in Outbound /\ fresh.via.nth = taken + 1 /\ fresh.via.port = GetFreePort
        /\ taken' = taken + 1 /\ free_port' = GetFreePort + 1
    BY <1>1, TakePortSession
  <2> HIDE DEF fresh
  <2> DEFINE BehindNext(w) == \/ free_port' - 1 - w.port = taken' - w.nth
                              \/ free_port' - 1 - w.port = taken' - w.nth - Cycle
  <2>2. taken \in Nat /\ FirstPort \in Nat /\ LastPort \in Nat /\ FirstPort < LastPort
    BY PortsAssumption DEF Places
  <2>3. ASSUME NEW s \in Sessions'
        PROVE  /\ s.key \in Outbound
               /\ s.via.nth \in Nat /\ 1 <= s.via.nth /\ s.via.nth <= taken'
               /\ s.via.port \in Int /\ FirstPort <= s.via.port /\ s.via.port < LastPort
               /\ Young(s.via, taken') => BehindNext(s.via)
    <3>1. CASE s = fresh
      BY <2>1, <2>2, <3>1, NextPort
    <3>2. CASE s \in Sessions
      <4>1. /\ s.key \in Outbound
            /\ s.via.nth \in Nat /\ 1 <= s.via.nth /\ s.via.nth <= taken
            /\ s.via.port \in Int /\ FirstPort <= s.via.port /\ s.via.port < LastPort
            /\ Young(s.via, taken) => Behind(s.via)
        BY <3>2 DEF Numbered
      <4>2. ASSUME Young(s.via, taken') PROVE BehindNext(s.via)
        <5>1. Young(s.via, taken) /\ taken + 1 - s.via.nth < Cycle
          BY <2>1, <2>2, <4>1, <4>2 DEF Young, Cycle
        <5>2. \/ free_port - 1 - s.via.port = taken - s.via.nth
              \/ free_port - 1 - s.via.port = taken - s.via.nth - Cycle
          BY <4>1, <5>1 DEF Behind
        <5>3. taken > 0
          BY <2>2, <4>1
        <5>4. /\ free_port' - 1 - s.via.port = GetFreePort - s.via.port
              /\ taken' - s.via.nth = taken + 1 - s.via.nth
          BY <2>1, <2>2, <4>1, NextPort
        <5> SUFFICES \/ GetFreePort - s.via.port = taken + 1 - s.via.nth
                     \/ GetFreePort - s.via.port = taken + 1 - s.via.nth - Cycle
          BY <2>1, <2>2, <4>1, NextPort DEF Cycle
        <5>5. CASE GetFreePort = free_port
          BY <2>2, <4>1, <5>2, <5>3, <5>5, NextPort DEF Cycle
        <5>6. CASE GetFreePort = free_port - Cycle
          BY <2>2, <4>1, <5>1, <5>2, <5>3, <5>6, NextPort DEF Cycle
        <5> QED BY <5>3, <5>5, <5>6, NextPort
      <4> QED BY <2>1, <2>2, <4>1, <4>2
    <3> QED BY <2>1, <3>1, <3>2
  <2> QED BY <2>3 DEF Numbered, Behind, Young, Cycle
<1>2. CASE ~(\E c \in Cpus : TakePort(c))
  BY <1>2, MostMove DEF Moves, Numbered, Behind
<1> QED BY <1>1, <1>2

\* The port that is taken is that of no session of the last round.
LEMMA TakenApart ==
  ASSUME Places, Counter, Numbered, NEW s \in Sessions
  PROVE  s.via.port = GetFreePort => taken + 1 - s.via.nth >= Cycle
<1>1. /\ s.via.nth \in Nat /\ 1 <= s.via.nth /\ s.via.nth <= taken
      /\ s.via.port \in Int /\ FirstPort <= s.via.port /\ s.via.port < LastPort
      /\ Young(s.via, taken) => Behind(s.via)
  BY DEF Numbered
<1>2. taken \in Nat /\ FirstPort \in Nat /\ LastPort \in Nat /\ FirstPort < LastPort
  BY PortsAssumption DEF Places
<1> SUFFICES ASSUME s.via.port = GetFreePort, taken + 1 - s.via.nth < Cycle PROVE FALSE
  BY <1>1, <1>2 DEF Cycle
<1>3. Young(s.via, taken)
  BY <1>1, <1>2 DEF Young, Cycle
<1>4. \/ free_port - 1 - s.via.port = taken - s.via.nth
      \/ free_port - 1 - s.via.port = taken - s.via.nth - Cycle
  BY <1>1, <1>3 DEF Behind
<1>5. CASE GetFreePort = free_port
  BY <1>1, <1>2, <1>4, <1>5, NextPort DEF Cycle
<1>6. CASE GetFreePort = free_port - Cycle
  BY <1>1, <1>2, <1>4, <1>6, NextPort DEF Cycle
<1> QED BY <1>1, <1>2, <1>5, <1>6, NextPort

\* Every step keeps sessions and their ports apart.
LEMMA DistinctStep ==
  Places /\ Counter /\ Numbered /\ Distinct /\ Fresh /\ [Next]_vars => Distinct'
<1> SUFFICES ASSUME Places, Counter, Numbered, Distinct, Fresh, [Next]_vars PROVE Distinct'
  OBVIOUS
<1>1. ASSUME NEW c \in Cpus, TakePort(c) PROVE Distinct'
  <2> DEFINE v == To(sm_rules[packet[c].src], GetFreePort, taken + 1)
             fresh == Session(packet[c], v)
  <2>1. /\ Sessions' \subseteq Sessions \cup {fresh}
        /\ fresh.via.nth = taken + 1 /\ fresh.via.port = GetFreePort
    BY <1>1, TakePortSession
  <2> HIDE DEF fresh
  <2>2. taken \in Nat /\ FirstPort \in Nat /\ LastPort \in Nat
    BY PortsAssumption DEF Places
  <2>3. ASSUME NEW s \in Sessions
        PROVE  s.via.nth \in Nat /\ s.via.nth # taken + 1
               /\ Apart(s.via, fresh.via) /\ Apart(fresh.via, s.via)
    <3>1. s.via.nth \in Nat /\ s.via.nth <= taken
      BY DEF Numbered
    <3>2. s.via.port = GetFreePort => taken + 1 - s.via.nth >= Cycle
      BY TakenApart
    <3> QED BY <2>1, <2>2, <3>1, <3>2 DEF Apart, Cycle
  <2>4. Apart(fresh.via, fresh.via)
    BY DEF Apart
  <2>5. ASSUME NEW s \in Sessions', NEW u \in Sessions'
        PROVE  (s.via.nth = u.via.nth => s = u) /\ Apart(s.via, u.via)
    <3>1. CASE s \in Sessions /\ u \in Sessions
      BY <3>1 DEF Distinct
    <3>2. CASE s \in Sessions /\ u = fresh
      BY <2>1, <2>3, <3>2
    <3>3. CASE s = fresh /\ u \in Sessions
      BY <2>1, <2>3, <3>3
    <3>4. CASE s = fresh /\ u = fresh
      BY <2>4, <3>4
    <3> QED BY <2>1, <3>1, <3>2, <3>3, <3>4
  <2> QED BY <2>5 DEF Distinct, Apart, Cycle
<1>2. CASE ~(\E c \in Cpus : TakePort(c))
  <2>1. Sessions' \subseteq Sessions
    BY <1>2, MostMove DEF Moves
  <2> QED BY <2>1 DEF Distinct, Apart, Cycle
<1> QED BY <1>1, <1>2

\* Every step keeps the ports that programs and outer hosts have unused by
\* others: NotOvertaken makes TakePort wait for the programs.
LEMMA FreshStep == Places /\ Counter /\ Numbered /\ Fresh /\ [Next]_vars => Fresh'
<1> SUFFICES ASSUME Places, Counter, Numbered, Fresh, [Next]_vars PROVE Fresh'
  OBVIOUS
<1>1. ASSUME NEW c \in Cpus, TakePort(c) PROVE Fresh'
  <2>1. /\ taken' = taken + 1 /\ sent' = {s \in sent : Young(s.via, taken + 1)}
        /\ new'[c].nth = taken + 1
        /\ \A d \in Cpus \ {c} : new'[d] = new[d] /\ pc'[d] = pc[d]
    BY <1>1, TakePortSession
  <2>2. taken \in Nat /\ FirstPort \in Nat /\ LastPort \in Nat /\ FirstPort < LastPort
    BY PortsAssumption DEF Places
  <2>3. Young(new'[c], taken')
    BY <2>1, <2>2 DEF Young, Cycle
  <2>4. ASSUME NEW d \in Cpus \ {c}, pc'[d] \in Out PROVE Young(new'[d], taken')
    <3>1. pc[d] \in Out /\ new'[d] = new[d]
      BY <2>1, <2>4
    <3>2. taken - new[d].nth < Cycle - 1
      BY <1>1, <3>1 DEF TakePort, NotOvertaken, Out
    <3>3. new[d].nth \in Nat
      BY <3>1, HasSession DEF Numbered
    <3> QED BY <2>1, <2>2, <3>1, <3>2, <3>3 DEF Young, Cycle
  <2>5. \A s \in sent' : Young(s.via, taken')
    BY <2>1
  <2> QED BY <2>3, <2>4, <2>5 DEF Fresh, Young, Cycle
<1>2. CASE ~(\E c \in Cpus : TakePort(c))
  <2>1. Moves
    BY <1>2, MostMove
  <2>2. \A s \in sent' : Young(s.via, taken')
    BY <2>1 DEF Moves, Fresh
  <2>3. \A c \in Cpus : pc'[c] \in Out => Young(new'[c], taken')
    BY <2>1 DEF Moves, Fresh
  <2> QED BY <2>2, <2>3 DEF Fresh, Young, Cycle, Out
<1> QED BY <1>1, <1>2

\* Every step keeps a port with one CPU until the CPU has written its first
\* entry.
LEMMA OwnersStep ==
  Places /\ Counter /\ Numbered /\ Fresh /\ Owners /\ [Next]_vars => Owners'
<1> SUFFICES ASSUME Places, Counter, Numbered, Fresh, Owners, [Next]_vars PROVE Owners'
  OBVIOUS
<1>1. ASSUME NEW c \in Cpus, TakePort(c) PROVE Owners'
  <2>1. /\ sent' \subseteq sent /\ egress' = egress
        /\ new'[c].nth = taken + 1
        /\ \A d \in Cpus \ {c} : new'[d] = new[d] /\ pc'[d] = pc[d]
        /\ pc'[c] = "out_forward"
    BY <1>1, TakePortSession
  <2>2. taken \in Nat /\ \A k \in DOMAIN egress : egress[k].nth \in Nat
    BY DEF Places
  <2>3. \A s \in Sessions : s.via.nth \in Nat /\ s.via.nth # taken + 1
    BY <2>2 DEF Numbered
  <2>4. \A d \in Cpus \ {c} : pc'[d] \in Out => new'[d].nth # taken + 1
    BY <2>1, <2>3, HasSession
  <2>5. \A s \in sent : s.via # new'[c]
    BY <2>1, <2>3, SessionOf
  <2>6. \A k \in DOMAIN egress : egress[k] # new'[c]
    BY <2>1, <2>2, <2>3, HasSession
  <2>7. \A a, b \in Cpus :
          pc'[a] \in Out /\ pc'[b] \in Out /\ new'[a].nth = new'[b].nth => a = b
    BY <2>1, <2>4 DEF Owners
  <2>8. ASSUME NEW a \in Cpus, pc'[a] = "out_forward"
        PROVE  /\ \A s \in sent' : s.via # new'[a]
               /\ \A k \in DOMAIN egress' : egress'[k] # new'[a]
    BY <2>1, <2>5, <2>6, <2>8 DEF Owners
  <2> QED BY <2>7, <2>8 DEF Owners, Out
<1>2. ASSUME NEW c \in Cpus, WriteForward(c) PROVE Owners'
  <2>1. /\ Stored(egress, egress', packet[c], new[c])
        /\ sent' = sent /\ new' = new
        /\ pc[c] \in Out /\ pc'[c] = "out_reverse"
        /\ \A d \in Cpus \ {c} : pc'[d] = pc[d]
    BY <1>2, EgressTable DEF WriteForward, Places, Out
  <2>2. ASSUME NEW a \in Cpus, pc'[a] = "out_forward"
        PROVE  /\ \A s \in sent' : s.via # new'[a]
               /\ \A k \in DOMAIN egress' : egress'[k] # new'[a]
    <3>1. a # c /\ pc[a] = "out_forward" /\ pc[a] \in Out
      BY <2>1, <2>2 DEF Out
    <3>2. new[a] # new[c]
      BY <2>1, <3>1 DEF Owners
    <3> QED BY <2>1, <3>1, <3>2 DEF Owners, Stored
  <2>3. \A a, b \in Cpus :
          pc'[a] \in Out /\ pc'[b] \in Out /\ new'[a].nth = new'[b].nth => a = b
    BY <2>1 DEF Owners
  <2> QED BY <2>2, <2>3 DEF Owners, Out
<1>3. ASSUME NEW c \in Cpus, WriteAnswer(c) PROVE Owners'
  <2>1. /\ Stored(egress, egress', AnswerKey(packet[c], new[c]), AnswerValue(packet[c], new[c]))
        /\ sent' = sent /\ new' = new /\ \A d \in Cpus : pc'[d] \in Out => pc'[d] = pc[d]
        /\ \A d \in Cpus : pc'[d] = "out_forward" => pc[d] = "out_forward"
    BY <1>3, EgressTable DEF WriteAnswer, Places, Out
  <2>2. AnswerValue(packet[c], new[c]).nth = 0
    BY DEF AnswerValue, To
  <2>3. ASSUME NEW a \in Cpus, pc'[a] = "out_forward"
        PROVE  /\ \A s \in sent' : s.via # new'[a]
               /\ \A k \in DOMAIN egress' : egress'[k] # new'[a]
    <3>1. pc[a] = "out_forward" /\ pc[a] \in Out
      BY <2>1, <2>3 DEF Out
    <3>2. new[a].nth >= 1 /\ new[a].nth \in Nat
      BY <3>1, HasSession DEF Numbered
    <3>3. new[a] # AnswerValue(packet[c], new[c])
      BY <2>2, <3>2
    <3> QED BY <2>1, <3>1, <3>3 DEF Owners, Stored
  <2>4. \A a, b \in Cpus :
          pc'[a] \in Out /\ pc'[b] \in Out /\ new'[a].nth = new'[b].nth => a = b
    BY <2>1 DEF Owners
  <2> QED BY <2>3, <2>4 DEF Owners, Out
<1>4. ASSUME NEW c \in Cpus, NEW k \in Outbound, Hit(c, k) PROVE Owners'
  <2>1. /\ egress' = egress /\ pc' = pc /\ new' = new /\ k \in DOMAIN egress
        /\ \A s \in sent' : s \in sent \/ s.via = egress[k]
    BY <1>4 DEF Hit, tables, programs
  <2>2. ASSUME NEW a \in Cpus, pc'[a] = "out_forward"
        PROVE  /\ \A s \in sent' : s.via # new'[a]
               /\ \A j \in DOMAIN egress' : egress'[j] # new'[a]
    BY <2>1, <2>2 DEF Owners
  <2> QED BY <2>1, <2>2 DEF Owners, Out
<1>5. ASSUME NEW c \in Cpus, WriteReverse(c) PROVE Owners'
  <2>1. /\ egress' = egress /\ sent' = sent \cup {Session(packet[c], new[c])}
        /\ pc[c] \in Out /\ pc'[c] = "idle"
        /\ \A d \in Cpus \ {c} : pc'[d] = pc[d] /\ new'[d] = new[d]
    BY <1>5 DEF WriteReverse, Done, Session, Places, Out
  <2>2. ASSUME NEW a \in Cpus, pc'[a] = "out_forward"
        PROVE  /\ \A s \in sent' : s.via # new'[a]
               /\ \A k \in DOMAIN egress' : egress'[k] # new'[a]
    <3>1. a # c /\ pc[a] = "out_forward" /\ pc[a] \in Out
      BY <2>1, <2>2 DEF Out
    <3>2. new[a] # new[c]
      BY <2>1, <3>1 DEF Owners
    <3>3. Session(packet[c], new[c]).via = new[c]
      BY DEF Session
    <3> QED BY <2>1, <3>1, <3>2, <3>3 DEF Owners
  <2>3. \A a, b \in Cpus :
          pc'[a] \in Out /\ pc'[b] \in Out /\ new'[a].nth = new'[b].nth => a = b
    <3>1. pc'[c] \notin Out
      BY <2>1 DEF Out
    <3> QED BY <2>1, <3>1 DEF Owners
  <2> QED BY <2>2, <2>3 DEF Owners, Out
<1>6. ASSUME /\ sent' = sent /\ (egress' = egress \/ egress' = <<>>)
             /\ \A c \in Cpus : pc'[c] \in Out => pc'[c] = pc[c] /\ new'[c] = new[c]
      PROVE  Owners'
  <2>1. DOMAIN <<>> = {}
    OBVIOUS
  <2>2. ASSUME NEW a \in Cpus, pc'[a] = "out_forward"
        PROVE  /\ \A s \in sent' : s.via # new'[a]
               /\ \A k \in DOMAIN egress' : egress'[k] # new'[a]
    <3>1. pc'[a] \in Out
      BY <2>2 DEF Out
    <3> QED BY <1>6, <2>1, <2>2, <3>1 DEF Owners
  <2>3. \A a, b \in Cpus :
          pc'[a] \in Out /\ pc'[b] \in Out /\ new'[a].nth = new'[b].nth => a = b
    BY <1>6 DEF Owners
  <2> QED BY <2>2, <2>3 DEF Owners, Out
<1>7. ASSUME NEW c \in Cpus, NEW k \in Outbound, Miss(c, k) PROVE Owners'
  BY <1>6, <1>7 DEF Miss, Places, Out, tables, history
<1>8. ASSUME NEW c \in Cpus, NoSnat(c) PROVE Owners'
  BY <1>6, <1>8 DEF NoSnat, Done, Places, Out, tables, history
<1>9. ASSUME NEW c \in Cpus, NEW k \in Inbound, MissIn(c, k) PROVE Owners'
  BY <1>6, <1>9 DEF MissIn, Places, Out, tables, history
<1>10. ASSUME NEW c \in Cpus, NoForwarding(c) PROVE Owners'
  BY <1>6, <1>10 DEF NoForwarding, Done, Places, Out, tables, history
<1>11. ASSUME NEW c \in Cpus, Forward(c) PROVE Owners'
  BY <1>6, <1>11 DEF Forward, Places, Out, tables, history
<1>12. ASSUME NEW c \in Cpus, WriteRequest(c) PROVE Owners'
  BY <1>6, <1>12 DEF WriteRequest, Done, Places, Out
<1>13. ASSUME Control PROVE Owners'
  BY <1>6, <1>13 DEF Control, SetSnat, SetForwarding, FlushEgress, FlushIngress, tables,
                     programs, history
<1>14. CASE UNCHANGED vars
  BY <1>6, <1>14 DEF vars
<1> QED
  BY <1>1, <1>2, <1>3, <1>4, <1>5, <1>7, <1>8, <1>9, <1>10, <1>11, <1>12, <1>13, <1>14
  DEF Next, Program

-----------------------------------------------------------------------------
(* The way back.                                                           *)

\* The entry for the replies of s in the next state.
ReturnsNext(s) ==
  LET r == Reply(s.key, s.via)
  IN \/ r \in raced'
     \/ /\ r \in DOMAIN ingress'
        /\ ingress'[r].ip = s.key.src /\ ingress'[r].port = s.key.sport
        /\ ~\E d \in Cpus : pc'[d] \in In /\ packet'[d] = r
     \/ lossy' /\ (r \in DOMAIN ingress' => ingress'[r].nth = 0)

\* A step that moves ports, leaves no program with a port, and keeps the
\* entries keeps the way back.
LEMMA ServedKept ==
  ASSUME Served, Moves,
         \A c \in Cpus : pc[c] \in Out => pc'[c] \in Out /\ new'[c] = new[c],
         \A s \in Sessions : Returns(s) => ReturnsNext(s)
  PROVE  Served'
<1>1. ASSUME NEW s \in Sessions', Young(s.via, taken'), ~\E c \in Cpus : pc'[c] \in Out /\ new'[c] = s.via
      PROVE  ReturnsNext(s)
  <2>1. s \in Sessions /\ Young(s.via, taken)
    BY <1>1 DEF Moves
  <2>2. ~Pending(s.via)
    BY <1>1 DEF Pending
  <2> QED BY <2>1, <2>2 DEF Served
<1>2. \A s \in Sessions' : Young(s.via, taken') /\ ~(\E c \in Cpus : pc'[c] \in Out /\ new'[c] = s.via)
        => ReturnsNext(s)
  BY <1>1
<1> QED BY <1>2 DEF Served, Pending, Returns, ReturnsNext, Forwarding, In, Reply, Key, Young, Cycle, Out

\* No packet comes under way to the server.
NoneStarts == \A d \in Cpus : pc'[d] \in In => pc[d] \in In /\ packet'[d] = packet[d]

\* An update of another key leaves the entry for the replies, or loses it.
LEMMA OtherKey ==
  ASSUME NEW k, NEW v, Stored(ingress, ingress', k, v), NoneStarts,
         lossy' \/ DOMAIN ingress \subseteq DOMAIN ingress', lossy => lossy',
         NEW s, Reply(s.key, s.via) # k, Reply(s.key, s.via) \in raced => Reply(s.key, s.via) \in raced',
         Returns(s)
  PROVE  ReturnsNext(s)
<1> DEFINE r == Reply(s.key, s.via)
<1>1. r \in DOMAIN ingress' => r \in DOMAIN ingress /\ ingress'[r] = ingress[r]
  BY DEF Stored
<1>2. ~Forwarding(r) => ~\E d \in Cpus : pc'[d] \in In /\ packet'[d] = r
  BY DEF NoneStarts, Forwarding, In
<1> HIDE DEF r
<1>3. CASE r \in DOMAIN ingress'
  BY <1>1, <1>2, <1>3 DEF Returns, ReturnsNext, r
<1>4. CASE r \notin DOMAIN ingress'
  BY <1>1, <1>2, <1>4 DEF Returns, ReturnsNext, r
<1> QED BY <1>3, <1>4

\* WriteReverse writes the entry that the replies of its own session need, and
\* no other live session has that key.
LEMMA WriteReverseServes ==
  ASSUME SessionsInv, NEW c \in Cpus, WriteReverse(c), NEW s \in Sessions,
         Young(s.via, taken), s.via = new[c] \/ Returns(s)
  PROVE  ReturnsNext(s)
<1>1. pc[c] \in Out /\ ReverseWritten(c, Reply(packet[c], new[c]))
  BY KeysAgree DEF WriteReverse, Out
<1>5. NoneStarts
  BY DEF WriteReverse, Done, NoneStarts, SessionsInv, Places, Out, In
<1>6. ReplyValue(packet[c], new[c]).nth = new[c].nth
  BY DEF ReplyValue, To
<1> DEFINE own == Session(packet[c], new[c])
<1>2. own \in Sessions /\ own.key = packet[c] /\ own.via = new[c] /\ Young(own.via, taken)
  BY <1>1, HasSession DEF SessionsInv, Fresh
<1> HIDE DEF own
<1>3. CASE s = own
  <2> DEFINE r == Reply(s.key, s.via)
  <2>1. r = Reply(packet[c], new[c])
    BY <1>2, <1>3
  <2>2. \/ r \in raced'
        \/ r \in DOMAIN ingress' /\ ingress'[r] = ReplyValue(packet[c], new[c]) /\ ~Forwarding(r)
    BY <1>1, <2>1, UpdatedTable DEF ReverseWritten
  <2>3. ~Forwarding(r) => ~\E d \in Cpus : pc'[d] \in In /\ packet'[d] = r
    BY <1>5 DEF NoneStarts, Forwarding, In
  <2> HIDE DEF r
  <2> QED BY <1>2, <1>3, <2>2, <2>3 DEF ReturnsNext, ReplyValue, To, r
<1>4. CASE s # own
  <2>1. /\ s.via.nth # own.via.nth /\ Apart(s.via, own.via)
    BY <1>2, <1>4 DEF SessionsInv, Distinct
  <2>2. /\ s.via.nth \in Nat /\ own.via.nth \in Nat /\ taken \in Nat
        /\ s.via.nth <= taken /\ own.via.nth <= taken
        /\ taken - s.via.nth < Cycle /\ taken - own.via.nth < Cycle
    BY <1>2 DEF SessionsInv, Places, Numbered, Young
  <2>3. Cycle \in Int
    BY PortsAssumption DEF Cycle
  <2>4. s.via.port # own.via.port
    BY <2>1, <2>2, <2>3 DEF Apart
  <2>5. Reply(s.key, s.via) # Reply(packet[c], new[c])
    BY <1>2, <2>4, ReplyPort
  <2>6. Returns(s)
    BY <1>2, <2>1
  <2>7. Reply(s.key, s.via) \in raced => Reply(s.key, s.via) \in raced'
    BY <1>1, <2>5 DEF ReverseWritten
  <2>8. /\ Stored(ingress, ingress', Reply(packet[c], new[c]), ReplyValue(packet[c], new[c]))
        /\ (lossy => lossy') /\ (lossy' \/ DOMAIN ingress \subseteq DOMAIN ingress')
    BY <1>1, IngressTable DEF ReverseWritten, SessionsInv, Places
  <2> QED BY <1>5, <2>5, <2>6, <2>7, <2>8, OtherKey
<1> QED BY <1>3, <1>4

\* Every step keeps the way back of the live sessions.
LEMMA ServedStep == SessionsInv /\ [Next]_vars => Served'
<1> SUFFICES ASSUME SessionsInv, [Next]_vars PROVE Served'
  OBVIOUS
<1> USE DEF SessionsInv
<1>1. ASSUME NEW c \in Cpus, TakePort(c) PROVE Served'
  <2> DEFINE v == To(sm_rules[packet[c].src], GetFreePort, taken + 1)
             fresh == Session(packet[c], v)
  <2>1. /\ Sessions' \subseteq Sessions \cup {fresh} /\ new'[c] = fresh.via
        /\ \A d \in Cpus \ {c} : new'[d] = new[d] /\ pc'[d] = pc[d]
        /\ pc'[c] \in Out /\ pc[c] \notin Out
        /\ taken' = taken + 1 /\ ingress' = ingress /\ lossy' = lossy
        /\ raced' = raced /\ NoneStarts
    BY <1>1, TakePortSession DEF Out, In, TakePort, mixed, NoneStarts
  <2> HIDE DEF fresh
  <2>2. ASSUME NEW s \in Sessions', Young(s.via, taken'),
               ~\E d \in Cpus : pc'[d] \in Out /\ new'[d] = s.via
        PROVE  ReturnsNext(s)
    <3>1. s \in Sessions
      BY <2>1, <2>2
    <3>2. s.via.nth \in Nat /\ taken \in Nat
      BY <3>1 DEF Numbered, Places
    <3>3. Young(s.via, taken)
      <4>1. Cycle \in Int
        BY PortsAssumption DEF Cycle
      <4> QED BY <2>1, <2>2, <3>2, <4>1 DEF Young
    <3>4. ~Pending(s.via)
      BY <2>1, <2>2 DEF Pending
    <3>5. Returns(s)
      BY <3>1, <3>3, <3>4 DEF Served
    <3>6. ~Forwarding(Reply(s.key, s.via)) =>
            ~\E d \in Cpus : pc'[d] \in In /\ packet'[d] = Reply(s.key, s.via)
      BY <2>1 DEF NoneStarts, Forwarding, In
    <3> QED BY <2>1, <3>5, <3>6 DEF Returns, ReturnsNext
  <2>3. \A s \in Sessions' : Young(s.via, taken') /\ ~(\E d \in Cpus : pc'[d] \in Out /\ new'[d] = s.via)
          => ReturnsNext(s)
    BY <2>2
  <2> QED BY <2>3 DEF Served, Pending, Returns, ReturnsNext, Forwarding, In, Reply, Key, Young, Cycle, Out
<1>2. ASSUME ~(\E c \in Cpus : TakePort(c)) PROVE Moves
  BY <1>2, MostMove
<1>3. ASSUME NEW c \in Cpus, WriteReverse(c) PROVE Served'
  <2>1. Moves
    <3>1. ~(\E d \in Cpus : TakePort(d))
      <4>1. sent' = sent \cup {Session(packet[c], new[c])} /\ taken' = taken
        BY <1>3 DEF WriteReverse, Session
      <4> QED BY <4>1 DEF TakePort, Places
    <3> QED BY <1>2, <3>1
  <2>2. \A d \in Cpus \ {c} : pc'[d] = pc[d] /\ new'[d] = new[d]
    BY <1>3 DEF WriteReverse, Done, Places
  <2>3. ASSUME NEW s \in Sessions', Young(s.via, taken'),
               ~\E d \in Cpus : pc'[d] \in Out /\ new'[d] = s.via
        PROVE  ReturnsNext(s)
    <3>1. s \in Sessions /\ Young(s.via, taken)
      BY <2>1, <2>3 DEF Moves
    <3>2. s.via = new[c] \/ ~Pending(s.via)
      BY <2>2, <2>3 DEF Pending
    <3>3. s.via = new[c] \/ Returns(s)
      BY <3>1, <3>2 DEF Served
    <3> QED BY <1>3, <3>1, <3>3, WriteReverseServes
  <2>4. \A s \in Sessions' : Young(s.via, taken') /\ ~(\E d \in Cpus : pc'[d] \in Out /\ new'[d] = s.via)
          => ReturnsNext(s)
    BY <2>3
  <2> QED BY <2>4 DEF Served, Pending, Returns, ReturnsNext, Forwarding, In, Reply, Key, Young, Cycle, Out
<1>4. ASSUME NEW c \in Cpus, WriteRequest(c) PROVE Served'
  <2>1. /\ pc[c] \in In /\ raced' = raced /\ new[c].nth = 0
        /\ taken' = taken
        /\ \A d \in Cpus : pc[d] \in Out => pc'[d] \in Out /\ new'[d] = new[d]
        /\ NoneStarts
    BY <1>4 DEF WriteRequest, Done, Places, Out, In, mixed, NoneStarts
  <2>2. Moves
    BY <1>2, <2>1 DEF TakePort, Places
  <2>3. /\ Stored(ingress, ingress', packet[c], new[c])
        /\ (lossy => lossy') /\ (lossy' \/ DOMAIN ingress \subseteq DOMAIN ingress')
    BY <1>4, IngressTable DEF WriteRequest, Places
  <2>4. ASSUME NEW s \in Sessions, Returns(s) PROVE ReturnsNext(s)
    <3> DEFINE r == Reply(s.key, s.via)
    <3>1. CASE r # packet[c]
      BY <2>1, <2>3, <2>4, <3>1, OtherKey
    <3>2. CASE r = packet[c]
      <4>1. Forwarding(r)
        BY <2>1, <3>2 DEF Forwarding, In
      <4>2. r \in raced \/ (lossy /\ (r \in DOMAIN ingress => ingress[r].nth = 0))
        BY <2>4, <4>1 DEF Returns
      <4>3. r \in DOMAIN ingress' => \/ ingress'[r] = new[c]
                                     \/ r \in DOMAIN ingress /\ ingress'[r] = ingress[r]
        BY <2>3, <3>2 DEF Stored
      <4> HIDE DEF r
      <4> QED BY <2>1, <2>3, <4>2, <4>3 DEF ReturnsNext, r
    <3> QED BY <3>1, <3>2
  <2> QED BY <2>1, <2>2, <2>4, ServedKept
<1>5. ASSUME FlushIngress PROVE Served'
  <2>1. /\ taken' = taken /\ lossy' /\ ingress' = <<>> /\ pc' = pc /\ new' = new
    BY <1>5 DEF FlushIngress, programs, history, Places
  <2>2. Moves
    BY <1>2, <2>1 DEF TakePort, Places
  <2>3. \A s \in Sessions : ReturnsNext(s)
    BY <2>1 DEF ReturnsNext
  <2> QED BY <2>1, <2>2, <2>3, ServedKept
<1>6. ASSUME /\ ingress' = ingress /\ taken' = taken /\ (lossy => lossy') /\ raced' = raced
             /\ NoneStarts
             /\ \A d \in Cpus : pc[d] \in Out => pc'[d] \in Out /\ new'[d] = new[d]
      PROVE  Served'
  <2>1. Moves
    BY <1>2, <1>6 DEF TakePort, Places
  <2>2. ASSUME NEW s \in Sessions, Returns(s) PROVE ReturnsNext(s)
    <3>1. ~Forwarding(Reply(s.key, s.via)) =>
            ~\E d \in Cpus : pc'[d] \in In /\ packet'[d] = Reply(s.key, s.via)
      BY <1>6 DEF NoneStarts, Forwarding, In
    <3> QED BY <1>6, <2>2, <3>1 DEF Returns, ReturnsNext
  <2> QED BY <1>6, <2>1, <2>2, ServedKept
<1>7. ASSUME NEW c \in Cpus, NEW k \in Outbound, Hit(c, k) PROVE Served'
  BY <1>6, <1>7 DEF Hit, NoneStarts, tables, programs, mixed
<1>8. ASSUME NEW c \in Cpus, NEW k \in Outbound, Miss(c, k) PROVE Served'
  BY <1>6, <1>8 DEF Miss, NoneStarts, In, Places, Out, tables, history, mixed
<1>9. ASSUME NEW c \in Cpus, NoSnat(c) PROVE Served'
  BY <1>6, <1>9 DEF NoSnat, NoneStarts, In, Done, Places, Out, tables, history, mixed
<1>10. ASSUME NEW c \in Cpus, WriteForward(c) PROVE Served'
  BY <1>6, <1>10, EgressTable DEF WriteForward, NoneStarts, In, Places, Out
<1>11. ASSUME NEW c \in Cpus, NEW k \in Inbound, MissIn(c, k) PROVE Served'
  <2>1. /\ k \notin DOMAIN ingress /\ packet'[c] = k
        /\ \A d \in Cpus \ {c} : pc'[d] = pc[d] /\ packet'[d] = packet[d]
        /\ ingress' = ingress /\ lossy' = lossy /\ raced' = raced /\ taken' = taken
        /\ \A d \in Cpus : pc[d] \in Out => pc'[d] \in Out /\ new'[d] = new[d]
    BY <1>11 DEF MissIn, Places, Out, tables, history, mixed
  <2>2. Moves
    BY <1>2, <2>1 DEF TakePort, Places
  <2>3. ASSUME NEW s \in Sessions, Returns(s) PROVE ReturnsNext(s)
    <3> DEFINE r == Reply(s.key, s.via)
    <3>1. r \in DOMAIN ingress /\ ~Forwarding(r) => ~\E d \in Cpus : pc'[d] \in In /\ packet'[d] = r
      BY <2>1 DEF Forwarding, In
    <3> HIDE DEF r
    <3> QED BY <2>1, <2>3, <3>1 DEF Returns, ReturnsNext, r
  <2> QED BY <2>1, <2>2, <2>3, ServedKept
<1>12. ASSUME NEW c \in Cpus, NoForwarding(c) PROVE Served'
  BY <1>6, <1>12 DEF NoForwarding, NoneStarts, In, Done, Places, Out, tables, history, mixed
<1>13. ASSUME NEW c \in Cpus, Forward(c) PROVE Served'
  BY <1>6, <1>13 DEF Forward, NoneStarts, In, Places, Out, tables, history, mixed
<1>14. ASSUME NEW c \in Cpus, WriteAnswer(c) PROVE Served'
  BY <1>6, <1>14, EgressTable DEF WriteAnswer, NoneStarts, In, Places, Out
<1>15. ASSUME NEW h \in Hosts, NEW ip \in External \cup {NoRule}, SetSnat(h, ip) PROVE Served'
  BY <1>6, <1>15 DEF SetSnat, NoneStarts, In, tables, programs, history, mixed
<1>16. ASSUME NEW k \in Inbound, NEW server \in Servers \cup {NoRule}, SetForwarding(k, server)
       PROVE  Served'
  BY <1>6, <1>16 DEF SetForwarding, NoneStarts, In, tables, programs, history, mixed
<1>17. ASSUME FlushEgress PROVE Served'
  BY <1>6, <1>17 DEF FlushEgress, NoneStarts, programs, mixed
<1>18. CASE UNCHANGED vars
  BY <1>6, <1>18 DEF vars, NoneStarts
<1> QED
  BY <1>1, <1>3, <1>4, <1>5, <1>7, <1>8, <1>9, <1>10, <1>11, <1>12, <1>13, <1>14, <1>15,
     <1>16, <1>17, <1>18 DEF Next, Program, Control

\* The invariant holds before the first packet.
LEMMA SessionsInit == Init => SessionsInv
<1> SUFFICES ASSUME Init PROVE SessionsInv
  OBVIOUS
<1>1. Sessions = {}
  BY DEF Init, Sessions, Out
<1>2. Places
  <2>1. DOMAIN egress = {} /\ dp_rules \in [Inbound -> Servers \cup {NoRule}]
    BY DEF Init
  <2>2. \A c \in Cpus : pc[c] = "idle" /\ new[c].nth = 0
    BY DEF Init, Nothing, To
  <2>3. /\ DOMAIN pc = Cpus /\ DOMAIN packet = Cpus /\ DOMAIN new = Cpus
        /\ taken \in Nat /\ lossy \in BOOLEAN /\ (flushing => lossy)
    BY DEF Init
  <2> QED BY <2>1, <2>2, <2>3 DEF Places, Out, In
<1>3. Counter
  BY DEF Init, Counter
<1>4. Numbered /\ Distinct /\ Served
  BY <1>1 DEF Numbered, Distinct, Served
<1>5. Fresh /\ Owners
  BY DEF Init, Fresh, Owners, Out
<1> QED BY <1>2, <1>3, <1>4, <1>5 DEF SessionsInv

\* The invariant holds always.
LEMMA SessionsAlways == Spec => []SessionsInv
<1>1. SessionsInv /\ [Next]_vars => SessionsInv'
  BY PlacesStep, CounterStep, NumberedStep, DistinctStep, FreshStep, OwnersStep, ServedStep
  DEF SessionsInv
<1> QED BY <1>1, SessionsInit, PTL DEF Spec

\* Ports are taken in turn: get_free_port, under its spin lock, gives the same
\* port to two sessions only when at least a full range of ports lies between
\* them, for any number of CPUs and any range.
THEOREM PortsTakenInTurn == Spec => []PortsInTurn
<1>1. SessionsInv => PortsInTurn
  <2> SUFFICES ASSUME SessionsInv, NEW a \in Bindings, NEW b \in Bindings PROVE Apart(a, b)
    BY DEF PortsInTurn, Apart
  <2>1. ASSUME NEW v \in Bindings PROVE \E s \in Sessions : s.via = v
    <3>1. v.nth > 0 /\ (\/ \E k \in DOMAIN egress : v = egress[k]
                        \/ \E c \in Cpus : v = new[c])
      BY DEF Bindings
    <3>2. ASSUME NEW k \in DOMAIN egress, v = egress[k] PROVE \E s \in Sessions : s.via = v
      BY <3>1, <3>2, HasSession
    <3>3. ASSUME NEW c \in Cpus, v = new[c] PROVE \E s \in Sessions : s.via = v
      <4>1. pc[c] \in Out
        BY <3>1, <3>3 DEF SessionsInv, Places
      <4> QED BY <3>3, <4>1, HasSession
    <3> QED BY <3>1, <3>2, <3>3
  <2>2. PICK s \in Sessions : s.via = a
    BY <2>1
  <2>3. PICK u \in Sessions : u.via = b
    BY <2>1
  <2> QED BY <2>2, <2>3 DEF SessionsInv, Distinct
<1> QED BY <1>1, SessionsAlways, PTL

\* Replies come back: the reply to a packet that left through the NAT is given
\* to the host and port it came from, whatever CPUs opened and used the session
\* and in whatever order they wrote the two tables, until its port is taken
\* again.  If its entry is lost, or a packet from the same end to the same port
\* was being forwarded when the entry was written, it may go to the server of
\* that port, and never to another inner session.
THEOREM RepliesComeBack == Spec => []RepliesReturn
<1>1. SessionsInv => RepliesReturn
  <2> SUFFICES ASSUME SessionsInv, NEW s \in sent, ~Unfinished(s.via) PROVE Returns(s)
    BY DEF RepliesReturn, Returns
  <2>1. s \in Sessions /\ Young(s.via, taken)
    BY SessionOf DEF SessionsInv, Fresh
  <2>2. ~Pending(s.via)
    BY DEF Pending, Unfinished, Out, SessionsInv, Owners
  <2> QED BY <2>1, <2>2 DEF SessionsInv, Served
<1> QED BY <1>1, SessionsAlways, PTL

-----------------------------------------------------------------------------
(* Answers of servers.                                                     *)

\* The entry for the answers of server v to k in the next state.
AnsweredNext(k, v) ==
  LET a == Answer(k, v)
  IN \/ a \in crossed'
     \/ /\ a \in DOMAIN egress'
        /\ \E q \in Inbound : a = Answer(q, v) /\ egress'[a] = To(q.dst, q.dport, 0)

\* A key that a program writes for the answers of w to q is that of another
\* session only when the server is the same.
LEMMA SameAnswer ==
  ASSUME NEW k, NEW v, NEW q, NEW w, Answer(k, v) = Answer(q, w)
  PROVE  Answer(k, v) = Answer(q, v)
BY DEF Answer, Key

\* An entry that is not lost or written keeps the answers.
LEMMA AnsweredKept ==
  ASSUME NEW k, NEW v, Answered(k, v),
         Answer(k, v) \in crossed => Answer(k, v) \in crossed',
         Answer(k, v) \in DOMAIN egress =>
           Answer(k, v) \in DOMAIN egress' /\ egress'[Answer(k, v)] = egress[Answer(k, v)]
  PROVE  AnsweredNext(k, v)
BY DEF Answered, AnsweredNext

\* The answers once the entries of the next state are there.
AnswersNext ==
  \/ lossy'
  \/ /\ \A r \in Inbound \cap DOMAIN ingress' :
          ingress'[r].nth = 0 => AnsweredNext(r, ingress'[r])
     /\ \A c \in Cpus : pc'[c] = "in_reverse" => AnsweredNext(packet'[c], new'[c])

\* The primed form.
LEMMA AnswersPrimed == AnswersNext => Answers'
BY DEF AnswersNext, Answers, AnsweredNext, Answered, Answer, Key, To

\* Every step keeps the answers: when a session from inside takes the entry of
\* one, it is among the crossed ones.
LEMMA AnswersStep == SessionsInv /\ Answers /\ [Next]_vars => Answers'
<1> SUFFICES ASSUME SessionsInv, Answers, [Next]_vars PROVE AnswersNext
  BY AnswersPrimed
<1>0. Places /\ Numbered
  BY DEF SessionsInv
<1>1. ASSUME /\ egress' = egress /\ (lossy => lossy') /\ crossed' = crossed
             /\ ingress' = ingress
             /\ \A c \in Cpus : pc'[c] = "in_reverse" =>
                  pc[c] = "in_reverse" /\ new'[c] = new[c] /\ packet'[c] = packet[c]
      PROVE  AnswersNext
  BY <1>1 DEF Answers, AnswersNext, Answered, AnsweredNext
<1>2. ASSUME NEW c \in Cpus, WriteForward(c) PROVE AnswersNext
  <2>1. /\ InEgress(packet[c], new[c])
        /\ crossed' = crossed \cup {k \in {packet[c]} \cap DOMAIN egress : egress[k].nth = 0}
        /\ ingress' = ingress /\ new' = new /\ packet' = packet
        /\ \A d \in Cpus : pc'[d] = "in_reverse" => pc[d] = "in_reverse"
    BY <1>0, <1>2 DEF WriteForward, Places
  <2> SUFFICES ASSUME ~lossy' PROVE AnswersNext
    BY DEF AnswersNext
  <2>2. /\ ~lossy /\ DOMAIN egress \subseteq DOMAIN egress'
        /\ \A j \in DOMAIN egress \ {packet[c]} : egress'[j] = egress[j]
    BY <1>0, <2>1, EgressTable DEF Places
  <2>3. ASSUME NEW k, NEW v, Answered(k, v) PROVE AnsweredNext(k, v)
    <3>1. CASE Answer(k, v) = packet[c] /\ Answer(k, v) \notin crossed
      <4>2. \A q : To(q.dst, q.dport, 0).nth = 0
        BY DEF To
      <4>1. packet[c] \in DOMAIN egress /\ egress[packet[c]].nth = 0
        BY <2>3, <3>1, <4>2 DEF Answered
      <4> QED BY <2>1, <3>1, <4>1 DEF AnsweredNext
    <3>2. CASE Answer(k, v) # packet[c] \/ Answer(k, v) \in crossed
      BY <2>1, <2>2, <2>3, <3>2 DEF Answered, AnsweredNext
    <3> QED BY <3>1, <3>2
  <2> QED BY <2>1, <2>2, <2>3 DEF Answers, AnswersNext
<1>3. ASSUME NEW c \in Cpus, WriteAnswer(c) PROVE AnswersNext
  <2> DEFINE k == packet[c]
             v == new[c]
  <2>1. /\ k \in Inbound /\ InEgress(Answer(k, v), AnswerValue(k, v))
        /\ crossed' = crossed \ {Answer(k, v)}
        /\ ingress' = ingress /\ new' = new /\ packet' = packet
        /\ \A d \in Cpus \ {c} : pc'[d] = pc[d]
    BY <1>0, <1>3, KeysAgree DEF WriteAnswer, Places, In
  <2> SUFFICES ASSUME ~lossy' PROVE AnswersNext
    BY DEF AnswersNext
  <2>2. /\ ~lossy /\ DOMAIN egress \subseteq DOMAIN egress'
        /\ Answer(k, v) \in DOMAIN egress' /\ egress'[Answer(k, v)] = AnswerValue(k, v)
        /\ \A j \in DOMAIN egress \ {Answer(k, v)} : egress'[j] = egress[j]
    BY <1>0, <2>1, EgressTable DEF Places
  <2>3. AnswerValue(k, v) = To(k.dst, k.dport, 0)
    BY DEF AnswerValue
  <2>4. AnsweredNext(k, v)
    BY <2>1, <2>2, <2>3 DEF AnsweredNext
  <2>6. ASSUME NEW j, NEW w, Answered(j, w) PROVE AnsweredNext(j, w)
    <3>1. CASE Answer(j, w) = Answer(k, v)
      <4>1. Answer(j, w) = Answer(k, w)
        BY <3>1, SameAnswer
      <4>2. Answer(j, w) \in DOMAIN egress' /\ egress'[Answer(j, w)] = AnswerValue(k, v)
        BY <2>2, <3>1
      <4> QED BY <2>1, <2>3, <4>1, <4>2 DEF AnsweredNext
    <3>2. CASE Answer(j, w) # Answer(k, v)
      BY <2>1, <2>2, <2>6, <3>2, AnsweredKept
    <3> QED BY <3>1, <3>2
  <2> QED BY <2>1, <2>2, <2>4, <2>6 DEF Answers, AnswersNext
<1>4. ASSUME NEW c \in Cpus, WriteRequest(c) PROVE AnswersNext
  <2>1. /\ pc[c] = "in_reverse" /\ egress' = egress /\ crossed' = crossed
        /\ \A d \in Cpus : pc'[d] = "in_reverse" =>
             pc[d] = "in_reverse" /\ new'[d] = new[d] /\ packet'[d] = packet[d]
    BY <1>0, <1>4 DEF WriteRequest, Done, Places, mixed
  <2>2. Stored(ingress, ingress', packet[c], new[c]) /\ (lossy => lossy')
    BY <1>0, <1>4, IngressTable DEF WriteRequest, Places
  <2> SUFFICES ASSUME ~lossy PROVE AnswersNext
    BY <2>2 DEF AnswersNext, Answers
  <2>3. \A j, w : Answered(j, w) => AnsweredNext(j, w)
    BY <2>1 DEF Answered, AnsweredNext
  <2>4. ASSUME NEW r \in Inbound \cap DOMAIN ingress', ingress'[r].nth = 0
        PROVE  AnsweredNext(r, ingress'[r])
    <3>1. CASE r = packet[c] /\ ingress'[r] = new[c]
      BY <2>1, <2>3, <3>1 DEF Answers
    <3>2. CASE r \in DOMAIN ingress /\ ingress'[r] = ingress[r]
      BY <2>3, <2>4, <3>2 DEF Answers
    <3> QED BY <2>2, <3>1, <3>2 DEF Stored
  <2> QED BY <2>1, <2>3, <2>4 DEF Answers, AnswersNext
<1>5. ASSUME NEW c \in Cpus, WriteReverse(c) PROVE AnswersNext
  <2>1. /\ egress' = egress /\ crossed' = crossed /\ pc[c] \in Out
        /\ \A d \in Cpus : pc'[d] = "in_reverse" =>
             pc[d] = "in_reverse" /\ new'[d] = new[d] /\ packet'[d] = packet[d]
    BY <1>0, <1>5 DEF WriteReverse, Done, Places, Out
  <2>2. /\ Stored(ingress, ingress', ReplyKey(packet[c], new[c]), ReplyValue(packet[c], new[c]))
        /\ (lossy => lossy')
    BY <1>0, <1>5, IngressTable DEF WriteReverse, ReverseWritten, Places
  <2> SUFFICES ASSUME ~lossy PROVE AnswersNext
    BY <2>2 DEF AnswersNext, Answers
  <2>3. \A j, w : Answered(j, w) => AnsweredNext(j, w)
    BY <2>1 DEF Answered, AnsweredNext
  <2>4. ReplyValue(packet[c], new[c]).nth # 0
    <3>1. new[c].nth >= 1 /\ new[c].nth \in Nat
      BY <1>0, <2>1, HasSession DEF Numbered
    <3> QED BY <3>1 DEF ReplyValue, To
  <2>5. ASSUME NEW r \in Inbound \cap DOMAIN ingress', ingress'[r].nth = 0
        PROVE  AnsweredNext(r, ingress'[r])
    <3>1. r \in DOMAIN ingress /\ ingress'[r] = ingress[r]
      BY <2>2, <2>4, <2>5 DEF Stored
    <3> QED BY <2>3, <2>5, <3>1 DEF Answers
  <2> QED BY <2>1, <2>3, <2>5 DEF Answers, AnswersNext
<1>6. CASE FlushEgress
  BY <1>6 DEF FlushEgress, AnswersNext
<1>7. CASE FlushIngress
  BY <1>0, <1>7 DEF FlushIngress, history, mixed, Places, AnswersNext
<1>8. ASSUME NEW c \in Cpus, NEW k \in Outbound, Hit(c, k) PROVE AnswersNext
  BY <1>1, <1>8 DEF Hit, tables, programs, mixed
<1>9. ASSUME NEW c \in Cpus, NEW k \in Outbound, Miss(c, k) PROVE AnswersNext
  BY <1>0, <1>1, <1>9 DEF Miss, Places, tables, history, mixed
<1>10. ASSUME NEW c \in Cpus, NoSnat(c) PROVE AnswersNext
  BY <1>0, <1>1, <1>10 DEF NoSnat, Done, Places, tables, history, mixed
<1>11. ASSUME NEW c \in Cpus, TakePort(c) PROVE AnswersNext
  BY <1>0, <1>1, <1>11 DEF TakePort, Places, tables, mixed
<1>12. ASSUME NEW c \in Cpus, NEW k \in Inbound, MissIn(c, k) PROVE AnswersNext
  BY <1>0, <1>1, <1>12 DEF MissIn, Places, tables, history, mixed
<1>13. ASSUME NEW c \in Cpus, NoForwarding(c) PROVE AnswersNext
  BY <1>0, <1>1, <1>13 DEF NoForwarding, Done, Places, tables, history, mixed
<1>14. ASSUME NEW c \in Cpus, Forward(c) PROVE AnswersNext
  BY <1>0, <1>1, <1>14 DEF Forward, Places, tables, history, mixed
<1>15. ASSUME NEW h \in Hosts, NEW ip \in External \cup {NoRule}, SetSnat(h, ip) PROVE AnswersNext
  BY <1>1, <1>15 DEF SetSnat, tables, programs, history, mixed
<1>16. ASSUME NEW k \in Inbound, NEW server \in Servers \cup {NoRule}, SetForwarding(k, server)
       PROVE  AnswersNext
  BY <1>1, <1>16 DEF SetForwarding, tables, programs, history, mixed
<1>17. CASE UNCHANGED vars
  BY <1>1, <1>17 DEF vars
<1> QED
  BY <1>2, <1>3, <1>4, <1>5, <1>6, <1>7, <1>8, <1>9, <1>10, <1>11, <1>12, <1>13, <1>14,
     <1>15, <1>16, <1>17 DEF Next, Program, Control

\* Answers keep the address: an answer of a server to a forwarded session
\* leaves with an address and port that the outer host has sent to, when two
\* CPUs forward the session at once or its rule changes in between too, as long
\* as nothing was evicted, flushed or not written and no inner host opened a
\* session with the two ends of the answer.
THEOREM AnswersKeepTheirAddress == Spec => []AnswersKeepAddress
<1>1. Init => Answers
  <2> SUFFICES ASSUME Init PROVE Answers
    OBVIOUS
  <2>1. DOMAIN ingress = {} /\ \A c \in Cpus : pc[c] = "idle"
    BY DEF Init
  <2> QED BY <2>1 DEF Answers
<1>2. SessionsInv /\ Answers /\ [Next]_vars => Answers'
  BY AnswersStep
<1>3. Answers => AnswersKeepAddress
  <2> SUFFICES ASSUME Answers, ~lossy, NEW r \in Inbound \cap DOMAIN ingress, ingress[r].nth = 0,
                      Answer(r, ingress[r]) \notin crossed
               PROVE  LET a == Answer(r, ingress[r])
                      IN /\ a \in DOMAIN egress
                         /\ \E q \in Inbound : /\ a = Answer(q, ingress[r])
                                               /\ egress[a].ip = q.dst /\ egress[a].port = q.dport
    BY DEF AnswersKeepAddress
  <2> DEFINE a == Answer(r, ingress[r])
  <2>1. PICK q \in Inbound : a \in DOMAIN egress /\ a = Answer(q, ingress[r])
                             /\ egress[a] = To(q.dst, q.dport, 0)
    BY DEF Answers, Answered
  <2>2. To(q.dst, q.dport, 0).ip = q.dst /\ To(q.dst, q.dport, 0).port = q.dport
    BY DEF To
  <2> QED BY <2>1, <2>2
<1> QED BY <1>1, <1>2, <1>3, SessionsAlways, PTL DEF Spec
=============================================================================
