------------------------------ MODULE NatRules ------------------------------
(***************************************************************************)
(* The control plane of the service pcn-nat (Nat.cpp, Rule*.cpp): the      *)
(* lists of SNAT, DNAT and port forwarding rules that a client reads and   *)
(* edits, the masquerade switch, and the two tables of the data plane they *)
(* are written to.                                                         *)
(*                                                                         *)
(* A table is an LPM trie.  A key of it stands for the set of lookups that *)
(* it covers: a network is the set of its hosts, the external end of a     *)
(* forwarded session the set of packets sent to it.  A lookup then finds   *)
(* the least set.                                                          *)
(*                                                                         *)
(* The requests that edit a list are atomic: the lists have no lock and    *)
(* the model has one client.  The requests to the switch are not, because  *)
(* the address of the external interface is reported by other threads.     *)
(***************************************************************************)
EXTENDS Integers, Sequences, FiniteSets, FiniteSetsExt, SequencesExt

CONSTANTS
  Hosts,      \* inner hosts
  Packets,    \* [ip, port, proto] that outer hosts send to
  Snats,      \* [net, to]: rules a client may enter
  Dnats,      \* [ip, to]
  Forwards,   \* [ip, port, proto, to], proto may be "all"
  Callers,    \* threads that report the address: attach, netlink observer
  Addresses,  \* addresses of the external interface
  NoAddress,  \* the interface has no address, or none was reported yet
  Zero,       \* 0.0.0.0
  Capacity,   \* entries of a table, 1024
  MaxRules,   \* bound: rules in a list
  Final       \* bound: gaps after which the lists are only emptied

Kinds == {"snat", "dnat", "pf"}
Maps  == {"sm_rules", "dp_rules"}

RulesOf(kind) ==
  CASE kind = "snat" -> Snats [] kind = "dnat" -> Dnats [] kind = "pf" -> Forwards

MapOf(kind) == IF kind = "snat" THEN "sm_rules" ELSE "dp_rules"

\* dp_k of a port forwarding rule: address and port, with the protocol if the
\* rule names one.
ForwardKey(r) ==
  {p \in Packets : p.ip = r.ip /\ p.port = r.port /\ r.proto \in {"all", p.proto}}

\* The key of a rule; internal networks are masked when they are read.
KeyOf(kind, r) ==
  CASE kind = "snat" -> r.net
    [] kind = "dnat" -> {p \in Packets : p.ip = r.ip}
    [] kind = "pf"   -> ForwardKey(r)

\* The key 0.0.0.0/0 of the masquerade rule, which a SNAT rule may have too.
Everyone == Hosts

ASSUME NetsAssumption == \A r \in Snats : r.net \in (SUBSET Hosts) \ {{}}
\* The mask of a DNAT rule is shorter than that of a forwarding rule.
ASSUME KeysAssumption == \A r \in Dnats, f \in Forwards : KeyOf("dnat", r) # KeyOf("pf", f)
\* No property speaks of lists that have parted from their tables.
ASSUME FinalAssumption == "listed" \in Final
ASSUME CapacityAssumption == Capacity \in Nat \ {0} /\ MaxRules \in Nat

VARIABLES
  rules_,       \* per kind: sequence of [id, rule]
  tables,       \* per map: key -> address
  enabled,      \* of RuleMasquerade
  external_ip_, \* of Nat
  client,       \* request to the switch under way
  callback,     \* per caller: place in the callback of the parameter "ip"
  down,         \* the daemon has crashed
  gaps          \* history: what has come between lists, switch and tables

vars == <<rules_, tables, enabled, external_ip_, client, callback, down, gaps>>
switch == <<enabled, external_ip_, client, callback>>

Idle == [op |-> "idle", ip |-> NoAddress, set |-> FALSE]
Returned == [place |-> "idle", ip |-> NoAddress]

\* Without rules, as Nat::Nat leaves it.
Init ==
  /\ rules_ = [kind \in Kinds |-> <<>>]
  /\ tables = [m \in Maps |-> <<>>]
  /\ enabled = FALSE /\ external_ip_ = NoAddress
  /\ client = Idle /\ callback = [c \in Callers |-> Returned]
  /\ down = FALSE /\ gaps = {}

-----------------------------------------------------------------------------
(* The tables.                                                             *)

Set(t, key, to) == [k \in DOMAIN t \cup {key} |-> IF k = key THEN to ELSE t[k]]
Removed(t, keys) == [k \in DOMAIN t \ keys |-> t[k]]

\* table.set throws when the key is new and the table is full.
Fits(m, key) == key \in DOMAIN tables[m] \/ Cardinality(DOMAIN tables[m]) < Capacity

\* What a lookup of x finds.
Lookup(m, x) ==
  LET found == {k \in DOMAIN tables[m] : x \in k}
  IN IF found = {} THEN NoAddress
     ELSE tables[m][CHOOSE k \in found : \A other \in found : k \subseteq other]

-----------------------------------------------------------------------------
(* The lists.                                                              *)

Key(kind, e) == KeyOf(kind, e.rule)

\* Keys of the rules in a list.
Listed(kind) == {Key(kind, e) : e \in Range(rules_[kind])}

Quiet == client.op = "idle"

Gap(g) == gaps' = gaps \cup {g}

Duplicate(kind, list, r) == \E e \in Range(list) : Key(kind, e) = KeyOf(kind, r)

\* addEntry refuses a duplicate.
Enters(kind, r) ==
  /\ Quiet /\ Len(rules_[kind]) < MaxRules
  /\ ~Duplicate(kind, rules_[kind], r)

\* It lists the rule before the table accepts it.
Entered(kind, list, id, r, t) ==
  /\ rules_' = [rules_ EXCEPT ![kind] = Append(list, [id |-> id, rule |-> r])]
  /\ tables' = [tables EXCEPT ![MapOf(kind)] = t]

\* append: the id is the number of rules.
AppendEntry(kind, r) ==
  /\ Enters(kind, r) /\ Fits(MapOf(kind), KeyOf(kind, r))
  /\ Entered(kind, rules_[kind], Len(rules_[kind]), r,
             Set(tables[MapOf(kind)], KeyOf(kind, r), r.to))
  /\ UNCHANGED <<switch, down, gaps>>

\* The table is full: the request fails and the rule stays in the list.
AppendRefused(kind, r) ==
  /\ Enters(kind, r) /\ ~Fits(MapOf(kind), KeyOf(kind, r))
  /\ Entered(kind, rules_[kind], Len(rules_[kind]), r, tables[MapOf(kind)])
  /\ Gap("listed")
  /\ UNCHANGED <<switch, down>>

\* POST of an entry: the id is the client's choice and is not looked at.
AddEntry(kind, id, r) ==
  /\ Enters(kind, r) /\ id # Len(rules_[kind])
  /\ Entered(kind, rules_[kind], id, r,
             IF Fits(MapOf(kind), KeyOf(kind, r))
             THEN Set(tables[MapOf(kind)], KeyOf(kind, r), r.to) ELSE tables[MapOf(kind)])
  /\ Gap("listed")
  /\ UNCHANGED <<switch, down>>

\* The rule with an id, as a set of positions: the first one that has it.
At(list, id) ==
  LET found == {i \in DOMAIN list : list[i].id = id} IN IF found = {} THEN {} ELSE {Min(found)}

\* Mutant of Without: the rules that move up keep their ids.
WithoutNewIds(list, id) ==
  [i \in 1 .. Len(list) - 1 |-> IF i <= id THEN list[i] ELSE list[i + 1]]

\* The list without the rule at place id: the rules after it move up and are
\* numbered anew.  An id past the end takes the last rule.
Without(list, id) ==
  [i \in 1 .. Len(list) - 1 |->
     IF i <= id THEN list[i] ELSE [id |-> i - 1, rule |-> list[i + 1].rule]]

\* The place that Without leaves out.
Place(list, id) == IF id < Len(list) THEN id + 1 ELSE Len(list)

\* Removing the key of masquerade from the table undoes masquerade.
Undoes(kind, keys) ==
  IF kind = "snat" /\ Everyone \in keys /\ enabled THEN {"masquerade"} ELSE {}

Parts(kind, list, id) ==
  (IF At(list, id) = {Place(list, id)} THEN {} ELSE {"dropped"})
    \cup Undoes(kind, {Key(kind, list[i]) : i \in At(list, id)})

\* Mutant of Deleted: the rule stays in the table.
DeletedKept(kind, id) ==
  LET list == rules_[kind]
  IN [list  |-> Without(list, id),
      table |-> tables[MapOf(kind)],
      gap   |-> Parts(kind, list, id)]

\* delEntry removes from the table the rule that has the id, and from the list
\* the one at that place.
Deleted(kind, id) ==
  LET list == rules_[kind]
  IN [list  |-> Without(list, id),
      table |-> Removed(tables[MapOf(kind)], {Key(kind, list[i]) : i \in At(list, id)}),
      gap   |-> Parts(kind, list, id)]

\* It returns early for an id past the list, and when the table has no such key.
Deletes(kind, id) ==
  /\ Quiet /\ rules_[kind] # <<>> /\ id <= Len(rules_[kind])
  /\ \A i \in At(rules_[kind], id) : Key(kind, rules_[kind][i]) \in DOMAIN tables[MapOf(kind)]

DelEntry(kind, id) ==
  /\ Deletes(kind, id)
  /\ rules_' = [rules_ EXCEPT ![kind] = Deleted(kind, id).list]
  /\ tables' = [tables EXCEPT ![MapOf(kind)] = Deleted(kind, id).table]
  /\ gaps' = gaps \cup Deleted(kind, id).gap
  /\ UNCHANGED <<switch, down>>

\* rules_.size() - 1 wraps around in an empty list and the loop of delEntry
\* runs past the end of the vector.
DelFromEmpty(kind) ==
  /\ Quiet /\ rules_[kind] = <<>>
  /\ down' = TRUE
  /\ UNCHANGED <<rules_, tables, switch, gaps>>

\* replaceEntry: the new rule goes to the end of the list, with the old id.
\* A duplicate is refused after the old rule is gone.
ReplaceEntry(kind, id, r) ==
  /\ Deletes(kind, id)
  /\ LET d == Deleted(kind, id)
     IN \/ /\ ~Duplicate(kind, d.list, r)
           /\ Cardinality(DOMAIN d.table \cup {KeyOf(kind, r)}) <= Capacity
           /\ Entered(kind, d.list, id, r, Set(d.table, KeyOf(kind, r), r.to))
           /\ gaps' = gaps \cup d.gap \cup (IF id < Len(rules_[kind]) THEN {} ELSE {"listed"})
        \/ /\ ~Duplicate(kind, d.list, r)
           /\ Cardinality(DOMAIN d.table \cup {KeyOf(kind, r)}) > Capacity
           /\ Entered(kind, d.list, id, r, d.table)
           /\ gaps' = gaps \cup d.gap \cup {"listed"}
        \/ /\ Duplicate(kind, d.list, r)
           /\ rules_' = [rules_ EXCEPT ![kind] = d.list]
           /\ tables' = [tables EXCEPT ![MapOf(kind)] = d.table]
           /\ gaps' = gaps \cup d.gap
  /\ UNCHANGED <<switch, down>>

\* PATCH of an entry changes the list and not the table.
UpdateEntry(kind, id, r) ==
  /\ Quiet
  /\ \E i \in At(rules_[kind], id) :
       /\ rules_[kind][i].rule # r
       /\ rules_' = [rules_ EXCEPT ![kind][i].rule = r]
  /\ Gap("listed")
  /\ UNCHANGED <<tables, switch, down>>

\* Every rule of a list is in the table, once.
Removable(kind) ==
  /\ Listed(kind) \subseteq DOMAIN tables[MapOf(kind)]
  /\ Cardinality(Listed(kind)) = Len(rules_[kind])

\* delEntryList of some kinds.  A rule that is not in the table makes it throw
\* half-way, out of a destructor or leaving null rules behind.
Empties(kinds) ==
  LET KeysIn(m) == UNION {Listed(kind) : kind \in {k \in kinds : MapOf(k) = m}}
  IN IF \A kind \in kinds : Removable(kind)
     THEN /\ rules_' = [kind \in Kinds |-> IF kind \in kinds THEN <<>> ELSE rules_[kind]]
          /\ tables' = [m \in Maps |-> Removed(tables[m], KeysIn(m))]
          /\ down' = down
     ELSE /\ down' = TRUE
          /\ UNCHANGED <<rules_, tables>>

\* DELETE, PUT and POST of a list, which all leave it empty.  DELETE and PUT
\* call delEntryList in the request and fail when the first rule is missing in
\* the table; POST calls it in the destructor of the old list.
DelEntryList(kind, post) ==
  /\ Quiet /\ rules_[kind] # <<>>
  /\ post \/ Key(kind, rules_[kind][1]) \in DOMAIN tables[MapOf(kind)]
  /\ Empties({kind})
  /\ gaps' = gaps \cup Undoes(kind, Listed(kind))
  /\ UNCHANGED switch

\* delRule and replaceRule: the new switch is off, and the destructor of the old
\* one leaves its rule in the table.
DelRule ==
  /\ Quiet
  /\ Empties(Kinds)
  /\ enabled' = FALSE
  /\ UNCHANGED <<external_ip_, client, callback, gaps>>

-----------------------------------------------------------------------------
(* The masquerade switch.                                                  *)

\* inject: an error of the table is caught.  A SNAT rule for all the hosts is
\* overwritten and stays in the list.
Injected(ip) ==
  IF Fits("sm_rules", Everyone)
  THEN /\ tables' = [tables EXCEPT !["sm_rules"] = Set(@, Everyone, ip)]
       /\ gaps' = gaps \cup (IF Everyone \in Listed("snat") THEN {"listed"} ELSE {})
  ELSE tables' = tables /\ Gap("masquerade")

On(set) == [op |-> "on", ip |-> NoAddress, set |-> set]
Off     == [Idle EXCEPT !.op = "off"]

\* enable reads the address, which is parsed: without one it gives up, and
\* setEnabled(true) turns the switch on in any case.
TurningOn(set) ==
  IF external_ip_ # NoAddress THEN [op |-> "inject", ip |-> external_ip_, set |-> set]
  ELSE IF set THEN On(TRUE) ELSE Idle

Enable(set) ==
  /\ Quiet /\ ~enabled
  /\ client' = TurningOn(set)
  /\ UNCHANGED <<rules_, tables, enabled, external_ip_, callback, down, gaps>>

EnableInject ==
  /\ client.op = "inject"
  /\ Injected(client.ip)
  /\ client' = IF client.set \/ Fits("sm_rules", Everyone) THEN On(client.set) ELSE Idle
  /\ UNCHANGED <<rules_, enabled, external_ip_, callback, down>>

EnableDone ==
  /\ client.op = "on"
  /\ enabled' = TRUE /\ client' = Idle
  /\ UNCHANGED <<rules_, tables, external_ip_, callback, down, gaps>>

\* disable writes the address 0.0.0.0 and keeps the rule; setEnabled(false)
\* turns the switch off in any case.
Disable(set) ==
  /\ Quiet /\ enabled
  /\ Injected(Zero)
  /\ client' = IF set \/ Fits("sm_rules", Everyone) THEN Off ELSE Idle
  /\ UNCHANGED <<rules_, enabled, external_ip_, callback, down>>

DisableDone ==
  /\ client.op = "off"
  /\ enabled' = FALSE /\ client' = Idle
  /\ UNCHANGED <<rules_, tables, external_ip_, callback, down, gaps>>

\* POST of masquerade constructs a switch whose member enabled is read before
\* it is initialized; garbage is what was there.  The callback sees the old
\* switch until the new one takes its place.  PUT is a Disable before that.
AddMasquerade(on, garbage) ==
  /\ Quiet
  /\ \/ /\ on /\ garbage
        /\ client' = On(TRUE) /\ Gap("masquerade")
        /\ tables' = tables
     \/ /\ on /\ ~garbage
        /\ client' = TurningOn(TRUE)
        /\ UNCHANGED <<tables, gaps>>
     \/ /\ ~on /\ garbage
        /\ Injected(Zero)
        /\ client' = Off
     \/ /\ ~on /\ ~garbage
        /\ client' = Off
        /\ UNCHANGED <<tables, gaps>>
  /\ UNCHANGED <<rules_, enabled, external_ip_, callback, down>>

\* A caller reports the address.  A request that has read the old one will
\* write it or turn the switch on without writing any, and a report that is
\* under way may write its own address after this one.
AddressChanges(c, ip) ==
  /\ callback[c].place = "idle" /\ ip # external_ip_
  /\ external_ip_' = ip /\ callback' = [callback EXCEPT ![c].place = "test"]
  /\ gaps' = IF client.op \in {"inject", "on"} \/ \E d \in Callers : callback[d].place # "idle"
             THEN gaps \cup {"overtaken"} ELSE gaps
  /\ UNCHANGED <<rules_, tables, enabled, client, down>>

\* Mutant of CallbackTest: the switch is looked at the wrong way.
CallbackTestOff(c) ==
  /\ callback[c].place = "test"
  /\ callback' = [callback EXCEPT ![c].place = IF ~enabled THEN "read" ELSE "idle"]
  /\ UNCHANGED <<rules_, tables, enabled, external_ip_, client, down, gaps>>

CallbackTest(c) ==
  /\ callback[c].place = "test"
  /\ callback' = [callback EXCEPT ![c].place = IF enabled THEN "read" ELSE "idle"]
  /\ UNCHANGED <<rules_, tables, enabled, external_ip_, client, down, gaps>>

\* The argument of inject throws without an address.
CallbackRead(c) ==
  /\ callback[c].place = "read"
  /\ callback' = [callback EXCEPT ![c] = IF external_ip_ = NoAddress THEN Returned
                                         ELSE [place |-> "inject", ip |-> external_ip_]]
  /\ UNCHANGED <<rules_, tables, enabled, external_ip_, client, down, gaps>>

CallbackInject(c) ==
  /\ callback[c].place = "inject"
  /\ Injected(callback[c].ip)
  /\ callback' = [callback EXCEPT ![c] = Returned]
  /\ UNCHANGED <<rules_, enabled, external_ip_, client, down>>

-----------------------------------------------------------------------------
\* Ids a client may name.
Ids(kind) == 0 .. Len(rules_[kind]) + 1

Edit(kind) ==
  \/ \E r \in RulesOf(kind) : AppendEntry(kind, r) \/ AppendRefused(kind, r)
  \/ \E r \in RulesOf(kind), id \in Ids(kind) : AddEntry(kind, id, r) \/ ReplaceEntry(kind, id, r)
  \/ \E r \in RulesOf(kind), id \in Ids(kind) : UpdateEntry(kind, id, r)
  \/ \E id \in Ids(kind) : DelEntry(kind, id)

Bounded == gaps \cap Final = {}

Masquerade ==
  \/ \E set \in BOOLEAN : Enable(set) \/ Disable(set)
  \/ EnableInject \/ EnableDone \/ DisableDone
  \/ \E on, garbage \in BOOLEAN : AddMasquerade(on, garbage)

Callback ==
  \E c \in Callers :
    \/ \E ip \in Addresses \cup {NoAddress} : AddressChanges(c, ip)
    \/ CallbackTest(c) \/ CallbackRead(c) \/ CallbackInject(c)

Next ==
  /\ ~down
  /\ \/ Bounded /\ (Masquerade \/ Callback \/ \E kind \in Kinds : Edit(kind))
     \/ \E kind \in Kinds, post \in BOOLEAN : DelEntryList(kind, post)
     \/ \E kind \in Kinds : DelFromEmpty(kind)
     \/ DelRule

Spec == Init /\ [][Next]_vars

-----------------------------------------------------------------------------
(* Properties.                                                             *)

\* Every rule that a client sees in a list is in the table with its own
\* address, whatever rules were appended, replaced and deleted before: rules are
\* removed from the table by id and from the list by place, and the two must
\* not part.  A listed rule that is missing in the table could never be deleted,
\* and deleting all the rules would end the daemon.
ListedRulesServed ==
  "listed" \notin gaps =>
    \A kind \in Kinds : \A e \in Range(rules_[kind]) :
      /\ Key(kind, e) \in DOMAIN tables[MapOf(kind)]
      /\ tables[MapOf(kind)][Key(kind, e)] = e.rule.to

\* The rules of a list that apply to a packet.
Applying(kind, p) == {e.rule : e \in {e \in Range(rules_[kind]) : p \in Key(kind, e)}}

\* The documented priority: port forwarding with a protocol, port forwarding
\* without, DNAT.
ByPriority(p) ==
  LET exact == {r \in Applying("pf", p) : r.proto # "all"}
      all   == Applying("pf", p) \ exact
      dnat  == Applying("dnat", p)
      best  == IF exact # {} THEN exact ELSE IF all # {} THEN all ELSE dnat
  IN {r.to : r \in best}

\* A packet from outside goes where the listed rule of the highest priority
\* sends it, and nowhere if there is none: no rule that was deleted is applied,
\* and the masks of the keys order the rules of the two kinds.
RulePriority ==
  gaps \cap {"listed", "dropped"} = {} =>
    \A p \in Packets :
      {Lookup("dp_rules", p)} = IF ByPriority(p) = {} THEN {NoAddress} ELSE ByPriority(p)

\* While masquerade is on and its requests and the reports of the address have
\* ended, a host without a SNAT rule is translated to the address of the
\* external interface, whatever came before: turned on before there was an
\* address, lost and got another, edits of the rules.  It fails after what the
\* gaps name: an address reported while a request that turns it on or another
\* report is under way, a switch constructed with garbage, a full table, and a
\* SNAT rule for all the hosts that was deleted.
MasqueradeAddress ==
  /\ Quiet /\ \A c \in Callers : callback[c].place = "idle"
  /\ gaps = {} /\ enabled /\ external_ip_ # NoAddress
  => \A h \in Hosts : Applying("snat", h) = {} => Lookup("sm_rules", h) = external_ip_
=============================================================================
