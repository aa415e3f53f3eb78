------------------------------ MODULE Peering ------------------------------
(***************************************************************************)
(* How ports of cubes are linked to each other and to network interfaces:  *)
(* Port::set_peer (port.cpp), ServiceController::set_port_peer and         *)
(* netlink_notification (service_controller.cpp), Cube::add_port,          *)
(* remove_port and ~Cube (cube.cpp), PolycubedCore::connect, disconnect,   *)
(* attach and detach (polycubed_core.cpp).                                 *)
(*                                                                         *)
(* The threads are the workers of the REST server and the netlink          *)
(* listener.  A thread runs an operation as a script of commands; the      *)
(* command "set" is one call of Port::set_peer and takes a step for every  *)
(* stretch of code between two points where another thread can get in.     *)
(*                                                                         *)
(* Links are raw pointers in the code.  When a Port or an ExtIface is      *)
(* destroyed every pointer to it becomes Dangling, and a thread that       *)
(* follows a null or dangling pointer takes the daemon down.               *)
(*                                                                         *)
(* port_mutex_ and iface_mutex_ of the single ports and interfaces are     *)
(* left out: what runs with one of them is one step, so threads that wait  *)
(* for each other with them do not show here.                              *)
(***************************************************************************)
EXTENDS Integers, Sequences, FiniteSets

CONSTANTS
  Workers,     \* threads of the REST server
  Listener,    \* the netlink listener thread
  Cubes,       \* names of cubes with ports
  Ports,       \* paths of ports, "cube:port"
  CubeOf,      \* CubeOf[p]: the cube in the path of p
  PortType,    \* PortType[c]: the type of the ports of cube c
  Netdevs,     \* names of network interfaces
  Peers,       \* the names clients use as peers
  AttachTypes, \* the types of the transparent cubes clients attach
  MaxPorts,    \* _POLYCUBE_MAX_PORTS
  NoPeer,      \* the empty peer name and the null pointer
  Dangling,    \* a pointer to a destroyed object
  NoThread,    \* owner of a free mutex
  MaxRunning,  \* bound: operations that run at the same time
  Together,    \* bound: the pairs of operations that do
  MaxFailures  \* bound: relinkings that fail because a program does not load, and
               \* attachments that are refused

Types   == {"tc", "xdp"}
Ends    == Ports \cup Netdevs
Threads == Workers \cup {Listener}
PortIds == 0 .. MaxPorts - 1

ASSUME ThreadsAssumption == Listener \notin Workers /\ NoThread \notin Threads
ASSUME EndsAssumption    == Ports \cap Netdevs = {} /\ Peers \subseteq Ends
                            /\ IsFiniteSet(Ports)
ASSUME CubeOfAssumption  == CubeOf \in [Ports -> Cubes]
ASSUME TypesAssumption == PortType \in [Cubes -> Types] /\ AttachTypes \subseteq Types
ASSUME MarksAssumption   == NoPeer \notin Ends /\ Dangling \notin Ends
                            /\ NoPeer # Dangling
ASSUME BoundsAssumption  == MaxPorts \in Nat /\ MaxRunning \in Nat
                            /\ MaxFailures \in Nat
ASSUME TogetherAssumption == \A pair \in Together : Cardinality(pair) \in 1 .. 2

VARIABLES
  cubes,            \* ServiceController::cubes
  ports,            \* the ports in ports_by_name_ of their cube
  free_ports,       \* free_ports_ of every cube
  port_id,          \* index_ of every port
  peer,             \* peer_: the name a client gave
  link,             \* Port::peer_port_ and ExtIface::peer_
  ifaces,           \* ports_to_ifaces: the type of the ExtIface, or "none"
  iface_cubes,      \* interfaces with a transparent cube attached
  ports_to_ports,   \* the map of the same name
  available,        \* interfaces the kernel reports
  removed,          \* link-removal notifications not handled yet
  mutex,            \* owner of service_ctrl_mutex_
  task,             \* what every thread is doing
  failures,         \* history: relinkings that failed, attachments refused
  crashed           \* a null or dangling pointer was followed, or terminate()

netVars  == <<available, removed>>
portVars == <<cubes, ports, free_ports, port_id>>
vars == <<portVars, peer, link, ifaces, iface_cubes, ports_to_ports, netVars,
          mutex, task, failures, crashed>>

-----------------------------------------------------------------------------
(* Threads and scripts.                                                    *)

Set(p, x)      == [cmd |-> "set", on |-> p, to |-> x]
Erase(p)       == [cmd |-> "erase", on |-> p, to |-> NoPeer]
Destroy(p)     == [cmd |-> "destroy", on |-> p, to |-> NoPeer]
ForgetIface(n) == [cmd |-> "forget_iface", on |-> n, to |-> NoPeer]

\* The commands that occur in scripts.
Commands ==
  {Set(p, x) : p \in Ports, x \in Ends \cup {NoPeer}}
    \cup {Erase(p) : p \in Ports} \cup {Destroy(p) : p \in Ports}
    \cup {ForgetIface(n) : n \in Netdevs}

\* ~PortTC and ~PortXDP call set_peer("") and then the object is freed.
Destructor(p) == <<Set(p, NoPeer), Destroy(p)>>

\* old and ref are the two copies set_port_peer makes of peer_port_.
Doing(op, script) == [op |-> op, script |-> script, pc |-> "check",
                      old |-> NoPeer, ref |-> NoPeer]
Idle == Doing("none", <<>>)

Running == {t \in Threads : task[t].op # "none"}

MayStart(op) ==
  /\ ~crashed /\ Cardinality(Running) < MaxRunning
  /\ \A t \in Running : {op, task[t].op} \in Together

Now(t) == Head(task[t].script)

At(t, pc) == /\ ~crashed
             /\ task[t].script # <<>>
             /\ Now(t).cmd = "set" /\ task[t].pc = pc

GoOn(t, script) ==
  task' = [task EXCEPT ![t] = IF script = <<>> THEN Idle
                              ELSE Doing(task[t].op, script)]

Release(t) == mutex' = IF mutex = t THEN NoThread ELSE mutex

\* The workers that keep p alive with a shared_ptr.  The listener only has the
\* raw pointer of the interface.
Holders(p) == {t \in Workers : task[t].script # <<>> /\ Now(t).on = p}

InDestructor(t) == Destroy(Now(t).on) \in {task[t].script[i] :
                                             i \in DOMAIN task[t].script}

\* t lets go of p and goes on with rest: the last holder of a port that left
\* its map runs the destructor.
LetGo(t, p, rest, inMap) ==
  GoOn(t, IF ~inMap /\ Holders(p) = {t} /\ ~InDestructor(t)
          THEN Destructor(p) \o rest ELSE rest)

\* The port is there for a client: its cube is registered and has it.
Reachable(p) == p \in ports /\ CubeOf[p] \in cubes

-----------------------------------------------------------------------------
Init ==
  /\ cubes = Cubes
  /\ ports = {}
  /\ free_ports = [c \in Cubes |-> PortIds]
  /\ port_id = [p \in Ports |-> 0]
  /\ peer = [p \in Ports |-> NoPeer]
  /\ link = [e \in Ends |-> NoPeer]
  /\ ifaces = [n \in Netdevs |-> "none"]
  /\ iface_cubes = {}
  /\ ports_to_ports = [p \in Ports |-> NoPeer]
  /\ available = Netdevs
  /\ removed = {}
  /\ mutex = NoThread
  /\ task = [t \in Threads |-> Idle]
  /\ failures = 0
  /\ crashed = FALSE

-----------------------------------------------------------------------------
(* Ends of objects and exceptions.                                         *)

Crash ==
  /\ crashed' = TRUE
  /\ UNCHANGED <<portVars, peer, link, ifaces, iface_cubes, ports_to_ports,
                 netVars, mutex, task, failures>>

\* The links once the object d is freed: pointers to it dangle.
Severed(d) ==
  [e \in Ends |-> IF e = d THEN NoPeer
                  ELSE IF link[e] = d THEN Dangling ELSE link[e]]

\* The same for the copies that the threads keep.
WithoutCopies(d, tk) ==
  [t \in Threads |-> [tk[t] EXCEPT !.old = IF @ = d THEN Dangling ELSE @,
                                   !.ref = IF @ = d THEN Dangling ELSE @]]

\* An exception leaves set_peer.  add_port takes the new port out of its maps,
\* without releasing the id, and rethrows; nothing catches it in the netlink
\* listener or in a destructor.
Throw(t) ==
  LET p == Now(t).on
      undo == task[t].op = "add_port" /\ ~InDestructor(t)
  IN /\ crashed' = (task[t].op \in {"netlink", "destroy_cube"} \/ InDestructor(t))
     /\ Release(t)
     /\ ports' = IF undo THEN ports \ {p} ELSE ports
     /\ LetGo(t, p, <<>>, p \in ports /\ ~undo)

-----------------------------------------------------------------------------
(* Port::set_peer and ServiceController::set_port_peer, statement by       *)
(* statement.                                                              *)

\* try_to_set_peer of connect and disconnect: the port or its cube is gone.
PortGone(t) ==
  /\ At(t, "check")
  /\ task[t].op \in {"connect", "disconnect"} /\ ~InDestructor(t)
  /\ ~Reachable(Now(t).on)
  /\ GoOn(t, <<>>)
  /\ UNCHANGED <<portVars, peer, link, ifaces, iface_cubes, ports_to_ports,
                 netVars, mutex, failures, crashed>>

EntersSetPeer(t) ==
  /\ At(t, "check")
  /\ task[t].op \in {"connect", "disconnect"} =>
        InDestructor(t) \/ Reachable(Now(t).on)

\* if (peer_ == peer) return;
SetPeerSame(t) ==
  /\ EntersSetPeer(t)
  /\ peer[Now(t).on] = Now(t).to
  /\ LetGo(t, Now(t).on, Tail(task[t].script), Now(t).on \in ports)
  /\ UNCHANGED <<portVars, peer, link, ifaces, iface_cubes, ports_to_ports,
                 netVars, mutex, failures, crashed>>

SetPeerDiffers(t) ==
  /\ EntersSetPeer(t)
  /\ peer[Now(t).on] # Now(t).to
  /\ task' = [task EXCEPT ![t].pc = "read"]
  /\ UNCHANGED <<portVars, peer, link, ifaces, iface_cubes, ports_to_ports,
                 netVars, mutex, failures, crashed>>

\* PeerIface *peer_iface = p.get_peer_iface();
ReadLink(t) ==
  /\ At(t, "read")
  /\ LET l == link[Now(t).on]
     IN task' = [task EXCEPT ![t].old = l,
                             ![t].pc = IF l = NoPeer THEN "resolve" ELSE "unlink"]
  /\ UNCHANGED <<portVars, peer, link, ifaces, iface_cubes, ports_to_ports,
                 netVars, mutex, failures, crashed>>

\* set_peer_iface stores the pointer and then relinks the service chains,
\* which may fail to load a program.
Relinked(t, next) ==
  /\ task' = next
  /\ UNCHANGED <<ports, failures, crashed>>

RelinkFails(t) ==
  /\ failures < MaxFailures
  /\ failures' = failures + 1
  /\ Throw(t)

\* Port::unconnect(p, *p.get_peer_iface()): the pointer is read again.
UnlinkOwn(t) ==
  LET p == Now(t).on
  IN /\ At(t, "unlink")
     /\ link' = [link EXCEPT ![p] = NoPeer]
     /\ \/ /\ Relinked(t, [task EXCEPT ![t].ref = link[p],
                                       ![t].pc = "unlink_other"])
           /\ UNCHANGED mutex
        \/ RelinkFails(t)
     /\ UNCHANGED <<cubes, free_ports, port_id, peer, ifaces, iface_cubes,
                    ports_to_ports, netVars>>

AfterUnlink(t) == IF task[t].old \in Netdevs THEN "used" ELSE "resolve"

\* Mutant of UnlinkOther: only the own side is unlinked.
UnlinkOtherSkipped(t) ==
  /\ At(t, "unlink_other")
  /\ task[t].ref \in Ends /\ task[t].old \in Ends
  /\ task' = [task EXCEPT ![t].pc = AfterUnlink(t)]
  /\ UNCHANGED <<portVars, peer, link, ifaces, iface_cubes, ports_to_ports,
                 netVars, mutex, failures, crashed>>

UnlinkOther(t) ==
  /\ At(t, "unlink_other")
  /\ task[t].ref \in Ends /\ task[t].old \in Ends
  /\ link' = [link EXCEPT ![task[t].ref] = NoPeer]
  /\ \/ /\ Relinked(t, [task EXCEPT ![t].pc = AfterUnlink(t)])
        /\ UNCHANGED mutex
     \/ RelinkFails(t)
  /\ UNCHANGED <<cubes, free_ports, port_id, peer, ifaces, iface_cubes,
                 ports_to_ports, netVars>>

\* The pointer became null between the two reads, or its object is gone.
FollowsBadLink(t) ==
  /\ \/ At(t, "unlink_other") /\ ~({task[t].ref, task[t].old} \subseteq Ends)
     \/ At(t, "used") /\ task[t].old = Dangling
     \/ At(t, "link_other") /\ Now(t).to \in Netdevs /\ ifaces[Now(t).to] = "none"
  /\ Crash

\* Mutant of ChecksUsed: the interface is never dropped.
ChecksUsedNever(t) ==
  /\ At(t, "used")
  /\ task[t].old \in Netdevs
  /\ task' = [task EXCEPT ![t].pc = "resolve"]
  /\ UNCHANGED <<portVars, peer, link, ifaces, iface_cubes, ports_to_ports,
                 netVars, mutex, failures, crashed>>

\* iface->is_used()
ChecksUsed(t) ==
  LET n == task[t].old
  IN /\ At(t, "used")
     /\ n \in Netdevs
     /\ task' = [task EXCEPT ![t].pc =
                   IF n \in iface_cubes \/ link[n] # NoPeer THEN "resolve" ELSE "forget"]
     /\ UNCHANGED <<portVars, peer, link, ifaces, iface_cubes, ports_to_ports,
                    netVars, mutex, failures, crashed>>

\* ports_to_ifaces.erase(n), outside service_ctrl_mutex_; tk is the task
\* function before copies of the pointer are dropped.
EraseIface(n, tk) ==
  /\ link' = Severed(n)
  /\ ifaces' = [ifaces EXCEPT ![n] = "none"]
  /\ iface_cubes' = iface_cubes \ {n}
  /\ task' = WithoutCopies(n, tk)

\* ports_to_ifaces.erase(p.peer()): by the name p still has.
Forgets(t) ==
  LET n == peer[Now(t).on]
      tk == [task EXCEPT ![t].pc = "resolve"]
  IN /\ At(t, "forget")
     /\ \/ /\ n \in Netdevs
           /\ EraseIface(n, tk)
        \/ /\ n \notin Netdevs
           /\ task' = tk
           /\ UNCHANGED <<link, ifaces, iface_cubes>>
     /\ UNCHANGED <<portVars, peer, ports_to_ports, netVars, mutex, failures,
                    crashed>>

\* if (peer_name.empty()) return;
ResolveEmpty(t) ==
  /\ At(t, "resolve")
  /\ Now(t).to = NoPeer
  /\ task' = [task EXCEPT ![t].pc = "assign"]
  /\ UNCHANGED <<portVars, peer, link, ifaces, iface_cubes, ports_to_ports,
                 netVars, mutex, failures, crashed>>

\* The rest runs under service_ctrl_mutex_.
Resolves(t) == At(t, "resolve") /\ Now(t).to # NoPeer /\ mutex = NoThread

TypeOf(p) == PortType[CubeOf[p]]

\* The first half of Port::connect: p points to its new peer.
LinkOwn(t) ==
  /\ link' = [link EXCEPT ![Now(t).on] = Now(t).to]
  /\ \/ /\ mutex' = t
        /\ Relinked(t, [task EXCEPT ![t].pc = "link_other"])
     \/ RelinkFails(t) \* the lock_guard is released by the exception

\* Mutant of ResolveIface: an interface in use is taken over.
ResolveIfaceUnchecked(t) ==
  LET n == Now(t).to
  IN /\ Resolves(t)
     /\ n \in available
     /\ ifaces' = [ifaces EXCEPT ![n] = IF @ = "none" THEN TypeOf(Now(t).on) ELSE @]
     /\ LinkOwn(t)
     /\ UNCHANGED <<cubes, free_ports, port_id, peer, iface_cubes,
                    ports_to_ports, netVars>>

\* An existing ExtIface is taken as it is, whatever its type.
ResolveIface(t) ==
  LET n == Now(t).to
  IN /\ Resolves(t)
     /\ n \in available
     /\ link[n] = NoPeer
     /\ ifaces' = [ifaces EXCEPT ![n] = IF @ = "none" THEN TypeOf(Now(t).on) ELSE @]
     /\ LinkOwn(t)
     /\ UNCHANGED <<cubes, free_ports, port_id, peer, iface_cubes,
                    ports_to_ports, netVars>>

\* ports_to_ports.emplace(p, x) keeps an entry that is already there.
Emplaced(p, x) ==
  [ports_to_ports EXCEPT ![p] = IF @ = NoPeer THEN x ELSE @]

\* Mutant of WantsBack: connected without looking at the other side.
WantsBackAlways(p, x) == TRUE

\* "check if p_peer has as peer me"
WantsBack(p, x) == Emplaced(p, x)[x] = p

ResolvePort(t) ==
  LET p == Now(t).on
      x == Now(t).to
  IN /\ Resolves(t)
     /\ x \in Ports /\ Reachable(x) /\ TypeOf(x) = TypeOf(p)
     /\ ports_to_ports' = Emplaced(p, x)
     /\ \/ \* x does not want p: nothing to connect yet
           /\ ~WantsBack(p, x)
           /\ task' = [task EXCEPT ![t].pc = "assign"]
           /\ UNCHANGED <<link, mutex, ports, failures, crashed>>
        \/ /\ WantsBack(p, x)
           /\ x # p
           /\ LinkOwn(t)
        \/ \* connect(p, p): p calls itself with its port_mutex_ held
           /\ WantsBack(p, x)
           /\ x = p
           /\ link' = [link EXCEPT ![p] = p]
           /\ mutex' = t
           /\ task' = [task EXCEPT ![t].pc = "hung"]
           /\ UNCHANGED <<ports, failures, crashed>>
     /\ UNCHANGED <<cubes, free_ports, port_id, peer, ifaces, iface_cubes, netVars>>

ResolveThrows(t) ==
  LET x == Now(t).to
  IN /\ Resolves(t)
     /\ \/ x \in Netdevs /\ (x \notin available \/ link[x] # NoPeer)
        \/ x \in Ports /\ (~Reachable(x) \/ TypeOf(x) # TypeOf(Now(t).on))
     /\ Throw(t)
     /\ UNCHANGED <<cubes, free_ports, port_id, peer, link, ifaces, iface_cubes,
                    ports_to_ports, netVars, failures>>

\* The second half of Port::connect.
LinkOther(t) ==
  LET x == Now(t).to
  IN /\ At(t, "link_other")
     /\ x \in Netdevs => ifaces[x] # "none"
     /\ link' = [link EXCEPT ![x] = Now(t).on]
     /\ \/ /\ Relinked(t, [task EXCEPT ![t].pc = "assign"])
           /\ Release(t)
        \/ RelinkFails(t)
     /\ UNCHANGED <<cubes, free_ports, port_id, peer, ifaces, iface_cubes,
                    ports_to_ports, netVars>>

\* Mutant of Assigns: the name is not updated.
AssignsNothing(t) ==
  /\ At(t, "assign")
  /\ LetGo(t, Now(t).on, Tail(task[t].script), Now(t).on \in ports)
  /\ UNCHANGED <<portVars, peer, link, ifaces, iface_cubes, ports_to_ports,
                 netVars, mutex, failures, crashed>>

\* peer_ = peer;
Assigns(t) ==
  /\ At(t, "assign")
  /\ peer' = [peer EXCEPT ![Now(t).on] = Now(t).to]
  /\ LetGo(t, Now(t).on, Tail(task[t].script), Now(t).on \in ports)
  /\ UNCHANGED <<portVars, link, ifaces, iface_cubes, ports_to_ports, netVars,
                 mutex, failures, crashed>>

SetPeerStep(t) ==
  \/ PortGone(t) \/ SetPeerSame(t) \/ SetPeerDiffers(t) \/ ReadLink(t)
  \/ UnlinkOwn(t) \/ UnlinkOther(t) \/ FollowsBadLink(t) \/ ChecksUsed(t)
  \/ Forgets(t) \/ ResolveEmpty(t) \/ ResolveIface(t) \/ ResolvePort(t)
  \/ ResolveThrows(t) \/ LinkOther(t) \/ Assigns(t)

-----------------------------------------------------------------------------
(* The other commands of a script.                                         *)

Runs(t, cmd) == ~crashed /\ task[t].script # <<>> /\ Now(t).cmd = cmd

\* A thread that links to p holds it with a shared_ptr, and would run its
\* destructor in the middle of the link.  Bound: the step that removes p from
\* its map waits for the half-made link.
BeingLinked(p) == \E t \in Threads : At(t, "link_other") /\ Now(t).to = p

ErasesPort(t) ==
  LET p == Now(t).on
      c == CubeOf[p]
  IN /\ Runs(t, "erase")
     /\ ~BeingLinked(p)
     /\ \/ /\ p \in ports
           /\ ports' = ports \ {p}
           /\ free_ports' = [free_ports EXCEPT ![c] = @ \cup {port_id[p]}]
           /\ LetGo(t, p, Tail(task[t].script), FALSE)
        \/ \* another thread was faster: ports_by_name_.at throws
           /\ p \notin ports
           /\ LetGo(t, p, Tail(task[t].script), FALSE)
           /\ UNCHANGED <<ports, free_ports>>
     /\ UNCHANGED <<cubes, port_id, peer, link, ifaces, iface_cubes,
                    ports_to_ports, netVars, mutex, failures, crashed>>

\* The object is freed.
DestroysPort(t) ==
  LET p == Now(t).on
  IN /\ Runs(t, "destroy")
     /\ link' = Severed(p)
     /\ peer' = [peer EXCEPT ![p] = NoPeer]
     /\ LET rest == Tail(task[t].script)
        IN task' = WithoutCopies(p, [task EXCEPT ![t] =
                      IF rest = <<>> THEN Idle ELSE Doing(task[t].op, rest)])
     /\ crashed' = (task[Listener].script # <<>> /\ Now(Listener).on = p)
     /\ UNCHANGED <<portVars, ifaces, iface_cubes, ports_to_ports, netVars,
                    mutex, failures>>

\* netlink_notification erases the interface and returns.
ForgetsIface(t) ==
  /\ Runs(t, "forget_iface")
  /\ EraseIface(Now(t).on, [task EXCEPT ![t] = Idle])
  /\ Release(t)
  /\ UNCHANGED <<portVars, peer, ports_to_ports, netVars, failures, crashed>>

-----------------------------------------------------------------------------
(* What clients, the kernel and the daemon start.                          *)

Starts(t, op, script) ==
  /\ task[t].op = "none" /\ MayStart(op)
  /\ task' = [task EXCEPT ![t] = Doing(op, script)]

OthersUnchanged ==
  UNCHANGED <<cubes, peer, link, ifaces, iface_cubes, ports_to_ports, netVars,
              failures, crashed>>

\* Port::set_conf and the peer attribute of a port
SetPeer(t, p, x) ==
  /\ Starts(t, "set_peer", <<Set(p, x)>>)
  /\ Reachable(p)
  /\ OthersUnchanged /\ UNCHANGED <<ports, free_ports, port_id, mutex>>

PeerName(x) == IF x \in Ports THEN peer[x] ELSE NoPeer

\* Both sides must exist and have no peer.
Connect(t, p, x) ==
  /\ Starts(t, "connect", IF x \in Ports THEN <<Set(p, x), Set(x, p)>>
                          ELSE <<Set(p, x)>>)
  /\ Reachable(p) /\ (x \in Ports => Reachable(x))
  /\ peer[p] = NoPeer /\ PeerName(x) = NoPeer
  /\ OthersUnchanged /\ UNCHANGED <<ports, free_ports, port_id, mutex>>

Disconnect(t, p, x) ==
  /\ Starts(t, "disconnect", IF x \in Ports THEN <<Set(p, NoPeer), Set(x, NoPeer)>>
                             ELSE <<Set(p, NoPeer)>>)
  /\ Reachable(p) /\ (x \in Ports => Reachable(x))
  /\ {peer[p], PeerName(x)} # {NoPeer}
  /\ peer[p] \in {NoPeer, x} /\ PeerName(x) \in {NoPeer, p}
  /\ OthersUnchanged /\ UNCHANGED <<ports, free_ports, port_id, mutex>>

FirstFreePort(c) == CHOOSE i \in free_ports[c] : \A j \in free_ports[c] : i <= j

\* add_port, with or without a peer in the configuration.  A path is not used
\* again while a thread still holds the old port.
AddPort(t, p, x) ==
  LET c == CubeOf[p]
  IN /\ task[t].op = "none" /\ MayStart("add_port")
     /\ c \in cubes /\ p \notin ports /\ Holders(p) = {}
     /\ free_ports[c] # {}
     /\ free_ports' = [free_ports EXCEPT ![c] = @ \ {FirstFreePort(c)}]
     /\ port_id' = [port_id EXCEPT ![p] = FirstFreePort(c)]
     /\ ports' = ports \cup {p}
     /\ task' = IF x = NoPeer THEN task
                ELSE [task EXCEPT ![t] = Doing("add_port", <<Set(p, x)>>)]
     /\ OthersUnchanged /\ UNCHANGED mutex

\* Mutant of RemovePort: the port is erased without set_peer("").
RemovePortLinked(t, p) ==
  /\ Starts(t, "remove_port", <<Erase(p), Destroy(p)>>)
  /\ Reachable(p)
  /\ OthersUnchanged /\ UNCHANGED <<ports, free_ports, port_id, mutex>>

RemovePort(t, p) ==
  /\ Starts(t, "remove_port", <<Set(p, NoPeer), Erase(p)>>)
  /\ Reachable(p)
  /\ OthersUnchanged /\ UNCHANGED <<ports, free_ports, port_id, mutex>>

PortsOf(c) == {p \in ports : CubeOf[p] = c}

\* The orders in which a hash map may hold the elements of S.
Orders(S) == {s \in [1 .. Cardinality(S) -> S] :
                \A i, j \in DOMAIN s : i # j => s[i] # s[j]}

\* CubeFactoryImpl::destroy_cube and ~Cube: unregister, set_peer("") on every
\* port, then the ports go with their map.
DestroyCube(t, c) ==
  /\ c \in cubes /\ mutex = NoThread
  /\ \A p \in Ports : CubeOf[p] = c => Holders(p) = {}
  /\ \E s \in Orders(PortsOf(c)) :
       Starts(t, IF s = <<>> THEN "none" ELSE "destroy_cube",
              [i \in DOMAIN s |-> Set(s[i], NoPeer)]
                \o [i \in DOMAIN s |-> Erase(s[i])])
  /\ cubes' = cubes \ {c}
  /\ UNCHANGED <<ports, free_ports, port_id, peer, link, ifaces, iface_cubes,
                 ports_to_ports, netVars, mutex, failures, crashed>>

CreateCube(c) ==
  /\ ~crashed
  /\ c \notin cubes /\ mutex = NoThread
  /\ \A p \in Ports : CubeOf[p] = c => p \notin ports /\ Holders(p) = {}
  /\ cubes' = cubes \cup {c}
  /\ free_ports' = [free_ports EXCEPT ![c] = PortIds]
  /\ UNCHANGED <<ports, port_id, peer, link, ifaces, iface_cubes,
                 ports_to_ports, netVars, mutex, task, failures, crashed>>

\* PolycubedCore::attach of a transparent cube of type ty to interface n, a name
\* the kernel need not know.  add_cube puts the cube on the list before it
\* relinks, so that it stays there when a program does not load.
AttachIface(n, ty) ==
  /\ MayStart("attach")
  /\ n \notin iface_cubes
  /\ \/ /\ link[n] = Dangling
        /\ Crash
     \/ /\ link[n] # Dangling
        /\ ifaces' = [ifaces EXCEPT ![n] = IF @ = "none" THEN ty ELSE @]
        /\ iface_cubes' = iface_cubes \cup {n}
        /\ UNCHANGED <<portVars, peer, link, ports_to_ports, netVars, mutex,
                       task, failures, crashed>>

\* "before" or "after" on an interface without transparent cubes: add_cube
\* throws, and the ExtIface made for it stays in ports_to_ifaces.
AttachRefused(n, ty) ==
  /\ MayStart("attach")
  /\ n \notin iface_cubes
  /\ failures < MaxFailures
  /\ failures' = failures + 1
  /\ ifaces' = [ifaces EXCEPT ![n] = IF @ = "none" THEN ty ELSE @]
  /\ UNCHANGED <<portVars, peer, link, iface_cubes, ports_to_ports, netVars,
                 mutex, task, crashed>>

\* PolycubedCore::detach; the interface goes when nobody else uses it.
DetachIface(n) ==
  /\ MayStart("detach")
  /\ n \in iface_cubes
  /\ \/ /\ link[n] = Dangling
        /\ Crash
     \/ /\ link[n] = NoPeer
        /\ EraseIface(n, task)
        /\ UNCHANGED <<portVars, peer, ports_to_ports, netVars, mutex, failures,
                       crashed>>
     \/ /\ link[n] \in Ports
        /\ iface_cubes' = iface_cubes \ {n}
        /\ UNCHANGED <<portVars, peer, link, ifaces, ports_to_ports, netVars,
                       mutex, task, failures, crashed>>

NetdevAdded(n) ==
  /\ ~crashed
  /\ n \notin available
  /\ available' = available \cup {n}
  /\ UNCHANGED <<portVars, peer, link, ifaces, iface_cubes, ports_to_ports,
                 removed, mutex, task, failures, crashed>>

NetdevRemoved(n) ==
  /\ ~crashed
  /\ n \in available
  /\ available' = available \ {n}
  /\ removed' = removed \cup {n}
  /\ UNCHANGED <<portVars, peer, link, ifaces, iface_cubes, ports_to_ports,
                 mutex, task, failures, crashed>>

\* Mutant of NetlinkNotification: without service_ctrl_mutex_.
NetlinkNotificationUnlocked(n) ==
  /\ task[Listener].op = "none" /\ MayStart("netlink")
  /\ n \in removed
  /\ removed' = removed \ {n}
  /\ \/ /\ ifaces[n] = "none"
        /\ UNCHANGED <<task, crashed>>
     \/ /\ ifaces[n] # "none" /\ link[n] = Dangling
        /\ crashed' = TRUE
        /\ UNCHANGED task
     \/ /\ ifaces[n] # "none" /\ link[n] # Dangling
        /\ task' = [task EXCEPT ![Listener] = Doing("netlink",
                      IF link[n] = NoPeer THEN <<ForgetIface(n)>>
                      ELSE <<Set(link[n], NoPeer), ForgetIface(n)>>)]
        /\ UNCHANGED crashed
  /\ UNCHANGED <<portVars, peer, link, ifaces, iface_cubes, ports_to_ports,
                 available, mutex, failures>>

\* netlink_notification: the whole function runs under service_ctrl_mutex_.
NetlinkNotification(n) ==
  /\ task[Listener].op = "none" /\ MayStart("netlink")
  /\ n \in removed /\ mutex = NoThread
  /\ removed' = removed \ {n}
  /\ \/ /\ ifaces[n] = "none"
        /\ UNCHANGED <<mutex, task, crashed>>
     \/ /\ ifaces[n] # "none" /\ link[n] = Dangling
        /\ crashed' = TRUE
        /\ UNCHANGED <<mutex, task>>
     \/ /\ ifaces[n] # "none" /\ link[n] # Dangling
        /\ mutex' = Listener
        /\ task' = [task EXCEPT ![Listener] = Doing("netlink",
                      IF link[n] = NoPeer THEN <<ForgetIface(n)>>
                      ELSE <<Set(link[n], NoPeer), ForgetIface(n)>>)]
        /\ UNCHANGED crashed
  /\ UNCHANGED <<portVars, peer, link, ifaces, iface_cubes, ports_to_ports,
                 available, failures>>

-----------------------------------------------------------------------------
ThreadStep(t) ==
  SetPeerStep(t) \/ ErasesPort(t) \/ DestroysPort(t) \/ ForgetsIface(t)

Request ==
  \E t \in Workers :
    \/ \E p \in Ports, x \in Peers \cup {NoPeer} : SetPeer(t, p, x) \/ AddPort(t, p, x)
    \/ \E p \in Ports, x \in Peers : Connect(t, p, x) \/ Disconnect(t, p, x)
    \/ \E p \in Ports : RemovePort(t, p)
    \/ \E c \in Cubes : DestroyCube(t, c)

Environment ==
  \/ \E c \in Cubes : CreateCube(c)
  \/ \E n \in Netdevs : NetdevAdded(n) \/ NetdevRemoved(n) \/ NetlinkNotification(n)
                        \/ DetachIface(n)
                        \/ \E ty \in AttachTypes : AttachIface(n, ty) \/ AttachRefused(n, ty)

Next == (\E t \in Threads : ThreadStep(t)) \/ Request \/ Environment

Spec == Init /\ [][Next]_vars

-----------------------------------------------------------------------------
(* Properties.                                                             *)

Quiet == ~crashed /\ Running = {}

\* No port was ever given another port as its peer: ports_to_ports, which is
\* never cleaned up, is empty.
OnlyIfaces == \A p \in Ports : ports_to_ports[p] = NoPeer

\* Between operations links are mutual: Port::connect and Port::unconnect
\* change both sides, unless the programs of the first side do not load.
PeerSymmetric ==
  Quiet /\ OnlyIfaces /\ failures = 0 => \A e, f \in Ends : link[e] = f => link[f] = e

\* Between operations a port that is up is linked to the peer it reports, and
\* that interface is in ports_to_ifaces, as long as every program loads.
PeerNamesLink ==
  Quiet /\ OnlyIfaces /\ failures = 0 =>
    \A p \in Ports : link[p] # NoPeer =>
                       /\ peer[p] = link[p]
                       /\ link[p] \in Netdevs => ifaces[link[p]] # "none"

\* No port or interface ever points to an object that was destroyed:
\* remove_port, ~Cube, detach and netlink_notification unlink before they
\* erase.  Only the half of a link that a failed relinking left is forgotten.
NoDangling == OnlyIfaces /\ failures = 0 => \A e \in Ends : link[e] # Dangling

\* No two ports are linked to one interface, whoever links, unlinks and
\* removes interfaces at the same time, as long as every program loads: a port
\* whose relinking threw keeps its end of the link.
IfaceExclusive ==
  failures = 0 => \A p, q \in Ports : link[p] \in Netdevs /\ link[p] = link[q] => p = q

\* Between operations no ExtIface is kept for nobody: set_port_peer, detach
\* and netlink_notification drop an interface nobody uses.  Only a link whose
\* program did not load or a refused attachment leaves one behind.
IfaceUsed ==
  Quiet /\ failures = 0 => \A n \in Netdevs :
             ifaces[n] # "none" => n \in iface_cubes \/ link[n] # NoPeer

\* When nobody is at work any more, however the operations overlapped, an
\* interface a port is linked to is linked back: set_port_peer unlinks the two
\* ends without service_ctrl_mutex_, and links them with it.
LinkedBackAtRest ==
  Quiet /\ failures = 0 => \A p \in Ports, n \in Netdevs : link[p] = n => link[n] = p

\* Then the port also reports that interface, and an interface is linked to no
\* port that is linked elsewhere or not at all.  A port whose interface was
\* erased while it was being linked points to nothing that lives.
LinksAgreeAtRest ==
  Quiet /\ failures = 0 => \A p \in Ports, n \in Netdevs :
    /\ link[p] = n => link[n] = p /\ peer[p] = n
    /\ link[n] = p => link[p] \in {n, Dangling}

\* Two ports are only ever linked when each of them was given a port as its
\* peer and the first one that one of them was ever given is the other:
\* ports_to_ports never changes, and set_port_peer looks only at the entry of
\* the other side.
LinkedFirstChoice ==
  \A p, q \in Ports : link[p] = q =>
    /\ ports_to_ports[p] \in Ports /\ ports_to_ports[q] \in Ports
    /\ ports_to_ports[p] = q \/ ports_to_ports[q] = p
=============================================================================
