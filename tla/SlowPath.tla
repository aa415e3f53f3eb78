------------------------------ MODULE SlowPath ------------------------------
(***************************************************************************)
(* How packets and log messages of the data plane reach the service that   *)
(* owns a cube, while cubes are created and destroyed: the callbacks by    *)
(* cube id of Controller (controller.cpp) and DatapathLog                  *)
(* (datapath_log.cpp), the ids (id_generator.cpp), the cube factory        *)
(* (cube_factory_impl.cpp) and the service side of a cube in libpolycube   *)
(* (cube.h, base_cube.cpp, transparent_cube.cpp).                          *)
(*                                                                         *)
(* The threads are one poller per hook, the poller of the log, and for     *)
(* every cube the worker that runs an operation on it.  A service object   *)
(* is destroyed in pieces: first the implementation (the derived class),   *)
(* then Cube or TransparentCube, which leaves the callback tables.  An     *)
(* implementation whose constructor throws goes without its destructor.    *)
(***************************************************************************)
EXTENDS Integers, Sequences, FiniteSets

CONSTANTS
  Cubes,        \* names of cubes
  CubeType,     \* CubeType[c]: the hook of c, "tc" or "xdp"
  Transparent,  \* the transparent cubes; the others have a port
  Dismounting,  \* the cubes whose implementation calls dismount() itself
  MaxIds,       \* the number of cube ids
  NoCube,       \* no entry in a callback table
  NoThread,     \* owner of a free mutex
  MaxEvents     \* bound: packets and log messages sent to the daemon

Hooks == {"tc", "xdp"}
Ids   == 0 .. MaxIds - 1

ASSUME CubesAssumption  == /\ CubeType \in [Cubes -> Hooks]
                           /\ Transparent \subseteq Cubes
                           /\ Dismounting \subseteq Cubes
                           /\ NoCube \notin Cubes
ASSUME BoundsAssumption == MaxIds \in Nat \ {0} /\ MaxEvents \in Nat
ASSUME ThreadAssumption == NoThread \notin Hooks \cup {"log", "worker"}

VARIABLES
  stage,       \* how far the object of each cube is built or destroyed
  id,          \* id_ of each cube
  elements,    \* elements_ of the id generator: the free ids
  dismounted,  \* dismounted_, and handle_log_msg is null
  port,        \* the port of a cube: known to the daemon ("half"), also to
               \* the service ("new", and "there" once configured), only to
               \* the service (being removed: "stale", or left by a failed
               \* add: "orphan"); a transparent cube is attached ("there")
               \* or not
  cbs,         \* Controller::cbs_, static: one table for both hooks
  log_cbs,     \* DatapathLog::cbs_
  cbs_mutex,   \* Controller::cbs_mutex_, static as well
  log_mutex,   \* DatapathLog::cbs_mutex_
  cube_mutex,  \* cube_mutex of every service object
  buffer,      \* the perf buffer of each hook: ids of the cubes
  log_buffer,  \* the perf buffer of log messages
  poller,      \* what the poller of each hook is doing, and for which cube
  logger,      \* the same for the log poller
  events,      \* history: packets and messages sent, up to MaxEvents
  crashed      \* the callback that took the daemon down, and its cube

objectVars   == <<stage, id, elements, dismounted, port>>
tableVars    == <<cbs, log_cbs>>
mutexVars    == <<cbs_mutex, log_mutex, cube_mutex>>
kernelVars   == <<buffer, log_buffer, events>>
pollerVars   == <<poller, logger>>
vars == <<objectVars, tableVars, mutexVars, kernelVars, pollerVars, crashed>>

Stages == {"absent", "built", "logged", "raw", "building", "live",
           "ending", "parted", "ended", "failed", "unmounted", "cleared", "deaf", "silent"}

Ports == {"none", "half", "new", "there", "stale", "orphan"}

Doing(pc, c) == [pc |-> pc, cube |-> c]
Idle    == Doing("idle", NoCube)
Healthy == Doing("no", NoCube)

\* Mutant of InitialElements: one id too many.
InitialElementsInclusive == 0 .. MaxIds

\* IDGenerator::IDGenerator
InitialElements == 0 .. MaxIds - 1

Init ==
  /\ stage = [c \in Cubes |-> "absent"]
  /\ id = [c \in Cubes |-> 0]
  /\ elements = InitialElements
  /\ dismounted = [c \in Cubes |-> FALSE]
  /\ port = [c \in Cubes |-> "none"]
  /\ cbs = [i \in Ids |-> NoCube]
  /\ log_cbs = [i \in Ids |-> NoCube]
  /\ cbs_mutex = NoThread /\ log_mutex = NoThread
  /\ cube_mutex = [c \in Cubes |-> NoThread]
  /\ buffer = [h \in Hooks |-> <<>>]
  /\ log_buffer = <<>>
  /\ poller = [h \in Hooks |-> Idle]
  /\ logger = Idle
  /\ events = 0
  /\ crashed = Healthy

Up == crashed = Healthy

\* The operation on c goes on from one stage to another.
Goes(c, from, to) ==
  /\ Up
  /\ stage[c] = from
  /\ stage' = [stage EXCEPT ![c] = to]

\* The implementation exists: its packet_in may run.
Implemented(c) == stage[c] \in {"building", "live", "ending", "parted"}

\* The handlers of c are set.
PacketHandler(c) == c # NoCube /\ stage[c] \notin {"cleared", "deaf", "silent"}
LogHandler(c)    == c # NoCube /\ ~dismounted[c]

-----------------------------------------------------------------------------
(* Ids and callback tables.                                                *)

\* IDGenerator::acquire, when it does not throw
Acquire == CHOOSE i \in elements : \A j \in elements : i <= j

\* cbs_.insert keeps an entry that is already there.
Inserted(f, i, c) == [f EXCEPT ![i] = IF @ = NoCube THEN c ELSE @]

Erased(f, i) == [f EXCEPT ![i] = NoCube]

-----------------------------------------------------------------------------
(* Creation: Cube or TransparentCube of the service sets its handlers and  *)
(* calls create_cube of the factory.                                       *)

BuildCube(c) ==
  /\ Goes(c, "absent", "built")
  /\ elements # {}
  /\ id' = [id EXCEPT ![c] = Acquire]
  /\ elements' = elements \ {Acquire}
  /\ dismounted' = [dismounted EXCEPT ![c] = FALSE]
  /\ UNCHANGED <<port, tableVars, mutexVars, kernelVars, pollerVars, crashed>>

RegisterLog(c) ==
  /\ Goes(c, "built", "logged")
  /\ log_mutex = NoThread
  /\ log_cbs' = Inserted(log_cbs, id[c], c)
  /\ UNCHANGED <<id, elements, dismounted, port, cbs, mutexVars, kernelVars,
                 pollerVars, crashed>>

RegisterPacketIn(c) ==
  /\ Goes(c, "logged", "raw")
  /\ cbs_mutex = NoThread
  /\ cbs' = Inserted(cbs, id[c], c)
  /\ UNCHANGED <<id, elements, dismounted, port, log_cbs, mutexVars, kernelVars,
                 pollerVars, crashed>>

\* The constructor of the implementation begins: packet_in is its own now.
Implement(c) ==
  /\ Goes(c, "raw", "building")
  /\ UNCHANGED <<id, elements, dismounted, port, tableVars, mutexVars, kernelVars,
                 pollerVars, crashed>>

\* It returns, or throws: then only Cube or TransparentCube is destroyed, and the
\* dismount() of the implementation is never called.
Constructed(c) ==
  /\ port[c] \in {"none", "there", "orphan"}
  /\ Goes(c, "building", "live") \/ Goes(c, "building", "failed")
  /\ UNCHANGED <<id, elements, dismounted, port, tableVars, mutexVars, kernelVars,
                 pollerVars, crashed>>

-----------------------------------------------------------------------------
(* Ports.  An implementation may remove its port while it is destroyed.    *)

PortChanges(c, from, to) ==
  /\ Up
  /\ Implemented(c) /\ port[c] = from
  /\ port' = [port EXCEPT ![c] = to]
  /\ UNCHANGED <<stage, id, elements, dismounted, tableVars, cbs_mutex, log_mutex,
                 kernelVars, pollerVars, crashed>>

\* Cube::add_port: in the daemon, then in ports_by_id_, without a lock.  What
\* throws in between removes the port from the daemon only.
AddPort(c) ==
  /\ c \notin Transparent
  /\ stage[c] \in {"building", "live"}
  /\ \/ PortChanges(c, "none", "half")
     \/ PortChanges(c, "half", "new") \/ PortChanges(c, "half", "none")
     \/ PortChanges(c, "new", "there") \/ PortChanges(c, "new", "orphan")
  /\ UNCHANGED cube_mutex

\* Mutant of RemovePort: the lock is not taken.
RemovePortUnlocked(c) ==
  /\ c \notin Transparent
  /\ stage[c] \in {"live", "ending"}
  /\ PortChanges(c, "there", "stale")
  /\ UNCHANGED cube_mutex

\* Cube::remove_port: "avoid deleting a port while processing a packet_in event"
RemovePort(c) ==
  /\ c \notin Transparent
  /\ stage[c] \in {"live", "ending"}
  /\ cube_mutex[c] = NoThread
  /\ PortChanges(c, "there", "stale")
  /\ cube_mutex' = [cube_mutex EXCEPT ![c] = "worker"]

\* Mutant of RemovePortErases: the lock is kept.
RemovePortKeepsLock(c) ==
  /\ PortChanges(c, "stale", "none")
  /\ UNCHANGED cube_mutex

RemovePortErases(c) ==
  /\ PortChanges(c, "stale", "none")
  /\ cube_mutex' = [cube_mutex EXCEPT ![c] = NoThread]

\* A transparent cube is attached to or detached from its parent.
Attach(c) ==
  /\ c \in Transparent
  /\ stage[c] \in {"building", "live"}
  /\ PortChanges(c, "none", "there") \/ PortChanges(c, "there", "none")
  /\ UNCHANGED cube_mutex

-----------------------------------------------------------------------------
(* Destruction of the service object, from the derived class upwards.      *)

DestroyCube(c) ==
  /\ Goes(c, "live", "ending")
  /\ port[c] \in {"none", "there", "orphan"}
  /\ UNCHANGED <<id, elements, dismounted, port, tableVars, mutexVars, kernelVars,
                 pollerVars, crashed>>

\* Mutant of Dismount: the flag is not set.
DismountForgets(c) ==
  /\ cube_mutex[c] = NoThread
  /\ \/ c \in Dismounting /\ Goes(c, "ending", "parted")
     \/ Goes(c, "ended", "unmounted") \/ Goes(c, "failed", "unmounted")
  /\ UNCHANGED <<id, elements, dismounted, port, tableVars, mutexVars, kernelVars,
                 pollerVars, crashed>>

\* BaseCube::dismount, called by some implementations at the end of their
\* destructor and in any case by ~Cube and ~TransparentCube.
Dismount(c) ==
  /\ cube_mutex[c] = NoThread
  /\ \/ c \in Dismounting /\ Goes(c, "ending", "parted")
     \/ Goes(c, "ended", "unmounted") \/ Goes(c, "failed", "unmounted")
  /\ dismounted' = [dismounted EXCEPT ![c] = TRUE]
  /\ UNCHANGED <<id, elements, port, tableVars, mutexVars, kernelVars, pollerVars,
                 crashed>>

\* The destructor of the implementation returns.
EndImplementation(c) ==
  /\ port[c] # "stale"
  /\ IF c \in Dismounting THEN Goes(c, "parted", "ended") ELSE Goes(c, "ending", "ended")
  /\ UNCHANGED <<id, elements, dismounted, port, tableVars, mutexVars, kernelVars,
                 pollerVars, crashed>>

\* handle_packet_in = nullptr; the table still refers to it.
ClearHandler(c) ==
  /\ Goes(c, "unmounted", "cleared")
  /\ UNCHANGED <<id, elements, dismounted, port, tableVars, mutexVars, kernelVars,
                 pollerVars, crashed>>

\* Mutant of UnregisterPacketIn: a callback that runs is not waited for.
UnregisterPacketInUnlocked(c) ==
  /\ Goes(c, "cleared", "deaf")
  /\ cbs' = Erased(cbs, id[c])
  /\ UNCHANGED <<id, elements, dismounted, port, log_cbs, mutexVars, kernelVars,
                 pollerVars, crashed>>

UnregisterPacketIn(c) ==
  /\ Goes(c, "cleared", "deaf")
  /\ cbs_mutex = NoThread
  /\ cbs' = Erased(cbs, id[c])
  /\ UNCHANGED <<id, elements, dismounted, port, log_cbs, mutexVars, kernelVars,
                 pollerVars, crashed>>

\* Mutant of UnregisterLog: the entry stays.
UnregisterLogForgotten(c) ==
  /\ Goes(c, "deaf", "silent")
  /\ UNCHANGED <<id, elements, dismounted, port, tableVars, mutexVars, kernelVars,
                 pollerVars, crashed>>

UnregisterLog(c) ==
  /\ Goes(c, "deaf", "silent")
  /\ log_mutex = NoThread
  /\ log_cbs' = Erased(log_cbs, id[c])
  /\ UNCHANGED <<id, elements, dismounted, port, cbs, mutexVars, kernelVars,
                 pollerVars, crashed>>

\* The factory drops the cube, the object lets go of the last reference and is
\* freed: the programs are unloaded and the id is released.
FreeCube(c) ==
  /\ Goes(c, "silent", "absent")
  /\ elements' = elements \cup {id[c]}
  /\ port' = [port EXCEPT ![c] = "none"]
  /\ UNCHANGED <<id, dismounted, tableVars, mutexVars, kernelVars, pollerVars, crashed>>

-----------------------------------------------------------------------------
(* The data plane of a cube with traffic.                                  *)

Traffic(c) ==
  /\ Up
  /\ port[c] \in {"half", "new", "there"}
  /\ events < MaxEvents
  /\ events' = events + 1
  /\ UNCHANGED <<objectVars, tableVars, mutexVars, pollerVars, crashed>>

\* pcn_pkt_controller
SendsPacket(c) ==
  /\ Traffic(c)
  /\ buffer' = [buffer EXCEPT ![CubeType[c]] = Append(@, id[c])]
  /\ UNCHANGED log_buffer

\* pcn_log
SendsLog(c) ==
  /\ Traffic(c)
  /\ log_buffer' = Append(log_buffer, id[c])
  /\ UNCHANGED buffer

-----------------------------------------------------------------------------
(* Controller::call_back_proxy and the handler of the service.             *)

\* The callback is over: both locks are released and the packet is gone.
Over(h, c) ==
  /\ poller' = [poller EXCEPT ![h] = Idle]
  /\ buffer' = [buffer EXCEPT ![h] = Tail(@)]
  /\ cbs_mutex' = NoThread
  /\ cube_mutex' = IF c = NoCube THEN cube_mutex
                   ELSE [cube_mutex EXCEPT ![c] = NoThread]

\* cbs_.at(id) and the copy of the handler, with the mutex.  An unknown id and
\* an empty handler throw; the exception is logged.
CallBackProxy(h) ==
  /\ Up
  /\ poller[h] = Idle /\ buffer[h] # <<>> /\ cbs_mutex = NoThread
  /\ LET c == cbs[Head(buffer[h])]
     IN \/ /\ ~PacketHandler(c)
           /\ Over(h, NoCube)
        \/ /\ PacketHandler(c)
           /\ poller' = [poller EXCEPT ![h] = Doing("called", c)]
           /\ cbs_mutex' = h
           /\ UNCHANGED <<buffer, cube_mutex>>
  /\ UNCHANGED <<objectVars, tableVars, log_mutex, log_buffer, events, logger, crashed>>

\* ports_by_id_.at(md->port_id) finds the port.
Finds(c) == c \in Transparent \/ port[c] \in {"new", "there", "stale", "orphan"}

\* The handler takes the cube's mutex, and returns, throws, or calls packet_in,
\* which is a pure virtual function when the implementation is not there.
HandlePacketIn(h) ==
  LET c == poller[h].cube
  IN /\ Up
     /\ poller[h].pc = "called" /\ cube_mutex[c] = NoThread
     /\ \/ /\ dismounted[c] \/ ~Finds(c)
           /\ Over(h, NoCube)
           /\ UNCHANGED crashed
        \/ /\ ~dismounted[c] /\ Finds(c) /\ Implemented(c)
           /\ poller' = [poller EXCEPT ![h] = Doing("running", c)]
           /\ cube_mutex' = [cube_mutex EXCEPT ![c] = h]
           /\ UNCHANGED <<buffer, cbs_mutex, crashed>>
        \/ /\ ~dismounted[c] /\ Finds(c) /\ ~Implemented(c)
           /\ crashed' = Doing("packet_in", c)
           /\ UNCHANGED <<poller, buffer, cbs_mutex, cube_mutex>>
     /\ UNCHANGED <<objectVars, tableVars, log_mutex, log_buffer, events, logger>>

PacketInReturns(h) ==
  /\ Up
  /\ poller[h].pc = "running"
  /\ Over(h, poller[h].cube)
  /\ UNCHANGED <<objectVars, tableVars, log_mutex, log_buffer, events, logger, crashed>>

\* DatapathLog::call_back_proxy: nothing catches what an empty handler throws.
LogProxy ==
  /\ Up
  /\ logger = Idle /\ log_buffer # <<>> /\ log_mutex = NoThread
  /\ LET c == log_cbs[Head(log_buffer)]
     IN \/ /\ c = NoCube
           /\ log_buffer' = Tail(log_buffer)
           /\ UNCHANGED <<logger, log_mutex, crashed>>
        \/ /\ LogHandler(c)
           /\ logger' = Doing("called", c)
           /\ log_mutex' = "log"
           /\ UNCHANGED <<log_buffer, crashed>>
        \/ /\ c # NoCube /\ ~LogHandler(c)
           /\ crashed' = Doing("log", c)
           /\ UNCHANGED <<logger, log_mutex, log_buffer>>
  /\ UNCHANGED <<objectVars, tableVars, cbs_mutex, cube_mutex, buffer, events, poller>>

\* BaseCube::datapath_log_msg
LogReturns ==
  /\ Up
  /\ logger.pc = "called"
  /\ logger' = Idle
  /\ log_mutex' = NoThread
  /\ log_buffer' = Tail(log_buffer)
  /\ UNCHANGED <<objectVars, tableVars, cbs_mutex, cube_mutex, buffer, events, poller,
                 crashed>>

-----------------------------------------------------------------------------
\* What the worker of c does once it has begun.
Worker(c) ==
  \/ RegisterLog(c) \/ RegisterPacketIn(c) \/ Implement(c) \/ Constructed(c)
  \/ RemovePortErases(c)
  \/ Dismount(c) \/ EndImplementation(c) \/ ClearHandler(c)
  \/ UnregisterPacketIn(c) \/ UnregisterLog(c) \/ FreeCube(c)

Request(c) ==
  BuildCube(c) \/ AddPort(c) \/ RemovePort(c) \/ Attach(c) \/ DestroyCube(c)

Poller(h) == CallBackProxy(h) \/ HandlePacketIn(h) \/ PacketInReturns(h)

LogPoller == LogProxy \/ LogReturns

Next ==
  \/ \E c \in Cubes : Worker(c) \/ Request(c) \/ SendsPacket(c) \/ SendsLog(c)
  \/ \E h \in Hooks : Poller(h)
  \/ LogPoller

Spec == Init /\ [][Next]_vars

\* Threads are scheduled, packet_in of a service returns, and a poller that
\* waits for the mutex of a cube gets it in between two operations on the cube.
FairSpec ==
  /\ Spec
  /\ \A c \in Cubes : WF_vars(Worker(c))
  /\ \A h \in Hooks : SF_vars(Poller(h))
  /\ WF_vars(LogPoller)

-----------------------------------------------------------------------------
(* Properties.                                                             *)

\* Types of the state.
TypeOK ==
  /\ stage \in [Cubes -> Stages] /\ id \in [Cubes -> Ids] /\ elements \subseteq Ids
  /\ dismounted \in [Cubes -> BOOLEAN] /\ port \in [Cubes -> Ports]
  /\ cbs \in [Ids -> Cubes \cup {NoCube}] /\ log_cbs \in [Ids -> Cubes \cup {NoCube}]
  /\ cbs_mutex \in Hooks \cup {NoThread} /\ log_mutex \in {"log", NoThread}
  /\ cube_mutex \in [Cubes -> Hooks \cup {"worker", NoThread}]
  /\ buffer \in [Hooks -> Seq(Ids)] /\ log_buffer \in Seq(Ids)
  /\ poller \in [Hooks -> [pc : {"idle", "called", "running"}, cube : Cubes \cup {NoCube}]]
  /\ logger \in [pc : {"idle", "called"}, cube : Cubes \cup {NoCube}]
  /\ events \in 0 .. MaxEvents
  /\ crashed \in [pc : {"no", "packet_in", "log"}, cube : Cubes \cup {NoCube}]

\* The callback tables hold references to handlers inside service objects:
\* every entry is of an object that exists and has the id of the entry, and no
\* such id is free or used twice.
CallbacksOfCubes ==
  /\ \A i \in Ids : \A c \in {cbs[i], log_cbs[i]} \ {NoCube} :
       stage[c] # "absent" /\ id[c] = i
  /\ \A c, d \in Cubes : stage[c] # "absent" =>
       /\ id[c] \notin elements
       /\ stage[d] # "absent" /\ id[c] = id[d] => c = d

\* A callback that is under way keeps its object: unregister_cb waits for it,
\* so neither the packet handler nor the log handler is freed while it runs.
CallbackKeepsObject ==
  /\ \A h \in Hooks : poller[h].pc # "idle"
       => stage[poller[h].cube] \notin {"absent", "deaf", "silent"}
  /\ logger.pc # "idle" => stage[logger.cube] \notin {"absent", "silent"}

\* "port is not deleted while processing it": the port packet_in was called
\* with is in ports_by_id_ and no remove_port works on it.
PortNotDeleted ==
  \A h \in Hooks : poller[h].pc = "running" /\ poller[h].cube \notin Transparent
    => port[poller[h].cube] \in {"new", "there", "orphan"}

\* "service implementation is not deleted wile processing it": as long as
\* packet_in runs, and for a service that dismounts itself; not for one whose
\* constructor threw, nor for a transparent one whose constructor has not begun.
DismountProtects ==
  /\ \A h \in Hooks : poller[h].pc = "running" /\ poller[h].cube \in Dismounting
       => Implemented(poller[h].cube) \/ stage[poller[h].cube] = "failed"
  /\ crashed.pc = "packet_in" /\ crashed.cube \in Dismounting
       => \/ stage[crashed.cube] = "raw" /\ crashed.cube \in Transparent
          \/ stage[crashed.cube] = "failed"

\* Locks are taken in one order, so a destruction that was begun ends, also that
\* of a service whose constructor threw, unless the daemon dies.
DestructionEnds ==
  \A c \in Cubes : stage[c] \in {"ending", "failed"} ~> stage[c] = "absent" \/ ~Up
=============================================================================
