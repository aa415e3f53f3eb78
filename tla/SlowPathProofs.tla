--------------------------- MODULE SlowPathProofs ---------------------------
(***************************************************************************)
(* Proofs about SlowPath, for any number of cubes, ids, packets and log    *)
(* messages: types, the owners of ids and callbacks, the life of an object *)
(* and of a port whose callback runs, and what dismount() protects.        *)
(***************************************************************************)
EXTENDS SlowPath, TLAPS, SequenceTheorems, WellFoundedInduction

(* The inductive invariant.                                                *)

\* The stages of a cube that may be in cbs_, and in the table of the log.
PacketStages == {"raw", "building", "live", "ending", "parted", "ended", "failed",
                 "unmounted", "cleared"}
LogStages    == PacketStages \cup {"logged", "deaf"}

\* The ids of the cubes that exist are taken, each by one cube.
IdsOwned ==
  \A c, d \in Cubes : stage[c] # "absent" =>
    /\ id[c] \notin elements
    /\ stage[d] # "absent" /\ id[c] = id[d] => c = d

\* An entry of a table is of a cube that was registered under its id.
TablesOK ==
  \A i \in Ids :
    /\ cbs[i] # NoCube => id[cbs[i]] = i /\ stage[cbs[i]] \in PacketStages
    /\ log_cbs[i] # NoCube => id[log_cbs[i]] = i /\ stage[log_cbs[i]] \in LogStages

\* A callback runs with the mutex of its table, and packet_in with the one of
\* its cube too.
CallbacksLock ==
  /\ \A h \in Hooks : poller[h].pc # "idle" =>
       /\ cbs_mutex = h
       /\ poller[h].cube \in Cubes
       /\ stage[poller[h].cube] \in PacketStages
       /\ poller[h].pc = "running" => cube_mutex[poller[h].cube] = h
  /\ logger.pc # "idle" =>
       /\ log_mutex = "log"
       /\ logger.cube \in Cubes
       /\ stage[logger.cube] \in LogStages

\* remove_port holds the mutex of the cube; a cube without implementation has
\* no port.
PortsLock ==
  \A c \in Cubes :
    /\ port[c] = "stale" => cube_mutex[c] = "worker"
    /\ stage[c] \in {"absent", "built", "logged", "raw"} => port[c] = "none"

\* The implementation of a service that dismounts itself ends dismounted, unless
\* its constructor threw, and packet_in runs only before.
UndismountedStages == {"building", "live", "ending", "failed"}

DismountedFirst ==
  /\ \A c \in Dismounting :
       stage[c] \in Stages \ ({"absent", "built", "logged", "raw"} \cup UndismountedStages)
         => dismounted[c]
  /\ \A h \in Hooks : poller[h].pc = "running" /\ poller[h].cube \in Dismounting
       => stage[poller[h].cube] \in UndismountedStages
  /\ crashed.pc = "packet_in" /\ crashed.cube \in Dismounting
       => \/ stage[crashed.cube] = "raw" /\ crashed.cube \in Transparent
          \/ stage[crashed.cube] = "failed"

\* The event a callback works on is still in its buffer.
EventKept ==
  /\ \A h \in Hooks : poller[h].pc # "idle" => buffer[h] # <<>>
  /\ logger.pc # "idle" => log_buffer # <<>>

Inv ==
  /\ TypeOK /\ EventKept /\ IdsOwned /\ TablesOK /\ CallbacksLock
  /\ PortsLock /\ PortNotDeleted /\ DismountedFirst

-----------------------------------------------------------------------------
(* Operators.                                                              *)

\* IDGenerator::acquire takes one of the free ids.
LEMMA AcquireIsFree ==
  ASSUME TypeOK, elements # {}
  PROVE  Acquire \in elements /\ Acquire \in Ids
<1>0. elements \subseteq Nat /\ elements \subseteq Ids
  BY BoundsAssumption DEF TypeOK, Ids
<1> DEFINE R == OpToRel(<, Nat)
<1>1. IsWellFoundedOn(R, Nat)
  BY NatLessThanWellFounded
<1> HIDE DEF R
<1>2. PICK x \in elements : \A y \in elements : ~(<<y, x>> \in R)
  BY <1>0, <1>1, WFMin
<1>3. \A y \in elements : x <= y
  <2> SUFFICES ASSUME NEW y \in elements PROVE x <= y
    OBVIOUS
  <2>1. x \in Nat /\ y \in Nat /\ ~(<<y, x>> \in R)
    BY <1>0, <1>2
  <2>2. ~(y < x)
    BY <2>1 DEF R, OpToRel
  <2> QED BY <2>1, <2>2
<1> QED BY <1>0, <1>3 DEF Acquire

\* The records of the pollers.
LEMMA DoingType ==
  ASSUME NEW pc, NEW c
  PROVE  Doing(pc, c).pc = pc /\ Doing(pc, c).cube = c
BY DEF Doing

-----------------------------------------------------------------------------
(* Types.                                                                  *)

\* Creating and destroying a cube keeps the types.
LEMMA LifeTypes ==
  ASSUME TypeOK, NEW c \in Cubes,
         Worker(c) \/ Request(c)
  PROVE  TypeOK'
<1> USE CubesAssumption DEF TypeOK, Goes, objectVars, tableVars, mutexVars, kernelVars,
        pollerVars, Stages
<1>1. CASE BuildCube(c)
  <2>1. Acquire \in Ids
    BY <1>1, AcquireIsFree DEF BuildCube
  <2> QED BY <1>1, <2>1 DEF BuildCube
<1>2. CASE RegisterLog(c) \/ RegisterPacketIn(c) \/ UnregisterPacketIn(c) \/ UnregisterLog(c)
  <2>1. id[c] \in Ids
    OBVIOUS
  <2>2. ASSUME NEW f \in [Ids -> Cubes \cup {NoCube}]
        PROVE  /\ Inserted(f, id[c], c) \in [Ids -> Cubes \cup {NoCube}]
               /\ Erased(f, id[c]) \in [Ids -> Cubes \cup {NoCube}]
    BY <2>1 DEF Inserted, Erased
  <2>3. CASE RegisterLog(c)
    BY <2>2, <2>3 DEF RegisterLog
  <2>4. CASE RegisterPacketIn(c)
    BY <2>2, <2>4 DEF RegisterPacketIn
  <2>5. CASE UnregisterPacketIn(c)
    BY <2>2, <2>5 DEF UnregisterPacketIn
  <2>6. CASE UnregisterLog(c)
    BY <2>2, <2>6 DEF UnregisterLog
  <2> QED BY <1>2, <2>3, <2>4, <2>5, <2>6
<1>3. CASE Implement(c) \/ Constructed(c) \/ DestroyCube(c) \/ EndImplementation(c) \/ ClearHandler(c)
  BY <1>3 DEF Implement, Constructed, DestroyCube, EndImplementation, ClearHandler
<1>4. CASE Dismount(c)
  BY <1>4 DEF Dismount
<1>5. CASE FreeCube(c)
  BY <1>5 DEF FreeCube, Ports
<1>6. CASE AddPort(c) \/ RemovePort(c) \/ RemovePortErases(c) \/ Attach(c)
  <2>1. port' \in [Cubes -> Ports]
    <3>1. ASSUME NEW from, NEW to \in Ports, PortChanges(c, from, to)
          PROVE  port' \in [Cubes -> Ports]
      BY <3>1 DEF PortChanges
    <3> QED BY <1>6, <3>1 DEF AddPort, RemovePort, RemovePortErases, Attach, Ports
  <2>2. cube_mutex' \in [Cubes -> Hooks \cup {"worker", NoThread}]
    <3>1. \/ cube_mutex' = cube_mutex
          \/ cube_mutex' = [cube_mutex EXCEPT ![c] = "worker"]
          \/ cube_mutex' = [cube_mutex EXCEPT ![c] = NoThread]
      BY <1>6 DEF AddPort, RemovePort, RemovePortErases, Attach
    <3> QED BY <3>1
  <2>3. UNCHANGED <<stage, id, elements, dismounted, tableVars, cbs_mutex, log_mutex,
                    kernelVars, pollerVars, crashed>>
    BY <1>6 DEF AddPort, RemovePort, RemovePortErases, Attach, PortChanges
  <2> QED BY <2>1, <2>2, <2>3
<1> QED BY <1>1, <1>2, <1>3, <1>4, <1>5, <1>6 DEF Worker, Request

\* Sending to the daemon keeps the types.
LEMMA TrafficTypes ==
  ASSUME TypeOK, NEW c \in Cubes, SendsPacket(c) \/ SendsLog(c)
  PROVE  TypeOK'
<1>0. /\ id[c] \in Ids /\ CubeType[c] \in Hooks
      /\ log_buffer \in Seq(Ids) /\ buffer \in [Hooks -> Seq(Ids)]
  BY CubesAssumption DEF TypeOK
<1>1. buffer' \in [Hooks -> Seq(Ids)] /\ log_buffer' \in Seq(Ids)
  <2>1. Append(log_buffer, id[c]) \in Seq(Ids)
    BY <1>0, AppendProperties
  <2>2. Append(buffer[CubeType[c]], id[c]) \in Seq(Ids)
    BY <1>0, AppendProperties
  <2>3. CASE SendsPacket(c)
    BY <1>0, <2>2, <2>3 DEF SendsPacket
  <2>4. CASE SendsLog(c)
    BY <1>0, <2>1, <2>4 DEF SendsLog
  <2> QED BY <2>3, <2>4
<1>2. events' \in 0 .. MaxEvents
  BY BoundsAssumption DEF TypeOK, SendsPacket, SendsLog, Traffic
<1>3. UNCHANGED <<stage, id, elements, dismounted, port, cbs, log_cbs, cbs_mutex,
                  log_mutex, cube_mutex, poller, logger, crashed>>
  BY DEF SendsPacket, SendsLog, Traffic, objectVars, tableVars, mutexVars, pollerVars
<1> QED BY <1>1, <1>2, <1>3 DEF TypeOK

\* What a poller may be doing, and the types of what pollers write.
PollerStates == [pc : {"idle", "called", "running"}, cube : Cubes \cup {NoCube}]
Crashes      == [pc : {"no", "packet_in", "log"}, cube : Cubes \cup {NoCube}]
PollerKept   == /\ poller \in [Hooks -> PollerStates]
                /\ buffer \in [Hooks -> Seq(Ids)]
                /\ cbs_mutex \in Hooks \cup {NoThread}
                /\ cube_mutex \in [Cubes -> Hooks \cup {"worker", NoThread}]

\* The end of a callback keeps the types.
LEMMA OverTypes ==
  ASSUME TypeOK, NEW h \in Hooks, NEW c \in Cubes \cup {NoCube}, Over(h, c),
         buffer[h] # <<>>
  PROVE  PollerKept'
<1>1. buffer \in [Hooks -> Seq(Ids)] /\ buffer[h] \in Seq(Ids)
  BY DEF TypeOK
<1>2. Tail(buffer[h]) \in Seq(Ids)
  BY <1>1, HeadTailProperties
<1>3. buffer' \in [Hooks -> Seq(Ids)]
  BY <1>1, <1>2 DEF Over
<1>4. Idle \in PollerStates
  BY DEF PollerStates, Idle, Doing
<1>5. poller' \in [Hooks -> PollerStates]
  BY <1>4 DEF TypeOK, Over, PollerStates
<1>6. /\ cbs_mutex' \in Hooks \cup {NoThread}
      /\ cube_mutex' \in [Cubes -> Hooks \cup {"worker", NoThread}]
  BY DEF TypeOK, Over
<1> QED BY <1>3, <1>5, <1>6 DEF PollerKept

\* The pollers keep the types.
LEMMA PollerTypes ==
  ASSUME TypeOK, EventKept, NEW h \in Hooks, Poller(h)
  PROVE  TypeOK'
<1>0. /\ poller \in [Hooks -> PollerStates]
      /\ poller[h].cube \in Cubes \cup {NoCube} /\ NoCube \in Cubes \cup {NoCube}
      /\ cbs \in [Ids -> Cubes \cup {NoCube}]
      /\ buffer[h] \in Seq(Ids)
      /\ PollerKept /\ crashed \in Crashes
  BY DEF TypeOK, PollerStates, PollerKept, Crashes
<1>1. PollerKept' /\ crashed' \in Crashes
  <2>1. CASE CallBackProxy(h)
    <3> DEFINE c == cbs[Head(buffer[h])]
    <3>1. buffer[h] # <<>> /\ UNCHANGED crashed
      BY <2>1 DEF CallBackProxy
    <3>2. Head(buffer[h]) \in Ids
      BY <1>0, <3>1, HeadTailProperties
    <3>3. Doing("called", c) \in PollerStates
      BY <1>0, <3>2 DEF Doing, PollerStates
    <3>4. CASE Over(h, NoCube)
      BY <1>0, <3>1, <3>4, OverTypes
    <3>5. ASSUME poller' = [poller EXCEPT ![h] = Doing("called", c)],
                 cbs_mutex' = h, UNCHANGED <<buffer, cube_mutex>>
          PROVE  PollerKept'
      BY <1>0, <3>3, <3>5 DEF PollerKept
    <3> QED BY <1>0, <2>1, <3>1, <3>4, <3>5 DEF CallBackProxy
  <2>2. CASE HandlePacketIn(h)
    <3> DEFINE c == poller[h].cube
    <3>1. buffer[h] # <<>>
      BY <2>2 DEF HandlePacketIn, EventKept
    <3>2. ASSUME Over(h, NoCube), UNCHANGED crashed PROVE PollerKept' /\ crashed' \in Crashes
      BY <1>0, <3>1, <3>2, OverTypes
    <3>3. ASSUME poller' = [poller EXCEPT ![h] = Doing("running", c)],
                 cube_mutex' = [cube_mutex EXCEPT ![c] = h],
                 UNCHANGED <<buffer, cbs_mutex, crashed>>
          PROVE  PollerKept' /\ crashed' \in Crashes
      <4>1. Doing("running", c) \in PollerStates
        BY <1>0 DEF Doing, PollerStates
      <4> QED BY <1>0, <3>3, <4>1 DEF PollerKept
    <3>4. ASSUME crashed' = Doing("packet_in", c),
                 UNCHANGED <<poller, buffer, cbs_mutex, cube_mutex>>
          PROVE  PollerKept' /\ crashed' \in Crashes
      <4>1. Doing("packet_in", c) \in Crashes
        BY <1>0 DEF Doing, Crashes
      <4> QED BY <1>0, <3>4, <4>1 DEF PollerKept
    <3> QED BY <2>2, <3>2, <3>3, <3>4 DEF HandlePacketIn
  <2>3. CASE PacketInReturns(h)
    <3>1. buffer[h] # <<>> /\ UNCHANGED crashed
      BY <2>3 DEF PacketInReturns, EventKept
    <3> QED BY <1>0, <2>3, <3>1, OverTypes DEF PacketInReturns
  <2> QED BY <2>1, <2>2, <2>3 DEF Poller
<1>2. UNCHANGED <<objectVars, tableVars, log_mutex, log_buffer, events, logger>>
  BY DEF Poller, CallBackProxy, HandlePacketIn, PacketInReturns
<1> QED BY <1>1, <1>2 DEF TypeOK, PollerKept, PollerStates, Crashes, objectVars, tableVars

\* The poller of the log keeps the types.
LEMMA LogTypes ==
  ASSUME TypeOK, EventKept, LogPoller
  PROVE  TypeOK'
<1>0. /\ log_buffer \in Seq(Ids) /\ log_buffer # <<>>
      /\ log_cbs \in [Ids -> Cubes \cup {NoCube}]
  BY DEF TypeOK, LogPoller, LogProxy, LogReturns, EventKept
<1>1. Head(log_buffer) \in Ids /\ Tail(log_buffer) \in Seq(Ids)
  BY <1>0, HeadTailProperties
<1> DEFINE c == log_cbs[Head(log_buffer)]
<1>2. c \in Cubes \cup {NoCube}
  BY <1>0, <1>1
<1>3. log_buffer' \in Seq(Ids)
  BY <1>0, <1>1 DEF LogPoller, LogProxy, LogReturns
<1>4. /\ logger' \in [pc : {"idle", "called"}, cube : Cubes \cup {NoCube}]
      /\ log_mutex' \in {"log", NoThread}
      /\ crashed' \in [pc : {"no", "packet_in", "log"}, cube : Cubes \cup {NoCube}]
  BY <1>2 DEF LogPoller, LogProxy, LogReturns, TypeOK, Idle, Doing
<1> QED BY <1>3, <1>4 DEF LogPoller, LogProxy, LogReturns, TypeOK, objectVars, tableVars

\* Every step keeps the types.
LEMMA TypeStep == TypeOK /\ EventKept /\ [Next]_vars => TypeOK'
<1> SUFFICES ASSUME TypeOK, EventKept, [Next]_vars PROVE TypeOK'
  OBVIOUS
<1>1. CASE UNCHANGED vars
  BY <1>1 DEF vars, TypeOK, objectVars, tableVars, mutexVars, kernelVars, pollerVars
<1> QED BY <1>1, LifeTypes, TrafficTypes, PollerTypes, LogTypes DEF Next

-----------------------------------------------------------------------------
(* What each thread leaves alone.                                          *)

\* A worker touches neither the pollers, their buffers nor their mutexes.
LEMMA WorkerFrame ==
  ASSUME NEW c \in Cubes, Worker(c) \/ Request(c)
  PROVE  /\ UNCHANGED <<buffer, log_buffer, events, poller, logger, cbs_mutex, log_mutex,
                        crashed>>
         /\ Up
<1> USE DEF Goes, objectVars, tableVars, mutexVars, kernelVars, pollerVars
<1>1. CASE AddPort(c) \/ RemovePort(c) \/ RemovePortErases(c) \/ Attach(c)
  BY <1>1 DEF AddPort, RemovePort, RemovePortErases, Attach, PortChanges
<1>2. CASE BuildCube(c) \/ RegisterLog(c) \/ RegisterPacketIn(c) \/ Implement(c) \/ Constructed(c) \/ DestroyCube(c)
  BY <1>2 DEF BuildCube, RegisterLog, RegisterPacketIn, Implement, Constructed, DestroyCube
<1>3. CASE Dismount(c) \/ EndImplementation(c) \/ ClearHandler(c) \/ UnregisterPacketIn(c)
             \/ UnregisterLog(c) \/ FreeCube(c)
  BY <1>3 DEF Dismount, EndImplementation, ClearHandler, UnregisterPacketIn, UnregisterLog,
              FreeCube
<1> QED BY <1>1, <1>2, <1>3 DEF Worker, Request

\* The data plane only fills the buffers.
LEMMA TrafficFrame ==
  ASSUME NEW c \in Cubes, SendsPacket(c) \/ SendsLog(c)
  PROVE  UNCHANGED <<stage, id, elements, dismounted, port, cbs, log_cbs, cbs_mutex,
                     log_mutex, cube_mutex, poller, logger, crashed>>
BY DEF SendsPacket, SendsLog, Traffic, objectVars, tableVars, mutexVars, pollerVars

\* A poller touches neither objects nor tables nor the log.
LEMMA PollerFrame ==
  ASSUME NEW h \in Hooks, Poller(h)
  PROVE  UNCHANGED <<stage, id, elements, dismounted, port, cbs, log_cbs, log_mutex,
                     log_buffer, events, logger>>
BY DEF Poller, CallBackProxy, HandlePacketIn, PacketInReturns, objectVars, tableVars

\* Nor does the one of the log.
LEMMA LogFrame ==
  ASSUME LogPoller
  PROVE  UNCHANGED <<stage, id, elements, dismounted, port, cbs, log_cbs, cbs_mutex,
                     cube_mutex, buffer, events, poller>>
BY DEF LogPoller, LogProxy, LogReturns, objectVars, tableVars

\* A stuttering step changes nothing.
LEMMA StutterFrame ==
  ASSUME UNCHANGED vars
  PROVE  UNCHANGED <<stage, id, elements, dismounted, port, cbs, log_cbs, cbs_mutex,
                     log_mutex, cube_mutex, buffer, log_buffer, events, poller, logger,
                     crashed>>
BY DEF vars, objectVars, tableVars, mutexVars, kernelVars, pollerVars

\* Once the daemon is down only stuttering is left.
LEMMA DownStutters ==
  ASSUME ~Up, Next
  PROVE  FALSE
<1>1. ASSUME NEW h \in Hooks, Poller(h) PROVE FALSE
  BY <1>1 DEF Poller, CallBackProxy, HandlePacketIn, PacketInReturns
<1>2. ASSUME NEW c \in Cubes, SendsPacket(c) \/ SendsLog(c) PROVE FALSE
  BY <1>2 DEF SendsPacket, SendsLog, Traffic
<1>3. ASSUME LogPoller PROVE FALSE
  BY <1>3 DEF LogPoller, LogProxy, LogReturns
<1> QED BY <1>1, <1>2, <1>3, WorkerFrame DEF Next

-----------------------------------------------------------------------------
(* The life of an object.                                                  *)

\* A cube moves on inside the stages in which it may be registered, keeping its
\* id; only the two unregister calls, with the mutex free, end them.
LEMMA WorkerStages ==
  ASSUME TypeOK, NEW c \in Cubes, Worker(c) \/ Request(c), NEW d \in Cubes
  PROVE  /\ stage[d] \in LogStages => id'[d] = id[d]
         /\ stage[d] \in PacketStages =>
              stage'[d] \in PacketStages \/ (d = c /\ UnregisterPacketIn(c))
         /\ stage[d] \in LogStages =>
              stage'[d] \in LogStages \/ (d = c /\ UnregisterLog(c))
<1> USE DEF TypeOK, Goes, PacketStages, LogStages, objectVars
<1>1. CASE AddPort(c) \/ RemovePort(c) \/ RemovePortErases(c) \/ Attach(c)
  BY <1>1 DEF AddPort, RemovePort, RemovePortErases, Attach, PortChanges
<1>2. CASE BuildCube(c)
  BY <1>2 DEF BuildCube
<1>3. CASE RegisterLog(c) \/ RegisterPacketIn(c) \/ Implement(c) \/ Constructed(c) \/ DestroyCube(c)
  BY <1>3 DEF RegisterLog, RegisterPacketIn, Implement, Constructed, DestroyCube
<1>4. CASE Dismount(c) \/ EndImplementation(c) \/ ClearHandler(c)
  BY <1>4 DEF Dismount, EndImplementation, ClearHandler
<1>5. CASE UnregisterPacketIn(c) \/ UnregisterLog(c)
  BY <1>5 DEF UnregisterPacketIn, UnregisterLog
<1>6. CASE FreeCube(c)
  BY <1>6 DEF FreeCube
<1> QED BY <1>1, <1>2, <1>3, <1>4, <1>5, <1>6 DEF Worker, Request

-----------------------------------------------------------------------------
(* The conjuncts of the invariant.                                         *)

\* What the end of a callback does.
LEMMA OverFacts ==
  ASSUME TypeOK, NEW h \in Hooks, NEW c, Over(h, c)
  PROVE  /\ poller'[h].pc = "idle"
         /\ \A g \in Hooks \ {h} : poller'[g] = poller[g] /\ buffer'[g] = buffer[g]
         /\ cbs_mutex' = NoThread
         /\ \A d \in Cubes : d # c => cube_mutex'[d] = cube_mutex[d]
         /\ \A d \in Cubes : d = c => cube_mutex'[d] = NoThread \/ cube_mutex'[d] = cube_mutex[d]
BY DEF TypeOK, Over, Idle, Doing

\* Every step keeps the event that a callback works on.
LEMMA EventStep == TypeOK /\ EventKept /\ [Next]_vars => EventKept'
<1> SUFFICES ASSUME TypeOK, EventKept, [Next]_vars PROVE EventKept'
  OBVIOUS
<1> USE DEF EventKept
<1>1. ASSUME NEW c \in Cubes, Worker(c) \/ Request(c) PROVE EventKept'
  BY <1>1, WorkerFrame
<1>2. ASSUME NEW c \in Cubes, SendsPacket(c) \/ SendsLog(c) PROVE EventKept'
  <2>1. UNCHANGED <<poller, logger>>
    BY <1>2, TrafficFrame
  <2>2. /\ CubeType[c] \in Hooks /\ id[c] \in Ids /\ buffer[CubeType[c]] \in Seq(Ids)
        /\ log_buffer \in Seq(Ids) /\ buffer \in [Hooks -> Seq(Ids)]
    BY CubesAssumption DEF TypeOK
  <2>3. Append(buffer[CubeType[c]], id[c]) # <<>> /\ Append(log_buffer, id[c]) # <<>>
    <3>1. \A q \in Seq(Ids) : Append(q, id[c]) # <<>>
      BY <2>2, AppendProperties
    <3> QED BY <2>2, <3>1
  <2>4. log_buffer # <<>> => log_buffer' # <<>>
    BY <1>2, <2>3 DEF SendsPacket, SendsLog
  <2>5. \A g \in Hooks : buffer[g] # <<>> => buffer'[g] # <<>>
    BY <1>2, <2>2, <2>3 DEF SendsPacket, SendsLog
  <2> QED BY <2>1, <2>4, <2>5
<1>3. ASSUME NEW h \in Hooks, Poller(h) PROVE EventKept'
  <2>0. UNCHANGED <<logger, log_buffer>> /\ poller \in [Hooks -> PollerStates]
    BY <1>3, PollerFrame DEF TypeOK, PollerStates
  <2>1. ASSUME NEW c, Over(h, c) PROVE EventKept'
    BY <2>0, <2>1, OverFacts
  <2>2. ASSUME NEW p, buffer[h] # <<>>, poller' = [poller EXCEPT ![h] = p], buffer' = buffer
        PROVE  EventKept'
    BY <2>0, <2>2
  <2>3. ASSUME UNCHANGED <<poller, buffer>> PROVE EventKept'
    BY <2>0, <2>3
  <2>4. CASE CallBackProxy(h)
    BY <2>1, <2>2, <2>4 DEF CallBackProxy
  <2>5. CASE HandlePacketIn(h)
    <3>1. buffer[h] # <<>>
      BY <2>5 DEF HandlePacketIn
    <3> QED BY <2>1, <2>2, <2>3, <2>5, <3>1 DEF HandlePacketIn
  <2>6. CASE PacketInReturns(h)
    BY <2>1, <2>6 DEF PacketInReturns
  <2> QED BY <1>3, <2>4, <2>5, <2>6 DEF Poller
<1>4. CASE LogPoller
  BY <1>4, LogFrame DEF LogPoller, LogProxy, LogReturns, Idle, Doing
<1>5. CASE UNCHANGED vars
  BY <1>5, StutterFrame
<1> QED BY <1>1, <1>2, <1>3, <1>4, <1>5 DEF Next

\* Every step keeps one owner per id.
LEMMA IdsStep == TypeOK /\ IdsOwned /\ [Next]_vars => IdsOwned'
<1> SUFFICES ASSUME TypeOK, IdsOwned, [Next]_vars PROVE IdsOwned'
  OBVIOUS
<1>1. ASSUME NEW c \in Cubes, Worker(c) \/ Request(c) PROVE IdsOwned'
  <2> USE DEF Goes, TypeOK, objectVars
  <2>1. CASE BuildCube(c)
    <3>1. Acquire \in elements
      BY <2>1, AcquireIsFree DEF BuildCube
    <3>2. /\ id' = [id EXCEPT ![c] = Acquire] /\ elements' = elements \ {Acquire}
          /\ stage[c] = "absent" /\ stage' = [stage EXCEPT ![c] = "built"]
      BY <2>1 DEF BuildCube
    <3>3. /\ id'[c] = Acquire /\ id'[c] \notin elements'
          /\ \A d \in Cubes \ {c} : id'[d] = id[d] /\ stage'[d] = stage[d]
      BY <3>2
    <3> QED BY <3>1, <3>2, <3>3 DEF IdsOwned
  <2>2. CASE FreeCube(c)
    <3>1. /\ id' = id /\ elements' = elements \cup {id[c]}
          /\ stage[c] = "silent" /\ stage' = [stage EXCEPT ![c] = "absent"]
      BY <2>2 DEF FreeCube
    <3>2. stage'[c] = "absent" /\ \A d \in Cubes \ {c} : stage'[d] = stage[d]
      BY <3>1
    <3> QED BY <3>1, <3>2 DEF IdsOwned
  <2>3. ASSUME UNCHANGED <<id, elements>>,
               NEW s \in Stages \ {"absent"}, stage' = [stage EXCEPT ![c] = s],
               stage[c] # "absent"
        PROVE  IdsOwned'
    <3>1. \A d \in Cubes : stage'[d] # "absent" => stage[d] # "absent"
      BY <2>3
    <3> QED BY <2>3, <3>1 DEF IdsOwned
  <2>4. ASSUME UNCHANGED <<id, elements, stage>> PROVE IdsOwned'
    BY <2>4 DEF IdsOwned
  <2>5. CASE RegisterLog(c) \/ RegisterPacketIn(c) \/ Implement(c) \/ Constructed(c) \/ DestroyCube(c)
    BY <2>3, <2>5 DEF RegisterLog, RegisterPacketIn, Implement, Constructed, DestroyCube, Stages
  <2>6. CASE Dismount(c) \/ EndImplementation(c) \/ ClearHandler(c) \/ UnregisterPacketIn(c)
               \/ UnregisterLog(c)
    BY <2>3, <2>6 DEF Dismount, EndImplementation, ClearHandler, UnregisterPacketIn,
                      UnregisterLog, Stages
  <2>7. CASE AddPort(c) \/ RemovePort(c) \/ RemovePortErases(c) \/ Attach(c)
    BY <2>4, <2>7 DEF AddPort, RemovePort, RemovePortErases, Attach, PortChanges
  <2> QED BY <1>1, <2>1, <2>2, <2>5, <2>6, <2>7 DEF Worker, Request
<1>2. ASSUME UNCHANGED <<id, elements, stage>> PROVE IdsOwned'
  BY <1>2 DEF IdsOwned
<1> QED BY <1>1, <1>2, TrafficFrame, PollerFrame, LogFrame, StutterFrame DEF Next

\* Every step keeps the entries of the tables with their owners.
LEMMA TablesStep == TypeOK /\ IdsOwned /\ TablesOK /\ [Next]_vars => TablesOK'
<1> SUFFICES ASSUME TypeOK, IdsOwned, TablesOK, [Next]_vars PROVE TablesOK'
  OBVIOUS
<1>1. ASSUME NEW c \in Cubes, Worker(c) \/ Request(c) PROVE TablesOK'
  <2> SUFFICES ASSUME NEW i \in Ids
               PROVE  /\ cbs'[i] # NoCube => id'[cbs'[i]] = i /\ stage'[cbs'[i]] \in PacketStages
                      /\ log_cbs'[i] # NoCube
                           => id'[log_cbs'[i]] = i /\ stage'[log_cbs'[i]] \in LogStages
    BY DEF TablesOK
  <2>0. /\ cbs \in [Ids -> Cubes \cup {NoCube}] /\ log_cbs \in [Ids -> Cubes \cup {NoCube}]
        /\ id \in [Cubes -> Ids] /\ stage \in [Cubes -> Stages]
        /\ PacketStages \subseteq LogStages
        /\ cbs[i] # NoCube => cbs[i] \in Cubes /\ id[cbs[i]] = i /\ stage[cbs[i]] \in PacketStages
        /\ log_cbs[i] # NoCube
             => log_cbs[i] \in Cubes /\ id[log_cbs[i]] = i /\ stage[log_cbs[i]] \in LogStages
    BY DEF TypeOK, TablesOK, LogStages
  <2>1. \A d \in Cubes :
          /\ stage[d] \in LogStages => id'[d] = id[d]
          /\ stage[d] \in PacketStages
               => stage'[d] \in PacketStages \/ (d = c /\ UnregisterPacketIn(c))
          /\ stage[d] \in LogStages
               => stage'[d] \in LogStages \/ (d = c /\ UnregisterLog(c))
    BY <1>1, WorkerStages
  <2>2. CASE RegisterLog(c)
    <3>1. /\ log_cbs' = Inserted(log_cbs, id[c], c) /\ cbs' = cbs /\ id' = id
          /\ stage'[c] = "logged" /\ stage[c] = "built"
      BY <2>0, <2>2 DEF RegisterLog, Goes
    <3>2. ~UnregisterPacketIn(c) /\ ~UnregisterLog(c)
      BY <3>1 DEF UnregisterPacketIn, UnregisterLog, Goes
    <3>3. log_cbs'[i] = log_cbs[i] \/ (i = id[c] /\ log_cbs'[i] = c)
      BY <2>0, <3>1 DEF Inserted
    <3>4. stage'[c] \in LogStages
      BY <3>1 DEF LogStages
    <3> QED BY <2>0, <2>1, <3>1, <3>2, <3>3, <3>4
  <2>3. CASE RegisterPacketIn(c)
    <3>1. /\ cbs' = Inserted(cbs, id[c], c) /\ log_cbs' = log_cbs /\ id' = id
          /\ stage'[c] = "raw" /\ stage[c] = "logged"
      BY <2>0, <2>3 DEF RegisterPacketIn, Goes
    <3>2. ~UnregisterPacketIn(c) /\ ~UnregisterLog(c)
      BY <3>1 DEF UnregisterPacketIn, UnregisterLog, Goes
    <3>3. cbs'[i] = cbs[i] \/ (i = id[c] /\ cbs'[i] = c)
      BY <2>0, <3>1 DEF Inserted
    <3>4. stage'[c] \in PacketStages
      BY <3>1 DEF PacketStages
    <3> QED BY <2>0, <2>1, <3>1, <3>2, <3>3, <3>4
  <2>4. CASE UnregisterPacketIn(c)
    <3>1. cbs' = Erased(cbs, id[c]) /\ log_cbs' = log_cbs /\ stage[c] = "cleared"
      BY <2>4 DEF UnregisterPacketIn, Goes
    <3>2. ~UnregisterLog(c)
      BY <3>1 DEF UnregisterLog, Goes
    <3>3. cbs'[i] # NoCube => cbs'[i] = cbs[i] /\ i # id[c]
      BY <2>0, <3>1 DEF Erased
    <3> QED BY <2>0, <2>1, <3>1, <3>2, <3>3
  <2>5. CASE UnregisterLog(c)
    <3>1. log_cbs' = Erased(log_cbs, id[c]) /\ cbs' = cbs /\ stage[c] = "deaf"
      BY <2>5 DEF UnregisterLog, Goes
    <3>2. ~UnregisterPacketIn(c)
      BY <3>1 DEF UnregisterPacketIn, Goes
    <3>3. log_cbs'[i] # NoCube => log_cbs'[i] = log_cbs[i] /\ i # id[c]
      BY <2>0, <3>1 DEF Erased
    <3> QED BY <2>0, <2>1, <3>1, <3>2, <3>3
  <2>6. ASSUME UNCHANGED tableVars, ~UnregisterPacketIn(c), ~UnregisterLog(c)
        PROVE  /\ cbs'[i] # NoCube => id'[cbs'[i]] = i /\ stage'[cbs'[i]] \in PacketStages
               /\ log_cbs'[i] # NoCube
                    => id'[log_cbs'[i]] = i /\ stage'[log_cbs'[i]] \in LogStages
    BY <2>0, <2>1, <2>6 DEF tableVars
  <2>7. \/ RegisterLog(c) \/ RegisterPacketIn(c) \/ UnregisterPacketIn(c) \/ UnregisterLog(c)
        \/ UNCHANGED tableVars
    BY <1>1 DEF Worker, Request, AddPort, RemovePort, RemovePortErases, Attach, PortChanges,
                BuildCube, Implement, Constructed, DestroyCube, Dismount, EndImplementation, ClearHandler,
                FreeCube
  <2> QED BY <2>2, <2>3, <2>4, <2>5, <2>6, <2>7
<1>2. ASSUME UNCHANGED <<id, stage, cbs, log_cbs>> PROVE TablesOK'
  BY <1>2 DEF TablesOK
<1> QED BY <1>1, <1>2, TrafficFrame, PollerFrame, LogFrame, StutterFrame DEF Next

\* A worker takes the mutex of a cube only when it is free, and gives back only
\* its own: what a poller holds it keeps.
LEMMA WorkerMutex ==
  ASSUME TypeOK, PortsLock, NEW c \in Cubes, Worker(c) \/ Request(c), NEW d \in Cubes,
         cube_mutex[d] \in Hooks
  PROVE  cube_mutex'[d] = cube_mutex[d]
<1>0. NoThread \notin Hooks /\ "worker" \notin Hooks
  BY ThreadAssumption DEF Hooks
<1>1. CASE RemovePort(c)
  BY <1>0, <1>1 DEF RemovePort, TypeOK
<1>2. CASE RemovePortErases(c)
  <2>1. cube_mutex[c] = "worker"
    BY <1>2 DEF RemovePortErases, PortChanges, PortsLock
  <2> QED BY <1>0, <1>2, <2>1 DEF RemovePortErases, TypeOK
<1>3. CASE AddPort(c) \/ Attach(c)
  BY <1>3 DEF AddPort, Attach
<1>4. CASE BuildCube(c) \/ RegisterLog(c) \/ RegisterPacketIn(c) \/ Implement(c) \/ Constructed(c) \/ DestroyCube(c)
  BY <1>4 DEF BuildCube, RegisterLog, RegisterPacketIn, Implement, Constructed, DestroyCube, mutexVars
<1>5. CASE Dismount(c) \/ EndImplementation(c) \/ ClearHandler(c) \/ UnregisterPacketIn(c)
             \/ UnregisterLog(c) \/ FreeCube(c)
  BY <1>5 DEF Dismount, EndImplementation, ClearHandler, UnregisterPacketIn, UnregisterLog,
              FreeCube, mutexVars
<1> QED BY <1>1, <1>2, <1>3, <1>4, <1>5 DEF Worker, Request

\* Every step keeps the mutexes and the object of a callback that runs.
LEMMA CallbacksStep ==
  TypeOK /\ TablesOK /\ CallbacksLock /\ PortsLock /\ [Next]_vars => CallbacksLock'
<1> SUFFICES ASSUME TypeOK, TablesOK, CallbacksLock, PortsLock, [Next]_vars
             PROVE  CallbacksLock'
  OBVIOUS
<1>0. NoThread \notin Hooks /\ NoThread # "log"
  BY ThreadAssumption
<1>1. ASSUME NEW c \in Cubes, Worker(c) \/ Request(c) PROVE CallbacksLock'
  <2>1. UNCHANGED <<poller, logger, cbs_mutex, log_mutex>>
    BY <1>1, WorkerFrame
  <2>2. UnregisterPacketIn(c) => cbs_mutex = NoThread
    BY DEF UnregisterPacketIn
  <2>3. UnregisterLog(c) => log_mutex = NoThread
    BY DEF UnregisterLog
  <2>4. ASSUME NEW h \in Hooks, poller[h].pc # "idle"
        PROVE  /\ cbs_mutex = h /\ poller[h].cube \in Cubes
               /\ stage'[poller[h].cube] \in PacketStages
               /\ poller[h].pc = "running" => cube_mutex'[poller[h].cube] = h
    <3>1. /\ cbs_mutex = h /\ poller[h].cube \in Cubes
          /\ stage[poller[h].cube] \in PacketStages
          /\ poller[h].pc = "running" => cube_mutex[poller[h].cube] = h
      BY <2>4 DEF CallbacksLock
    <3>2. stage'[poller[h].cube] \in PacketStages
      BY <1>0, <1>1, <2>2, <3>1, WorkerStages
    <3>3. poller[h].pc = "running" => cube_mutex'[poller[h].cube] = h
      BY <1>1, <3>1, WorkerMutex
    <3> QED BY <3>1, <3>2, <3>3
  <2>5. ASSUME logger.pc # "idle"
        PROVE  log_mutex = "log" /\ logger.cube \in Cubes /\ stage'[logger.cube] \in LogStages
    <3>1. log_mutex = "log" /\ logger.cube \in Cubes /\ stage[logger.cube] \in LogStages
      BY <2>5 DEF CallbacksLock
    <3> QED BY <1>0, <1>1, <2>3, <3>1, WorkerStages
  <2> QED BY <2>1, <2>4, <2>5 DEF CallbacksLock
<1>2. ASSUME NEW h \in Hooks, Poller(h) PROVE CallbacksLock'
  <2>0. /\ UNCHANGED <<stage, logger, log_mutex>>
        /\ poller \in [Hooks -> PollerStates]
        /\ cube_mutex \in [Cubes -> Hooks \cup {"worker", NoThread}]
    BY <1>2, PollerFrame DEF TypeOK, PollerStates
  <2>1. cbs_mutex = NoThread \/ cbs_mutex = h
    BY <1>2 DEF Poller, CallBackProxy, HandlePacketIn, PacketInReturns, CallbacksLock
  <2>2. \A g \in Hooks \ {h} : poller[g].pc = "idle"
    BY <1>0, <2>1 DEF CallbacksLock
  <2>3. ASSUME NEW c, Over(h, c) PROVE CallbacksLock'
    <3>1. \A g \in Hooks : poller'[g].pc = "idle"
      BY <2>2, <2>3, OverFacts
    <3> QED BY <2>0, <3>1 DEF CallbacksLock
  <2>4. CASE CallBackProxy(h)
    <3> DEFINE c == cbs[Head(buffer[h])]
    <3>1. CASE PacketHandler(c) /\ poller' = [poller EXCEPT ![h] = Doing("called", c)]
                /\ cbs_mutex' = h /\ UNCHANGED <<buffer, cube_mutex>>
      <4>1. Head(buffer[h]) \in Ids
        <5>1. buffer[h] \in Seq(Ids) /\ buffer[h] # <<>>
          BY <2>4 DEF CallBackProxy, TypeOK
        <5> QED BY <5>1, HeadTailProperties
      <4>2. c \in Cubes /\ stage[c] \in PacketStages
        BY <3>1, <4>1 DEF TablesOK, TypeOK, PacketHandler
      <4>3. /\ poller'[h].pc = "called" /\ poller'[h].cube = c
            /\ \A g \in Hooks \ {h} : poller'[g].pc = "idle"
        BY <2>0, <2>2, <3>1, DoingType
      <4> QED BY <2>0, <3>1, <4>2, <4>3 DEF CallbacksLock
    <3> QED BY <2>3, <2>4, <3>1 DEF CallBackProxy
  <2>5. CASE HandlePacketIn(h)
    <3> DEFINE c == poller[h].cube
    <3>1. CASE /\ poller' = [poller EXCEPT ![h] = Doing("running", c)]
               /\ cube_mutex' = [cube_mutex EXCEPT ![c] = h]
               /\ UNCHANGED <<buffer, cbs_mutex, crashed>>
      <4>1. c \in Cubes /\ stage[c] \in PacketStages /\ cbs_mutex = h
        BY <2>5 DEF HandlePacketIn, CallbacksLock
      <4>2. /\ poller'[h].pc = "running" /\ poller'[h].cube = c
            /\ \A g \in Hooks \ {h} : poller'[g].pc = "idle"
        BY <2>0, <2>2, <3>1, DoingType
      <4>3. cube_mutex'[c] = h
        BY <2>0, <3>1, <4>1
      <4> QED BY <2>0, <3>1, <4>1, <4>2, <4>3 DEF CallbacksLock
    <3>2. CASE UNCHANGED <<poller, buffer, cbs_mutex, cube_mutex>>
      BY <2>0, <3>2 DEF CallbacksLock
    <3> QED BY <2>3, <2>5, <3>1, <3>2 DEF HandlePacketIn
  <2>6. CASE PacketInReturns(h)
    BY <2>3, <2>6 DEF PacketInReturns
  <2> QED BY <1>2, <2>4, <2>5, <2>6 DEF Poller
<1>3. CASE LogPoller
  <2>0. UNCHANGED <<stage, poller, cbs_mutex, cube_mutex>>
    BY <1>3, LogFrame
  <2>1. CASE LogProxy
    <3> DEFINE c == log_cbs[Head(log_buffer)]
    <3>1. CASE LogHandler(c) /\ logger' = Doing("called", c) /\ log_mutex' = "log"
      <4>1. Head(log_buffer) \in Ids
        <5>1. log_buffer \in Seq(Ids) /\ log_buffer # <<>>
          BY <2>1 DEF LogProxy, TypeOK
        <5> QED BY <5>1, HeadTailProperties
      <4>2. c \in Cubes /\ stage[c] \in LogStages
        BY <3>1, <4>1 DEF TablesOK, TypeOK, LogHandler
      <4> QED BY <2>0, <3>1, <4>2, DoingType DEF CallbacksLock
    <3>2. CASE UNCHANGED <<logger, log_mutex>>
      BY <2>0, <3>2 DEF CallbacksLock
    <3> QED BY <2>1, <3>1, <3>2 DEF LogProxy
  <2>2. CASE LogReturns
    BY <2>0, <2>2 DEF LogReturns, CallbacksLock, Idle, Doing
  <2> QED BY <1>3, <2>1, <2>2 DEF LogPoller
<1>4. ASSUME UNCHANGED <<stage, poller, logger, cbs_mutex, log_mutex, cube_mutex>>
      PROVE  CallbacksLock'
  BY <1>4 DEF CallbacksLock
<1> QED BY <1>1, <1>2, <1>3, <1>4, TrafficFrame, StutterFrame DEF Next

\* Every step keeps the mutex with remove_port.
LEMMA PortsStep == TypeOK /\ CallbacksLock /\ PortsLock /\ [Next]_vars => PortsLock'
<1> SUFFICES ASSUME TypeOK, CallbacksLock, PortsLock, [Next]_vars PROVE PortsLock'
  OBVIOUS
<1>0. NoThread # "worker" /\ "worker" \notin Hooks
  BY ThreadAssumption DEF Hooks
<1>1. ASSUME NEW c \in Cubes, Worker(c) \/ Request(c) PROVE PortsLock'
  <2> USE DEF TypeOK, PortsLock, Goes
  <2>1. CASE AddPort(c) \/ Attach(c)
    BY <2>1 DEF AddPort, Attach, PortChanges
  <2>2. CASE RemovePort(c)
    BY <2>2 DEF RemovePort, PortChanges
  <2>3. CASE RemovePortErases(c)
    BY <2>3 DEF RemovePortErases, PortChanges, Implemented
  <2>4. CASE BuildCube(c) \/ RegisterLog(c) \/ RegisterPacketIn(c)
    BY <2>4 DEF BuildCube, RegisterLog, RegisterPacketIn, mutexVars
  <2>5. CASE Implement(c) \/ Constructed(c) \/ DestroyCube(c) \/ Dismount(c) \/ EndImplementation(c)
               \/ ClearHandler(c) \/ UnregisterPacketIn(c) \/ UnregisterLog(c)
    BY <2>5 DEF Implement, Constructed, DestroyCube, Dismount, EndImplementation, ClearHandler,
                UnregisterPacketIn, UnregisterLog, mutexVars
  <2>6. CASE FreeCube(c)
    BY <2>6 DEF FreeCube, mutexVars
  <2> QED BY <1>1, <2>1, <2>2, <2>3, <2>4, <2>5, <2>6 DEF Worker, Request
<1>2. ASSUME NEW h \in Hooks, Poller(h) PROVE PortsLock'
  <2>1. UNCHANGED <<stage, port>>
    BY <1>2, PollerFrame
  <2>2. ASSUME NEW d \in Cubes, cube_mutex[d] = "worker" PROVE cube_mutex'[d] = "worker"
    <3>1. CASE Over(h, NoCube)
      BY <2>2, <3>1, CubesAssumption, OverFacts
    <3>2. CASE PacketInReturns(h)
      <4>1. cube_mutex[poller[h].cube] = h
        BY <3>2 DEF PacketInReturns, CallbacksLock
      <4>2. d # poller[h].cube
        BY <1>0, <2>2, <4>1
      <4> QED BY <2>2, <3>2, <4>2, OverFacts DEF PacketInReturns
    <3>3. CASE HandlePacketIn(h) /\ cube_mutex' = [cube_mutex EXCEPT ![poller[h].cube] = h]
      <4>1. d # poller[h].cube
        BY <1>0, <2>2, <3>3 DEF HandlePacketIn
      <4> QED BY <2>2, <3>3, <4>1 DEF TypeOK
    <3>4. CASE UNCHANGED cube_mutex
      BY <2>2, <3>4
    <3> QED BY <1>2, <3>1, <3>2, <3>3, <3>4 DEF Poller, CallBackProxy, HandlePacketIn
  <2> QED BY <2>1, <2>2 DEF PortsLock
<1>3. ASSUME UNCHANGED <<stage, port, cube_mutex>> PROVE PortsLock'
  BY <1>3 DEF PortsLock
<1> QED BY <1>1, <1>2, <1>3, TrafficFrame, LogFrame, StutterFrame DEF Next

\* A port whose packet_in runs is not taken away: remove_port waits, and the cube
\* is not freed.
LEMMA WorkerPorts ==
  ASSUME TypeOK, PortsLock, NEW c \in Cubes, Worker(c) \/ Request(c), NEW d \in Cubes,
         cube_mutex[d] \in Hooks, stage[d] \in PacketStages, d \notin Transparent,
         port[d] \in {"new", "there", "orphan"}
  PROVE  port'[d] \in {"new", "there", "orphan"}
<1>0. NoThread \notin Hooks
  BY ThreadAssumption
<1> USE DEF TypeOK
<1>1. CASE RemovePort(c)
  BY <1>0, <1>1 DEF RemovePort, PortChanges
<1>2. CASE RemovePortErases(c)
  BY <1>2 DEF RemovePortErases, PortChanges
<1>3. CASE AddPort(c)
  BY <1>3 DEF AddPort, PortChanges
<1>4. CASE Attach(c)
  BY <1>4 DEF Attach, PortChanges
<1>5. CASE FreeCube(c)
  BY <1>5 DEF FreeCube, Goes, PacketStages
<1>6. CASE BuildCube(c) \/ RegisterLog(c) \/ RegisterPacketIn(c) \/ Implement(c) \/ Constructed(c) \/ DestroyCube(c)
  BY <1>6 DEF BuildCube, RegisterLog, RegisterPacketIn, Implement, Constructed, DestroyCube
<1>7. CASE Dismount(c) \/ EndImplementation(c) \/ ClearHandler(c) \/ UnregisterPacketIn(c)
             \/ UnregisterLog(c)
  BY <1>7 DEF Dismount, EndImplementation, ClearHandler, UnregisterPacketIn, UnregisterLog
<1> QED BY <1>1, <1>2, <1>3, <1>4, <1>5, <1>6, <1>7 DEF Worker, Request

\* What a poller may newly run: a handler that is called and finds the mutex of
\* its cube free, its port and its implementation.
LEMMA NewlyRunning ==
  ASSUME TypeOK, NEW h \in Hooks, Poller(h), NEW g \in Hooks, poller'[g].pc = "running"
  PROVE  \/ poller'[g] = poller[g]
         \/ /\ g = h /\ poller'[g].cube = poller[g].cube /\ poller[g].pc = "called"
            /\ cube_mutex[poller[g].cube] = NoThread
            /\ ~dismounted[poller[g].cube] /\ Finds(poller[g].cube)
            /\ Implemented(poller[g].cube)
<1>0. poller \in [Hooks -> PollerStates]
  BY DEF TypeOK, PollerStates
<1>1. ASSUME NEW c, Over(h, c) PROVE poller'[g] = poller[g]
  BY <1>1, OverFacts
<1>2. CASE CallBackProxy(h)
  <2>1. CASE poller' = [poller EXCEPT ![h] = Doing("called", cbs[Head(buffer[h])])]
    BY <1>0, <2>1, DoingType
  <2> QED BY <1>1, <1>2, <2>1 DEF CallBackProxy
<1>3. CASE HandlePacketIn(h)
  <2>1. CASE poller' = [poller EXCEPT ![h] = Doing("running", poller[h].cube)]
               /\ ~dismounted[poller[h].cube] /\ Finds(poller[h].cube)
               /\ Implemented(poller[h].cube)
    BY <1>0, <1>3, <2>1, DoingType DEF HandlePacketIn
  <2> QED BY <1>1, <1>3, <2>1 DEF HandlePacketIn
<1>4. CASE PacketInReturns(h)
  BY <1>1, <1>4 DEF PacketInReturns
<1> QED BY <1>2, <1>3, <1>4 DEF Poller

\* Every step keeps the port packet_in was called with.
LEMMA PortKeptStep ==
  TypeOK /\ CallbacksLock /\ PortsLock /\ PortNotDeleted /\ [Next]_vars => PortNotDeleted'
<1> SUFFICES ASSUME TypeOK, CallbacksLock, PortsLock, PortNotDeleted, [Next]_vars,
                    NEW g \in Hooks, poller'[g].pc = "running",
                    poller'[g].cube \notin Transparent
             PROVE  port'[poller'[g].cube] \in {"new", "there", "orphan"}
  BY DEF PortNotDeleted
<1>1. ASSUME NEW c \in Cubes, Worker(c) \/ Request(c)
      PROVE  port'[poller'[g].cube] \in {"new", "there", "orphan"}
  <2>1. poller' = poller
    BY <1>1, WorkerFrame
  <2>2. /\ poller[g].cube \in Cubes /\ stage[poller[g].cube] \in PacketStages
        /\ cube_mutex[poller[g].cube] \in Hooks
        /\ port[poller[g].cube] \in {"new", "there", "orphan"}
    BY <2>1 DEF CallbacksLock, PortNotDeleted
  <2> QED BY <1>1, <2>1, <2>2, WorkerPorts
<1>2. ASSUME NEW h \in Hooks, Poller(h)
      PROVE  port'[poller'[g].cube] \in {"new", "there", "orphan"}
  <2>0. port' = port
    BY <1>2, PollerFrame
  <2>1. CASE poller'[g] = poller[g]
    BY <2>0, <2>1 DEF PortNotDeleted
  <2>2. CASE /\ poller'[g].cube = poller[g].cube /\ poller[g].pc = "called"
             /\ cube_mutex[poller[g].cube] = NoThread /\ Finds(poller[g].cube)
    <3>1. poller[g].cube \in Cubes
      BY <2>2 DEF CallbacksLock
    <3>2. port[poller[g].cube] # "stale"
      BY <2>2, <3>1, ThreadAssumption DEF PortsLock
    <3> QED BY <2>0, <2>2, <3>2 DEF Finds
  <2> QED BY <1>2, <2>1, <2>2, NewlyRunning
<1>3. ASSUME UNCHANGED <<poller, port>>
      PROVE  port'[poller'[g].cube] \in {"new", "there", "orphan"}
  BY <1>3 DEF PortNotDeleted
<1> QED BY <1>1, <1>2, <1>3, TrafficFrame, LogFrame, StutterFrame DEF Next

\* The implementation of a service that dismounts itself goes only after
\* dismount() had the mutex of the cube.
LEMMA WorkerDismounts ==
  ASSUME TypeOK, DismountedFirst, NEW c \in Cubes, Worker(c) \/ Request(c),
         NEW d \in Dismounting
  PROVE  /\ stage'[d] \in Stages \ ({"absent", "built", "logged", "raw"} \cup UndismountedStages)
              => dismounted'[d]
         /\ stage[d] \in UndismountedStages /\ cube_mutex[d] \in Hooks
              => stage'[d] \in UndismountedStages
<1>0. d \in Cubes /\ NoThread \notin Hooks
  BY CubesAssumption, ThreadAssumption
<1> USE DEF TypeOK, Goes, DismountedFirst, Stages, UndismountedStages
<1>1. CASE AddPort(c) \/ RemovePort(c) \/ RemovePortErases(c) \/ Attach(c)
  BY <1>1 DEF AddPort, RemovePort, RemovePortErases, Attach, PortChanges
<1>2. CASE BuildCube(c)
  BY <1>0, <1>2 DEF BuildCube
<1>3. CASE RegisterLog(c) \/ RegisterPacketIn(c) \/ Implement(c) \/ Constructed(c) \/ DestroyCube(c)
  BY <1>0, <1>3 DEF RegisterLog, RegisterPacketIn, Implement, Constructed, DestroyCube
<1>4. CASE Dismount(c)
  BY <1>0, <1>4 DEF Dismount
<1>5. CASE EndImplementation(c)
  BY <1>0, <1>5 DEF EndImplementation
<1>6. CASE ClearHandler(c) \/ UnregisterPacketIn(c) \/ UnregisterLog(c) \/ FreeCube(c)
  BY <1>0, <1>6 DEF ClearHandler, UnregisterPacketIn, UnregisterLog, FreeCube
<1> QED BY <1>1, <1>2, <1>3, <1>4, <1>5, <1>6 DEF Worker, Request

\* Every step keeps what dismount() protects.
LEMMA DismountStep ==
  TypeOK /\ CallbacksLock /\ PortsLock /\ DismountedFirst /\ [Next]_vars
    => DismountedFirst'
<1> SUFFICES ASSUME TypeOK, CallbacksLock, PortsLock, DismountedFirst, [Next]_vars
             PROVE  DismountedFirst'
  OBVIOUS
<1>0. Up => crashed.pc = "no"
  BY DEF Up, Healthy, Doing
<1>1. ASSUME NEW c \in Cubes, Worker(c) \/ Request(c) PROVE DismountedFirst'
  <2>1. poller' = poller /\ crashed' = crashed /\ crashed.pc = "no"
    BY <1>0, <1>1, WorkerFrame
  <2>2. ASSUME NEW g \in Hooks, poller[g].pc = "running", poller[g].cube \in Dismounting
        PROVE  stage'[poller[g].cube] \in UndismountedStages
    <3>1. cube_mutex[poller[g].cube] \in Hooks
      BY <2>2 DEF CallbacksLock
    <3>2. stage[poller[g].cube] \in UndismountedStages
      BY <2>2 DEF DismountedFirst
    <3> QED BY <1>1, <2>2, <3>1, <3>2, WorkerDismounts
  <2> QED BY <1>1, <2>1, <2>2, WorkerDismounts DEF DismountedFirst
<1>2. ASSUME NEW h \in Hooks, Poller(h) PROVE DismountedFirst'
  <2>0. UNCHANGED <<stage, dismounted>>
    BY <1>2, PollerFrame
  <2>1. ASSUME NEW g \in Hooks, poller'[g].pc = "running", poller'[g].cube \in Dismounting
        PROVE  stage[poller'[g].cube] \in UndismountedStages
    <3>1. CASE poller'[g] = poller[g]
      BY <2>1, <3>1 DEF DismountedFirst
    <3>2. CASE /\ poller'[g].cube = poller[g].cube /\ ~dismounted[poller[g].cube]
               /\ Implemented(poller[g].cube)
      BY <2>1, <3>2 DEF DismountedFirst, Implemented, Stages, UndismountedStages
    <3> QED BY <1>2, <2>1, <3>1, <3>2, NewlyRunning
  <2>2. ASSUME crashed'.pc = "packet_in", crashed'.cube \in Dismounting
        PROVE  \/ stage[crashed'.cube] = "raw" /\ crashed'.cube \in Transparent
               \/ stage[crashed'.cube] = "failed"
    <3>1. CASE crashed' = crashed
      BY <2>2, <3>1 DEF DismountedFirst
    <3>2. CASE /\ HandlePacketIn(h) /\ crashed' = Doing("packet_in", poller[h].cube)
               /\ ~dismounted[poller[h].cube] /\ Finds(poller[h].cube)
               /\ ~Implemented(poller[h].cube)
      <4> DEFINE c == poller[h].cube
      <4>1. crashed'.cube = c /\ c \in Dismounting
        BY <2>2, <3>2, DoingType
      <4>2. c \in Cubes /\ stage[c] \in PacketStages
        BY <3>2 DEF HandlePacketIn, CallbacksLock
      <4>3. stage[c] \in {"raw", "failed"}
        BY <3>2, <4>1, <4>2 DEF DismountedFirst, Implemented, PacketStages, Stages,
                                UndismountedStages
      <4>4. stage[c] = "raw" => port[c] = "none"
        BY <4>2 DEF PortsLock
      <4> QED BY <3>2, <4>1, <4>3, <4>4 DEF Finds
    <3> QED BY <1>2, <3>1, <3>2 DEF Poller, CallBackProxy, HandlePacketIn, PacketInReturns
  <2> QED BY <2>0, <2>1, <2>2 DEF DismountedFirst
<1>3. CASE LogPoller
  <2>1. UNCHANGED <<stage, dismounted, poller>>
    BY <1>3, LogFrame
  <2>2. crashed'.pc # "packet_in" \/ crashed' = crashed
    BY <1>3, DoingType DEF LogPoller, LogProxy, LogReturns
  <2> QED BY <2>1, <2>2 DEF DismountedFirst
<1>4. ASSUME UNCHANGED <<stage, dismounted, poller, crashed>> PROVE DismountedFirst'
  BY <1>4 DEF DismountedFirst
<1> QED BY <1>1, <1>2, <1>3, <1>4, TrafficFrame, StutterFrame DEF Next

-----------------------------------------------------------------------------
\* The invariant is inductive.
LEMMA Inductive == Spec => []Inv
<1>1. Init => Inv
  <2> SUFFICES ASSUME Init PROVE Inv
    OBVIOUS
  <2> USE DEF Init
  <2>0. Idle.pc = "idle" /\ Healthy.pc = "no"
    BY DEF Idle, Healthy, Doing
  <2>1. TypeOK
    <3>1. id \in [Cubes -> Ids] /\ elements \subseteq Ids /\ events \in 0 .. MaxEvents
      BY BoundsAssumption DEF Ids, InitialElements
    <3>2. buffer \in [Hooks -> Seq(Ids)] /\ log_buffer \in Seq(Ids)
      BY EmptySeq
    <3>3. /\ poller \in [Hooks -> [pc : {"idle", "called", "running"}, cube : Cubes \cup {NoCube}]]
          /\ logger \in [pc : {"idle", "called"}, cube : Cubes \cup {NoCube}]
          /\ crashed \in [pc : {"no", "packet_in", "log"}, cube : Cubes \cup {NoCube}]
      BY DEF Idle, Healthy, Doing
    <3> QED BY <3>1, <3>2, <3>3 DEF TypeOK, Stages, Ports
  <2>2. IdsOwned /\ TablesOK /\ PortsLock
    BY DEF IdsOwned, TablesOK, PortsLock
  <2>3. CallbacksLock /\ PortNotDeleted /\ EventKept
    BY <2>0 DEF CallbacksLock, PortNotDeleted, EventKept
  <2>4. DismountedFirst
    BY <2>0, CubesAssumption DEF DismountedFirst
  <2> QED BY <2>1, <2>2, <2>3, <2>4 DEF Inv
<1>2. Inv /\ [Next]_vars => Inv'
  BY TypeStep, EventStep, IdsStep, TablesStep, CallbacksStep, PortsStep, PortKeptStep,
     DismountStep DEF Inv
<1> QED BY <1>1, <1>2, PTL DEF Spec

\* Every variable of the slow path keeps its type.
THEOREM TypeCorrect == Spec => []TypeOK
<1>1. Inv => TypeOK
  BY DEF Inv
<1> QED BY <1>1, Inductive, PTL

\* The references in cbs_ of Controller and of DatapathLog never dangle: each is
\* to an object that exists and owns the id, and no id is given out twice, for
\* any number of cubes that come and go.
THEOREM CallbackOwnership == Spec => []CallbacksOfCubes
<1>1. Inv => CallbacksOfCubes
  <2> SUFFICES ASSUME Inv PROVE CallbacksOfCubes
    OBVIOUS
  <2>1. \A i \in Ids : \A c \in {cbs[i], log_cbs[i]} \ {NoCube} :
          stage[c] # "absent" /\ id[c] = i
    BY DEF Inv, TablesOK, PacketStages, LogStages
  <2> QED BY <2>1 DEF Inv, IdsOwned, CallbacksOfCubes
<1> QED BY <1>1, Inductive, PTL

\* Neither the packet handler nor the log handler of a cube is freed while a
\* callback into it runs.
THEOREM CallbackObjects == Spec => []CallbackKeepsObject
<1>1. Inv => CallbackKeepsObject
  BY DEF Inv, CallbacksLock, CallbackKeepsObject, PacketStages, LogStages
<1> QED BY <1>1, Inductive, PTL

\* The lock in Cube::remove_port and in the packet handler keeps the port that
\* packet_in was called with.
THEOREM PortsKept == Spec => []PortNotDeleted
<1>1. Inv => PortNotDeleted
  BY DEF Inv
<1> QED BY <1>1, Inductive, PTL

\* A service that calls dismount() in its destructor is never called after it
\* is gone; the crashes left to it are a transparent cube that is called before
\* it is constructed, and one whose constructor threw.
THEOREM DismountSuffices == Spec => []DismountProtects
<1>1. Inv => DismountProtects
  BY DEF Inv, DismountedFirst, DismountProtects, Implemented, UndismountedStages
<1> QED BY <1>1, Inductive, PTL
=============================================================================
