------------------------- MODULE TopologyDumpProofs -------------------------
(***************************************************************************)
(* Proofs about TopologyDump, for any number of cubes, settings, workers,  *)
(* changes and crashes, whatever the counter starts with, with and without *)
(* early requests and a file that fails: types, what the saving thread may *)
(* not forget, and the copy of the topology in memory.                     *)
(***************************************************************************)
EXTENDS TopologyDump, TLAPS, FiniteSetTheorems

(* The inductive invariant.                                                *)

\* The workers with a request that is not recorded.
Outstanding == {w \in Workers : request[w] # Idle}

\* Every pending change but what the uninitialised counter started with is of a
\* request.
PendingBound ==
  /\ IsFiniteSet(Outstanding)
  /\ \E g \in Garbage \cup {0}, n \in Nat :
       pending = g + n /\ n + Cardinality(Outstanding) <= changes
  /\ enabled /\ phase # "down" => request[Main] = Idle

\* The flags and the saving thread in each phase.
PhaseOK ==
  /\ phase \in Before => ~enabled
  /\ phase \in Before \cup {"running"} => ~kill
  /\ phase \in {"starting", "loading", "running"} => saver # "off"
  /\ phase \in {"running", "stopping", "stopped"} => enabled
  /\ phase \in {"stopping", "stopped"} => kill /\ \A t \in Threads : request[t] = Idle
  /\ phase = "stopping" /\ saver = "off" => pending = 0
  /\ phase = "stopped" => saver = "off" /\ pending = 0

\* A configuration that is neither saved nor being saved is pending or missed.
Accounted ==
  phase \in {"running", "stopping", "stopped"} /\ pending = 0
    => Saved = config \/ missed

\* At most one request for a cube that has not parted from its record waits to be
\* recorded, recording it yields the cube as it is, and without one the entry of
\* the cube is right.
Instance ==
  \A c \in Names \ parted :
    /\ ~Unrecorded(c) => config[c] = cubes[c]
    /\ \A t, u \in Threads :
         request[t] # Idle /\ request[u] # Idle /\ request[t].cube = c /\ request[u].cube = c
           => t = u
    /\ \A t \in Threads : request[t] # Idle /\ request[t].cube = c =>
         /\ request[t].value = cubes[c]
         /\ request[t].kind \notin {"create", "delete"} => ~NoEntry(c)

Inv == TypeOK /\ PendingBound /\ PhaseOK /\ Accounted /\ Instance

-----------------------------------------------------------------------------
(* Requests and what recording them yields.                                *)

\* A request is a request, and never mistaken for none.
LEMMA IsType ==
  ASSUME NEW kind \in Kinds, NEW c \in Names, NEW v \in Versions
  PROVE  /\ Is(kind, c, v) \in Requests /\ Is(kind, c, v) # Idle
         /\ Is(kind, c, v).kind = kind /\ Is(kind, c, v).cube = c /\ Is(kind, c, v).value = v
<1>1. Is(kind, c, v) \in Requests
  BY DEF Is, Requests
<1> QED BY <1>1, IdleAssumption DEF Is

\* Whatever is recorded is an entry.
LEMMA RecordedType ==
  ASSUME TypeOK, NEW r \in Requests
  PROVE  Recorded(r) \in Entries
<1>0. /\ r.kind \in Kinds /\ r.cube \in Names /\ r.value \in Versions
      /\ config[r.cube] \in Entries
  BY DEF Requests, TypeOK, Configs
<1>1. /\ UpdateCubesConfigCreateReplace(r) \in Entries
      /\ UpdateCubesConfigUpdate(r) \in Entries
      /\ UpdateCubesConfigDelete(r) \in Entries
  BY <1>0 DEF UpdateCubesConfigCreateReplace, UpdateCubesConfigUpdate,
              UpdateCubesConfigDelete, Entries
<1> QED BY <1>0, <1>1 DEF Recorded, Kinds

\* A change of a cube that has an entry is recorded as it was made; creating and
\* deleting a cube always is.
LEMMA RecordedValue ==
  ASSUME NEW r \in Requests,
         r.kind \notin {"create", "delete"} => ~NoEntry(r.cube)
  PROVE  Recorded(r) = r.value
<1>0. r.kind \in Kinds
  BY DEF Requests
<1> QED BY <1>0 DEF Recorded, Kinds, UpdateCubesConfigCreateReplace, UpdateCubesConfigUpdate,
                    UpdateCubesConfigDelete

-----------------------------------------------------------------------------
(* What each part of the daemon leaves alone.                              *)

\* A client is served: one request, which changes the cube or is refused.
LEMMA ClientFacts ==
  ASSUME Client
  PROVE  \E w \in Workers, c \in Names, kind \in Kinds, v \in Versions :
           \/ /\ Changes(w, kind, c, v)
              /\ kind \notin {"create", "delete"} => cubes[c] # Absent
           \/ Refused(w, kind, c, v)
<1>1. Absent \in Versions /\ Created \in Versions /\ Values \subseteq Versions
  BY DEF Versions
<1>2. PICK w \in Workers, c \in Names :
        \/ Create(w, c) \/ Delete(w, c) \/ DeleteLeaf(w, c)
        \/ DeleteRefused(w, c) \/ DeleteLeafRefused(w, c)
        \/ \E v \in Values : Update(w, c, v) \/ UpdateLeaf(w, c, v)
  BY DEF Client
<1>3. CASE Create(w, c)
  BY <1>1, <1>3 DEF Create, Kinds
<1>4. CASE Delete(w, c)
  BY <1>1, <1>4 DEF Delete, Kinds
<1>5. CASE DeleteLeaf(w, c)
  BY <1>1, <1>5 DEF DeleteLeaf, Kinds
<1>6. ASSUME NEW v \in Values, Update(w, c, v) \/ UpdateLeaf(w, c, v)
      PROVE  \E kind \in Kinds : Changes(w, kind, c, v) /\ cubes[c] # Absent
  BY <1>6 DEF Update, UpdateLeaf, Kinds
<1>7. CASE DeleteRefused(w, c)
  BY <1>1, <1>7 DEF DeleteRefused, Kinds
<1>8. CASE DeleteLeafRefused(w, c)
  BY <1>1, <1>8 DEF DeleteLeafRefused, Kinds
<1> QED BY <1>1, <1>2, <1>3, <1>4, <1>5, <1>6, <1>7, <1>8

\* What a client's request leaves alone.
LEMMA ClientFrame ==
  ASSUME Client
  PROVE  /\ \E w \in Workers, c \in Names, kind \in Kinds, v \in Versions :
              /\ request[w] = Idle /\ request' = [request EXCEPT ![w] = Is(kind, c, v)]
              /\ cubes' = cubes \/ cubes' = [cubes EXCEPT ![c] = v]
              /\ parted' \subseteq parted \cup {c}
         /\ Serving /\ changes < MaxChanges /\ changes' = changes + 1
         /\ UNCHANGED <<phase, todo, source, enabled, kill, crashes, config, pending, saver,
                        copy, file, missed>>
<1>1. PICK w \in Workers, c \in Names, kind \in Kinds, v \in Versions :
        Changes(w, kind, c, v) \/ Refused(w, kind, c, v)
  BY ClientFacts
<1>2. CASE Changes(w, kind, c, v)
  BY <1>2 DEF Changes, Overlapping, daemonVars
<1>3. CASE Refused(w, kind, c, v)
  BY <1>3 DEF Refused, daemonVars
<1> QED BY <1>1, <1>2, <1>3

\* What a change that nobody records leaves alone.
LEMMA UnnoticedFrame ==
  ASSUME Unnoticed
  PROVE  /\ \E c \in Names, v \in Versions :
              cubes' = [cubes EXCEPT ![c] = v] /\ parted' = parted \cup {c}
         /\ changes < MaxChanges /\ changes' = changes + 1
         /\ UNCHANGED <<phase, todo, source, enabled, kill, crashes, request, config, pending,
                        saver, copy, file, missed>>
BY DEF Unnoticed, Strays, daemonVars

\* The saving thread touches neither the daemon nor its clients.
LEMMA SaverFrame ==
  ASSUME Saver \/ SpuriousWakeup
  PROVE  UNCHANGED <<phase, todo, source, enabled, kill, crashes, cubes, request, config,
                     changes, parted>>
<1>1. \A pc : Continues(pc) => UNCHANGED <<phase, todo, source, enabled, kill, crashes, cubes,
                                          request, config, changes, parted>>
  BY DEF Continues, daemonVars
<1> QED BY <1>1 DEF Saver, SpuriousWakeup, SaverChecks, SaverWaits, SaverExits, SaverCopies,
               SaverOpens, SaverCannotOpen, SaverWrites, SaverCannotWrite

-----------------------------------------------------------------------------
(* Types, the bound of the pending changes aside.                          *)

TypesButPending ==
  /\ phase \in Before \cup {"down", "running", "stopping", "stopped"}
  /\ todo \subseteq Names /\ source \in Configs
  /\ cubes \in [Names -> Versions]
  /\ request \in [Threads -> Requests \cup {Idle}]
  /\ config \in Configs /\ copy \in Configs
  /\ file \in Configs \cup {Torn}
  /\ pending \in Int
  /\ enabled \in BOOLEAN /\ kill \in BOOLEAN /\ missed \in BOOLEAN /\ parted \subseteq Names
  /\ saver \in {"off", "check", "to_wait", "waiting", "woken", "copied", "writing",
                "failed"}
  /\ changes \in 0 .. MaxChanges /\ crashes \in 0 .. MaxCrashes

\* The configuration with no cube.
LEMMA EmptyType == Empty \in Configs /\ Empty \in [Names -> Versions]
BY DEF Empty, Configs, Entries, Versions

\* The counter is a number.
LEMMA PendingNumber == ASSUME TypeOK PROVE pending \in Int
BY GarbageAssumption DEF TypeOK

\* The phases of the daemon keep the types.
LEMMA DaemonTypes ==
  ASSUME TypeOK, Daemon
  PROVE  TypesButPending'
<1> USE DEF TypeOK, TypesButPending, Before
<1>0. pending \in Int
  BY PendingNumber
<1>1. CASE StartDaemon \/ StartClean
  <2>1. PICK as \in {"serving", "serving_clean"} :
          Started(as) /\ file' \in {file, Empty}
    BY <1>1 DEF StartDaemon, StartClean
  <2>2. /\ cubes' \in [Names -> Versions] /\ config' \in Configs /\ source' \in Configs
        /\ request' \in [Threads -> Requests \cup {Idle}] /\ file' \in Configs \cup {Torn}
    BY <2>1, EmptyType DEF Started
  <2> QED BY <1>0, <2>1, <2>2 DEF Started
<1>2. CASE NewCubesDump
  <2>1. pending' \in Int
    BY <1>2, GarbageAssumption DEF NewCubesDump
  <2> QED BY <1>2, <2>1 DEF NewCubesDump
<1>3. CASE LoadLastTopology
  <2>1. source' \in Configs
    BY <1>3, EmptyType DEF LoadLastTopology
  <2>2. todo' \subseteq Names
    BY <1>3 DEF LoadLastTopology
  <2> QED BY <1>0, <1>3, <2>1, <2>2 DEF LoadLastTopology
<1>4. ASSUME NEW c \in Names, LoadCube(c) PROVE TypesButPending'
  <2>1. source[c] \in Versions
    BY <1>4 DEF LoadCube, Configs, Entries
  <2>2. Is("create", c, source[c]) \in Requests
    BY <2>1, IsType DEF Kinds
  <2>3. Main \in Threads
    BY DEF Threads
  <2>4. parted' \subseteq Names
    BY <1>4 DEF LoadCube, Overlapping
  <2>5. request' \in [Threads -> Requests \cup {Idle}] /\ cubes' \in [Names -> Versions]
    BY <1>4, <2>1, <2>2, <2>3 DEF LoadCube
  <2> QED BY <1>0, <1>4, <2>4, <2>5 DEF LoadCube
<1>5. CASE LoadFails
  BY <1>0, <1>5 DEF LoadFails
<1>6. CASE Enable
  <2>1. missed' \in BOOLEAN
    BY <1>6 DEF Enable
  <2> QED BY <1>0, <1>6, <2>1 DEF Enable
<1>7. CASE Shutdown
  BY <1>0, <1>7 DEF Shutdown
<1>8. CASE Stopped \/ Restart
  BY <1>0, <1>8 DEF Stopped, Restart
<1>9. CASE GoesDown
  BY <1>0, <1>9, BoundsAssumption DEF GoesDown
<1> QED BY <1>1, <1>2, <1>3, <1>4, <1>5, <1>6, <1>7, <1>8, <1>9 DEF Daemon, Killed, RecordsNowhere

\* The saving thread keeps the types.
LEMMA SaverTypes ==
  ASSUME TypeOK, Saver \/ SpuriousWakeup
  PROVE  TypesButPending'
<1>0. pending \in Int
  BY PendingNumber
<1>1. /\ saver' \in {"off", "check", "to_wait", "waiting", "woken", "copied", "writing", "failed"}
      /\ pending' \in Int
  BY <1>0 DEF Saver, SpuriousWakeup, SaverChecks, SaverWaits, SaverExits, SaverCopies,
              SaverOpens, SaverCannotOpen, SaverWrites, SaverCannotWrite, Continues
<1>2. missed' \in BOOLEAN
  BY DEF TypeOK, Saver, SpuriousWakeup, SaverChecks, SaverWaits, SaverExits, SaverCopies,
         SaverOpens, SaverCannotOpen, SaverWrites, SaverCannotWrite
<1>3. copy' \in Configs /\ file' \in Configs \cup {Torn}
  BY DEF TypeOK, Saver, SpuriousWakeup, SaverChecks, SaverWaits, SaverExits, SaverCopies,
         SaverOpens, SaverCannotOpen, SaverWrites, SaverCannotWrite
<1> QED BY <1>1, <1>2, <1>3, SaverFrame DEF TypeOK, TypesButPending

\* Clients, and changes nobody records, keep the types.
LEMMA ClientTypes ==
  ASSUME TypeOK, Client \/ Unnoticed
  PROVE  TypesButPending'
<1>0. pending \in Int
  BY PendingNumber
<1>1. /\ UNCHANGED <<phase, todo, source, enabled, kill, crashes, config, pending, saver,
                     copy, file, missed>>
      /\ changes < MaxChanges /\ changes' = changes + 1
  BY ClientFrame, UnnoticedFrame
<1>2. /\ request' \in [Threads -> Requests \cup {Idle}] /\ cubes' \in [Names -> Versions]
      /\ parted' \subseteq Names
  <2>1. CASE Client
    <3>1. PICK w \in Workers, c \in Names, kind \in Kinds, v \in Versions :
            /\ request' = [request EXCEPT ![w] = Is(kind, c, v)]
            /\ cubes' = cubes \/ cubes' = [cubes EXCEPT ![c] = v]
            /\ parted' \subseteq parted \cup {c}
      BY <2>1, ClientFrame
    <3>2. w \in Threads /\ Is(kind, c, v) \in Requests
      BY IsType DEF Threads
    <3> QED BY <3>1, <3>2 DEF TypeOK
  <2>2. CASE Unnoticed
    BY <2>2, UnnoticedFrame DEF TypeOK
  <2> QED BY <2>1, <2>2
<1>4. changes' \in 0 .. MaxChanges
  BY <1>1, BoundsAssumption DEF TypeOK
<1> QED BY <1>0, <1>1, <1>2, <1>4 DEF TypeOK, TypesButPending

\* Recording keeps the types.
LEMMA RecordTypes ==
  ASSUME TypeOK, NEW t \in Threads, UpdateCubesConfig(t)
  PROVE  TypesButPending'
<1>0. pending \in Int
  BY PendingNumber
<1>1. request[t] \in Requests
  BY DEF TypeOK, UpdateCubesConfig
<1>2. Recorded(request[t]) \in Entries /\ request[t].cube \in Names
  BY <1>1, RecordedType DEF Requests
<1>3. config' \in Configs
  BY <1>2 DEF UpdateCubesConfig, TypeOK, Configs
<1>4. request' \in [Threads -> Requests \cup {Idle}]
  BY DEF UpdateCubesConfig, TypeOK
<1>5. PICK throws \in Throws(request[t]) :
        IF throws THEN missed' = (missed \/ config' # config) /\ UNCHANGED <<pending, saver>>
        ELSE Notify
  BY DEF UpdateCubesConfig
<1>6. /\ missed' \in BOOLEAN /\ pending' \in Int
      /\ saver' \in {"off", "check", "to_wait", "waiting", "woken", "copied", "writing", "failed"}
  <2>1. CASE throws
    BY <1>0, <1>5, <2>1 DEF TypeOK
  <2>2. CASE ~throws
    BY <1>0, <1>5, <2>2 DEF TypeOK, Notify
  <2> QED BY <2>1, <2>2
<1> QED BY <1>3, <1>4, <1>6 DEF UpdateCubesConfig, TypeOK, TypesButPending, daemonVars

\* Every step keeps the types, the bound aside.
LEMMA TypesStep == TypeOK /\ [Next]_vars => TypesButPending'
<1> SUFFICES ASSUME TypeOK, [Next]_vars PROVE TypesButPending'
  OBVIOUS
<1>1. CASE UNCHANGED vars
  <2>1. pending \in Int
    BY PendingNumber
  <2> QED BY <1>1, <2>1 DEF vars, daemonVars, TypeOK, TypesButPending
<1> QED BY <1>1, DaemonTypes, SaverTypes, ClientTypes, RecordTypes DEF Next, Records

-----------------------------------------------------------------------------
(* The conjuncts of the invariant.                                         *)

\* Every step keeps the pending changes within those the clients made.
LEMMA PendingStep ==
  TypeOK /\ PhaseOK /\ PendingBound /\ [Next]_vars => PendingBound'
<1> SUFFICES ASSUME TypeOK, PhaseOK, PendingBound, [Next]_vars PROVE PendingBound'
  OBVIOUS
<1>0. /\ changes \in Nat /\ Cardinality(Outstanding) \in Nat
      /\ IsFiniteSet(Outstanding) /\ Main \notin Workers
      /\ request \in [Threads -> Requests \cup {Idle}]
      /\ Workers \subseteq Threads /\ Main \in Threads
      /\ Garbage \cup {0} \subseteq Int
  BY BoundsAssumption, ThreadsAssumption, GarbageAssumption, FS_CardinalityType
     DEF TypeOK, PendingBound, Threads
<1>a. PICK g \in Garbage \cup {0}, n \in Nat :
        pending = g + n /\ n + Cardinality(Outstanding) <= changes
  BY DEF PendingBound
<1>1. CASE StartDaemon \/ StartClean
  <2>1. /\ request' = [t \in Threads |-> Idle] /\ pending' = pending /\ ~enabled'
        /\ changes' = changes
    BY <1>1 DEF StartDaemon, StartClean, Started
  <2>2. Outstanding' = {}
    BY <1>0, <2>1 DEF Outstanding
  <2>3. IsFiniteSet(Outstanding') /\ Cardinality(Outstanding') = 0
    BY <2>2, FS_EmptySet
  <2>4. pending' = g + n /\ n + 0 <= changes'
    BY <1>0, <1>a, <2>1
  <2> QED BY <2>1, <2>3, <2>4 DEF PendingBound
<1>2. CASE NewCubesDump
  <2>1. /\ pending' \in Garbage /\ UNCHANGED <<request, enabled, changes>> /\ phase # "down"
    BY <1>2 DEF NewCubesDump
  <2>2. Outstanding' = Outstanding
    BY <2>1 DEF Outstanding
  <2>3. 0 \in Nat /\ pending' = pending' + 0 /\ 0 + Cardinality(Outstanding) <= changes
    BY <1>0, <1>a, <2>1
  <2> QED BY <1>0, <2>1, <2>2, <2>3 DEF PendingBound
<1>3. ASSUME NEW c \in Names, LoadCube(c) PROVE PendingBound'
  <2>1. /\ ~enabled /\ UNCHANGED <<enabled, pending, changes>>
        /\ request' = [request EXCEPT ![Main] = Is("create", c, source[c])]
    BY <1>3 DEF LoadCube, PhaseOK, Before
  <2>2. Outstanding' = Outstanding
    BY <1>0, <2>1 DEF Outstanding
  <2> QED BY <1>0, <2>1, <2>2 DEF PendingBound
<1>4. CASE Enable
  BY <1>4 DEF Enable, PendingBound, Outstanding
<1>5. CASE LoadLastTopology \/ LoadFails \/ Shutdown \/ Stopped \/ Restart \/ GoesDown
  <2>1. /\ UNCHANGED <<request, enabled, pending, changes>>
        /\ phase # "down" \/ phase' = "down"
    BY <1>5 DEF LoadLastTopology, LoadFails, Shutdown, Stopped, Restart, GoesDown
  <2>2. Outstanding' = Outstanding
    BY <2>1 DEF Outstanding
  <2> QED BY <1>0, <2>1, <2>2 DEF PendingBound
<1>6. CASE Daemon
  BY <1>1, <1>2, <1>3, <1>4, <1>5, <1>6 DEF Daemon, Killed, RecordsNowhere
<1>7. CASE Saver \/ SpuriousWakeup
  <2>1. UNCHANGED <<request, enabled, phase, changes>>
    BY <1>7, SaverFrame
  <2>2. pending' = pending \/ pending' = 0
    BY <1>7 DEF Saver, SpuriousWakeup, SaverChecks, SaverWaits, SaverExits, SaverCopies,
                SaverOpens, SaverCannotOpen, SaverWrites, SaverCannotWrite
  <2>3. Outstanding' = Outstanding
    BY <2>1 DEF Outstanding
  <2>4. CASE pending' = pending
    BY <1>0, <2>1, <2>3, <2>4 DEF PendingBound
  <2>5. CASE pending' = 0
    <3>1. pending' = 0 + 0 /\ 0 + Cardinality(Outstanding) <= changes
      BY <1>0, <1>a, <2>5
    <3> QED BY <1>0, <2>1, <2>3, <3>1 DEF PendingBound
  <2> QED BY <2>2, <2>4, <2>5
<1>8. CASE Client
  <2>1. PICK w \in Workers, c \in Names, kind \in Kinds, v \in Versions :
          request[w] = Idle /\ request' = [request EXCEPT ![w] = Is(kind, c, v)]
    BY <1>8, ClientFrame
  <2>2. changes' = changes + 1 /\ UNCHANGED <<phase, enabled, pending>>
    BY <1>8, ClientFrame
  <2>3. Outstanding' = Outstanding \cup {w} /\ w \notin Outstanding
    BY <1>0, <2>1, IsType DEF Outstanding
  <2>4. /\ IsFiniteSet(Outstanding')
        /\ Cardinality(Outstanding') = Cardinality(Outstanding) + 1
    BY <1>0, <2>3, FS_AddElement
  <2>5. request'[Main] = request[Main]
    BY <1>0, <2>1
  <2>6. pending' = g + n /\ n + Cardinality(Outstanding') <= changes'
    BY <1>0, <1>a, <2>2, <2>4
  <2> QED BY <2>2, <2>4, <2>5, <2>6 DEF PendingBound
<1>9. CASE Unnoticed
  <2>1. changes' = changes + 1 /\ UNCHANGED <<phase, enabled, pending, request>>
    BY <1>9, UnnoticedFrame
  <2>2. Outstanding' = Outstanding
    BY <2>1 DEF Outstanding
  <2>3. pending' = g + n /\ n + Cardinality(Outstanding') <= changes'
    BY <1>0, <1>a, <2>1, <2>2
  <2> QED BY <1>0, <2>1, <2>2, <2>3 DEF PendingBound
<1>10. ASSUME NEW t \in Threads, UpdateCubesConfig(t) PROVE PendingBound'
  <2>1. /\ request[t] # Idle /\ request' = [request EXCEPT ![t] = Idle]
        /\ UNCHANGED <<phase, enabled, changes>> /\ phase # "down"
    BY <1>10 DEF UpdateCubesConfig, daemonVars
  <2>2. pending' = pending \/ (enabled /\ pending' = pending + 1)
    BY <1>10 DEF UpdateCubesConfig, Notify
  <2>3. request'[Main] = Idle \/ request'[Main] = request[Main]
    BY <1>0, <2>1
  <2>4. CASE t \in Workers
    <3>1. Outstanding' = Outstanding \ {t} /\ t \in Outstanding
      BY <1>0, <2>1, <2>4 DEF Outstanding
    <3>2. /\ IsFiniteSet(Outstanding')
          /\ Cardinality(Outstanding') = Cardinality(Outstanding) - 1
      BY <1>0, <3>1, FS_RemoveElement
    <3>3. \E m \in Nat : pending' = g + m /\ m + Cardinality(Outstanding') <= changes'
      <4>1. CASE pending' = pending
        BY <1>0, <1>a, <2>1, <3>2, <4>1
      <4>2. CASE pending' = pending + 1
        <5>1. n + 1 \in Nat /\ pending' = g + (n + 1)
          BY <1>0, <1>a, <4>2
        <5>2. (n + 1) + Cardinality(Outstanding') <= changes'
          BY <1>0, <1>a, <2>1, <3>2
        <5> QED BY <5>1, <5>2
      <4> QED BY <2>2, <4>1, <4>2
    <3> QED BY <2>1, <2>3, <3>2, <3>3 DEF PendingBound
  <2>5. CASE t = Main
    <3>1. ~enabled /\ pending' = pending
      BY <2>1, <2>2, <2>5 DEF PendingBound
    <3>2. Outstanding' = Outstanding
      BY <1>0, <2>1, <2>5 DEF Outstanding
    <3> QED BY <1>0, <2>1, <2>3, <3>1, <3>2 DEF PendingBound
  <2> QED BY <2>4, <2>5 DEF Threads
<1>11. CASE UNCHANGED vars
  BY <1>11 DEF vars, daemonVars, PendingBound, Outstanding
<1> QED BY <1>6, <1>7, <1>8, <1>9, <1>10, <1>11 DEF Next, Records

\* Every step keeps flags and saving thread in line with the phase.
LEMMA PhaseStep == TypeOK /\ PhaseOK /\ [Next]_vars => PhaseOK'
<1> SUFFICES ASSUME TypeOK, PhaseOK, [Next]_vars PROVE PhaseOK'
  OBVIOUS
<1> USE DEF PhaseOK, Before
<1>0. CASE StartDaemon \/ StartClean
  <2>1. phase' \in {"serving", "serving_clean"} /\ ~enabled' /\ ~kill'
    BY <1>0 DEF StartDaemon, StartClean, Started
  <2> QED BY <2>1
<1>1. CASE NewCubesDump
  <2>1. /\ phase' \in {"starting", "loading"} /\ saver' = "check"
        /\ ~enabled' /\ ~kill'
    BY <1>1 DEF NewCubesDump
  <2> QED BY <2>1
<1>2. ASSUME NEW c \in Names, LoadCube(c) PROVE PhaseOK'
  BY <1>2 DEF LoadCube
<1>3. CASE LoadLastTopology \/ LoadFails
  BY <1>3 DEF LoadLastTopology, LoadFails
<1>4. CASE Enable
  BY <1>4 DEF Enable
<1>5. CASE Shutdown
  <2>1. /\ phase' = "stopping" /\ enabled' = enabled /\ kill' /\ request' = request
        /\ \A t \in Threads : request[t] = Idle /\ phase = "running"
        /\ saver' # "off"
    BY <1>5 DEF Shutdown
  <2>2. phase = "running"
    BY <1>5 DEF Shutdown
  <2> QED BY <2>1, <2>2
<1>6. CASE Stopped
  BY <1>6 DEF Stopped
<1>7. CASE Restart \/ GoesDown
  BY <1>7 DEF Restart, GoesDown
<1>8. CASE Daemon
  BY <1>0, <1>1, <1>2, <1>3, <1>4, <1>5, <1>6, <1>7, <1>8 DEF Daemon, Killed, RecordsNowhere
<1>9. CASE Saver \/ SpuriousWakeup
  <2>1. UNCHANGED <<phase, enabled, kill, request>>
    BY <1>9, SaverFrame
  <2>2. CASE SaverExits
    BY <2>1, <2>2 DEF SaverExits, Continues
  <2>3. CASE saver' # "off" /\ saver # "off"
    BY <2>1, <2>3
  <2>4. SaverExits \/ (saver' # "off" /\ saver # "off")
    BY <1>9 DEF Saver, SpuriousWakeup, SaverChecks, SaverWaits, SaverCopies, SaverOpens,
                SaverCannotOpen, SaverWrites, SaverCannotWrite, Continues
  <2> QED BY <2>2, <2>3, <2>4
<1>10. CASE Client
  <2>1. phase \in Before \cup {"running"}
    BY <1>10, ClientFrame DEF Serving
  <2> QED BY <1>10, <2>1, ClientFrame
<1>11. ASSUME NEW t \in Threads, UpdateCubesConfig(t) PROVE PhaseOK'
  <2>1. phase \in {"starting", "loading", "running"} /\ UNCHANGED <<phase, enabled, kill>>
    BY <1>11 DEF UpdateCubesConfig, daemonVars
  <2>2. saver # "off" => saver' # "off"
    BY <1>11 DEF UpdateCubesConfig, Notify
  <2> QED BY <2>1, <2>2
<1>12. CASE Unnoticed
  BY <1>12, UnnoticedFrame
<1>13. CASE UNCHANGED vars
  BY <1>13 DEF vars, daemonVars
<1> QED BY <1>8, <1>9, <1>10, <1>11, <1>12, <1>13 DEF Next, Records

\* Every step keeps the account of what is saved.
LEMMA AccountStep == TypeOK /\ PhaseOK /\ Accounted /\ [Next]_vars => Accounted'
<1> SUFFICES ASSUME TypeOK, PhaseOK, Accounted, [Next]_vars,
                    phase' \in {"running", "stopping", "stopped"}, pending' = 0
             PROVE  Saved' = config' \/ missed'
  BY DEF Accounted
<1>0. pending \in Int
  BY PendingNumber
<1>1. ASSUME UNCHANGED <<config, pending, copy, file, missed>>,
             phase \in {"running", "stopping", "stopped"},
             saver' \in {"copied", "writing"} <=> saver \in {"copied", "writing"}
      PROVE  Saved' = config' \/ missed'
  BY <1>1 DEF Accounted, Saved
<1>2. CASE Daemon
  <2>1. CASE Enable
    BY <2>1 DEF Enable, Saved
  <2>2. CASE Shutdown \/ Stopped
    BY <1>1, <2>2 DEF Shutdown, Stopped
  <2>3. ASSUME NEW c \in Names, LoadCube(c) PROVE FALSE
    BY <2>3 DEF LoadCube
  <2>4. CASE \/ StartDaemon \/ StartClean \/ NewCubesDump \/ LoadLastTopology \/ LoadFails
            \/ Restart \/ GoesDown
    BY <2>4 DEF StartDaemon, StartClean, Started, NewCubesDump, LoadLastTopology, LoadFails,
                Restart, GoesDown
  <2> QED BY <1>2, <2>1, <2>2, <2>3, <2>4 DEF Daemon, Killed, RecordsNowhere
<1>3. CASE Saver \/ SpuriousWakeup
  <2>0. UNCHANGED <<phase, config>>
    BY <1>3, SaverFrame
  <2>1. CASE SaverChecks \/ SaverWaits \/ SaverExits \/ SpuriousWakeup
    BY <1>1, <2>0, <2>1 DEF SaverChecks, SaverWaits, SaverExits, SpuriousWakeup, Continues
  <2>2. CASE SaverCopies
    BY <2>0, <2>2 DEF SaverCopies, Continues, Saved
  <2>3. CASE SaverOpens
    BY <2>0, <2>3 DEF SaverOpens, Continues, Saved, Accounted
  <2>4. CASE SaverCannotOpen
    BY <2>0, <2>4 DEF SaverCannotOpen, Continues, Saved, Accounted
  <2>5. CASE SaverWrites
    BY <2>0, <2>5 DEF SaverWrites, Continues, Saved, Accounted
  <2>6. CASE SaverCannotWrite
    BY <2>6 DEF SaverCannotWrite
  <2> QED BY <1>3, <2>1, <2>2, <2>3, <2>4, <2>5, <2>6 DEF Saver
<1>4. CASE Client \/ Unnoticed
  BY <1>1, <1>4, ClientFrame, UnnoticedFrame
<1>5. ASSUME NEW t \in Threads, UpdateCubesConfig(t) PROVE Saved' = config' \/ missed'
  <2>1. phase' = phase /\ enabled' = enabled /\ enabled /\ UNCHANGED <<copy, file>>
    BY <1>5 DEF UpdateCubesConfig, daemonVars, PhaseOK, Before
  <2>2. CASE Notify
    BY <2>1, <2>2 DEF Notify, Saved
  <2>3. CASE missed' = (missed \/ config' # config) /\ UNCHANGED <<pending, saver>>
    BY <2>1, <2>3 DEF Accounted, Saved
  <2> QED BY <1>5, <2>2, <2>3 DEF UpdateCubesConfig
<1>6. CASE UNCHANGED vars
  BY <1>1, <1>6 DEF vars, daemonVars
<1> QED BY <1>2, <1>3, <1>4, <1>5, <1>6 DEF Next, Records

\* What Instance says of one cube.
InstanceOf(c) ==
  /\ ~Unrecorded(c) => config[c] = cubes[c]
  /\ \A t, u \in Threads :
       request[t] # Idle /\ request[u] # Idle /\ request[t].cube = c /\ request[u].cube = c
         => t = u
  /\ \A t \in Threads : request[t] # Idle /\ request[t].cube = c =>
       /\ request[t].value = cubes[c]
       /\ request[t].kind \notin {"create", "delete"} => ~NoEntry(c)

\* A step that leaves the requests for a cube, the cube and its entry alone.
LEMMA OtherCube ==
  ASSUME NEW c \in Names, InstanceOf(c),
         cubes'[c] = cubes[c], config'[c] = config[c],
         \A t \in Threads : \/ request'[t] = request[t]
                            \/ /\ request'[t] = Idle \/ request'[t].cube # c
                               /\ request[t] = Idle \/ request[t].cube # c
  PROVE  InstanceOf(c)'
<1>1. Unrecorded(c)' <=> Unrecorded(c)
  BY DEF Unrecorded
<1>2. ASSUME NEW t \in Threads, request'[t] # Idle, request'[t].cube = c
      PROVE  request'[t] = request[t]
  BY <1>2
<1> QED BY <1>1, <1>2 DEF InstanceOf, NoEntry

\* A change that finds no other request for its cube unrecorded finds the entry of
\* the cube right: recording it later will be right too.
LEMMA ChangeKeepsInstance ==
  ASSUME TypeOK, Instance,
         NEW t \in Threads, NEW c \in Names, NEW kind \in Kinds, NEW v \in Versions,
         request[t] = Idle,
         kind \notin {"create", "delete"} => cubes[c] # Absent,
         cubes' = [cubes EXCEPT ![c] = v],
         request' = [request EXCEPT ![t] = Is(kind, c, v)],
         parted' = Overlapping(c),
         config' = config
  PROVE  Instance'
<1> SUFFICES ASSUME NEW d \in Names \ parted' PROVE InstanceOf(d)'
  BY DEF Instance, InstanceOf
<1>0. /\ d \notin parted /\ InstanceOf(d)
      /\ cubes \in [Names -> Versions] /\ request \in [Threads -> Requests \cup {Idle}]
  BY DEF TypeOK, Instance, InstanceOf, Overlapping
<1>1. /\ request'[t] # Idle /\ request'[t].cube = c /\ request'[t].value = v
      /\ request'[t].kind = kind
      /\ \A s \in Threads \ {t} : request'[s] = request[s]
      /\ cubes'[c] = v /\ \A e \in Names \ {c} : cubes'[e] = cubes[e]
  BY <1>0, IsType
<1>2. CASE d # c
  BY <1>0, <1>1, <1>2, OtherCube
<1>3. CASE d = c
  <2>1. ~Unrecorded(c)
    BY <1>3 DEF Overlapping
  <2>2. \A s \in Threads : request'[s] # Idle /\ request'[s].cube = c => s = t
    BY <1>1, <2>1 DEF Unrecorded
  <2>3. Unrecorded(c)'
    BY <1>1 DEF Unrecorded
  <2>4. config[c] = cubes[c]
    BY <1>0, <1>3, <2>1 DEF InstanceOf
  <2>5. cubes[c] \in Versions /\ Partial \notin Versions
    BY <1>0, ValuesAssumption DEF Versions, Partial, Absent, Created
  <2>6. kind \notin {"create", "delete"} => ~NoEntry(c)'
    BY <2>4, <2>5 DEF NoEntry
  <2> QED BY <1>1, <1>3, <2>2, <2>3, <2>6 DEF InstanceOf
<1> QED BY <1>2, <1>3

\* A request that parts a cube from its record, or a change that does, leaves the
\* other cubes alone.
LEMMA PartingKeepsInstance ==
  ASSUME TypeOK, Instance, NEW c \in Names,
         parted' = parted \cup {c}, config' = config,
         \A d \in Names \ {c} : cubes'[d] = cubes[d],
         \A t \in Threads : \/ request'[t] = request[t]
                            \/ request[t] = Idle /\ request'[t].cube = c
  PROVE  Instance'
<1> SUFFICES ASSUME NEW d \in Names \ parted' PROVE InstanceOf(d)'
  BY DEF Instance, InstanceOf
<1>1. d # c /\ InstanceOf(d)
  BY DEF Instance, InstanceOf
<1> QED BY <1>1, OtherCube

\* Recording the one change of a cube makes its entry right.
LEMMA RecordKeepsInstance ==
  ASSUME TypeOK, Instance, NEW t \in Threads, UpdateCubesConfig(t)
  PROVE  Instance'
<1> DEFINE r == request[t]
<1>0. /\ cubes \in [Names -> Versions] /\ request \in [Threads -> Requests \cup {Idle}]
      /\ config \in [Names -> Entries]
      /\ r # Idle /\ r \in Requests /\ r.cube \in Names
      /\ cubes' = cubes /\ parted' = parted
      /\ request' = [request EXCEPT ![t] = Idle]
      /\ config' = [config EXCEPT ![r.cube] = Recorded(r)]
  <2>1. r # Idle /\ r \in Requests
    BY DEF TypeOK, UpdateCubesConfig
  <2>2. r.cube \in Names
    BY <2>1 DEF Requests
  <2> QED BY <2>1, <2>2 DEF TypeOK, Configs, UpdateCubesConfig
<1> SUFFICES ASSUME NEW d \in Names \ parted PROVE InstanceOf(d)'
  BY <1>0 DEF Instance, InstanceOf
<1>1. InstanceOf(d)
  BY DEF Instance, InstanceOf
<1>2. request'[t] = Idle /\ \A s \in Threads \ {t} : request'[s] = request[s]
  BY <1>0
<1>3. CASE d # r.cube
  BY <1>0, <1>1, <1>2, <1>3, OtherCube
<1>4. CASE d = r.cube
  <2>1. /\ r.value = cubes[d]
        /\ r.kind \notin {"create", "delete"} => ~NoEntry(r.cube)
        /\ \A s \in Threads \ {t} : request[s] # Idle => request[s].cube # d
    BY <1>0, <1>1, <1>4 DEF InstanceOf
  <2>2. config'[d] = cubes[d]
    BY <1>0, <1>4, <2>1, RecordedValue
  <2>3. \A s \in Threads : request'[s] # Idle => request'[s].cube # d
    BY <1>2, <2>1
  <2> QED BY <1>0, <2>2, <2>3 DEF InstanceOf
<1> QED BY <1>3, <1>4

\* Every step keeps the copy in memory right.
LEMMA InstanceStep == TypeOK /\ Instance /\ [Next]_vars => Instance'
<1> SUFFICES ASSUME TypeOK, Instance, [Next]_vars PROVE Instance'
  OBVIOUS
<1>1. ASSUME UNCHANGED <<cubes, request, config, parted>> PROVE Instance'
  BY <1>1 DEF Instance, Unrecorded, NoEntry
<1>2. CASE StartDaemon \/ StartClean
  <2>1. /\ cubes' = Empty /\ config' = Empty
        /\ \A t \in Threads : request'[t] = Idle
    BY <1>2 DEF StartDaemon, StartClean, Started
  <2> QED BY <2>1 DEF Instance
<1>3. ASSUME NEW c \in Names, LoadCube(c) PROVE Instance'
  <2>1. source[c] \in Versions
    BY <1>3 DEF LoadCube, TypeOK, Configs, Entries
  <2>2. Main \in Threads /\ "create" \in Kinds
    BY DEF Threads, Kinds
  <2> QED BY <1>3, <2>1, <2>2, ChangeKeepsInstance DEF LoadCube
<1>4. CASE Daemon
  BY <1>1, <1>2, <1>3, <1>4 DEF Daemon, NewCubesDump, LoadLastTopology, LoadFails, Enable,
     Shutdown, Stopped, Restart, Killed, RecordsNowhere, GoesDown
<1>5. CASE Saver \/ SpuriousWakeup
  BY <1>1, <1>5, SaverFrame
<1>6. CASE Client
  <2>1. PICK w \in Workers, c \in Names, kind \in Kinds, v \in Versions :
          \/ Changes(w, kind, c, v) /\ (kind \notin {"create", "delete"} => cubes[c] # Absent)
          \/ Refused(w, kind, c, v)
    BY <1>6, ClientFacts
  <2>2. w \in Threads
    BY DEF Threads
  <2>3. CASE Changes(w, kind, c, v) /\ (kind \notin {"create", "delete"} => cubes[c] # Absent)
    BY <2>2, <2>3, ChangeKeepsInstance DEF Changes
  <2>4. CASE Refused(w, kind, c, v)
    <3>1. \A t \in Threads : \/ request'[t] = request[t]
                             \/ request[t] = Idle /\ request'[t].cube = c
      BY <2>2, <2>4, IsType DEF Refused, TypeOK
    <3> QED BY <2>4, <3>1, PartingKeepsInstance DEF Refused
  <2> QED BY <2>1, <2>3, <2>4
<1>7. CASE Unnoticed
  <2>1. PICK c \in Names, v \in Versions :
          cubes' = [cubes EXCEPT ![c] = v] /\ parted' = parted \cup {c}
    BY <1>7, UnnoticedFrame
  <2>2. \A d \in Names \ {c} : cubes'[d] = cubes[d]
    BY <2>1 DEF TypeOK
  <2>3. UNCHANGED <<request, config>>
    BY <1>7, UnnoticedFrame
  <2> QED BY <2>1, <2>2, <2>3, PartingKeepsInstance
<1>8. CASE UNCHANGED vars
  BY <1>1, <1>8 DEF vars
<1> QED BY <1>4, <1>5, <1>6, <1>7, <1>8, RecordKeepsInstance DEF Next, Records

-----------------------------------------------------------------------------
\* The invariant is inductive.
LEMMA Inductive == Spec => []Inv
<1>1. Init => Inv
  <2> SUFFICES ASSUME Init PROVE Inv
    OBVIOUS
  <2> USE DEF Init
  <2>1. TypeOK
    <3>1. request \in [Threads -> Requests \cup {Idle}]
      OBVIOUS
    <3>2. changes \in 0 .. MaxChanges /\ crashes \in 0 .. MaxCrashes
      BY BoundsAssumption
    <3>3. 0 \in 0 .. MaxChanges /\ pending = 0 + 0
      BY BoundsAssumption
    <3> QED BY <3>1, <3>2, <3>3, EmptyType DEF TypeOK, Before
  <2>2. Outstanding = {}
    BY DEF Outstanding, Threads
  <2>3. PendingBound
    <3>1. pending = 0 + 0 /\ 0 + 0 <= changes
      OBVIOUS
    <3> QED BY <2>2, <3>1, FS_EmptySet DEF PendingBound, Threads
  <2>4. PhaseOK /\ Accounted
    BY DEF PhaseOK, Accounted, Before
  <2>5. Instance
    BY DEF Instance, Unrecorded
  <2> QED BY <2>1, <2>3, <2>4, <2>5 DEF Inv
<1>2. Inv /\ [Next]_vars => Inv'
  <2> SUFFICES ASSUME Inv, [Next]_vars PROVE Inv'
    OBVIOUS
  <2>1. PendingBound' /\ PhaseOK' /\ Accounted' /\ Instance' /\ TypesButPending'
    BY PendingStep, PhaseStep, AccountStep, InstanceStep, TypesStep DEF Inv
  <2>2. \E g \in Garbage \cup {0}, n \in 0 .. MaxChanges : pending' = g + n
    <3>1. PICK g \in Garbage \cup {0}, n \in Nat :
            pending' = g + n /\ n + Cardinality(Outstanding') <= changes'
      BY <2>1 DEF PendingBound
    <3>2. Cardinality(Outstanding') \in Nat /\ changes' \in 0 .. MaxChanges
      BY <2>1, FS_CardinalityType DEF TypesButPending, PendingBound
    <3>3. n \in 0 .. MaxChanges
      BY <3>1, <3>2, BoundsAssumption
    <3> QED BY <3>1, <3>3
  <2>3. TypeOK'
    BY <2>1, <2>2 DEF TypesButPending, TypeOK
  <2> QED BY <2>1, <2>3 DEF Inv
<1> QED BY <1>1, <1>2, PTL DEF Spec

\* Every variable keeps its type; in particular list_of_pending_changes_ never
\* counts more than the requests of the clients above what it was left with
\* uninitialised.
THEOREM TypeCorrect == Spec => []TypeOK
<1>1. Inv => TypeOK
  BY DEF Inv
<1> QED BY <1>1, Inductive, PTL

\* CubesDump::SaveToFile never sleeps on a change that was counted: whatever
\* workers, wakeups and crashes do, the file it leaves behind is current, or the
\* change was missed for a reason the history names.
THEOREM SaverForgetsNothing == Spec => []NothingForgotten
<1>1. Inv => NothingForgotten
  BY DEF Inv, Accounted, Saved, NothingForgotten
<1> QED BY <1>1, Inductive, PTL

\* ~CubesDump joins a thread that has saved the last configuration.
THEOREM ShutdownSaves == Spec => []SavedAtShutdown
<1>1. Inv => SavedAtShutdown
  BY DEF Inv, Accounted, Saved, PhaseOK, SavedAtShutdown
<1> QED BY <1>1, Inductive, PTL

\* cubes_config_ is the configuration of the cubes whenever every request is
\* recorded, for each cube whose changes did not overlap, were all recorded and
\* were not recorded though refused.
THEOREM InMemory == Spec => []InMemoryInstance
<1>1. Inv => InMemoryInstance
  BY DEF Inv, Instance, Unrecorded, InMemoryInstance
<1> QED BY <1>1, Inductive, PTL
=============================================================================
