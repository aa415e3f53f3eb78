---------------------------- MODULE TopologyDump ----------------------------
(***************************************************************************)
(* The persistent topology (cubes_dump.cpp, the startup and shutdown of    *)
(* polycubed.cpp, RestServer::load_last_topology): the REST workers keep a *)
(* copy of the configuration in memory, a saving thread writes it to the   *)
(* dump file, and a restarted daemon loads the file.                       *)
(*                                                                         *)
(* A request first changes the cube and then records the change in the     *)
(* copy, with no lock held in between.  Some changes are never recorded,   *)
(* and some requests that changed nothing are.                             *)
(*                                                                         *)
(* The saving thread waits on a condition variable, so it may be woken up  *)
(* for no reason.  The daemon may be killed at any step; what is in the    *)
(* file stays.                                                             *)
(***************************************************************************)
EXTENDS Integers, FiniteSets

CONSTANTS
  Names,          \* names of cubes
  Values,         \* settings of a cube that clients change
  Workers,        \* threads of the REST server that handle requests
  Main,           \* the main thread, which loads the file
  Torn,           \* a file that is truncated and not yet written
  Idle,           \* no request
  EarlyRequests,  \* whether clients are served while the topology is loaded
  FileFails,      \* whether the dump file may be impossible to open or to write
  Garbage,        \* what a counter that is not initialised may hold
  MaxChanges,     \* bound: requests of clients and changes nobody records
  MaxCrashes      \* bound: times the daemon is killed

ASSUME FlagsAssumption  == EarlyRequests \in BOOLEAN /\ FileFails \in BOOLEAN
ASSUME GarbageAssumption == Garbage \subseteq Int
ASSUME BoundsAssumption == MaxChanges \in Nat /\ MaxCrashes \in Nat

ASSUME ThreadsAssumption == Main \notin Workers

Threads == Workers \cup {Main}

\* The configuration of a cube: absent, as created, or with a setting changed
\* since.
Absent   == "absent"
Created  == "created"
Versions == {Absent, Created} \cup Values

\* Recorded for a cube that is not there: an entry without the name of its
\* service.
Partial  == "partial"
Entries  == Versions \cup {Partial}

Configs  == [Names -> Entries]
Empty    == [c \in Names |-> Absent]

\* A request that is served and not recorded yet.
Kinds    == {"create", "update", "update_leaf", "delete", "delete_leaf"}
Requests == [kind : Kinds, cube : Names, value : Versions]

ASSUME TornAssumption   == Torn \notin Configs
ASSUME IdleAssumption   == Idle \notin Requests
ASSUME ValuesAssumption == Values \cap {Absent, Created, Partial} = {}

VARIABLES
  phase,     \* of the daemon: "down", "serving" or "serving_clean" (the REST
             \* server runs, CubesDump does not exist), "starting", "loading",
             \* "running", "stopping", "stopped"
  todo,      \* cubes of the file that are still to be created
  source,    \* the contents of the file as it was read at startup
  cubes,     \* the cubes as they are
  request,   \* request[t]: what thread t has been asked for, has done and has
             \* not recorded
  config,    \* cubes_config_
  pending,   \* list_of_pending_changes_
  enabled,   \* dump_enabled_
  kill,      \* kill_saving_thread_
  saver,     \* where the saving thread is
  copy,      \* its copy of the configuration
  file,      \* the dump file
  changes,   \* history: requests of clients and changes nobody records
  crashes,   \* history: times killed
  parted,    \* history: the cubes that were changed while another change of them
             \* was not recorded yet, that were changed with no record, and those
             \* for which a request was recorded that had been refused
  missed     \* history: the configuration has a change that is neither counted in
             \* pending nor in what the saving thread has saved or is saving: it
             \* came before the dump was enabled, its recording threw, it brought
             \* the garbage in the counter to 0, or the file failed

daemonVars == <<phase, todo, source, enabled, kill, crashes>>
vars == <<daemonVars, cubes, request, config, pending, saver, copy, file, changes,
          parted, missed>>

Init ==
  /\ phase = "down"
  /\ todo = {} /\ source = Empty
  /\ cubes = Empty /\ request = [t \in Threads |-> Idle]
  /\ config = Empty
  /\ pending = 0
  /\ enabled = FALSE /\ kill = FALSE
  /\ saver = "off" /\ copy = Empty
  /\ file = Empty
  /\ changes = 0 /\ crashes = 0 /\ parted = {}
  /\ missed = FALSE

-----------------------------------------------------------------------------
(* Startup, shutdown and loss of the daemon.                               *)

\* The REST server is started, before there is a CubesDump ...
Started(as) ==
  /\ phase = "down"
  /\ phase' = as
  /\ cubes' = Empty /\ request' = [t \in Threads |-> Idle] /\ parted' = {}
  /\ config' = Empty
  /\ enabled' = FALSE /\ kill' = FALSE /\ missed' = FALSE
  /\ source' = Empty /\ todo' = {}
  /\ UNCHANGED <<pending, saver, copy, changes, crashes>>

StartDaemon == Started("serving") /\ UNCHANGED file

\* (with --cubes-dump-clean-init the file is overwritten, and never loaded)
StartClean == Started("serving_clean") /\ file' = Empty

\* ... whose constructor starts the saving thread and leaves the counter of
\* pending changes as it is.
NewCubesDump ==
  /\ \/ phase = "serving" /\ phase' = "starting"
     \/ phase = "serving_clean" /\ phase' = "loading"
  /\ pending' \in Garbage
  /\ saver' = "check"
  /\ UNCHANGED <<todo, source, cubes, request, config, enabled, kill, copy, file,
                 changes, crashes, parted, missed>>

\* The reading of the file, whatever the saving thread did meanwhile.  A torn
\* file does not parse: nothing is loaded.
LoadLastTopology ==
  /\ phase = "starting"
  /\ phase' = "loading"
  /\ source' = IF file = Torn THEN Empty ELSE file
  /\ todo' = {c \in Names : source'[c] # Absent}
  /\ UNCHANGED <<cubes, request, config, pending, enabled, kill, saver, copy,
                 file, changes, crashes, parted, missed>>

\* cubes_config_mutex_ is held by the saving thread between its test and its
\* wait.
ConfigFree == saver # "to_wait"

\* What is in the file or on its way there.
Saved == IF saver \in {"copied", "writing"} THEN copy ELSE file

\* Mutant of Notify: a change is counted twice.
NotifyTwice ==
  /\ pending' = IF enabled THEN pending + 2 ELSE pending
  /\ saver' = IF enabled /\ saver = "waiting" THEN "woken" ELSE saver
  /\ missed' = (missed \/ (enabled /\ pending' = 0 /\ config' # Saved))

\* The saving thread is told of a change: under cubes_config_mutex_.
Notify ==
  /\ pending' = IF enabled THEN pending + 1 ELSE pending
  /\ saver' = IF enabled /\ saver = "waiting" THEN "woken" ELSE saver
  /\ missed' = (missed \/ (enabled /\ pending' = 0 /\ config' # Saved))

Is(kind, c, v) == [kind |-> kind, cube |-> c, value |-> v]

\* A request for c is still to be recorded.
Unrecorded(c) == \E t \in Threads : request[t] # Idle /\ request[t].cube = c

Overlapping(c) == parted \cup (IF Unrecorded(c) THEN {c} ELSE {})

\* create_cubes creates the cubes of the file one by one, in an order of the
\* names ...
LoadCube(c) ==
  /\ phase = "loading" /\ c \in todo
  /\ request[Main] = Idle
  /\ cubes[c] = Absent /\ source[c] # Partial
  /\ todo' = todo \ {c}
  /\ cubes' = [cubes EXCEPT ![c] = source[c]]
  /\ request' = [request EXCEPT ![Main] = Is("create", c, source[c])]
  /\ parted' = Overlapping(c)
  /\ UNCHANGED <<phase, source, enabled, kill, crashes, config, pending, saver,
                 copy, file, changes, missed>>

\* ... and gives up at the first one that fails: an entry without a service, a
\* name that a client has taken meanwhile, or a service that refuses it.
LoadFails ==
  /\ phase = "loading" /\ todo # {}
  /\ request[Main] = Idle
  /\ todo' = {}
  /\ UNCHANGED <<phase, source, enabled, kill, crashes, cubes, request, config,
                 pending, saver, copy, file, changes, parted, missed>>

Enable ==
  /\ phase = "loading" /\ todo = {}
  /\ request[Main] = Idle
  /\ phase' = "running"
  /\ enabled' = TRUE
  /\ missed' = (config # Saved)
  /\ UNCHANGED <<todo, source, kill, crashes, cubes, request, config, pending,
                 saver, copy, file, changes, parted>>

\* The REST server is stopped, when its workers are done, and then ~CubesDump
\* sets the flag and notifies without taking the mutex; a thread
\* that is not waiting yet does not notice.
Shutdown ==
  /\ phase = "running"
  /\ \A t \in Threads : request[t] = Idle
  /\ phase' = "stopping"
  /\ kill' = TRUE
  /\ saver' = IF saver = "waiting" THEN "woken" ELSE saver
  /\ UNCHANGED <<todo, source, enabled, crashes, cubes, request, config, pending,
                 copy, file, changes, parted, missed>>

\* join() returns.
Stopped ==
  /\ phase = "stopping" /\ saver = "off"
  /\ phase' = "stopped"
  /\ UNCHANGED <<todo, source, enabled, kill, crashes, cubes, request, config,
                 pending, saver, copy, file, changes, parted, missed>>

Restart ==
  /\ phase = "stopped"
  /\ phase' = "down"
  /\ UNCHANGED <<todo, source, enabled, kill, crashes, cubes, request, config,
                 pending, saver, copy, file, changes, parted, missed>>

GoesDown ==
  /\ crashes < MaxCrashes
  /\ crashes' = crashes + 1
  /\ phase' = "down"
  /\ saver' = "off"
  /\ UNCHANGED <<todo, source, enabled, kill, cubes, request, config, pending,
                 copy, file, changes, parted, missed>>

\* The daemon or the machine goes down.
Killed ==
  /\ phase \notin {"down", "stopped"}
  /\ GoesDown

\* A request that is recorded while there is no CubesDump takes the daemon down.
RecordsNowhere(t) ==
  /\ phase \in {"serving", "serving_clean"}
  /\ request[t] # Idle
  /\ GoesDown

-----------------------------------------------------------------------------
(* Requests of clients.                                                    *)

Before  == {"serving", "serving_clean", "starting", "loading"}
Serving == phase = "running" \/ (EarlyRequests /\ phase \in Before)

\* A worker makes a change to the cubes that it is going to record.
Changes(w, kind, c, v) ==
  /\ Serving
  /\ request[w] = Idle
  /\ changes < MaxChanges
  /\ changes' = changes + 1
  /\ cubes' = [cubes EXCEPT ![c] = v]
  /\ request' = [request EXCEPT ![w] = Is(kind, c, v)]
  /\ parted' = Overlapping(c)
  /\ UNCHANGED <<daemonVars, config, pending, saver, copy, file, missed>>

\* Service::CreateReplaceUpdate of a new cube and of one that exists, and the
\* commands that change a port (connect, disconnect, attach, detach).
Create(w, c) == cubes[c] = Absent /\ Changes(w, "create", c, Created)
Update(w, c, v) == cubes[c] # Absent /\ Changes(w, "update", c, v)

\* A leaf or a list inside a cube.
UpdateLeaf(w, c, v) == cubes[c] # Absent /\ Changes(w, "update_leaf", c, v)
DeleteLeaf(w, c) == cubes[c] # Absent /\ Changes(w, "delete_leaf", c, Created)

Delete(w, c) == cubes[c] # Absent /\ Changes(w, "delete", c, Absent)

\* Requests that a service refuses and that are recorded all the same: the
\* deletion of a cube of another service (only its name is looked up) and that of
\* a list, of a cube that need not be there.
Refused(w, kind, c, v) ==
  /\ Serving
  /\ request[w] = Idle
  /\ changes < MaxChanges
  /\ changes' = changes + 1
  /\ request' = [request EXCEPT ![w] = Is(kind, c, v)]
  /\ parted' = parted \cup {c}
  /\ UNCHANGED <<daemonVars, cubes, config, pending, saver, copy, file, missed>>

DeleteRefused(w, c) == cubes[c] # Absent /\ Refused(w, "delete", c, Absent)
DeleteLeafRefused(w, c) == Refused(w, "delete_leaf", c, Created)

\* A change that is recorded nowhere: by a request that fails half way or is an
\* action of the service, by the transparent cubes of a port, by the listener that
\* takes the peer of a port away.
Strays(c, v) ==
  /\ phase \in Before \cup {"running"}
  /\ cubes[c] \notin {Absent, v}
  /\ changes < MaxChanges
  /\ changes' = changes + 1
  /\ cubes' = [cubes EXCEPT ![c] = v]
  /\ parted' = parted \cup {c}
  /\ UNCHANGED <<daemonVars, request, config, pending, saver, copy, file, missed>>

\* The entry of the cube after each kind of request is recorded.  A leaf or a
\* list of a cube without an entry leaves a null entry behind.
NoEntry(c) == config[c] \in {Absent, Partial}

UpdateCubesConfigCreateReplace(r) == r.value

UpdateCubesConfigUpdate(r) ==
  IF ~NoEntry(r.cube) THEN r.value
  ELSE IF r.kind = "update" THEN config[r.cube]
  ELSE Partial

\* Mutant of UpdateCubesConfigDelete: an entry that is deleted stays.
UpdateCubesConfigUndeleted(r) == config[r.cube]

UpdateCubesConfigDelete(r) ==
  IF r.kind = "delete_leaf" /\ NoEntry(r.cube) THEN Partial ELSE r.value

Recorded(r) ==
  CASE r.kind = "create" -> UpdateCubesConfigCreateReplace(r)
    [] r.kind \in {"update", "update_leaf"} -> UpdateCubesConfigUpdate(r)
    [] r.kind \in {"delete", "delete_leaf"} -> UpdateCubesConfigDelete(r)

\* Whether recording throws, before anybody is notified: at() finds no cube, a
\* null entry is walked into, or (a deleted leaf) is not.
Throws(r) ==
  CASE r.kind = "update" -> {config[r.cube] = Absent}
    [] r.kind = "update_leaf" -> {NoEntry(r.cube)}
    [] r.kind = "delete_leaf" -> IF NoEntry(r.cube) THEN BOOLEAN ELSE {FALSE}
    [] OTHER -> {FALSE}

\* The change is recorded, with cubes_config_mutex_ held.
UpdateCubesConfig(t) ==
  /\ request[t] # Idle
  /\ phase \in {"starting", "loading", "running"}
  /\ ConfigFree
  /\ request' = [request EXCEPT ![t] = Idle]
  /\ config' = [config EXCEPT ![request[t].cube] = Recorded(request[t])]
  /\ \E throws \in Throws(request[t]) :
       IF throws
       THEN missed' = (missed \/ config' # config) /\ UNCHANGED <<pending, saver>>
       ELSE Notify
  /\ UNCHANGED <<daemonVars, cubes, copy, file, changes, parted>>

-----------------------------------------------------------------------------
(* SaveToFile.                                                             *)

Continues(pc) ==
  /\ saver' = pc
  /\ UNCHANGED <<daemonVars, cubes, request, config, changes, parted>>

\* Mutant of SaverChecks: the thread waits for the next notification whatever
\* was counted while it was writing.
SaverAlwaysWaits ==
  /\ saver \in {"check", "failed"}
  /\ Continues(IF ~kill THEN "to_wait" ELSE "woken")
  /\ UNCHANGED <<pending, copy, file, missed>>

\* The test before the wait, with the mutex held.
SaverChecks ==
  /\ saver \in {"check", "failed"}
  /\ Continues(IF pending = 0 /\ ~kill THEN "to_wait" ELSE "woken")
  /\ UNCHANGED <<pending, copy, file, missed>>

SaverWaits ==
  /\ saver = "to_wait"
  /\ Continues("waiting")
  /\ UNCHANGED <<pending, copy, file, missed>>

SpuriousWakeup ==
  /\ saver = "waiting"
  /\ Continues("woken")
  /\ UNCHANGED <<pending, copy, file, missed>>

\* Mutant of SaverExits: the thread goes whatever is pending.
SaverExitsAtOnce ==
  /\ saver = "woken" /\ kill
  /\ Continues("off")
  /\ UNCHANGED <<pending, copy, file, missed>>

SaverExits ==
  /\ saver = "woken" /\ pending = 0 /\ kill
  /\ Continues("off")
  /\ UNCHANGED <<pending, copy, file, missed>>

SaverCopies ==
  /\ saver = "woken" /\ ~(pending = 0 /\ kill)
  /\ copy' = config
  /\ pending' = 0
  /\ missed' = FALSE
  /\ Continues("copied")
  /\ UNCHANGED file

\* The file is opened for writing ...
SaverOpens ==
  /\ saver = "copied"
  /\ file' = Torn
  /\ Continues("writing")
  /\ UNCHANGED <<pending, copy, missed>>

\* ... or cannot be opened, and the copy is dropped and the loop goes on.
SaverCannotOpen ==
  /\ FileFails
  /\ saver = "copied"
  /\ missed' = (missed \/ copy # file)
  /\ Continues("failed")
  /\ UNCHANGED <<pending, copy, file>>

\* Mutant of SaverWrites: the counter is reset only now.
SaverWritesAndResets ==
  /\ saver = "writing"
  /\ file' = copy
  /\ pending' = 0
  /\ Continues("check")
  /\ UNCHANGED <<copy, missed>>

\* ... and then written.
SaverWrites ==
  /\ saver = "writing"
  /\ file' = copy
  /\ Continues("check")
  /\ UNCHANGED <<pending, copy, missed>>

\* Writing the file that was opened fails, and nobody looks.
SaverCannotWrite ==
  /\ FileFails
  /\ saver = "writing"
  /\ missed' = TRUE
  /\ Continues("failed")
  /\ UNCHANGED <<pending, copy, file>>

Saver == \/ SaverChecks \/ SaverWaits \/ SaverExits \/ SaverCopies
         \/ SaverOpens \/ SaverCannotOpen \/ SaverWrites \/ SaverCannotWrite

Daemon == \/ StartDaemon \/ StartClean \/ NewCubesDump
          \/ LoadLastTopology \/ (\E c \in Names : LoadCube(c)) \/ LoadFails
          \/ Enable \/ Shutdown \/ Stopped \/ Restart
          \/ Killed \/ \E t \in Threads : RecordsNowhere(t)

Client == \E w \in Workers, c \in Names :
            \/ Create(w, c) \/ Delete(w, c) \/ DeleteLeaf(w, c)
            \/ DeleteRefused(w, c) \/ DeleteLeafRefused(w, c)
            \/ \E v \in Values : Update(w, c, v) \/ UpdateLeaf(w, c, v)

Unnoticed == \E c \in Names, v \in Versions \ {Absent} : Strays(c, v)

Records == \E t \in Threads : UpdateCubesConfig(t)

Next == Saver \/ SpuriousWakeup \/ Daemon \/ Client \/ Unnoticed \/ Records

Spec == Init /\ [][Next]_vars

\* The saving thread is scheduled, a request that was begun is recorded and a
\* shutdown goes on; nothing else must happen.
FairSpec == Spec /\ WF_vars(Saver) /\ WF_vars(Stopped)
                 /\ \A t \in Threads : WF_vars(UpdateCubesConfig(t))

-----------------------------------------------------------------------------
(* Properties.                                                             *)

\* Types of the state.
TypeOK ==
  /\ phase \in Before \cup {"down", "running", "stopping", "stopped"}
  /\ todo \subseteq Names /\ source \in Configs
  /\ cubes \in [Names -> Versions]
  /\ request \in [Threads -> Requests \cup {Idle}]
  /\ config \in Configs /\ copy \in Configs
  /\ file \in Configs \cup {Torn}
  /\ \E g \in Garbage \cup {0}, n \in 0 .. MaxChanges : pending = g + n
  /\ enabled \in BOOLEAN /\ kill \in BOOLEAN /\ missed \in BOOLEAN /\ parted \subseteq Names
  /\ saver \in {"off", "check", "to_wait", "waiting", "woken", "copied", "writing",
                "failed"}
  /\ changes \in 0 .. MaxChanges /\ crashes \in 0 .. MaxCrashes

\* The saving thread never goes to sleep on an unsaved change: when it waits
\* with no pending change the file holds the configuration, unless the change is
\* one of those that missed names.
NothingForgotten ==
  phase = "running" /\ saver \in {"to_wait", "waiting"} /\ pending = 0
    => file = config \/ missed

\* A daemon that was shut down has saved its last configuration, with the same
\* exceptions.
SavedAtShutdown == phase = "stopped" => file = config \/ missed

\* A change that was counted reaches the file: the saving thread takes a copy
\* later than the change, which resets the count, and writes it, or the file
\* fails.
ChangesSaved ==
  phase = "running" /\ pending > 0
    ~> (pending = 0 /\ file = copy) \/ saver = "failed" \/ phase # "running"

\* "The daemon keeps in memory an instance of all the topology": when every
\* request is recorded, the configuration is that of the cubes, also after a
\* load that failed, for each cube that has not parted from its record (changes
\* of a cube that overlap are recorded in any order, some changes are not
\* recorded and some requests are that were refused; what happens to one cube
\* does not harm the record of another).
InMemoryInstance ==
  phase = "running" /\ (\A t \in Threads : request[t] = Idle)
    => \A c \in Names \ parted : config[c] = cubes[c]

\* The saving thread exits when the daemon is shutting down.
ShutdownEnds == phase = "stopping" ~> phase # "stopping"
=============================================================================
