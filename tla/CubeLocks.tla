------------------------------ MODULE CubeLocks ------------------------------
(***************************************************************************)
(* cube_mutex_ of a cube (cube.cpp, base_cube.cpp): the workers of the     *)
(* REST server add, remove and link ports of one cube and reload its       *)
(* programs.                                                               *)
(*                                                                         *)
(* add_port, remove_port and update_forwarding_table take the mutex with a *)
(* lock_guard, unlock it by hand before they call something that takes it  *)
(* again, and the guard unlocks it once more when the function returns.    *)
(* Unlocking a mutex that another thread holds is undefined; the default   *)
(* mutex of the platform then is free, whoever holds it.                   *)
(***************************************************************************)
EXTENDS Integers, FiniteSets, FiniteSetsExt

CONSTANTS
  Threads,   \* workers of the REST server
  Names,     \* names of ports
  MaxPorts,  \* _POLYCUBE_MAX_PORTS
  NoThread,  \* the mutex is free
  NoName     \* a worker without a port

VARIABLES
  cube_mutex_,     \* who locked it last, or NoThread
  ports_by_name_,  \* name -> id
  free_ports_,     \* ids
  pc,              \* per thread: place in a function
  back,            \* per thread: where update_forwarding_table returns to
  port,            \* per thread: name of the port
  id               \* per thread: id of the port

vars == <<cube_mutex_, ports_by_name_, free_ports_, pc, back, port, id>>

Init ==
  /\ cube_mutex_ = NoThread
  /\ ports_by_name_ = <<>>
  /\ free_ports_ = 0 .. MaxPorts - 1
  /\ pc = [t \in Threads |-> "idle"]
  /\ back = [t \in Threads |-> "idle"]
  /\ port = [t \in Threads |-> NoName]
  /\ id = [t \in Threads |-> 0]

At(t, place) == pc[t] = place
Goto(t, place) == pc' = [pc EXCEPT ![t] = place]

\* A lock_guard, or an explicit unlock: unlocking asks for no owner.
Lock(t) == cube_mutex_ = NoThread /\ cube_mutex_' = t
Unlock(t) == cube_mutex_' = NoThread

Locks(t, from, to) ==
  /\ At(t, from) /\ Lock(t) /\ Goto(t, to)
  /\ UNCHANGED <<ports_by_name_, free_ports_, back, port, id>>

Unlocks(t, from, to) ==
  /\ At(t, from) /\ Unlock(t) /\ Goto(t, to)
  /\ UNCHANGED <<ports_by_name_, free_ports_, back, port, id>>

-----------------------------------------------------------------------------
(* add_port.                                                               *)

AddPort(t, n) ==
  /\ At(t, "idle")
  /\ port' = [port EXCEPT ![t] = n]
  /\ Goto(t, "add_lock")
  /\ UNCHANGED <<cube_mutex_, ports_by_name_, free_ports_, back, id>>

AddLocks(t) == Locks(t, "add_lock", "add_check")

\* The name is taken or there is no free id; the guard unlocks once.
AddThrows(t) ==
  /\ port[t] \in DOMAIN ports_by_name_ \/ free_ports_ = {}
  /\ Unlocks(t, "add_check", "idle")

AllocatePortId(t) ==
  /\ At(t, "add_check")
  /\ port[t] \notin DOMAIN ports_by_name_ /\ free_ports_ # {}
  /\ id' = [id EXCEPT ![t] = Min(free_ports_)]
  /\ free_ports_' = free_ports_ \ {Min(free_ports_)}
  /\ Goto(t, "add_insert")
  /\ UNCHANGED <<cube_mutex_, ports_by_name_, back, port>>

\* emplace keeps an entry that is there.
InsertPort(t) ==
  /\ At(t, "add_insert")
  /\ ports_by_name_' = [n \in DOMAIN ports_by_name_ \cup {port[t]} |->
                          IF n \in DOMAIN ports_by_name_ THEN ports_by_name_[n] ELSE id[t]]
  /\ Goto(t, "add_unlock")
  /\ UNCHANGED <<cube_mutex_, free_ports_, back, port, id>>

AddUnlocks(t) == Unlocks(t, "add_unlock", "add_peer")

\* A peer in the request links the port, which calls update_forwarding_table.
AddSetsPeer(t) ==
  /\ At(t, "add_peer")
  /\ back' = [back EXCEPT ![t] = "guard"]
  /\ Goto(t, "forward_lock")
  /\ UNCHANGED <<cube_mutex_, ports_by_name_, free_ports_, port, id>>

AddWithoutPeer(t) ==
  /\ At(t, "add_peer")
  /\ Goto(t, "guard")
  /\ UNCHANGED <<cube_mutex_, ports_by_name_, free_ports_, back, port, id>>

\* set_peer throws: the port is erased without the mutex and its id is lost.
PeerRefused(t) ==
  /\ At(t, "add_peer")
  /\ ports_by_name_' = [n \in DOMAIN ports_by_name_ \ {port[t]} |-> ports_by_name_[n]]
  /\ Goto(t, "guard")
  /\ UNCHANGED <<cube_mutex_, free_ports_, back, port, id>>

\* The guard of a function that has unlocked the mutex already.
GuardUnlocks(t) == Unlocks(t, "guard", "idle")

-----------------------------------------------------------------------------
(* remove_port.                                                            *)

\* set_peer("") updates the forwarding table of a port that has a peer.
RemovePort(t, n) ==
  /\ At(t, "idle") /\ n \in DOMAIN ports_by_name_
  /\ port' = [port EXCEPT ![t] = n]
  /\ back' = [back EXCEPT ![t] = "remove_lock"]
  /\ Goto(t, "forward_lock") \/ Goto(t, "remove_lock")
  /\ UNCHANGED <<cube_mutex_, ports_by_name_, free_ports_, id>>

RemoveLocks(t) == Locks(t, "remove_lock", "remove_erase")

\* Another worker has removed it: at() throws and the guard unlocks once.
RemoveThrows(t) ==
  /\ port[t] \notin DOMAIN ports_by_name_
  /\ Unlocks(t, "remove_erase", "idle")

ErasePort(t) ==
  /\ At(t, "remove_erase") /\ port[t] \in DOMAIN ports_by_name_
  /\ free_ports_' = free_ports_ \cup {ports_by_name_[port[t]]}
  /\ ports_by_name_' = [n \in DOMAIN ports_by_name_ \ {port[t]} |-> ports_by_name_[n]]
  /\ Goto(t, "remove_unlock")
  /\ UNCHANGED <<cube_mutex_, back, port, id>>

RemoveUnlocks(t) == Unlocks(t, "remove_unlock", "guard")

-----------------------------------------------------------------------------
(* update_forwarding_table and reload_all.                                 *)

ForwardLocks(t) == Locks(t, "forward_lock", "forward")

ForwardUnlocks(t) == Unlocks(t, "forward", "reload_all_lock")

ReloadAllLocks(t) == Locks(t, "reload_all_lock", "reload_all")

ReloadAllUnlocks(t) == Unlocks(t, "reload_all", "forward_guard")

\* The guard of update_forwarding_table.
ForwardGuardUnlocks(t) == Unlocks(t, "forward_guard", back[t])

\* A service reloads one of its programs.
Reload(t) == Locks(t, "idle", "reload")

ReloadUnlocks(t) == Unlocks(t, "reload", "idle")

-----------------------------------------------------------------------------
Next == \E t \in Threads :
  \/ \E n \in Names : AddPort(t, n) \/ RemovePort(t, n)
  \/ AddLocks(t) \/ AddThrows(t) \/ AllocatePortId(t) \/ InsertPort(t) \/ AddUnlocks(t)
  \/ AddSetsPeer(t) \/ AddWithoutPeer(t) \/ PeerRefused(t) \/ GuardUnlocks(t)
  \/ RemoveLocks(t) \/ RemoveThrows(t) \/ ErasePort(t) \/ RemoveUnlocks(t)
  \/ ForwardLocks(t) \/ ForwardUnlocks(t) \/ ReloadAllLocks(t) \/ ReloadAllUnlocks(t)
  \/ ForwardGuardUnlocks(t) \/ Reload(t) \/ ReloadUnlocks(t)

Spec == Init /\ [][Next]_vars

-----------------------------------------------------------------------------
\* Places between the locking of the mutex and the next unlocking.
Holding == {"add_check", "add_insert", "add_unlock", "remove_erase", "remove_unlock",
            "forward", "reload_all", "reload"}

\* The mutex does what its declaration says, "blocks operations over the whole
\* cube": no two workers are between locking and unlocking it at a time.
BlocksWholeCube == Cardinality({t \in Threads : pc[t] \in Holding}) <= 1
=============================================================================
