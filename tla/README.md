# TLA+ models of polycubed

Polycube is a framework for network functions ("cubes") that run as eBPF programs in
the Linux kernel. The daemon `polycubed` creates the cubes, links their ports, chains
transparent cubes around the links, and keeps the topology over restarts. This directory
models the part of the daemon where state, threads and failures meet and one of its services,
the NAT, checks them with TLC and proves most of their safety properties with TLAPS.

Source files are named relative to `src/polycubed/src/`, those of the NAT relative to
`src/services/pcn-nat/src/`, unless a longer path is given.

    Contents
      1  Inventory of the system
      2  The modules and how they correspond to the code
      3  The runs
      4  What is proved
      5  Where the code and its comments or documentation disagree
      6  What is not modelled
      7  Plan

## 1 Inventory of the system

### Parts, state and operations

| Part | State | Operations |
|---|---|---|
| Patch panel (`patchpanel.cpp`) | `node_ids_`, the free indexes, static and shared by both hooks; `nodes_present_tc_`, `nodes_present_xdp_`; one kernel program table per hook | `add(fd)`, `add(fd, index)`, `remove`, `update` |
| Cube programs (`base_cube.cpp`, `cube_tc.cpp`, `cube_xdp.cpp`, `transparent_cube_tc.cpp`, `transparent_cube_xdp.cpp`) | per cube: `ingress_index_`, `egress_index_`, program objects, jump tables, sources, log level; an XDP cube keeps a TC twin of every egress program | constructor and `init`, `add_program`, `reload`, `reload_all`, `set_log_level`, `del_program`, `uninit` |
| Ports and peers (`port.cpp`, `service_controller.cpp`, `cube.cpp`, `polycubed_core.cpp`) | per port: id, name of the peer, pointer to the peer; `ports_to_ifaces`, `ports_to_ports`, `service_ctrl_mutex_`, `port_mutex_` | `set_peer`, `set_port_peer`, `connect`, `disconnect`, `add_port`, `remove_port`, destruction of a cube, `netlink_notification` |
| Service chains (`peer_iface.cpp`, `extiface*.cpp`, `transparent_cube*.cpp`, `port*.cpp`) | the list of transparent cubes of a port or interface; the next index compiled into every program, on the XDP hook another one into its TC twin; receive and transmit programs of an interface | `attach` (`add_cube` at a position), `detach` (`remove_cube`), `connect`, `unconnect`, `update_indexes`, `set_next_index`, `send_packet_out` |
| Locks of a cube (`cube.cpp`, `base_cube.cpp`) | `cube_mutex_`, `ports_by_name_`, `free_ports_` | `add_port`, `remove_port`, `update_forwarding_table`, `reload`, `reload_all` |
| Persistent topology (`cubes_dump.cpp`, `polycubed.cpp`, `rest_server.cpp`) | `cubes_config_`, `list_of_pending_changes_`, `dump_enabled_`, `kill_saving_thread_`, the dump file | recording of a request, the saving thread, load, clean start, shutdown |
| Slow path (`controller.cpp`, `datapath_log.cpp`, `id_generator.cpp`, `cube_factory_impl.cpp`, and `cube.h`, `base_cube.cpp`, `transparent_cube.cpp` in `src/libs/polycube`) | free cube ids; callbacks by cube id for packets and for log messages, with a mutex each; per service object `dismounted_`, its handlers, `cube_mutex`, `ports_by_id_` | create and destroy a service object, add and remove a port, `call_back_proxy` of packets and of log messages, `handle_packet_in` |
| Packet-out (`controller.cpp`) | ring of packet metadata, one index in the daemon and one in the kernel, the queue of the interface between them | `send_packet_to_cube`, the receive program |
| NAT (`src/services/pcn-nat`) | data plane: two session tables and the next external port, shared by all CPUs; control plane: lists of SNAT, DNAT and port forwarding rules, the masquerade switch, two rule tables | the ingress and egress programs, flushing of the sessions; append, post, replace, patch and delete rules, enable and disable masquerade, the callback of an address change |
| Management libraries (`management_lib.cpp`) | loaded services | load and unload a service |
| REST server and data models (`rest_server.cpp`, `server/`) | resource tree built from YANG | routing, validation, one call of a service per request |
| Other services (`src/services/pcn-*`) | tables and objects of one network function | generated CRUD methods, packet-in |
| Command line, Kubernetes, iptables (`src/polycubectl`, `src/components`) | none of the daemon | REST clients |

`PROJECT.json` lists every part with its sources and says what is modelled of it.

### How the parts interact

* A REST request runs in one of four worker threads (`polycubed.cpp:275`); there is no
  lock around a request. The netlink listener, the perf-buffer pollers and the saving
  thread run beside them.
* A cube registers program 0 of each direction in the patch panel and hands out the
  index. Ports, peers, chains and other cubes copy that index into their own programs and
  tables; nobody is told if it changes.
* `Port::set_peer` calls the service controller, which looks up the other side, links the
  two `PeerIface` objects by raw pointers, and both sides recompute their chains. Chains
  change when a link changes, when a transparent cube comes or goes, and when the other
  side of a link changes.
* The netlink listener calls `set_peer("")` on the port of an interface the kernel removed.
* A packet or log message a data plane sends to the daemon carries the id of its cube. One
  poller per hook and one for the log look up the handler of the service by that id and call
  it with the mutex of the table held; the handler takes the mutex of its service object.
* A packet a service sends goes to the interface of the controller, and what is to become of
  it into a ring; the receive program behind the interface joins them again by counting.
* The programs of a data plane run on every CPU at once and share their tables with each
  other and with the service.
* A request changes a cube first and records the change in `cubes_config_` afterwards; the
  saving thread copies the record and writes the file.

### Hard behaviours

* Compilation and loading of a program may fail in the middle of an operation, and there
  is no rollback (programs, chains, a port that is added with a peer).
* Links are raw pointers: an object that goes must have been unlinked before.
* `set_port_peer` takes its mutex only after it has unlinked the old peer, and `set_peer`
  assigns the name of the peer after everything else, so threads interleave inside an
  operation.
* A service object is destroyed from the derived class upwards while pollers may hold or
  look up its handlers.
* Indexes, port ids, cube ids and the external ports of the NAT are reused, and are bounded;
  full tables refuse an entry or evict one.
* A mutex is unlocked by hand under a guard that unlocks it again, and the mutexes of two linked
  ports are taken in either order.
* Packets that the kernel refuses have taken their place in the ring already.
* Two tables that belong together are written one after the other, by the data plane on
  several CPUs and by the control plane.
* A condition variable without a predicate, an uninitialised counter, a notification
  without the mutex, and a kill at any time around one dump file.

`PROJECT.json` lists them one by one under `hazards`, with their lines.

### What makes each part correct

* Patch panel and programs: an index belongs to at most one direction of one cube, is
  never lost, never changes under its owner, and leads to the program the cube last loaded;
  the two hooks of an XDP cube run the same source; a log level reaches every program.
* Ports and peers: links are mutual, agree with the reported peer, never point to a
  destroyed object; an interface has one port and is dropped when nobody uses it.
* Chains: following the compiled pointers visits exactly the programs the lists say, in
  order, in each direction and on both hooks, with the port number that the next program
  expects, and a packet of a service joins the same paths.
* Packet-out: each packet gets the metadata its sender wrote for it.
* NAT: a reply returns to the host and port that sent the packet it answers, a server answers
  from the address that was contacted; the rules that are listed are the ones that are
  applied, in the documented priority.
* Slow path: a callback never works on a freed object, implementation or port, an entry
  of a table belongs to the cube with that id, and destruction ends.
* Topology: the record agrees with the cubes, a change that was counted is in the file
  before the thread sleeps, before a shutdown is over, and eventually.

## 2 The modules and how they correspond to the code

    PatchPanel      <- CubePrograms <- CubeProgramsProofs, MCCubePrograms
    Peering         <- PeeringProofs, MCPeering
    CubeLocks
    ServiceChain    <- ServiceChainProofs, MCServiceChain
    SlowPath        <- SlowPathProofs, MCSlowPath
    PacketChannel   <- PacketOut    <- PacketOutProofs, MCPacketOut
    TopologyDump    <- TopologyDumpProofs, MCTopologyDump
    NatSessions     <- NatSessionsProofs, MCNatSessions
    NatRules        <- NatRulesProofs, MCNatRules

`PacketOut` uses `PacketChannel` as its abstract specification; the other arrows are EXTENDS.
`MC*` modules only define constants and symmetry sets, `*Proofs` modules hold the theorems
(section 4). Some definitions are followed by a
variant whose comment starts with "Mutant of": it is the same definition with one plausible
mistake, no specification uses it, and it documents which mistake the property that
follows would catch.

### PatchPanel, CubePrograms

`PatchPanel` holds `node_ids`, `nodes_present` and `nodes`, the last two per hook, and one
action fragment per method. `*node_ids_.begin()` of an empty set is undefined; the build
reads the word behind the tree header, the element count, and so returns 0: an exhausted
panel hands out index 0, which the rest of the daemon takes for "no index". `remove`
empties the entry of its own hook and drops the presence flag of both.

`CubePrograms` adds the cubes. An operation that handles several programs puts its work in
`todo[c]`; each `Step` handles the work with the lowest `Rank`, which is the order of the
loops in the code. Operations of one cube exclude each other (`cube_mutex_`), those of
different cubes interleave on the panel between any two programs. Every `add` and `reload`
can fail (`AddThrows`, `ReloadThrows`, `ConstructThrows`), up to `MaxFailures` times; the
empty source always fails. A failed add leaves the `ebpf::BPF` object in the slot (`Bogus`),
as the code does. A constructor that throws, because a program does not compile or because an
exhausted panel gave it index 0 and refuses the twin of a second XDP cube there as busy
(`ConstructBusy`), never runs `uninit()`: what it registered goes to the history variable
`leaked`. Reloading or deleting a twin that was never created
dereferences a null pointer (`crashed`).

Abstractions: a program is the cube, list, source and level it was compiled from; file
descriptors, compilation and the wrapper code are not modelled. The programs of a
constructor all have one source.

### Peering

Threads are the REST workers and the netlink listener. A thread runs a script of commands;
`set` is one call of `Port::set_peer` and takes one step for every stretch of the code
between two points where another thread can get in:

| pc | code |
|---|---|
| check | `if (peer_ == peer) return` |
| read | `get_peer_iface()` in `set_port_peer` |
| unlink, unlink_other | the two halves of `Port::unconnect`, which reads the pointer again |
| used, forget | `is_used()`, `ports_to_ifaces.erase(p.peer())`, without the mutex |
| resolve | the lookup and the first half of `Port::connect`, under `service_ctrl_mutex_` |
| link_other | the second half of `Port::connect`, still under the mutex |
| assign | `peer_ = peer` |
| hung | a port connected to itself, waiting for its own `port_mutex_` |

`add_port` ("peer" in the configuration), `remove_port` (`set_peer("")`, then erase), the
destruction of a cube (all ports, in any order of the hash map), `connect`, `disconnect`
and `netlink_notification` are scripts of these commands. The destructor of a port runs in
the thread that drops the last `shared_ptr`. When an object is destroyed every pointer to
it becomes `Dangling`, and a thread that follows one takes the daemon down (`crashed`), as
does an exception that leaves a destructor or the listener. A relinking may fail
(`RelinkFails`, up to `MaxFailures`), since it loads programs.

Attaching a transparent cube to an interface, which the kernel need not know, puts the cube on
the list of the interface before anything is loaded, so that a program that does not load changes
nothing that is modelled here. "before" or "after" on an interface without cubes is refused, and
the interface that was made for it is kept (`AttachRefused`, counted like a failure).

`MaxRunning` and `Together` bound how many and which operations are under way at once. Bounds
of the model, besides the constants: one access to a map is atomic; a path is not
used again while a thread holds the old port; a port is not erased while another thread is
half-way through linking to it (its destructor would run inside the other link); a cube is
created and destroyed only when no thread holds one of its ports. `port_mutex_` and
`iface_mutex_` are left out, but for a port that waits for itself: what runs with one of them is
one step, and threads that wait for each other with them are described in section 5. So is the
exception of a second `ExtIface` for one name ("Iface already in use", `extiface.cpp:47`), which
needs an attachment at the moment when a detachment holds the last reference to the first one.

### CubeLocks

`cube_mutex_` of one cube and the workers that add, remove and link its ports and reload its
programs. Every locking and unlocking is a step; unlocking asks for no owner, as the mutex of
the platform does not either. `Goto` moves a worker through the functions, `back` is where
`update_forwarding_table` returns to. What a function does with the mutex held is reduced to
the maps `ports_by_name_` and `free_ports_`.

### ServiceChain

One link on either hook (the variable `hook` is chosen in `Init`). The record `net` holds the
lists of cubes, the links and every pointer that is compiled into a program or written to a
table: `next_in` and `next_out` of transparent cubes, `port_index` and `fwd` of ports, `rx` and
`tx` of interfaces, each of the last three with the port number that goes with it, `index` of an
XDP interface, and `out_next`, `out_next_xdp`, the next program of the egress program of the
cube of a port. An XDP egress program has a twin on the TC hook: `egress_next_tc` is the member,
`next_twin` the value that was compiled, and the two differ until something makes the cube
compile again (`LinkIn`, `LinkOut`). A call such as `set_peer_iface` is an operator from `net`
to `net`, and `connect` is the composition of two of them, so that the order of the calls
matters as it does in the code (the first call relinks the interface before it knows its peer).
`LinkUp` and `LinkDown` are the loops of `update_indexes`; `EnterAt` is the end of the XDP
version, which tells the port when the interface is entered at another program.
`set_next_index` of an interface counts upwards from its last cube and leaves the vector when
that cube has no ingress program; the model then sets `crashed`.

A step is one call, and programs always load. `connect` and `unconnect` are two calls of the code
with separate locks (`port.cpp:313-321`) in one step: a relinking that came in between the two
could find the pointer to the peer gone (`port.cpp:79`). Calls on the two sides of one link are
not interleaved either (section 5).

`ReceiveHop`, `TransparentHop`, `EgressHop` and `ForwardHop` are what the generated wrappers do
with those pointers. A path property names the way of a packet, read off the lists of cubes
(`InnerFirst`, `OuterFirst`), and `Leads` says that the pointers lead along it: each program hands
the packet to the next one of the way, and the last place is none that hands it on. `PortOut` and
`CubeOut` are where `send_packet_out` of a port and of a transparent cube sends a packet; a
recirculated packet, which starts the program of its sender again, is left out.

### SlowPath

`stage[c]` says how far the service object of a cube is built or destroyed:

| stage | code |
|---|---|
| built, logged, raw | inside `Cube::Cube` or `TransparentCube::TransparentCube`: id acquired, log callback registered, packet callback registered |
| building | the constructor of the implementation runs |
| live | it is over |
| failed | it threw: its destructor, with the `dismount()` in it, is skipped, and `~Cube` begins |
| ending, parted | in the destructor of the implementation, before and after its own `dismount()` |
| ended, unmounted, cleared | in `~Cube`: before `dismount()`, after it, after `handle_packet_in = nullptr` |
| deaf, silent | in `destroy_cube`: packet callback and log callback removed |

`dismounted` also stands for the empty `handle_log_msg`. `port[c]` is one port of a cube (or
the attachment of a transparent cube) as the daemon and the service know it; `add_port` and
`remove_port` take their steps in the order of the code, the latter under `cube_mutex`. The
pollers copy a handler under the table's mutex (`CallBackProxy`, `LogProxy`) and keep it
during the callback. A handler without implementation is a pure virtual call, and an empty
log handler throws where nobody catches: both take the daemon down (`crashed`). Which
services call `dismount()` in their own destructor is the constant `Dismounting`.

Abstractions: a packet is the id of its cube; reads and writes of one `std::function` or map
are atomic; at most one operation works on a cube at a time, and a name is not created twice
at once. `MaxEvents` bounds the packets and messages of a behaviour.

### TopologyDump

A request of a worker changes the cube (`Changes`) and records it later
(`UpdateCubesConfig(t)`), with nothing held in between. Not every change is recorded, and not
only changes are: a request that fails half way, an action of a service, the cubes attached to
a port and the netlink listener, which takes the peer of a port away, change a cube and no record
(`Strays`); the deletion of a cube and that of a list are recorded although the service refused
them (`Refused`).

The saving thread goes through `check`, `to_wait` (mutex held, not waiting yet), `waiting`,
`woken`, `copied`, `writing`, and `failed` when the file cannot be opened or written; it may be
woken spuriously. Opening truncates the file (`Torn`). The daemon can be killed in every phase:

| phase | code (`polycubed.cpp`) |
|---|---|
| serving, serving_clean | the REST server runs, `CubesDump` does not exist, and recording a request follows a null pointer (`RecordsNowhere`); in the second one the file was overwritten by `--cubes-dump-clean-init` |
| starting | the saving thread runs, the file is not read |
| loading | the cubes of the file are created one by one, until one fails |
| running | the dump is enabled |
| stopping, stopped | in the destructor of `CubesDump`, and behind it |

`list_of_pending_changes_` is not initialised: it starts with a number of `Garbage`, and counted
changes may bring a negative one to 0, where they look like none. `EarlyRequests` says
whether clients are served before the topology is loaded, which they are, since the REST server
is started first; `FileFails` whether the file may be impossible to open or to write.

The JSON document of a cube is one value: absent, as created, or with one of the settings
in `Values`; `Partial` is the null entry that a leaf leaves behind when its cube has no
entry. History variables: `changes` and `crashes` are the bounds. `parted` has the cubes that
were changed while another change of them was unrecorded, changed with no record, or recorded
though refused. `missed` says that the record holds a change that neither the counter nor the
thread knows of: one from before the dump was enabled, one whose recording threw, one that
brought the garbage in the counter to 0, or one of a round in which the file failed.

### PacketChannel, PacketOut

`PacketOut` is one controller. `send_packet_to_cube` takes three steps: the index is advanced
(`Claim`), the metadata are written to the ring (`WriteMd`), the packet is given to the
interface, which takes it (`SendFrame`), drops it silently because the queue of the kernel is
full (`DropFrame`), or throws (`ThrowFrame`). The receive program advances its own index
(`RxIndex`) and reads the ring there (`RxRead`). Handlers are the threads that run `packet_in`:
`call_back_proxy` holds the static `cbs_mutex_`, so that pollers of both hooks, which may send
through the same controller, exclude each other. Packets are represented by the metadata that
their sender meant for them; the history `out` has the last packet with the metadata it got.

`PacketChannel` is the promise: two queues, of packets and of metadata, joined at the other
end; a refused packet leaves its metadata behind. `Channel` maps the ring between the two
indexes to the queue of metadata.

Assumed: the kernel runs one instance of the receive program at a time (the interface has one
queue), and the ring of 1024 entries is larger than the packets that can be between the two
ends (`RingAssumption`; a backlog of 1000 packets is the default). The
metadata of a packet are one value, without its fields. The timer thread of `pcn-bridge` sends
without the mutex and is not modelled.

### NatSessions

The two programs of the NAT on several CPUs. A packet is its session key; every access to a
table is one step (`Hit` or `Miss`, the rule lookup with the external port, then one write per
table), with `pc`, `packet` and `new` as the state of a program. The tables are `lru_hash` maps:
an update may lose any other entries (`Updated`; the kernel evicts in batches, and may begin
before the table is full), or fail, which no program looks at (`InEgress`, `ReverseWritten`). The
spin lock of the counter makes `TakePort` one step. The control plane changes what a rule lookup
finds, and flushes the two tables one after the other. A forwarded port may be one that the NAT
gives away, and an address of a DNAT rule that of masquerade, since nothing refuses them.

History: `taken` counts external ports; `sent` keeps every packet that left and the endpoint it
left with, until that port is taken again; `lossy` says that an entry was evicted, flushed or not
written. Two sets name the keys under which two kinds of entries meet. `raced`: the entry for the
replies was written while another CPU was forwarding a packet with this very key, which missed it
before and will overwrite it, or it was not written at all. `crossed`: a session from inside took
the key of the answers to a forwarded session. `NotOvertaken` is an assumption: a program ends
before all 64511 ports are handed out to others.

### NatRules

The lists as sequences of rules with their ids, the two tables as functions from keys to
addresses. A key of an LPM trie is the set of lookups it covers, so that the most specific
entry is the least set; `Everyone` is 0.0.0.0/0, the key of masquerade, which a SNAT rule may
have too. One client edits lists, one request at a time. The requests to the masquerade
switch (`client`) are split where the threads that report an address of the external
interface can get in: they read the address, write the rule, and set `enabled`, and a failed read
goes straight to the last of these. Two threads (`callback`, attach and the netlink observer)
report addresses, also that there is none, in four steps: the address is assigned, the switch is
tested, the address is read again, the rule is written. An uninitialised member (`enabled` in the
constructor of `RuleMasquerade`) is a nondeterministic choice.

The history `gaps` names what has parted lists, switch and tables:

| gap | after |
|---|---|
| listed | a rule is in a list that the table does not hold as it is: a full table, POST of an entry, PATCH, masquerade over a SNAT rule for 0.0.0.0/0 |
| dropped | a rule left the list and not the table |
| masquerade | the switch does not say what the table holds: garbage, a full table, or the SNAT rule with its key was deleted |
| overtaken | an address was reported while a request that turns masquerade on had read the old one, or while another report was under way |

`Final` is the set of gaps after which the model only empties lists: `listed`, since no property
speaks of such lists, and in the run the last two. DELETE and PUT of a list fail when its first
rule is missing in the table; when a later one is, they leave null rules behind, which the model
takes for the end of the daemon (`down`). POST deletes the old rules in a destructor, and ends it
at once.

## 3 The runs

`tlc -config <cfg> <module>` runs each of them; every one ends within a few minutes with
two workers.

| Run | Module, cfg | Checks |
|---|---|---|
| programs_panel | MCCubePrograms, CubeProgramsPanel | IndexUnique, FreeIndexOnlyTwins, IndexStable |
| programs_xdp | MCCubePrograms, CubeProgramsXDP | TypeOK, IndexConserved, LevelApplied, TailCallsCurrent, TwinsAgree |
| peering_all | MCPeering, PeeringAll | LinkedFirstChoice, PeerSymmetric, PeerNamesLink, NoDangling |
| peering_listener | MCPeering, PeeringListener | IfaceExclusive, IfaceUsed, LinksAgreeAtRest |
| cube_locks | CubeLocks, CubeLocks | BlocksWholeCube is violated |
| chain_paths | MCServiceChain, ServiceChainPaths | ReceivePath, TransmitPath, SendPath, ServicePath |
| slow_path | MCSlowPath, SlowPathAll | TypeOK, CallbacksOfCubes, CallbackKeepsObject, PortNotDeleted, DismountProtects, DestructionEnds |
| packet_out | MCPacketOut, PacketOutRing | TypeOK, IndexesOff, OwnMetadata, ChannelSpec (refinement) |
| dump_all | MCTopologyDump, TopologyDumpAll | TypeOK, NothingForgotten, SavedAtShutdown, InMemoryInstance, ChangesSaved |
| dump_shutdown | MCTopologyDump, TopologyDumpShutdown | ShutdownEnds is violated |
| nat_sessions | MCNatSessions, NatSessions | PortsInTurn, RepliesReturn, AnswersKeepAddress |
| nat_rules | MCNatRules, NatRules | ListedRulesServed, RulePriority, MasqueradeAddress |

### What they show, and why the bounds are enough

*programs_panel*: one TC and one XDP cube, up to one program per direction, on a panel with
two indexes. Two cubes with two directions want four indexes, so the panel runs out, hands
out 0, and indexes go from one cube to the other while the twin of the first is still in
the TC panel. Both kinds of sharing (of the free set, and of a presence flag over the
hooks) need just two cubes. The theorems of section 4 cover every other size.

*programs_xdp*: one XDP cube, the flavour with the most lists, two sources, two log levels
and one failing compilation, through any sequence of operations. Failures interact with
later operations on the same slot; a second failure adds no new kind of slot (empty, bogus,
loaded). LevelApplied and TwinsAgree speak of cubes without a failed compilation: after a
failure they do not hold, since nothing is rolled back, and a `set_log_level` that is tried
again returns early.

*peering_all* (869,000 states): two cubes with a port each, one interface, all three names as
peers, one operation at a time, every operation, one relinking that fails or attachment that is
refused; besides, a client may
remove a port that another one is about to disconnect. Failing `set_peer`
calls, self-peering, removal and return of the interface, destruction and re-creation of cubes
all happen. PeerSymmetric, PeerNamesLink and NoDangling hold as long as no port was ever given
another port as its peer and every program loads; afterwards they do not (section 5).
LinkedFirstChoice says what `ports_to_ports`, which is never cleaned, really means, and holds
always, after failures too: two linked ports were both given a port as their peer, and one of
them was first given the other. With two ports each is then the first peer of the other; with
three it need not be, and the theorem of section 4 holds for any number: p2 is first given p1,
p3 is given p2, then p2 is given p3, and p2 and p3 are linked, although p2 was given p1 first.

*peering_listener* (242,000 states): a client and the netlink listener, interleaved at every
point of `set_peer`, while transparent cubes are attached and detached; ports of both types share
one interface. Ownership of an interface involves two ports and one interface at most.
LinksAgreeAtRest says how much of the agreement of links and names an overlap leaves: all of it,
except that a port whose interface was erased while it was being linked may point to the object
that is gone (section 5). It breaks when the listener does not hold `service_ctrl_mutex_`.

*cube_locks*: three workers, since the second unlock of the first one lets the third in while
the second holds the mutex.

*chain_paths* (86,000 states): two ports, an interface and three transparent cubes: one with
both directions, one with ingress only, one with egress only, one of them of a service that
`compare_position` does not know, on each hook. Chains of length three have a first, an inner
and a last place, with and without gaps, on each kind of end, and links of both kinds.
ServicePath leaves open where a packet ends that a service sends from the egress side of a TC
interface (`EndsElsewhere`, section 5).

*slow_path* (196,000 states): a cube with a port on the TC hook whose service dismounts itself and
a transparent XDP cube whose service does not, two ids, two packets or messages, any number of
creations, by constructors that return or throw, and destructions. Both hooks share one static
table and mutex, so one poller blocks the other and the workers of both cubes; ids go from one
cube to the other while packets of the old one are queued. Each property speaks of one callback
and one or two cubes, and the second event lets a callback wait behind another.

*dump_all* (1,534,000 states): two cubes, two workers, three changes or refused requests, one kill,
a file that may not open or not be written, clients served before and during the load, and a
counter that starts at -1, 0 or 1. Three changes are enough for one in the file, one in the
copy and one in the counter at the same time, and for a change that a negative counter hides to be
followed by one that is counted. What a counter further from 0 does, the theorems say.

*dump_shutdown*: one cube and one change are enough for a shutdown that never ends.

*packet_out* (337,000 states): two handlers, a ring of five entries, a queue of two packets
and one refused packet. The ring wraps several times, with each of its places taken, and after
the refused packet everything goes on with the indexes one apart: from then on each packet gets
the metadata of the one before it. IndexesOff says that nothing else moves the indexes apart,
OwnMetadata that without a refused packet metadata are never mixed up, ChannelSpec both, and
that packets are delivered.

*nat_sessions* (1,760,000 states): two CPUs; two inner hosts that open a session to the same
service, one of them from the port of its server; an outer host that sends, from the port it
answers from, to a forwarded port that is among the three given out. Four ports are taken, so
that one is taken again; tables of two entries, early evictions and failed updates; one change
of the control plane. Two CPUs can open one session at once, and RepliesReturn holds for both of
the ports they take; the session from outside meets the replies to a session from inside in one
table and a session from inside in the other, which are the cases that `raced` and `crossed` name.

*nat_rules* (927,000 states): up to three rules per list in tables of three entries, so that
a table is full; rules with and without a protocol, for the same port, and a DNAT rule below
them; a SNAT rule per host and one for all of them; two threads that report two addresses, or
none. After a list has parted from its table, and after the switch has, the run only empties the
lists; after `dropped` it goes on.

CHECK_DEADLOCK is FALSE where the system may stop: a daemon that crashed stays down, and the
bounds on failures, changes and kills end a behaviour. In packet_out and cube_locks deadlock is
checked.

### Fairness

No specification but these three has fairness; the others have only safety properties.

*PacketOut*: weak fairness of the two steps of the receive program, which the kernel runs for
every packet it has queued. Handlers are not fair.

*SlowPath*: weak fairness of what a worker has begun, and of the log poller; strong fairness
of each packet poller, which shares `cube_mutex` with the workers of its cube: a poller that
waits for a mutex that is free again and again gets it. This includes that `packet_in` of a
service returns. Requests and packets are not fair. Since `MaxEvents` bounds the packets,
DestructionEnds does not say that a destruction ends under endless traffic.

*TopologyDump*: weak fairness of the saving thread (`Saver`, without spurious wake-ups), of
the recording of a request that was begun, and of the return of `join()`. Nothing says that
the daemon is shut down, killed or started, or that clients do anything.

## 4 What is proved

All theorems hold for every value of the constants that the named assumptions of the modules
allow: any number of cubes, ports, interfaces, threads, CPUs, slots, indexes, packets, changes and
failures; two of them have a hypothesis besides. Each has the same shape: an inductive invariant,
whose parts are named in the proof module, holds initially, is kept by every action (one step of
the proof per action), and implies the property. TLC checked the invariants on the instances of
the runs before they were proved.

| Module | Theorem | States |
|---|---|---|
| CubeProgramsProofs | TypeCorrect | TypeOK |
| | IndexUniqueness | IndexUnique: no index is owned twice, and none is free while owned |
| | IndexConservation | IndexConserved: an index is free, owned, or left by a constructor that threw |
| | IndexStability | IndexStable: an index never changes while its cube exists |
| | FreeIndexesEmpty | FreeIndexOnlyTwins |
| | TailCallsReachCurrent | TailCallsCurrent |
| | TwinsFromOneSource | TwinsAgree |
| | LevelsApplied | LevelApplied |
| PeeringProofs | LinkedByChoice | LinkedFirstChoice |
| | InterfacesExclusive | IfaceExclusive |
| | LinkedBackInTheEnd | LinkedBackAtRest: when nobody is at work, an interface a port is linked to is linked back, however many clients overlapped |
| | InterfacesUsedMeanwhile | `OneClient /\ IfacePeers => (Spec => []IfaceUsed)`: any overlap with the listener |
| | LinksAgreeMeanwhile | `OneClient /\ IfacePeers => (Spec => []LinksAgreeAtRest)` |
| ServiceChainProofs | ChainsInvariant | Inv: each pointer is what the lists and the links say |
| | PacketsReceived | ReceivePath |
| | PacketsSent | SendPath |
| | PacketsTransmitted | TransmitPath |
| | PacketsServed | ServicePath |
| SlowPathProofs | TypeCorrect | TypeOK |
| | CallbackOwnership | CallbacksOfCubes |
| | CallbackObjects | CallbackKeepsObject |
| | PortsKept | PortNotDeleted |
| | DismountSuffices | DismountProtects |
| PacketOutProofs | TypeCorrect | TypeOK |
| | IndexDistance | IndexesOff |
| | PacketsKeepMetadata | OwnMetadata |
| | ImplementsChannel | `Spec => Channel!SafeSpec`: every step is one of the abstract channel, or a stutter |
| TopologyDumpProofs | TypeCorrect | TypeOK |
| | SaverForgetsNothing | NothingForgotten |
| | ShutdownSaves | SavedAtShutdown |
| | InMemory | InMemoryInstance |
| NatSessionsProofs | PortsTakenInTurn | PortsInTurn |
| | RepliesComeBack | RepliesReturn |
| | AnswersKeepTheirAddress | AnswersKeepAddress |
| NatRulesProofs | ListsServed | ListedRulesServed |
| | Priority | RulePriority |
| | MasqueradeCurrent | MasqueradeAddress |

The bounds that make the runs finite (`MaxFailures`, `MaxChanges`, `MaxEvents` and so on) are
constants too, so that the theorems hold for each of their values.

### Assumptions

All are ASSUMEs of the modules that TLC evaluates in the runs. Most say that the marks for
"nothing" are not values of the data they stand for, and that bounds are natural numbers.
The others:

* `MaxNodes` is at least 2 and `MaxProgs` at least 1 (CubePrograms).
* `Backlog + 2 + MaxRefused <= RingSize` (PacketOut): the queue of the interface, the packet
  that is being sent and the one that is being received fit into the ring, together with
  the places that refused packets have cost. The ring of the daemon has 1024 entries, and
  the kernel queues 1000 packets unless it is told otherwise. A ring that is too small
  overwrites metadata that were not read yet.
* The set of ports is finite, and no interface has the name of a port (Peering).
* A DNAT rule and a forwarding rule never have the same key, since their masks differ
  (`KeysAssumption` of NatRules), a rule for a network covers hosts (`NetsAssumption`), and the
  behaviours end with a list that has parted from its table (`FinalAssumption`).
* What an uninitialised counter holds are integers (`GarbageAssumption` of TopologyDump).

Nothing is assumed about the endpoints of the sessions and rules of the NAT.

`OneClient` and `IfacePeers` in two theorems of Peering say that the daemon has one client and that
ports are given interfaces as peers; the notifications of the kernel come between any two steps of
its requests, and transparent cubes are attached and detached at any time. That is how polycubectl
drives the daemon. Several clients can break both properties (section 5), and so can ports as
peers, which are linked again behind the back of `peer_`; the other three theorems of the module
hold for any number of clients.

Two kinds of history variables stand where a theorem once had a hypothesis. The proof attempt of
AnswersKeepTheirAddress failed, and TLC found the reason: an inner host opens a session whose two
ends are those of the answers to a forwarded session. One CPU has looked up the key, found nothing
and taken a port; the other CPU forwards a packet from outside and writes the entry for the
answers, under the same key of the egress table; then the first CPU overwrites it, and the answers
leave with another port. RepliesComeBack has the same case on the other table: a packet for a
forwarded port that the NAT gives away is under way when that port is given to a session with the
same outer end, and overwrites the entry of its replies. `crossed` and `raced` record the keys
for which this has happened, and the theorems speak of all others.

### The arguments

*CubeProgramsProofs*. None of the properties is inductive on its own. `TypeInv` adds to `TypeOK`:
the work of a cube fits its phase (`WorkOK`: a `remove` is only pending in a cube that is
being destroyed, and only for an index that is not 0, or 0 would become a free index), and
an absent cube has neither work nor indexes (`AbsentOK`). `IndexUnique` breaks when a
leaked index were handed out or freed again, so `Partitioned` says that free, leaked and
owned indexes are disjoint and together are all of them. `IndexInv` is the conjunction of
the three. Four kinds of steps matter: `PanelAdd` takes the lowest free index (or 0, which
nobody owns), `PanelAddAt` takes the index its cube owns already (or 0), `PanelRemove` frees an
index at the moment its owner ceases to own it, and a throwing constructor moves its indexes
from owned to leaked. Every other step leaves the indexes alone (one lemma). Conservation
is read off `Partitioned`; stability needs only that `RegisterFirst` registers a cube that
has no index.

The second part of *CubeProgramsProofs*. What the tables hold depends on the operation that is
half way. `CubeInv` describes it cube by cube: the pending work is that of one operation, handles
every slot once and a twin with every egress program, and only the next work can be a twin whose
egress program is done (`WorkInStep`); programs are added to empty slots (`SlotsInStep`); up to
that one slot the twins agree (`TwinsInStep`), and a program that has not got the level of the
cube is still to be reloaded (`LevelInStep`). The last two only while nothing failed. `PanelInv`
ties the cubes to the panel: a loaded program 0 is registered (`LoadedRegistered`, which excludes
that `reload` meets "Index is not registered" before a failure), and on the hook that is not the
cube's an owned index has nothing, or a twin (`OtherHook`, from which FreeIndexOnlyTwins follows
when the index is given back). That writes of different cubes do not meet is IndexUnique.

*PeeringProofs*. Any number of threads is in the middle of an operation, so the invariant
speaks about where they are: a thread that has made one half of a link owns
`service_ctrl_mutex_`, and if both ends are ports they have chosen each other (`HalfLinks`,
`LinksChosen`; a choice is never undone, because `ports_to_ports` never changes an entry).
IfaceExclusive is not inductive: unlinking takes two steps, and between them another thread
could link the interface to a port of its own. `Exclusive` says why it does not: an interface
points back to the port that points to it, or its thread is about to make it so
(`LinkedBack`, `NotYetLinked`), and while a thread is about to unlink an interface it does not
look free to anybody and no other thread is about to unlink it (`UnlinkedOnce`).

Once nobody is about to link anything, `LinkedBack` is LinkedBackAtRest.

The second part of *PeeringProofs* has a client and the listener under way. Between two steps of
one the other unlinks the port or erases the interface. `Meanwhile`
says what holds nevertheless. The listener holds `service_ctrl_mutex_` for its whole script, and that
is one of two scripts (`ListenerForm`); so no client links anything meanwhile, but `set_peer`
unlinks without the mutex. `Midway` therefore allows a thread that takes a link apart to find it
gone, but requires that the port still has the name of the interface, or that the listener is going
to forget it (`Forgetting`): one of the two drops it. `Used` says this for each interface,
`Named` that a linked port reports its interface or is about to, and `Target` that the
client is not taking another interface from the port the listener works on. `Back` is needed where a
notification begins: the listener reads the port from the interface, and must meet a port that is
linked to it, or a thread that is about to unlink the other side. When both are done, `Used` is
IfaceUsed, and `LinkedBack`, `Named` and `Back` together are LinksAgreeAtRest.

*ServiceChainProofs*. The path properties follow pointers from program to program, and one call
changes some of them. `Inv` says instead what each single pointer is: among the cubes with a
program, each one's next is the one before or behind it in the list (`Upward`, `Downward`), the
outermost is what the neighbour enters (`PortEntered`, `IfaceEntered`), and the innermost leads
to what is on the other side of the link (`PortLeft`, `IfaceLeft`); a compiled twin has the next
of its member (`Twins`); a cube is in the list of its parent, once, and in no other (`Lists`,
`Disjoint`). Three facts carry the proof. An update changes the pointers of its end and of the
peer, and all others stay the same, because the lists are disjoint (`Same`, SameChained). After it,
the end is chained whatever it was before, and the peer if its own chain was in order but for the
entry on this side (UpdatePortEffect, UpdateIfaceEffect). And `connect` and `unconnect` are two
updates with a half-made link in between, in which one side already knows the other: there
`ChainedBut` leaves out the ends that are not chained yet (LinkMade, LinkCut). Where the vector is
left (`LeavesVector`) the step crashes and nothing is claimed; otherwise the last cube has an
ingress program, which is what makes the upward search right. The second half goes from pointers
to ways: `Listing` puts the places of the programs in order (ListingOf), a chain of that order is
what `Leads` asks for (UpwardWay, DownwardWay), ways are put together at the link
(LeadsThrough), and a packet of a service enters a way in the middle (LeadsBehind).

*SlowPathProofs*. The entry a poller has looked up stays that of its cube because
`unregister_cb` waits for the mutex that the poller holds (`CallbacksLock`); the port stays
because `remove_port` needs the mutex of the cube, which the poller holds (`PortsLock`); each id
is that of one cube that exists (`IdsOwned`, `TablesOK`), and a service that dismounts itself
has done so before its implementation goes (`DismountedFirst`): not dismounted yet are the stages
in which it is there and the one in which its constructor threw (`UndismountedStages`), which is
the exception that DismountProtects names.

*PacketOutProofs*. The two indexes of the ring never meet each other, their distance being the
number of packets on the way and of those refused (`Distance`); the slot of a packet that was
not read yet holds what its sender wrote (`SlotWritten`, `InStep`), because the distance is less
than the size of the ring. The refinement maps the packets on the way and the part of the ring
between the indexes to the two queues of the channel; taking an index, waiting for the
mutex and refusing a packet are its stutters or its loss. `PacketChannel` separates
`SafeSpec` from the fairness for that.

*TopologyDumpProofs*. `Accounted` follows the last configuration: with no pending change it is
in the file, or in the copy that is being written; `PhaseOK` says what the flags and the saving
thread are in each phase, in particular that it ends with nothing pending. `Instance` relates
the record and the cubes while requests are half way, for each cube that has not parted from its
record: one change of it at most is not recorded yet, recording it yields the cube as it is, and
a change of a setting finds an entry. `PendingBound` keeps the counter within its type: some
garbage, and the requests of the clients above it.

*NatSessionsProofs*. Sessions are numbered by a history variable in the order in which ports
are taken. The counter of the program is that number modulo the range (`Counter`), an entry
belongs to one number (`Numbered`, `Distinct`), and the entry for the replies is there for
all sessions but those whose program has not written it yet (`Owners`, `Served`), and those whose
port was taken again or whose entry is lost or `raced`. The invariant is stronger than the property
where a packet from outside is under way: an entry is there and no program is forwarding a packet
with its key (`Returns`), because such a program missed the entry before it was written and
will overwrite it. `Answers` is the invariant for the other direction, for the forwarded sessions
and the programs that are about to write one.

*NatRulesProofs*. `delEntry` takes from the table the first rule with an id and from the list the
rule at the place of the id. That both are the same rule is not obvious: `replaceEntry` puts
a rule at the end of the list under its old id, so that ids repeat. `InPlace` is the
reason: a rule has the id of a place that is not behind its own, and the rule at that place has
the same id; deleting and replacing keep this, because the rules that move up are numbered by
their places. With it and with keys that differ within a list (`Apart`), `Served` is kept, and
`Covered` (no key of a kind is in the table without a rule) until a rule is dropped. An edit
of one kind does not touch the keys of another (`Agree`). The priority theorem then is about
sets: keys of the rules that apply to a packet form a chain, and the least one is found. `Switch`
follows the address: a request that is about to inject holds the address of the interface, one that
is about to turn the switch on has it in the table or found none, and a switch that is on has it in
the table when all callbacks have returned. A callback that runs is the only one, since a second
report would be a gap, and it will write the address that it reads. `Masqueraded` counts a SNAT
rule for 0.0.0.0/0 as the entry it displaces.

### What is only model-checked

* Liveness: DestructionEnds, ChangesSaved and the fairness of ChannelSpec
  (of which ImplementsChannel proves the safety part). The prover does not handle fairness.
* PeerSymmetric, PeerNamesLink and NoDangling, for the operations that peering_all lets overlap:
  none, or a port that goes while another client disconnects it. Overlaps of other operations
  break each of them (section 5), and no lock of the code prevents those, so that a theorem for
  clients that wait for each other would say little. LinkedBackInTheEnd and LinksAgreeMeanwhile
  prove what is left of them under overlap.

## 5 Where the code and its comments or documentation disagree

Two are runs that TLC refutes:

* dump_shutdown: the destructor of `CubesDump` notifies a thread that is about to wait.
* cube_locks: `base_cube.h:155` says that `cube_mutex_` blocks operations over the whole cube.
  `add_port`, `remove_port` and `update_forwarding_table` unlock it twice, and the second time
  another worker may hold it.

Others were met while modelling. The model does what the code does, and the properties are
stated so that they hold:

* A port is linked to an interface, its name `peer_` is still empty, the kernel removes the
  interface: `netlink_notification` calls `set_peer("")`, which returns early, and erases the
  interface the port points to (`service_controller.cpp:314`). With one
  operation at a time NoDangling holds; with a client and the listener at once it does not.
* One client connects a port to an interface, another removes the port that had it before: between
  the two halves of `Port::connect` the interface is not used by anybody (`is_used()`), the other
  client erases it, and the first one links its port to an object that is gone
  (`service_controller.cpp:212`). NoDangling does not hold for these two at once either.
* A client changes the peer of a port that another one is still linking: the name of the peer is
  still empty when the interface is erased by name, and the interface stays for nobody.
* Two linked ends can wait for each other. `Port::update_indexes` runs with the port's own
  `port_mutex_` (taken by `set_peer_iface`, `port.cpp:95`, and by `add_cube` and `remove_cube` through
  `PeerIface::mutex_`, `peer_iface.cpp:38,99`) and takes that of the peer (`port.cpp:289`); the update
  of an XDP interface calls its port in the same way when it is entered at another program
  (`extiface_xdp.cpp:148`). Three things follow. A port that is made its own peer waits for itself.
  Two clients that attach or detach cubes at the two ends of a link wait for each other. And the
  second half of `Port::connect`, which holds the mutex of p2 and waits for that of p1, meets an
  attachment to p1 that holds it and waits for p2. In the first and the last case
  `service_ctrl_mutex_` is kept for ever, so that no peer is set and no notification of the kernel
  is handled any more. The first one is in the model (`hung`); for the others see section 2.
* `attach` with "before" or "after" on an interface without transparent cubes is refused with the
  interface already in `ports_to_ifaces`, where it is kept for nobody (`AttachRefused`;
  IfaceUsed excludes it).
* `extiface.cpp:138` looks for the last cube counting upwards (`LeavesVector`).
* `src/libs/polycube/include/polycube/services/cube.h:73` says that the lock keeps the service
  implementation from being deleted while a packet is processed. `~Cube` takes the lock after
  the derived class is gone; only `pcn-bridge` and `pcn-firewall` call `dismount()` themselves,
  and DismountProtects speaks of those. It does not hold for them when their constructor throws
  after the handlers were registered (`Bridge.cpp:37`, `Firewall.cpp:76`): the destructor with the
  `dismount()` in it is skipped, the members go, and until `~Cube` dismounts, a packet works on what
  is left of the service or is a pure virtual call (stage `failed`).
* A relinking that throws in the middle of `Port::connect` leaves the pointer of the first side,
  and nobody unlinks it when the other side goes.
* On the TC hook a packet that a service sends from the egress side of an interface ends in the
  local stack instead of the device, or, behind the last cube of a linked interface, at the
  device whose number is the id of the port (`transparent_cube.cpp:146`, `controller.cpp:111`).
* `Port::send_packet_out` uses `module` and `port` uninitialised when the peer goes between the
  test of the status and the lock (`port.cpp:226`).
* `update_forwarding_table` is called with `next | id << 16`: the entry of a port whose id is
  not 0 is never erased, it leads to node 0 instead (`port.cpp:137`, `cube.cpp:298`).
* `get_service_chain` looks for the next program among the cubes of the interface and
  dereferences a null pointer when the chain goes on in a port (`extiface.cpp:193`).
* Each packet that the interface refuses shifts the metadata of all later packets by one place
  (IndexesOff).
* The flags of the metadata are cut on the XDP hook, whose ring entries have five bytes.
* NAT rules: `delEntry` tests `size() < id`, so that an id equal to the size removes the last
  rule of the list and nothing from the table, and the loop of a DELETE on an empty list runs past
  the end of the vector (`RuleSnat.cpp:122`); PUT moves a rule to the end and keeps its id; a
  rule is listed before a full table refuses it, and can then not be deleted, and deleting all
  rules throws out of a destructor; PATCH changes the list and not the table.
* Masquerade: `disable` leaves an entry that translates to 0.0.0.0; `delRule` leaves the entry as
  it was; the constructor of `RuleMasquerade` reads `enabled` before it is initialised. An
  address that is reported after `enable` has read the old one, or has found none, and before it
  assigns `enabled` (`RuleMasquerade.cpp:86`, `:129`) is lost, since the callback finds the switch
  off (`Nat.cpp:36`); two reports at once may write their addresses in the other order (gap
  `overtaken`). A SNAT rule for 0.0.0.0/0 is accepted (`RuleSnat.cpp:85`) and has the key of
  masquerade: the entry of one overwrites that of the other (gap `listed`), and deleting the rule
  deletes the entry of masquerade (gap `masquerade`).
* NAT sessions: port forwarding and DNAT rules may name ports and addresses that the NAT gives
  away (`RulePortForwarding.cpp:93`, `RuleDnat.cpp:87`; a DNAT rule covers every port). A packet to
  such a port that was looked up before a session from inside got the port overwrites the entry
  for its replies (`Nat_dp.c:270-285`), which then go to the server (`raced`). A session of an inner
  host that has the two ends of an answer to a forwarded session overwrites the entry for the
  answers, if its first packet was looked up before the entry was written (`crossed`). The
  results of the two updates are not looked at (`Nat_dp.c:284-285`): a session may have one entry
  without the other, for which `raced` and `lossy` allow.
* Egress program 0 of an XDP cube is deleted and added again: `cube_xdp.cpp:180` always
  registers the TC twin as new, the panel refuses it as busy, and keeps the deleted twin.
  `base_cube.cpp:302` handles the same case for the first hook.
* `dismount()` empties the log handler while `DatapathLog` still refers to it; a message of
  the cube that arrives before `destroy_cube` calls it, and the exception ends the daemon
  (`LogProxy`).
* A packet of a destroyed cube goes to the cube that got its id. A transparent cube under
  construction has no port to be missing, and calls its pure virtual `packet_in`
  (DismountProtects names this case).
* A port whose configuration throws in `add_port` stays in the maps of the service
  (`cube.h:139` removes it from the daemon only).
* `Documentation/cubes.md:182` says that the peer of both ports has to be set to connect
  them, and line 184 that a port with an empty peer is down. `ports_to_ports` keeps the
  first peer for ever: ports that had other peers before are not connected, and a port
  whose peer was emptied is linked again when the other side is set.
* `peer_iface.cpp:49` tests `index` where it means `other_index`: a missing cube is only
  noticed when the list is empty.
* The dump file is truncated and then written: a kill in between leaves a file that does
  not parse, and the topology is gone.
* The saving thread of a new daemon can write the empty configuration to the file before it
  is read, since the counter is not initialised and a wait may end spuriously.
* Changes made before the dump is enabled are in memory and not counted. The next counted
  change saves them. So it is with a counted change that brings a counter from below 0 to 0 before
  the saving thread has looked at it.
* A request that a client makes before `set_cubes_dump` (`polycubed.cpp:289-298`) is recorded through
  a null pointer, and the daemon goes down (`RecordsNowhere`).
* A dump file that cannot be opened or written loses the changes of the round: the counter is
  reset before (`cubes_dump.cpp:480`), and the state of the stream is not looked at after the write.
* The record and the cubes part in several ways. A DELETE of a cube is recorded whatever the service
  answered, and only its global name is looked up, so that DELETE of a bridge under the name of
  the router service keeps the bridge and drops its record (`Service.cpp:218-239`). The result of
  deleting a list is ignored (`ListResource.cpp:254`). A request that fails half way changes the cube
  and is not recorded (`Service.cpp:104-106`), nor is an action of a service
  (`ParentResource.cpp:136-139`) or a peer that the netlink listener takes away
  (`service_controller.cpp:314`). InMemoryInstance speaks of the cubes to which none of this happened.
* A leaf that is recorded after its cube was deleted leaves a null entry in the record, and
  the next load stops at it.
* Two changes of one cube are recorded in any order.

## 6 What is not modelled

The data planes of the services other than the NAT, the text of programs and messages, HTTP,
TLS, YANG and JSON, metrics, the loading of services as shared libraries, network namespaces,
vendored libraries, and the REST clients. Most of the lines of the repository are of these
kinds: vendored headers, and the API and serializer classes that are generated from the YANG
models for every service, one after the other without state. Of the modelled parts: shadow
and span ports, parameter subscriptions, `get_service_chain`, recirculated packets, services that
send from a thread of their own, the lock order of two linked ends, an interface that is attached
to while its last user lets go of it ("Iface already in use"), corruption of a map by
unsynchronised access, signals during the load; of the NAT checksums, packet parsing, the
listing of sessions, two clients that edit one list at once, the data race on the string of the
external address, and a callback that reads `rule_` while `delRule` has set it to null
(`Nat.cpp:154`). Section 7 says which of them
are planned.

## 7 Plan

The order was: the index discipline of the patch panel first, because every packet relies
on it; then the links, which are where threads meet; then the chains, which turn links into
pointers; then the slow path and persistence; then packet-out with its abstract channel, the lock
of a cube, the XDP hook in the chains, and the NAT as the first service. These are done, with
the theorems of section 4. Next:

1. An abstract specification of persistence (the file is some earlier configuration), which
   `TopologyDump` implements while nothing is killed.
2. The mutexes of two linked ends, in a module of their own, in which the waiting of section 5 is a
   deadlock that TLC finds; a composition of `ServiceChain` with
   `CubePrograms`, in which a chain holds indexes of the panel.
3. Parameter subscriptions; creation of cubes in the factory; shadow ports; rule update and
   connection tracking of the firewall.
