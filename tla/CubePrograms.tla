---------------------------- MODULE CubePrograms ----------------------------
(***************************************************************************)
(* The eBPF programs of the cubes and their registration in the patch      *)
(* panel: BaseCube (base_cube.cpp), its TC flavours (cube_tc.cpp,          *)
(* transparent_cube_tc.cpp) and its XDP flavours (cube_xdp.cpp,            *)
(* transparent_cube_xdp.cpp), which keep a TC twin of every egress program.*)
(*                                                                         *)
(* An operation of a cube runs under its cube_mutex_ and handles its       *)
(* programs one after the other; any compilation may fail and throw.  The  *)
(* programs still to be handled by the running operation are todo[c], and  *)
(* each step of the module handles one of them, so operations of different *)
(* cubes interleave on the patch panel the way their threads do.           *)
(***************************************************************************)
EXTENDS PatchPanel

CONSTANTS
  Cubes,      \* names of cubes
  CubeType,   \* CubeType[c]: the hook of c, "tc" or "xdp" (XDP_SKB, XDP_DRV)
  MaxProgs,   \* _POLYCUBE_MAX_BPF_PROGRAMS
  Codes,      \* program sources
  NoCode,     \* the empty source: it never compiles
  Levels,     \* log levels, a compile-time parameter of every program
  MaxFailures, \* bound: compilations of a non-empty source that fail
  Bogus       \* a slot whose ebpf::BPF exists but holds no loaded program

ASSUME CubeTypeAssumption == CubeType \in [Cubes -> Hooks]
ASSUME MaxProgsAssumption == MaxProgs \in Nat \ {0}
ASSUME MaxFailuresAssumption == MaxFailures \in Nat
ASSUME NoCodeAssumption == NoCode \notin Codes

Dirs  == {"ingress", "egress"}
Lists == Dirs \cup {"egress_tc"}   \* ingress_, egress_programs_, egress_programs_tc_
Slots == 0 .. MaxProgs - 1

\* A loaded program: its cube and list, and what it was compiled from.
Program == [cube : Cubes, list : Lists, code : Codes, level : Levels]
Slot    == Program \cup {NoProg, Bogus}

ASSUME NoProgAssumption == NoProg \notin Program /\ Bogus \notin Program
                           /\ NoProg # Bogus

\* One unit of work of an operation on one slot (slot 0 for "remove").
Work == [op : {"remove", "add", "reload", "del"}, list : Lists,
         slot : Slots, code : Codes \cup {NoCode}]

VARIABLES
  phase,           \* "absent", "constructing", "live", "destroying"
  index,           \* index[c][d]: ingress_index_, egress_index_
  programs,        \* programs[c][l][i]
  programs_table,  \* the cube's own jump tables: what a tail call to i runs
  programs_code,   \* programs_code[c][d][i]: ingress_code_, egress_code_
  level,           \* level_
  todo,            \* work left of the running operation, {} between operations
  crashed,         \* a null ebpf::BPF was dereferenced: the daemon is gone
  failures,        \* history: failed compilations, up to MaxFailures
  compile_failed,  \* history: a compilation for c has failed since it was built
  leaked           \* history: indexes left behind by constructors that threw

cubeVars == <<phase, index, programs, programs_table, programs_code, level,
              todo, crashed, failures, compile_failed, leaked>>
vars == <<panelVars, cubeVars>>

-----------------------------------------------------------------------------
NoPrograms == [l \in Lists |-> [i \in Slots |-> NoProg]]
NoCodes    == [d \in Dirs |-> [i \in Slots |-> NoCode]]
NoIndex    == [d \in Dirs |-> 0]

Init ==
  /\ PanelInit
  /\ phase = [c \in Cubes |-> "absent"]
  /\ index = [c \in Cubes |-> NoIndex]
  /\ programs = [c \in Cubes |-> NoPrograms]
  /\ programs_table = [c \in Cubes |-> NoPrograms]
  /\ programs_code = [c \in Cubes |-> NoCodes]
  /\ level \in [Cubes -> Levels]
  /\ todo = [c \in Cubes |-> {}]
  /\ crashed = FALSE
  /\ failures = 0
  /\ compile_failed = [c \in Cubes |-> FALSE]
  /\ leaked = {}

\* The direction a list belongs to, and the hook its programs run on.
Dir(l)     == IF l = "egress_tc" THEN "egress" ELSE l
HookOf(c, l) == IF l = "egress_tc" THEN "tc" ELSE CubeType[c]

\* The lists a program of direction d lives in: an XDP cube also keeps a TC
\* version of its egress programs, for packets that leave through the stack.
ListsOf(c, d) ==
  IF d = "egress" /\ CubeType[c] = "xdp" THEN {"egress", "egress_tc"} ELSE {d}

Compiled(c, l, k) == [cube |-> c, list |-> l, code |-> k, level |-> level[c]]

\* The order in which every operation handles its work: registrations first,
\* then the ingress programs, then each egress program and its TC twin.
Rank(w) ==
  CASE w.op = "remove"                        -> IF w.list = "ingress" THEN 0 ELSE 1
    [] w.op # "remove" /\ w.list = "ingress"  -> 2 + w.slot
    [] w.op # "remove" /\ w.list = "egress"   -> 2 + MaxProgs + 2 * w.slot
    [] OTHER                                  -> 3 + MaxProgs + 2 * w.slot

\* w is what the running operation of c handles now.
Current(c, w) == w \in todo[c] /\ \A v \in todo[c] : Rank(w) <= Rank(v)

Done(c, w) == todo' = [todo EXCEPT ![c] = @ \ {w}]

Idle(c) == phase[c] = "live" /\ todo[c] = {}

Loaded(p) == p \notin {NoProg, Bogus}

SetSlot(f, c, l, i, p) == [f EXCEPT ![c][l][i] = p]

-----------------------------------------------------------------------------
(* Operations a service or the daemon starts on a cube.                    *)

AddWork(c, d, i, k) ==
  {[op |-> "add", list |-> l, slot |-> i, code |-> k] : l \in ListsOf(c, d)}

\* Mutant of ReloadWork: the TC twin is not reloaded.
ReloadWorkWithoutTwin(c, d, i, k) ==
  {[op |-> "reload", list |-> d, slot |-> i, code |-> k]}

ReloadWork(c, d, i, k) ==
  {[op |-> "reload", list |-> l, slot |-> i, code |-> k] : l \in ListsOf(c, d)}

DelWork(c, d, i) ==
  {[op |-> "del", list |-> l, slot |-> i, code |-> NoCode] : l \in ListsOf(c, d)}

RemoveWork(d) == [op |-> "remove", list |-> d, slot |-> 0, code |-> NoCode]

SlotsBelow(n) == {i \in Slots : i < n}

\* BaseCube's constructor followed by init(): ni ingress and ne egress
\* programs, all from source k.
Construct(c, ni, ne, k, lv) ==
  /\ phase[c] = "absent"
  /\ level' = [level EXCEPT ![c] = lv]
  /\ todo' = [todo EXCEPT ![c] =
                (UNION {AddWork(c, "ingress", i, k) : i \in SlotsBelow(ni)})
                \cup (UNION {AddWork(c, "egress", i, k) : i \in SlotsBelow(ne)})]
  /\ phase' = [phase EXCEPT ![c] = "constructing"]
  /\ compile_failed' = [compile_failed EXCEPT ![c] = FALSE]
  /\ UNCHANGED <<panelVars, index, programs, programs_table, programs_code,
                 crashed, failures, leaked>>

\* The constructor returned: the cube is usable.
Constructed(c) ==
  /\ phase[c] = "constructing" /\ todo[c] = {}
  /\ phase' = [phase EXCEPT ![c] = "live"]
  /\ UNCHANGED <<panelVars, index, programs, programs_table, programs_code,
                 level, todo, crashed, failures, compile_failed, leaked>>

\* What starting an operation leaves alone.
Started ==
  UNCHANGED <<panelVars, phase, index, programs, programs_table, programs_code,
              crashed, failures, compile_failed, leaked>>

\* add_program(code, i, d); index -1 is the choice of the first empty i.
AddProgram(c, d, i, k) ==
  /\ Idle(c)
  /\ programs[c][d][i] = NoProg          \* else throws "Program is not empty"
  /\ todo' = [todo EXCEPT ![c] = AddWork(c, d, i, k)]
  /\ Started /\ UNCHANGED level

\* reload(code, i, d)
Reload(c, d, i, k) ==
  /\ Idle(c)
  /\ programs[c][d][i] # NoProg          \* else throws "ebpf does not exist"
  /\ todo' = [todo EXCEPT ![c] = ReloadWork(c, d, i, k)]
  /\ Started /\ UNCHANGED level

\* The slots that hold a program object, loaded or not.
Occupied(c) == {x \in Dirs \X Slots : programs[c][x[1]][x[2]] # NoProg}

\* Mutant of ReloadAllWork: only the ingress programs.
ReloadIngressWork(c) ==
  UNION {ReloadWork(c, x[1], x[2], programs_code[c][x[1]][x[2]]) :
           x \in {y \in Occupied(c) : y[1] = "ingress"}}

\* reload_all(): every occupied slot, from its last used source.
ReloadAllWork(c) ==
  UNION {ReloadWork(c, x[1], x[2], programs_code[c][x[1]][x[2]]) : x \in Occupied(c)}

\* set_log_level(lv): assigns level_, then reload_all().  The early return for
\* an unchanged level is taken also when the last reload_all() threw.
SetLogLevel(c, lv) ==
  /\ Idle(c)
  /\ level[c] # lv
  /\ level' = [level EXCEPT ![c] = lv]
  /\ todo' = [todo EXCEPT ![c] = ReloadAllWork(c)]
  /\ Started

\* del_program(i, d)
DelProgram(c, d, i) ==
  /\ Idle(c)
  /\ programs[c][d][i] # NoProg          \* else throws "ebpf program does not exist"
  /\ todo' = [todo EXCEPT ![c] = DelWork(c, d, i)]
  /\ Started /\ UNCHANGED level

\* Mutant of Uninit: index 0 is returned to the panel as well.
UninitUnguarded(c) ==
  /\ Idle(c)
  /\ phase' = [phase EXCEPT ![c] = "destroying"]
  /\ todo' = [todo EXCEPT ![c] =
       {RemoveWork(d) : d \in Dirs}
       \cup (UNION {DelWork(c, x[1], x[2]) : x \in Occupied(c)})]
  /\ UNCHANGED <<panelVars, index, programs, programs_table, programs_code,
                 level, crashed, failures, compile_failed, leaked>>

\* The destructor calls uninit(): leave the patch panel, then delete every
\* program object.
Uninit(c) ==
  /\ Idle(c)
  /\ phase' = [phase EXCEPT ![c] = "destroying"]
  /\ todo' = [todo EXCEPT ![c] =
       {RemoveWork(d) : d \in {e \in Dirs : index[c][e] # 0}}
       \cup (UNION {DelWork(c, x[1], x[2]) : x \in Occupied(c)})]
  /\ UNCHANGED <<panelVars, index, programs, programs_table, programs_code,
                 level, crashed, failures, compile_failed, leaked>>

\* Nothing of the cube's own state survives it; the constructor of the next one
\* sets the level.
Forget(c) ==
  /\ phase' = [phase EXCEPT ![c] = "absent"]
  /\ index' = [index EXCEPT ![c] = NoIndex]
  /\ programs' = [programs EXCEPT ![c] = NoPrograms]
  /\ programs_table' = [programs_table EXCEPT ![c] = NoPrograms]
  /\ programs_code' = [programs_code EXCEPT ![c] = NoCodes]
  /\ todo' = [todo EXCEPT ![c] = {}]
  /\ level' = level

\* The destructor returned.
Destroyed(c) ==
  /\ phase[c] = "destroying" /\ todo[c] = {}
  /\ Forget(c)
  /\ UNCHANGED <<panelVars, crashed, failures, compile_failed, leaked>>

-----------------------------------------------------------------------------
(* One program of the running operation.                                   *)

\* BPFError from compile() or load().  The empty source never compiles; any
\* other may be refused by the compiler, the verifier or the kernel's limits.
CompileFails(c, w) ==
  /\ w.code = NoCode \/ failures < MaxFailures
  /\ failures' = IF w.code = NoCode THEN failures ELSE failures + 1
  /\ compile_failed' = [compile_failed EXCEPT ![c] = TRUE]

\* Mutant of RegisterFirst: a cube that is already registered gets a new index.
RegisterAlways(c, d, p) ==
  PanelAdd(CubeType[c], p) /\ index' = [index EXCEPT ![c][d] = FirstFree]

\* The tail of do_add_program for slot 0: update the entry the cube already
\* has, or register and remember the index.
RegisterFirst(c, d, p) ==
  IF index[c][d] # 0
    THEN PanelUpdate(CubeType[c], index[c][d], p) /\ UNCHANGED index
    ELSE PanelAdd(CubeType[c], p) /\ index' = [index EXCEPT ![c][d] = FirstFree]

\* do_add_program, when the program compiles and loads.
AddDone(c, w) ==
  LET p == Compiled(c, w.list, w.code) IN
  /\ Current(c, w) /\ w.op = "add" /\ w.list \in Dirs
  /\ programs' = SetSlot(programs, c, w.list, w.slot, p)
  /\ programs_table' = SetSlot(programs_table, c, w.list, w.slot, p)
  /\ programs_code' = [programs_code EXCEPT ![c][w.list][w.slot] = w.code]
  /\ IF w.slot = 0 THEN RegisterFirst(c, w.list, p)
                   ELSE UNCHANGED <<panelVars, index>>
  /\ Done(c, w)
  /\ UNCHANGED <<phase, level, crashed, failures, compile_failed, leaked>>

\* The TC twin of an egress program of an XDP cube: always add(fd, index).
AddTwinDone(c, w) ==
  LET p == Compiled(c, "egress_tc", w.code) IN
  /\ Current(c, w) /\ w.op = "add" /\ w.list = "egress_tc"
  /\ programs' = SetSlot(programs, c, "egress_tc", w.slot, p)
  /\ programs_table' = SetSlot(programs_table, c, "egress_tc", w.slot, p)
  /\ IF w.slot = 0 THEN PanelAddAt("tc", index[c]["egress"], p)
                   ELSE UNCHANGED panelVars
  /\ Done(c, w)
  /\ UNCHANGED <<phase, index, programs_code, level, crashed, failures, compile_failed, leaked>>

TwinBusy(c, w) ==
  /\ Current(c, w) /\ w.op = "add" /\ w.list = "egress_tc" /\ w.slot = 0
  /\ nodes_present["tc"][index[c]["egress"]]

\* add(fd, index) throws "Index is busy" when the twin is already loaded and in
\* the cube's jump table.
AddTwinBusy(c, w) ==
  LET p == Compiled(c, "egress_tc", w.code) IN
  /\ TwinBusy(c, w) /\ phase[c] = "live"
  /\ programs' = SetSlot(programs, c, "egress_tc", 0, p)
  /\ programs_table' = SetSlot(programs_table, c, "egress_tc", 0, p)
  /\ todo' = [todo EXCEPT ![c] = {}]
  /\ UNCHANGED <<panelVars, phase, index, programs_code, level, crashed,
                 failures, compile_failed, leaked>>

\* do_add_program (or its TC twin), when the compiler or the verifier refuses
\* the program: the slot keeps the object created for it.
AddThrows(c, w) ==
  /\ Current(c, w) /\ w.op = "add" /\ phase[c] = "live"
  /\ programs' = SetSlot(programs, c, w.list, w.slot, Bogus)
  /\ todo' = [todo EXCEPT ![c] = {}]
  /\ CompileFails(c, w)
  /\ UNCHANGED <<panelVars, phase, index, programs_table, programs_code, level,
                 crashed, leaked>>

\* The constructor throws: the destructor of the flavour, which calls uninit(),
\* never runs, and what was registered stays in the patch panel.
ConstructThrows(c, w) ==
  /\ Current(c, w) /\ w.op = "add" /\ phase[c] = "constructing"
  /\ leaked' = leaked \cup ({index[c][d] : d \in Dirs} \ {0})
  /\ Forget(c)
  /\ CompileFails(c, w)
  /\ UNCHANGED <<panelVars, crashed>>

\* "Index is busy" in the constructor: the twin of a second XDP cube that got
\* index 0 from an exhausted panel.
ConstructBusy(c, w) ==
  /\ TwinBusy(c, w) /\ phase[c] = "constructing"
  /\ leaked' = leaked \cup ({index[c][d] : d \in Dirs} \ {0})
  /\ Forget(c)
  /\ UNCHANGED <<panelVars, crashed, failures, compile_failed>>

\* A new program of slot 0 must be registered: update() throws otherwise.
Registered(c, l) == nodes_present[HookOf(c, l)][index[c][Dir(l)]]

\* do_reload dereferences the twin it replaces.
NullTwin(c, w) == w.list = "egress_tc" /\ programs[c]["egress_tc"][w.slot] = NoProg

\* do_reload (or the same code for the TC twin), when the program loads.
ReloadDone(c, w) ==
  LET p == Compiled(c, w.list, w.code) IN
  /\ Current(c, w) /\ w.op = "reload" /\ w.code # NoCode
  /\ ~NullTwin(c, w)
  /\ programs_table' = SetSlot(programs_table, c, w.list, w.slot, p)
  /\ IF w.slot = 0
       THEN PanelUpdate(HookOf(c, w.list), index[c][Dir(w.list)], p)
       ELSE UNCHANGED panelVars
  /\ programs' = SetSlot(programs, c, w.list, w.slot, p)
  /\ IF w.list \in Dirs
       THEN programs_code' = [programs_code EXCEPT ![c][w.list][w.slot] = w.code]
       ELSE UNCHANGED programs_code
  /\ Done(c, w)
  /\ UNCHANGED <<phase, index, level, crashed, failures, compile_failed, leaked>>

\* update() throws "Index is not registered" after the jump table was written:
\* the slot keeps its old object.
ReloadUnregistered(c, w) ==
  LET p == Compiled(c, w.list, w.code) IN
  /\ Current(c, w) /\ w.op = "reload" /\ w.code # NoCode
  /\ w.slot = 0 /\ ~Registered(c, w.list)
  /\ programs_table' = SetSlot(programs_table, c, w.list, 0, p)
  /\ todo' = [todo EXCEPT ![c] = {}]
  /\ UNCHANGED <<panelVars, phase, index, programs, programs_code, level,
                 crashed, failures, compile_failed, leaked>>

\* The new program does not load: nothing changed, the rest is not reloaded.
ReloadThrows(c, w) ==
  /\ Current(c, w) /\ w.op = "reload"
  /\ todo' = [todo EXCEPT ![c] = {}]
  /\ CompileFails(c, w)
  /\ UNCHANGED <<panelVars, phase, index, programs, programs_table,
                 programs_code, level, crashed, leaked>>

\* do_del_program (or the same code for the TC twin); the patch panel keeps the
\* deleted program of slot 0.
DelDone(c, w) ==
  /\ Current(c, w) /\ w.op = "del"
  /\ ~NullTwin(c, w)
  /\ programs' = SetSlot(programs, c, w.list, w.slot, NoProg)
  /\ programs_table' = SetSlot(programs_table, c, w.list, w.slot, NoProg)
  /\ IF w.list \in Dirs
       THEN programs_code' = [programs_code EXCEPT ![c][w.list][w.slot] = NoCode]
       ELSE UNCHANGED programs_code
  /\ Done(c, w)
  /\ UNCHANGED <<panelVars, phase, index, level, crashed, failures, compile_failed, leaked>>

\* Unloading a twin that was never created dereferences a null pointer.
TwinCrash(c, w) ==
  /\ Current(c, w) /\ w.op \in {"reload", "del"} /\ NullTwin(c, w)
  /\ w.op = "reload" => w.code # NoCode /\ (w.slot = 0 => Registered(c, w.list))
  /\ crashed' = TRUE
  /\ UNCHANGED <<panelVars, phase, index, programs, programs_table,
                 programs_code, level, todo, failures, compile_failed, leaked>>

\* patch_panel_.remove(index) of uninit(), on the panel of the cube's hook; the
\* cube does not clear its ingress_index_ or egress_index_.
RemoveDone(c, w) ==
  /\ Current(c, w) /\ w.op = "remove"
  /\ PanelRemove(CubeType[c], index[c][w.list])
  /\ Done(c, w)
  /\ UNCHANGED <<phase, index, programs, programs_table, programs_code, level,
                 crashed, failures, compile_failed, leaked>>

-----------------------------------------------------------------------------
Start(c) ==
  \/ \E ni, ne \in 0 .. MaxProgs, k \in Codes, lv \in Levels : Construct(c, ni, ne, k, lv)
  \/ Constructed(c)
  \/ \E d \in Dirs, i \in Slots, k \in Codes : AddProgram(c, d, i, k)
  \/ \E d \in Dirs, i \in Slots, k \in Codes : Reload(c, d, i, k)
  \/ \E lv \in Levels : SetLogLevel(c, lv)
  \/ \E d \in Dirs, i \in Slots : DelProgram(c, d, i)
  \/ Uninit(c)
  \/ Destroyed(c)

Step(c) ==
  \E w \in todo[c] :
    \/ AddDone(c, w)
    \/ AddTwinDone(c, w)
    \/ AddTwinBusy(c, w)
    \/ AddThrows(c, w)
    \/ ConstructThrows(c, w)
    \/ ConstructBusy(c, w)
    \/ ReloadDone(c, w)
    \/ ReloadUnregistered(c, w)
    \/ ReloadThrows(c, w)
    \/ DelDone(c, w)
    \/ TwinCrash(c, w)
    \/ RemoveDone(c, w)

Next == ~crashed /\ \E c \in Cubes : Start(c) \/ Step(c)

Spec == Init /\ [][Next]_vars
-----------------------------------------------------------------------------
\* Every variable holds a value of its type.
TypeOK ==
  /\ node_ids \subseteq 1 .. MaxNodes - 1
  /\ nodes_present \in [Hooks -> [Indexes -> BOOLEAN]]
  /\ nodes \in [Hooks -> [Indexes -> Program \cup {NoProg}]]
  /\ phase \in [Cubes -> {"absent", "constructing", "live", "destroying"}]
  /\ index \in [Cubes -> [Dirs -> Indexes]]
  /\ programs \in [Cubes -> [Lists -> [Slots -> Slot]]]
  /\ programs_table \in [Cubes -> [Lists -> [Slots -> Program \cup {NoProg}]]]
  /\ programs_code \in [Cubes -> [Dirs -> [Slots -> Codes \cup {NoCode}]]]
  /\ level \in [Cubes -> Levels]
  /\ todo \in [Cubes -> SUBSET Work]
  /\ crashed \in BOOLEAN
  /\ failures \in 0 .. MaxFailures
  /\ compile_failed \in [Cubes -> BOOLEAN]
  /\ leaked \subseteq 1 .. MaxNodes - 1

\* Cube c owns the patch-panel index of direction d: it was given one and its
\* destructor has not returned it yet.
Owns(c, d) ==
  /\ index[c][d] # 0
  /\ phase[c] = "destroying" => RemoveWork(d) \in todo[c]

\* An index of the patch panel is never shared: no two directions of any cubes
\* own the same one, and an owned index is not free.  Otherwise packets for one
\* cube would run the programs of another (PatchPanel::add / remove against
\* BaseCube::do_add_program and uninit).
IndexUnique ==
  /\ \A c1, c2 \in Cubes : \A d1, d2 \in Dirs :
       Owns(c1, d1) /\ Owns(c2, d2) /\ index[c1][d1] = index[c2][d2]
         => c1 = c2 /\ d1 = d2
  /\ \A c \in Cubes : \A d \in Dirs : Owns(c, d) => index[c][d] \notin node_ids

\* Indexes are conserved: one that is neither free nor owned was left behind by
\* a constructor that threw (uninit() is called by the destructors only), and
\* those are never handed out again.
IndexConserved ==
  (1 .. MaxNodes - 1) \ node_ids =
     leaked \cup {index[x[1]][x[2]] : x \in {y \in Cubes \X Dirs : Owns(y[1], y[2])}}

\* Tail calls reach the current programs: whatever failed before, the patch
\* panel entry of a cube is its loaded program 0, and the entry of its jump
\* table for a slot is the program loaded in it (do_add_program, do_reload).
TailCallsCurrent ==
  \A c \in Cubes : phase[c] \in {"constructing", "live"} =>
    /\ \A d \in Dirs : index[c][d] # 0 /\ Loaded(programs[c][d][0])
         => nodes[CubeType[c]][index[c][d]] = programs[c][d][0]
    /\ \A l \in Lists, i \in Slots : Loaded(programs[c][l][i])
         => programs_table[c][l][i] = programs[c][l][i]

\* A program is left behind a free index only as the TC twin of an egress
\* program: uninit() empties the entry of the cube's own hook, and a twin is
\* registered in the TC panel, which it never visits.  Everything else is gone,
\* so a stale tail call falls through (BaseCube::uninit, PatchPanel::remove).
FreeIndexOnlyTwins ==
  \A i \in node_ids :
    /\ nodes["xdp"][i] = NoProg
    /\ nodes["tc"][i] # NoProg => nodes["tc"][i].list = "egress_tc"

\* Between operations, and as long as no compilation failed, every program of
\* a cube was compiled with the cube's log level (set_log_level, reload_all,
\* and the programs added or reloaded since).
LevelApplied ==
  \A c \in Cubes : Idle(c) /\ ~compile_failed[c] =>
    \A l \in Lists, i \in Slots :
      Loaded(programs[c][l][i]) => programs[c][l][i].level = level[c]

\* Between operations, and as long as no compilation failed, an egress program
\* of an XDP cube and its TC twin come from the same source (CubeXDP::reload,
\* reload_all, add_program).
TwinsAgree ==
  \A c \in Cubes : Idle(c) /\ ~compile_failed[c] /\ CubeType[c] = "xdp" =>
    \A i \in Slots :
      /\ programs[c]["egress"][i] = NoProg <=> programs[c]["egress_tc"][i] = NoProg
      /\ Loaded(programs[c]["egress"][i]) /\ Loaded(programs[c]["egress_tc"][i])
           => programs[c]["egress"][i].code = programs[c]["egress_tc"][i].code

\* A cube keeps the index it was given for as long as it exists, through
\* deletes, failed adds and reloads: ports, peers and chains have copied it.
IndexStable ==
  [][\A c \in Cubes : \A d \in Dirs :
       index[c][d] # 0 => index'[c][d] = index[c][d] \/ phase'[c] = "absent"]_vars

=============================================================================
