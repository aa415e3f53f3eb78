------------------------- MODULE CubeProgramsProofs -------------------------
(***************************************************************************)
(* Proofs about CubePrograms, for any number of cubes, slots, sources and  *)
(* indexes.  The first part is about the indexes of the patch panel: types,*)
(* uniqueness, conservation and stability.  The second part is about which *)
(* programs the panel, the jump tables and the slots of a cube hold.       *)
(***************************************************************************)
EXTENDS CubePrograms, TLAPS, WellFoundedInduction

\* The free index PatchPanel::add takes is a free one, when there is one.
LEMMA FirstFreeIsFree ==
  ASSUME node_ids \subseteq Nat, node_ids # {}
  PROVE  FirstFree \in node_ids
<1> DEFINE R == OpToRel(<, Nat)
<1>1. IsWellFoundedOn(R, Nat)
  BY NatLessThanWellFounded
<1> HIDE DEF R
<1>2. \E x \in node_ids : \A y \in node_ids : ~(<<y, x>> \in R)
  BY <1>1, WFMin
<1>3. \E x \in node_ids : \A y \in node_ids : x <= y
  <2>1. PICK x \in node_ids : \A y \in node_ids : ~(<<y, x>> \in R)
    BY <1>2
  <2>2. ASSUME NEW y \in node_ids PROVE x <= y
    <3>1. x \in Nat /\ y \in Nat /\ ~(<<y, x>> \in R)
      BY <2>1
    <3>2. ~(y < x)
      BY <3>1 DEF R, OpToRel
    <3> QED BY <3>1, <3>2
  <2> QED BY <2>2
<1> QED BY <1>3 DEF FirstFree

-----------------------------------------------------------------------------
\* What the pending work of a cube says about its phase: only a destructor
\* leaves the panel, and only for indexes the cube was given; only a constructor
\* or a live cube adds programs.
WorkOK ==
  \A c \in Cubes : \A w \in todo[c] :
    /\ w.op = "remove" => /\ phase[c] = "destroying"
                          /\ w.list \in Dirs
                          /\ w = RemoveWork(w.list)
                          /\ index[c][w.list] # 0
    /\ w.op = "add" => phase[c] \in {"constructing", "live"} /\ w.code \in Codes
    /\ w.op = "reload" => phase[c] = "live"
    /\ w.op = "del" => phase[c] \in {"live", "destroying"}

\* A cube that does not exist has no index and no work.
AbsentOK ==
  \A c \in Cubes : phase[c] = "absent" => index[c] = NoIndex /\ todo[c] = {}

TypeInv == TypeOK /\ WorkOK /\ AbsentOK

\* Every free index, and 0 for an exhausted panel, is an index.
LEMMA FirstFreeType ==
  ASSUME TypeOK
  PROVE  /\ FirstFree \in Indexes
         /\ node_ids # {} => FirstFree \in node_ids
         /\ node_ids = {} => FirstFree = 0
<1>1. CASE node_ids = {}
  BY <1>1, MaxNodesAssumption DEF FirstFree, Indexes
<1>2. CASE node_ids # {}
  <2>1. node_ids \subseteq Nat /\ node_ids \subseteq Indexes
    BY MaxNodesAssumption DEF TypeOK, Indexes
  <2> QED BY <1>2, <2>1, FirstFreeIsFree
<1> QED BY <1>1, <1>2

\* The work of an operation on a slot, and of leaving the panel, is work.
LEMMA WorkTypes ==
  ASSUME NEW c \in Cubes, NEW d \in Dirs, NEW i \in Slots
  PROVE  /\ \A k \in Codes \cup {NoCode} :
              AddWork(c, d, i, k) \subseteq Work /\ ReloadWork(c, d, i, k) \subseteq Work
         /\ DelWork(c, d, i) \subseteq Work
         /\ RemoveWork(d) \in Work
<1>1. ListsOf(c, d) \subseteq Lists
  BY DEF ListsOf, Lists, Dirs
<1>2. 0 \in Slots
  BY MaxProgsAssumption DEF Slots
<1>3. d \in Lists
  BY DEF Lists
<1> QED BY <1>1, <1>2, <1>3 DEF AddWork, ReloadWork, DelWork, RemoveWork, Work

\* Writing a slot, an index, a code or a panel entry keeps the types.
LEMMA SlotTypes ==
  ASSUME TypeOK, NEW c \in Cubes, NEW l \in Lists, NEW i \in Slots
  PROVE  /\ \A p \in Slot : SetSlot(programs, c, l, i, p)
                              \in [Cubes -> [Lists -> [Slots -> Slot]]]
         /\ \A p \in Program \cup {NoProg} : SetSlot(programs_table, c, l, i, p)
                   \in [Cubes -> [Lists -> [Slots -> Program \cup {NoProg}]]]
BY DEF SetSlot, TypeOK, Slot

\* What compiles is a program.
LEMMA CompiledType ==
  ASSUME TypeOK, NEW c \in Cubes, NEW l \in Lists, NEW k \in Codes
  PROVE  Compiled(c, l, k) \in Program
BY DEF Compiled, Program, TypeOK

PanelTypeOK ==
  /\ node_ids \subseteq 1 .. MaxNodes - 1
  /\ nodes_present \in [Hooks -> [Indexes -> BOOLEAN]]
  /\ nodes \in [Hooks -> [Indexes -> Program \cup {NoProg}]]

\* PatchPanel::remove keeps the types of the panel, for every index but 0.
LEMMA PanelRemoveTypes ==
  ASSUME TypeOK, NEW h \in Hooks, NEW i \in Indexes, i # 0, PanelRemove(h, i)
  PROVE  PanelTypeOK'
BY MaxNodesAssumption DEF PanelRemove, PanelTypeOK, TypeOK, Indexes

\* PatchPanel::add and update keep the types of the panel.
LEMMA PanelTypes ==
  ASSUME TypeOK, NEW h \in Hooks, NEW i \in Indexes, NEW p \in Program
  PROVE  /\ PanelAdd(h, p) => PanelTypeOK'
         /\ PanelAddAt(h, i, p) => PanelTypeOK'
         /\ PanelUpdate(h, i, p) => PanelTypeOK'
         /\ UNCHANGED panelVars => PanelTypeOK'
<1>0. FirstFree \in Indexes
  BY FirstFreeType
<1>a. \A j \in Indexes : [nodes_present EXCEPT ![h][j] = TRUE]
                           \in [Hooks -> [Indexes -> BOOLEAN]]
  <2> SUFFICES ASSUME NEW j \in Indexes
               PROVE  [nodes_present EXCEPT ![h][j] = TRUE]
                           \in [Hooks -> [Indexes -> BOOLEAN]]
    OBVIOUS
  <2>1. nodes_present \in [Hooks -> [Indexes -> BOOLEAN]]
    BY DEF TypeOK
  <2>2. [nodes_present[h] EXCEPT ![j] = TRUE] \in [Indexes -> BOOLEAN]
    BY <2>1
  <2> QED BY <2>1, <2>2
<1>b. \A j \in Indexes : [nodes EXCEPT ![h][j] = p]
                           \in [Hooks -> [Indexes -> Program \cup {NoProg}]]
  BY DEF TypeOK
<1>1. PanelAdd(h, p) => PanelTypeOK'
  BY <1>0, <1>a, <1>b DEF PanelAdd, PanelTypeOK, TypeOK
<1>2. PanelAddAt(h, i, p) => PanelTypeOK'
  BY <1>a, <1>b DEF PanelAddAt, PanelTypeOK, TypeOK
<1>4. PanelUpdate(h, i, p) => PanelTypeOK'
  BY DEF PanelUpdate, PanelTypeOK, TypeOK
<1>5. UNCHANGED panelVars => PanelTypeOK'
  BY DEF panelVars, PanelTypeOK, TypeOK
<1> QED BY <1>1, <1>2, <1>4, <1>5

-----------------------------------------------------------------------------
\* The daemon starts well typed.
LEMMA TypeInit == Init => TypeInv
<1> SUFFICES ASSUME Init PROVE TypeInv
  OBVIOUS
<1> USE DEF Init, PanelInit
<1>2. 0 \in Indexes
  BY MaxNodesAssumption DEF Indexes
<1>a. nodes_present \in [Hooks -> [Indexes -> BOOLEAN]]
  OBVIOUS
<1>b. /\ node_ids \subseteq 1 .. MaxNodes - 1
      /\ nodes \in [Hooks -> [Indexes -> Program \cup {NoProg}]]
      /\ leaked \subseteq 1 .. MaxNodes - 1
      /\ failures \in 0 .. MaxFailures
  BY MaxFailuresAssumption
<1>c. /\ programs \in [Cubes -> [Lists -> [Slots -> Slot]]]
      /\ programs_table \in [Cubes -> [Lists -> [Slots -> Program \cup {NoProg}]]]
      /\ programs_code \in [Cubes -> [Dirs -> [Slots -> Codes \cup {NoCode}]]]
      /\ index \in [Cubes -> [Dirs -> Indexes]]
  BY <1>2 DEF NoIndex, NoPrograms, NoCodes, Slot
<1>d. /\ phase \in [Cubes -> {"absent", "constructing", "live", "destroying"}]
      /\ level \in [Cubes -> Levels]
      /\ todo \in [Cubes -> SUBSET Work]
      /\ crashed \in BOOLEAN
      /\ compile_failed \in [Cubes -> BOOLEAN]
  OBVIOUS
<1>3. TypeOK
  BY <1>a, <1>b, <1>c, <1>d DEF TypeOK
<1>4. WorkOK /\ AbsentOK
  BY DEF WorkOK, AbsentOK
<1> QED BY <1>3, <1>4 DEF TypeInv

\* Work the constructor, the operations and the destructor may leave pending.
LEMMA StartedWork ==
  ASSUME NEW c \in Cubes, NEW d \in Dirs, NEW i \in Slots
  PROVE  /\ \A k \in Codes : \A w \in AddWork(c, d, i, k) : w.op = "add" /\ w.code \in Codes
         /\ \A k : \A w \in ReloadWork(c, d, i, k) : w.op = "reload"
         /\ \A w \in DelWork(c, d, i) : w.op = "del"
BY DEF AddWork, ReloadWork, DelWork

\* Dropping pending work of one cube, in the same phase, keeps WorkOK.
LEMMA FewerWork ==
  ASSUME TypeInv, NEW c \in Cubes, NEW S, S \subseteq todo[c],
         todo' = [todo EXCEPT ![c] = S], phase' = phase,
         \A b \in Cubes : \A d \in Dirs : index[b][d] # 0 => index'[b][d] # 0
  PROVE  WorkOK' /\ todo' \in [Cubes -> SUBSET Work]
<1>1. todo' \in [Cubes -> SUBSET Work] /\ \A b \in Cubes : todo'[b] \subseteq todo[b]
  BY DEF TypeInv, TypeOK
<1>2. WorkOK'
  BY <1>1 DEF TypeInv, WorkOK, RemoveWork
<1> QED BY <1>1, <1>2

\* A cube that is gone leaves well-typed state behind.
LEMMA ForgetTypes ==
  ASSUME TypeInv, NEW c \in Cubes, Forget(c)
  PROVE  /\ phase' \in [Cubes -> {"absent", "constructing", "live", "destroying"}]
         /\ index' \in [Cubes -> [Dirs -> Indexes]]
         /\ programs' \in [Cubes -> [Lists -> [Slots -> Slot]]]
         /\ programs_table' \in [Cubes -> [Lists -> [Slots -> Program \cup {NoProg}]]]
         /\ programs_code' \in [Cubes -> [Dirs -> [Slots -> Codes \cup {NoCode}]]]
         /\ level' \in [Cubes -> Levels]
         /\ todo' \in [Cubes -> SUBSET Work]
         /\ WorkOK' /\ AbsentOK'
<1> USE DEF TypeInv
<1>1. 0 \in Indexes
  BY MaxNodesAssumption DEF Indexes
<1>2. NoPrograms \in [Lists -> [Slots -> Slot]]
      /\ NoPrograms \in [Lists -> [Slots -> Program \cup {NoProg}]]
      /\ NoCodes \in [Dirs -> [Slots -> Codes \cup {NoCode}]]
      /\ NoIndex \in [Dirs -> Indexes]
  BY <1>1 DEF NoPrograms, NoCodes, NoIndex, Slot
<1>3. /\ phase' \in [Cubes -> {"absent", "constructing", "live", "destroying"}]
      /\ index' \in [Cubes -> [Dirs -> Indexes]]
      /\ programs' \in [Cubes -> [Lists -> [Slots -> Slot]]]
      /\ programs_table' \in [Cubes -> [Lists -> [Slots -> Program \cup {NoProg}]]]
      /\ programs_code' \in [Cubes -> [Dirs -> [Slots -> Codes \cup {NoCode}]]]
      /\ level' \in [Cubes -> Levels]
      /\ todo' \in [Cubes -> SUBSET Work]
  BY <1>1, <1>2 DEF Forget, TypeOK
<1>4. WorkOK'
  BY DEF Forget, TypeOK, WorkOK, RemoveWork
<1>5. AbsentOK'
  BY DEF Forget, TypeOK, AbsentOK
<1> QED BY <1>3, <1>4, <1>5

\* The start of every operation keeps the types.
LEMMA TypeStart ==
  ASSUME TypeInv, NEW c \in Cubes, Start(c)
  PROVE  TypeInv'
<1> USE DEF TypeInv
<1>1. ASSUME NEW ni \in 0 .. MaxProgs, NEW ne \in 0 .. MaxProgs, NEW k \in Codes,
             NEW lv \in Levels, Construct(c, ni, ne, k, lv)
      PROVE  TypeInv'
  <2> DEFINE T == (UNION {AddWork(c, "ingress", i, k) : i \in SlotsBelow(ni)})
                  \cup (UNION {AddWork(c, "egress", i, k) : i \in SlotsBelow(ne)})
  <2>1. T \subseteq Work /\ \A w \in T : w.op = "add" /\ w.code \in Codes
    <3>1. "ingress" \in Dirs /\ "egress" \in Dirs
      BY DEF Dirs
    <3>2. ASSUME NEW d \in Dirs, NEW i \in Slots
          PROVE  AddWork(c, d, i, k) \subseteq Work
                 /\ \A w \in AddWork(c, d, i, k) : w.op = "add" /\ w.code \in Codes
      BY WorkTypes, StartedWork
    <3>3. SlotsBelow(ni) \subseteq Slots /\ SlotsBelow(ne) \subseteq Slots
      BY DEF SlotsBelow
    <3>4. ASSUME NEW w \in T
          PROVE  w \in Work /\ w.op = "add" /\ w.code \in Codes
      <4>1. CASE w \in UNION {AddWork(c, "ingress", i, k) : i \in SlotsBelow(ni)}
        <5>1. PICK i \in SlotsBelow(ni) : w \in AddWork(c, "ingress", i, k)
          BY <4>1
        <5> QED BY <3>1, <3>2, <3>3, <5>1
      <4>2. CASE w \in UNION {AddWork(c, "egress", i, k) : i \in SlotsBelow(ne)}
        <5>1. PICK i \in SlotsBelow(ne) : w \in AddWork(c, "egress", i, k)
          BY <4>2
        <5> QED BY <3>1, <3>2, <3>3, <5>1
      <4> QED BY <4>1, <4>2
    <3> QED BY <3>4
  <2>2. todo' = [todo EXCEPT ![c] = T]
    BY <1>1 DEF Construct
  <2> HIDE DEF T
  <2>3. TypeOK'
    BY <1>1, <2>1, <2>2 DEF Construct, TypeOK, panelVars
  <2>4. WorkOK'
    BY <1>1, <2>1, <2>2 DEF Construct, TypeOK, WorkOK, RemoveWork
  <2>5. AbsentOK'
    BY <1>1, <2>2 DEF Construct, TypeOK, AbsentOK
  <2> QED BY <2>3, <2>4, <2>5
<1>2. ASSUME Constructed(c) PROVE TypeInv'
  <2>1. TypeOK'
    BY <1>2 DEF Constructed, TypeOK, panelVars
  <2>2. WorkOK'
    BY <1>2 DEF Constructed, TypeOK, WorkOK, RemoveWork
  <2>3. AbsentOK'
    BY <1>2 DEF Constructed, TypeOK, AbsentOK
  <2> QED BY <2>1, <2>2, <2>3
<1>3. ASSUME NEW S \in SUBSET Work, Idle(c), todo' = [todo EXCEPT ![c] = S], Started,
             level' \in [Cubes -> Levels],
             \A w \in S : w.op \in {"add", "reload", "del"}
                          /\ (w.op = "add" => w.code \in Codes)
      PROVE  TypeInv'
  <2>1. TypeOK'
    BY <1>3 DEF Started, TypeOK, panelVars
  <2>2. WorkOK'
    BY <1>3 DEF Started, Idle, TypeOK, WorkOK, RemoveWork
  <2>3. AbsentOK'
    BY <1>3 DEF Started, Idle, TypeOK, AbsentOK
  <2> QED BY <2>1, <2>2, <2>3
<1>4. ASSUME NEW d \in Dirs, NEW i \in Slots, NEW k \in Codes, AddProgram(c, d, i, k)
      PROVE  TypeInv'
  <2>1. AddWork(c, d, i, k) \in SUBSET Work
    BY WorkTypes
  <2>2. \A w \in AddWork(c, d, i, k) : w.op = "add" /\ (w.op = "add" => w.code \in Codes)
    BY StartedWork
  <2>3. level' \in [Cubes -> Levels]
    BY <1>4 DEF AddProgram, TypeOK
  <2>4. Idle(c) /\ Started /\ todo' = [todo EXCEPT ![c] = AddWork(c, d, i, k)]
    BY <1>4 DEF AddProgram
  <2> QED BY <1>3, <2>1, <2>2, <2>3, <2>4
<1>5. ASSUME NEW d \in Dirs, NEW i \in Slots, NEW k \in Codes, Reload(c, d, i, k)
      PROVE  TypeInv'
  <2>1. ReloadWork(c, d, i, k) \in SUBSET Work
    BY WorkTypes
  <2>2. \A w \in ReloadWork(c, d, i, k) : w.op = "reload" /\ (w.op = "add" => w.code \in Codes)
    BY StartedWork
  <2>3. level' \in [Cubes -> Levels]
    BY <1>5 DEF Reload, TypeOK
  <2>4. Idle(c) /\ Started /\ todo' = [todo EXCEPT ![c] = ReloadWork(c, d, i, k)]
    BY <1>5 DEF Reload
  <2> QED BY <1>3, <2>1, <2>2, <2>3, <2>4
<1>6. ASSUME NEW lv \in Levels, SetLogLevel(c, lv)
      PROVE  TypeInv'
  <2>1. ASSUME NEW x \in Occupied(c)
        PROVE  LET W == ReloadWork(c, x[1], x[2], programs_code[c][x[1]][x[2]])
               IN  W \subseteq Work /\ \A w \in W : w.op = "reload"
    <3>1. x[1] \in Dirs /\ x[2] \in Slots
      BY DEF Occupied
    <3>2. programs_code[c][x[1]][x[2]] \in Codes \cup {NoCode}
      BY <3>1 DEF TypeOK
    <3> QED BY <3>1, <3>2, WorkTypes, StartedWork
  <2>2. ReloadAllWork(c) \in SUBSET Work /\ \A w \in ReloadAllWork(c) : w.op = "reload"
    BY <2>1 DEF ReloadAllWork
  <2>3. level' \in [Cubes -> Levels]
    BY <1>6 DEF SetLogLevel, TypeOK
  <2> QED BY <1>3, <1>6, <2>2, <2>3 DEF SetLogLevel
<1>7. ASSUME NEW d \in Dirs, NEW i \in Slots, DelProgram(c, d, i)
      PROVE  TypeInv'
  <2>1. DelWork(c, d, i) \in SUBSET Work
    BY WorkTypes
  <2>2. \A w \in DelWork(c, d, i) : w.op = "del" /\ (w.op = "add" => w.code \in Codes)
    BY StartedWork
  <2>3. level' \in [Cubes -> Levels]
    BY <1>7 DEF DelProgram, TypeOK
  <2>4. Idle(c) /\ Started /\ todo' = [todo EXCEPT ![c] = DelWork(c, d, i)]
    BY <1>7 DEF DelProgram
  <2> QED BY <1>3, <2>1, <2>2, <2>3, <2>4
<1>8. ASSUME Uninit(c) PROVE TypeInv'
  <2> DEFINE A == {RemoveWork(d) : d \in {e \in Dirs : index[c][e] # 0}}
  <2> DEFINE B == UNION {DelWork(c, x[1], x[2]) : x \in Occupied(c)}
  <2>1. A \subseteq Work /\ \A w \in A : /\ w.op = "remove" /\ w.list \in Dirs
                                          /\ w = RemoveWork(w.list) /\ index[c][w.list] # 0
    <3>1. ASSUME NEW d \in Dirs
          PROVE  RemoveWork(d) \in Work
      <4>1. 0 \in Slots
        BY MaxProgsAssumption DEF Slots
      <4> QED BY <4>1, WorkTypes
    <3>2. \A d \in Dirs : RemoveWork(d).op = "remove" /\ RemoveWork(d).list = d
      BY DEF RemoveWork
    <3> QED BY <3>1, <3>2
  <2>2. B \subseteq Work /\ \A w \in B : w.op = "del"
    <3>1. ASSUME NEW x \in Occupied(c)
          PROVE  DelWork(c, x[1], x[2]) \subseteq Work
                 /\ \A w \in DelWork(c, x[1], x[2]) : w.op = "del"
      <4>1. x[1] \in Dirs /\ x[2] \in Slots
        BY DEF Occupied
      <4> QED BY <4>1, WorkTypes, StartedWork
    <3> QED BY <3>1
  <2>3. todo' = [todo EXCEPT ![c] = A \cup B]
    BY <1>8 DEF Uninit
  <2> HIDE DEF A, B
  <2>4. TypeOK'
    BY <1>8, <2>1, <2>2, <2>3 DEF Uninit, TypeOK, panelVars
  <2>5. WorkOK'
    BY <1>8, <2>1, <2>2, <2>3 DEF Uninit, TypeOK, WorkOK, RemoveWork
  <2>6. AbsentOK'
    BY <1>8, <2>3 DEF Uninit, TypeOK, AbsentOK
  <2> QED BY <2>4, <2>5, <2>6
<1>9. ASSUME Destroyed(c) PROVE TypeInv'
  BY <1>9, ForgetTypes DEF Destroyed, TypeOK, panelVars
<1> QED BY <1>1, <1>2, <1>4, <1>5, <1>6, <1>7, <1>8, <1>9 DEF Start

\* What work in hand is: a slot of a list of an existing cube.
LEMMA CurrentWork ==
  ASSUME TypeInv, NEW c \in Cubes, NEW w \in todo[c]
  PROVE  /\ w \in Work /\ w.list \in Lists /\ w.slot \in Slots
         /\ w.code \in Codes \cup {NoCode} /\ w.op \in {"remove", "add", "reload", "del"}
         /\ phase[c] # "absent"
         /\ CubeType[c] \in Hooks /\ HookOf(c, w.list) \in Hooks
         /\ Dir(w.list) \in Dirs /\ index[c][Dir(w.list)] \in Indexes
<1>1. w \in Work
  BY DEF TypeInv, TypeOK
<1>2. w.list \in Lists /\ w.slot \in Slots /\ w.code \in Codes \cup {NoCode}
      /\ w.op \in {"remove", "add", "reload", "del"}
  BY <1>1 DEF Work
<1>3. phase[c] # "absent"
  BY DEF TypeInv, AbsentOK
<1>4. CubeType[c] \in Hooks /\ HookOf(c, w.list) \in Hooks
  BY CubeTypeAssumption DEF HookOf, Hooks
<1>5. Dir(w.list) \in Dirs
  BY <1>2 DEF Dir, Lists, Dirs
<1>6. index[c][Dir(w.list)] \in Indexes
  BY <1>5 DEF TypeInv, TypeOK
<1> QED BY <1>1, <1>2, <1>3, <1>4, <1>5, <1>6

\* Remembering the source of a program keeps the types.
LEMMA CodeTypes ==
  ASSUME TypeOK, NEW c \in Cubes, NEW d \in Dirs, NEW i \in Slots,
         NEW k \in Codes \cup {NoCode}
  PROVE  [programs_code EXCEPT ![c][d][i] = k]
            \in [Cubes -> [Dirs -> [Slots -> Codes \cup {NoCode}]]]
BY DEF TypeOK

\* A failed compilation keeps the types of the history variables.
LEMMA FailTypes ==
  ASSUME TypeOK, NEW c \in Cubes, NEW w, CompileFails(c, w)
  PROVE  failures' \in 0 .. MaxFailures /\ compile_failed' \in [Cubes -> BOOLEAN]
<1>1. failures' \in 0 .. MaxFailures
  BY MaxFailuresAssumption DEF CompileFails, TypeOK
<1>2. compile_failed' \in [Cubes -> BOOLEAN]
  BY DEF CompileFails, TypeOK
<1> QED BY <1>1, <1>2

\* Registering program 0 keeps the types, and an index that a cube has.
LEMMA RegisterTypes ==
  ASSUME TypeInv, NEW c \in Cubes, NEW d \in Dirs, NEW p \in Program,
         RegisterFirst(c, d, p)
  PROVE  /\ PanelTypeOK'
         /\ index' \in [Cubes -> [Dirs -> Indexes]]
         /\ \A b \in Cubes : \A e \in Dirs : index[b][e] # 0 => index'[b][e] = index[b][e]
         /\ \A b \in Cubes \ {c} : index'[b] = index[b]
<1>1. CubeType[c] \in Hooks /\ index[c][d] \in Indexes
  BY CubeTypeAssumption DEF TypeInv, TypeOK
<1>2. FirstFree \in Indexes
  BY FirstFreeType DEF TypeInv
<1>3. PanelTypeOK'
  BY <1>1, PanelTypes DEF RegisterFirst, TypeInv
<1>4. /\ index' \in [Cubes -> [Dirs -> Indexes]]
      /\ \A b \in Cubes : \A e \in Dirs : index[b][e] # 0 => index'[b][e] = index[b][e]
      /\ \A b \in Cubes \ {c} : index'[b] = index[b]
  <2>1. CASE index[c][d] # 0
    BY <2>1 DEF RegisterFirst, TypeInv, TypeOK
  <2>2. CASE index[c][d] = 0
    <3>1. index' = [index EXCEPT ![c][d] = FirstFree]
      BY <2>2 DEF RegisterFirst
    <3> QED BY <1>2, <2>2, <3>1 DEF TypeInv, TypeOK
  <2> QED BY <2>1, <2>2
<1> QED BY <1>3, <1>4

\* Every step of a running operation keeps the types.
LEMMA TypeStep ==
  ASSUME TypeInv, NEW c \in Cubes, Step(c)
  PROVE  TypeInv'
<1> USE DEF TypeInv
<1>0. PICK w \in todo[c] :
        \/ AddDone(c, w) \/ AddTwinDone(c, w) \/ AddTwinBusy(c, w) \/ AddThrows(c, w)
        \/ ConstructThrows(c, w) \/ ConstructBusy(c, w) \/ ReloadDone(c, w)
        \/ ReloadUnregistered(c, w) \/ ReloadThrows(c, w) \/ DelDone(c, w) \/ TwinCrash(c, w) \/ RemoveDone(c, w)
  BY DEF Step
<1>w. /\ w \in Work /\ w.list \in Lists /\ w.slot \in Slots
      /\ w.code \in Codes \cup {NoCode} /\ w.op \in {"remove", "add", "reload", "del"}
      /\ phase[c] # "absent"
      /\ CubeType[c] \in Hooks /\ HookOf(c, w.list) \in Hooks
      /\ Dir(w.list) \in Dirs /\ index[c][Dir(w.list)] \in Indexes
  BY CurrentWork
<1>a. w.op = "add" => w.code \in Codes
  BY DEF WorkOK
<1>s. 0 \in Slots /\ "egress_tc" \in Lists /\ "tc" \in Hooks /\ "egress" \in Dirs
      /\ NoProg \in Slot /\ Bogus \in Slot /\ Program \subseteq Slot
  BY MaxProgsAssumption DEF Slots, Lists, Hooks, Dirs, Slot
<1>d. todo[c] \ {w} \subseteq todo[c] /\ {} \subseteq todo[c]
  OBVIOUS
<1>1. CASE AddDone(c, w)
  <2> DEFINE p == Compiled(c, w.list, w.code)
  <2>1. p \in Program
    BY <1>1, <1>w, <1>a, CompiledType DEF AddDone
  <2> HIDE DEF p
  <2>2. /\ PanelTypeOK'
        /\ index' \in [Cubes -> [Dirs -> Indexes]]
        /\ \A b \in Cubes : \A e \in Dirs : index[b][e] # 0 => index'[b][e] = index[b][e]
        /\ \A b \in Cubes \ {c} : index'[b] = index[b]
    <3>1. CASE w.slot = 0
      BY <1>1, <2>1, <3>1, RegisterTypes DEF AddDone, p
    <3>2. CASE w.slot # 0
      BY <1>1, <1>w, <2>1, <3>2, PanelTypes DEF AddDone, TypeOK
    <3> QED BY <3>1, <3>2
  <2>3. WorkOK' /\ todo' \in [Cubes -> SUBSET Work]
    BY <1>1, <1>d, <2>2, FewerWork DEF AddDone, Done
  <2>4. AbsentOK'
    <3>1. /\ phase' = phase /\ todo' = [todo EXCEPT ![c] = @ \ {w}]
      BY <1>1 DEF AddDone, Done
    <3>2. ASSUME NEW b \in Cubes, phase[b] = "absent"
          PROVE  index'[b] = NoIndex /\ todo'[b] = {}
      <4>1. b # c
        BY <1>w, <3>2
      <4>2. index'[b] = index[b]
        BY <2>2, <4>1
      <4>3. todo'[b] = todo[b]
        BY <3>1, <4>1 DEF TypeOK
      <4> QED BY <3>2, <4>2, <4>3 DEF AbsentOK
    <3> QED BY <3>1, <3>2 DEF AbsentOK, NoIndex
  <2>5. /\ programs' \in [Cubes -> [Lists -> [Slots -> Slot]]]
        /\ programs_table' \in [Cubes -> [Lists -> [Slots -> Program \cup {NoProg}]]]
        /\ programs_code' \in [Cubes -> [Dirs -> [Slots -> Codes \cup {NoCode}]]]
    BY <1>1, <1>w, <1>s, <2>1, SlotTypes, CodeTypes DEF AddDone, p
  <2> QED BY <1>1, <2>2, <2>3, <2>4, <2>5 DEF AddDone, TypeOK, PanelTypeOK
<1>2. CASE AddTwinDone(c, w)
  <2> DEFINE p == Compiled(c, "egress_tc", w.code)
  <2>1. p \in Program
    BY <1>2, <1>s, <1>a, CompiledType DEF AddTwinDone
  <2> HIDE DEF p
  <2>2. PanelTypeOK'
    <3>1. index[c]["egress"] \in Indexes
      BY <1>s DEF TypeOK
    <3> QED BY <1>2, <1>s, <2>1, <3>1, PanelTypes DEF AddTwinDone, p
  <2>3. WorkOK' /\ todo' \in [Cubes -> SUBSET Work]
    BY <1>2, <1>d, FewerWork DEF AddTwinDone, Done
  <2>4. AbsentOK'
    BY <1>2, <1>w DEF AddTwinDone, Done, AbsentOK, TypeOK
  <2>5. /\ programs' \in [Cubes -> [Lists -> [Slots -> Slot]]]
        /\ programs_table' \in [Cubes -> [Lists -> [Slots -> Program \cup {NoProg}]]]
    BY <1>2, <1>w, <1>s, <2>1, SlotTypes DEF AddTwinDone, p
  <2> QED BY <1>2, <2>2, <2>3, <2>4, <2>5 DEF AddTwinDone, TypeOK, PanelTypeOK
<1>3. CASE AddTwinBusy(c, w)
  <2>1. Compiled(c, "egress_tc", w.code) \in Program
    BY <1>3, <1>s, <1>a, CompiledType DEF AddTwinBusy, TwinBusy
  <2>2. WorkOK' /\ todo' \in [Cubes -> SUBSET Work]
    BY <1>3, <1>d, FewerWork DEF AddTwinBusy
  <2>3. AbsentOK'
    BY <1>3, <1>w DEF AddTwinBusy, AbsentOK, TypeOK
  <2>4. /\ programs' \in [Cubes -> [Lists -> [Slots -> Slot]]]
        /\ programs_table' \in [Cubes -> [Lists -> [Slots -> Program \cup {NoProg}]]]
    BY <1>3, <1>s, <2>1, SlotTypes DEF AddTwinBusy
  <2> QED BY <1>3, <2>2, <2>3, <2>4 DEF AddTwinBusy, TypeOK, panelVars
<1>4. CASE AddThrows(c, w)
  <2>1. WorkOK' /\ todo' \in [Cubes -> SUBSET Work]
    BY <1>4, <1>d, FewerWork DEF AddThrows
  <2>2. AbsentOK'
    BY <1>4, <1>w DEF AddThrows, AbsentOK, TypeOK
  <2>3. programs' \in [Cubes -> [Lists -> [Slots -> Slot]]]
    BY <1>4, <1>w, <1>s, SlotTypes DEF AddThrows
  <2>4. failures' \in 0 .. MaxFailures /\ compile_failed' \in [Cubes -> BOOLEAN]
    BY <1>4, FailTypes DEF AddThrows
  <2> QED BY <1>4, <2>1, <2>2, <2>3, <2>4 DEF AddThrows, TypeOK, panelVars
<1>5. CASE ConstructThrows(c, w)
  <2>1. failures' \in 0 .. MaxFailures /\ compile_failed' \in [Cubes -> BOOLEAN]
    BY <1>5, FailTypes DEF ConstructThrows
  <2>2. leaked' \subseteq 1 .. MaxNodes - 1
    <3>1. \A d \in Dirs : index[c][d] \in 0 .. MaxNodes - 1
      BY DEF TypeOK, Indexes
    <3>2. leaked' = leaked \cup ({index[c][d] : d \in Dirs} \ {0})
      BY <1>5 DEF ConstructThrows
    <3>3. leaked \subseteq 1 .. MaxNodes - 1
      BY DEF TypeOK
    <3>4. ASSUME NEW i \in {index[c][d] : d \in Dirs} \ {0}
          PROVE  i \in 1 .. MaxNodes - 1
      BY <3>1, MaxNodesAssumption
    <3> QED BY <3>2, <3>3, <3>4
  <2> QED BY <1>5, <2>1, <2>2, ForgetTypes DEF ConstructThrows, TypeOK, panelVars
<1>b. CASE ConstructBusy(c, w)
  <2>2. leaked' \subseteq 1 .. MaxNodes - 1
    <3>1. \A d \in Dirs : index[c][d] \in 0 .. MaxNodes - 1
      BY DEF TypeOK, Indexes
    <3>2. leaked' = leaked \cup ({index[c][d] : d \in Dirs} \ {0})
      BY <1>b DEF ConstructBusy
    <3>3. leaked \subseteq 1 .. MaxNodes - 1
      BY DEF TypeOK
    <3>4. ASSUME NEW i \in {index[c][d] : d \in Dirs} \ {0}
          PROVE  i \in 1 .. MaxNodes - 1
      BY <3>1, MaxNodesAssumption
    <3> QED BY <3>2, <3>3, <3>4
  <2> QED BY <1>b, <2>2, ForgetTypes DEF ConstructBusy, TypeOK, panelVars
<1>6. CASE ReloadDone(c, w)
  <2> DEFINE p == Compiled(c, w.list, w.code)
  <2>1. p \in Program
    BY <1>6, <1>w, CompiledType DEF ReloadDone
  <2> HIDE DEF p
  <2>2. PanelTypeOK'
    BY <1>6, <1>w, <2>1, PanelTypes DEF ReloadDone, p
  <2>3. WorkOK' /\ todo' \in [Cubes -> SUBSET Work]
    BY <1>6, <1>d, FewerWork DEF ReloadDone, Done
  <2>4. AbsentOK'
    BY <1>6, <1>w DEF ReloadDone, Done, AbsentOK, TypeOK
  <2>5. /\ programs' \in [Cubes -> [Lists -> [Slots -> Slot]]]
        /\ programs_table' \in [Cubes -> [Lists -> [Slots -> Program \cup {NoProg}]]]
    BY <1>6, <1>w, <1>s, <2>1, SlotTypes DEF ReloadDone, p
  <2>6. programs_code' \in [Cubes -> [Dirs -> [Slots -> Codes \cup {NoCode}]]]
    <3>1. CASE w.list \in Dirs
      <4>1. programs_code' = [programs_code EXCEPT ![c][w.list][w.slot] = w.code]
        BY <1>6, <3>1 DEF ReloadDone
      <4> QED BY <1>w, <3>1, <4>1, CodeTypes
    <3>2. CASE w.list \notin Dirs
      BY <1>6, <3>2 DEF ReloadDone, TypeOK
    <3> QED BY <3>1, <3>2
  <2> QED BY <1>6, <2>2, <2>3, <2>4, <2>5, <2>6 DEF ReloadDone, TypeOK, PanelTypeOK
<1>7. CASE ReloadUnregistered(c, w)
  <2>1. Compiled(c, w.list, w.code) \in Program
    BY <1>7, <1>w, CompiledType DEF ReloadUnregistered
  <2>2. WorkOK' /\ todo' \in [Cubes -> SUBSET Work]
    BY <1>7, <1>d, FewerWork DEF ReloadUnregistered
  <2>3. AbsentOK'
    BY <1>7, <1>w DEF ReloadUnregistered, AbsentOK, TypeOK
  <2>4. programs_table' \in [Cubes -> [Lists -> [Slots -> Program \cup {NoProg}]]]
    BY <1>7, <1>w, <1>s, <2>1, SlotTypes DEF ReloadUnregistered
  <2> QED BY <1>7, <2>2, <2>3, <2>4 DEF ReloadUnregistered, TypeOK, panelVars
<1>8. CASE ReloadThrows(c, w)
  <2>1. WorkOK' /\ todo' \in [Cubes -> SUBSET Work]
    BY <1>8, <1>d, FewerWork DEF ReloadThrows
  <2>2. AbsentOK'
    BY <1>8, <1>w DEF ReloadThrows, AbsentOK, TypeOK
  <2>3. failures' \in 0 .. MaxFailures /\ compile_failed' \in [Cubes -> BOOLEAN]
    BY <1>8, FailTypes DEF ReloadThrows
  <2> QED BY <1>8, <2>1, <2>2, <2>3 DEF ReloadThrows, TypeOK, panelVars
<1>9. CASE DelDone(c, w)
  <2>1. WorkOK' /\ todo' \in [Cubes -> SUBSET Work]
    BY <1>9, <1>d, FewerWork DEF DelDone, Done
  <2>2. AbsentOK'
    BY <1>9, <1>w DEF DelDone, Done, AbsentOK, TypeOK
  <2>3. /\ programs' \in [Cubes -> [Lists -> [Slots -> Slot]]]
        /\ programs_table' \in [Cubes -> [Lists -> [Slots -> Program \cup {NoProg}]]]
    BY <1>9, <1>w, <1>s, SlotTypes DEF DelDone
  <2>4. programs_code' \in [Cubes -> [Dirs -> [Slots -> Codes \cup {NoCode}]]]
    <3>1. CASE w.list \in Dirs
      <4>1. programs_code' = [programs_code EXCEPT ![c][w.list][w.slot] = NoCode]
        BY <1>9, <3>1 DEF DelDone
      <4> QED BY <1>w, <3>1, <4>1, CodeTypes
    <3>2. CASE w.list \notin Dirs
      BY <1>9, <3>2 DEF DelDone, TypeOK
    <3> QED BY <3>1, <3>2
  <2> QED BY <1>9, <2>1, <2>2, <2>3, <2>4 DEF DelDone, TypeOK, panelVars
<1>10. CASE TwinCrash(c, w)
  <2>1. TypeOK'
    BY <1>10 DEF TwinCrash, TypeOK, panelVars
  <2>2. WorkOK' /\ AbsentOK'
    BY <1>10 DEF TwinCrash, WorkOK, AbsentOK, RemoveWork
  <2> QED BY <2>1, <2>2
<1>11. CASE RemoveDone(c, w)
  <2>1. w.list \in Dirs /\ index[c][w.list] # 0
    BY <1>11 DEF RemoveDone, WorkOK
  <2>2. index[c][w.list] \in Indexes
    BY <2>1 DEF TypeOK
  <2>3. PanelTypeOK'
    <3>1. PanelRemove(CubeType[c], index[c][w.list])
      BY <1>11 DEF RemoveDone
    <3> QED BY <1>w, <2>1, <2>2, <3>1, PanelRemoveTypes
  <2>4. WorkOK' /\ todo' \in [Cubes -> SUBSET Work]
    BY <1>11, <1>d, FewerWork DEF RemoveDone, Done
  <2>5. AbsentOK'
    BY <1>11, <1>w DEF RemoveDone, Done, AbsentOK, TypeOK
  <2> QED BY <1>11, <2>3, <2>4, <2>5 DEF RemoveDone, TypeOK, PanelTypeOK
<1> QED BY <1>0, <1>1, <1>2, <1>3, <1>4, <1>5, <1>b, <1>6, <1>7, <1>8, <1>9, <1>10, <1>11

\* Every step of the specification keeps the types.
LEMMA TypePreserved == TypeInv /\ [Next]_vars => TypeInv'
<1> SUFFICES ASSUME TypeInv, [Next]_vars PROVE TypeInv'
  OBVIOUS
<1>1. CASE Next
  BY <1>1, TypeStart, TypeStep DEF Next
<1>2. CASE UNCHANGED vars
  <2>1. TypeOK'
    BY <1>2 DEF vars, panelVars, cubeVars, TypeInv, TypeOK
  <2>2. WorkOK' /\ AbsentOK'
    BY <1>2 DEF vars, panelVars, cubeVars, TypeInv, WorkOK, AbsentOK, RemoveWork
  <2> QED BY <2>1, <2>2 DEF TypeInv
<1> QED BY <1>1, <1>2

\* Every reachable state of the patch panel and of the cubes has its type; in
\* particular PatchPanel::remove never frees index 0, which means "no index".
THEOREM TypeCorrect == Spec => []TypeOK
<1>1. TypeInv => TypeOK
  BY DEF TypeInv
<1> QED BY <1>1, TypeInit, TypePreserved, PTL DEF Spec

-----------------------------------------------------------------------------
\* The indexes are partitioned into free, leaked and owned ones.  Uniqueness
\* alone is not inductive: a free index must be known not to be owned when it is
\* handed out, and conservation needs that what a destructor returns was not
\* leaked.
Partitioned ==
  /\ \A c \in Cubes : \A d \in Dirs : Owns(c, d) => index[c][d] \notin leaked
  /\ \A i \in node_ids : i \notin leaked
  /\ \A i \in 1 .. MaxNodes - 1 :
       \/ i \in node_ids
       \/ i \in leaked
       \/ \E c \in Cubes : \E d \in Dirs : Owns(c, d) /\ index[c][d] = i

IndexInv == TypeInv /\ IndexUnique /\ Partitioned

\* A step that changes neither the free nor the leaked indexes nor their owners.
LEMMA SameOwners ==
  ASSUME IndexUnique, Partitioned, node_ids' = node_ids, leaked' = leaked,
         \A c \in Cubes : \A d \in Dirs :
            /\ Owns(c, d)' <=> Owns(c, d)
            /\ Owns(c, d) => index'[c][d] = index[c][d]
  PROVE  IndexUnique' /\ Partitioned'
<1>1. IndexUnique'
  BY DEF IndexUnique
<1>2. Partitioned'
  BY DEF Partitioned
<1> QED BY <1>1, <1>2

\* A step that leaves phases and indexes alone and drops no work but that of one
\* slot keeps every owner.
LEMMA SameOwnersBut ==
  ASSUME TypeInv, NEW c \in Cubes, phase' = phase, index' = index,
         todo' \in [Cubes -> SUBSET Work],
         \A b \in Cubes : b # c => todo'[b] = todo[b],
         phase[c] = "destroying" =>
            \A d \in Dirs : RemoveWork(d) \in todo'[c] <=> RemoveWork(d) \in todo[c]
  PROVE  \A b \in Cubes : \A d \in Dirs :
            /\ Owns(b, d)' <=> Owns(b, d)
            /\ Owns(b, d) => index'[b][d] = index[b][d]
BY DEF Owns, RemoveWork

\* The start of an operation leaves every index with its owner.
LEMMA IndexStart ==
  ASSUME IndexInv, TypeInv', NEW c \in Cubes, Start(c)
  PROVE  IndexUnique' /\ Partitioned'
<1> USE DEF IndexInv
<1>t. TypeInv /\ TypeOK /\ TypeOK' /\ AbsentOK /\ todo' \in [Cubes -> SUBSET Work]
  BY DEF TypeInv, TypeOK
<1>1. ASSUME NEW ni, NEW ne, NEW k, NEW lv, Construct(c, ni, ne, k, lv)
      PROVE  IndexUnique' /\ Partitioned'
  <2>1. index' = index /\ node_ids' = node_ids /\ leaked' = leaked
        /\ phase' = [phase EXCEPT ![c] = "constructing"] /\ phase[c] = "absent"
    BY <1>1 DEF Construct, panelVars
  <2>2. \A b \in Cubes : b # c => todo'[b] = todo[b] /\ phase'[b] = phase[b]
    BY <1>1, <1>t DEF Construct, TypeOK
  <2>3. index[c] = NoIndex
    BY <2>1, <1>t DEF AbsentOK
  <2>4. \A d \in Dirs : ~Owns(c, d) /\ ~Owns(c, d)'
    BY <2>1, <2>3 DEF Owns, NoIndex
  <2>5. \A b \in Cubes : \A d \in Dirs : Owns(b, d)' <=> Owns(b, d)
    BY <2>1, <2>2, <2>4 DEF Owns, RemoveWork
  <2> QED BY <2>1, <2>5, SameOwners
<1>2. ASSUME Constructed(c) PROVE IndexUnique' /\ Partitioned'
  <2>1. index' = index /\ node_ids' = node_ids /\ leaked' = leaked /\ todo' = todo
        /\ phase' = [phase EXCEPT ![c] = "live"] /\ phase[c] = "constructing"
    BY <1>2 DEF Constructed, panelVars
  <2>2. \A b \in Cubes : phase'[b] = "destroying" <=> phase[b] = "destroying"
    BY <2>1, <1>t DEF TypeOK
  <2>3. \A b \in Cubes : \A d \in Dirs : Owns(b, d)' <=> Owns(b, d)
    BY <2>1, <2>2 DEF Owns, RemoveWork
  <2> QED BY <2>1, <2>3, SameOwners
<1>3. ASSUME Idle(c), Started, NEW S, todo' = [todo EXCEPT ![c] = S]
      PROVE  IndexUnique' /\ Partitioned'
  <2>1. index' = index /\ node_ids' = node_ids /\ leaked' = leaked /\ phase' = phase
        /\ phase[c] # "destroying"
    BY <1>3 DEF Started, Idle, panelVars
  <2>2. \A b \in Cubes : b # c => todo'[b] = todo[b]
    BY <1>3, <1>t DEF TypeOK
  <2> QED BY <1>t, <2>1, <2>2, SameOwnersBut, SameOwners
<1>4. ASSUME NEW d, NEW i, NEW k, AddProgram(c, d, i, k)
      PROVE  IndexUnique' /\ Partitioned'
  BY <1>3, <1>4 DEF AddProgram
<1>5. ASSUME NEW d, NEW i, NEW k, Reload(c, d, i, k)
      PROVE  IndexUnique' /\ Partitioned'
  BY <1>3, <1>5 DEF Reload
<1>6. ASSUME NEW lv, SetLogLevel(c, lv)
      PROVE  IndexUnique' /\ Partitioned'
  BY <1>3, <1>6 DEF SetLogLevel
<1>7. ASSUME NEW d, NEW i, DelProgram(c, d, i)
      PROVE  IndexUnique' /\ Partitioned'
  BY <1>3, <1>7 DEF DelProgram
<1>8. ASSUME Uninit(c) PROVE IndexUnique' /\ Partitioned'
  <2>1. index' = index /\ node_ids' = node_ids /\ leaked' = leaked
        /\ phase' = [phase EXCEPT ![c] = "destroying"] /\ phase[c] = "live"
    BY <1>8 DEF Uninit, Idle, panelVars
  <2>2. \A b \in Cubes : b # c => todo'[b] = todo[b] /\ phase'[b] = phase[b]
    BY <1>8, <1>t DEF Uninit, TypeOK
  <2>3. \A d \in Dirs : index[c][d] # 0 => RemoveWork(d) \in todo'[c]
    BY <1>8, <1>t DEF Uninit, TypeOK
  <2>4. \A d \in Dirs : Owns(c, d) <=> index[c][d] # 0
    BY <2>1 DEF Owns
  <2>5. \A d \in Dirs : Owns(c, d)' <=> index[c][d] # 0
    BY <2>1, <2>3 DEF Owns, RemoveWork
  <2>6. \A b \in Cubes : \A d \in Dirs : Owns(b, d)' <=> Owns(b, d)
    BY <2>1, <2>2, <2>4, <2>5 DEF Owns, RemoveWork
  <2> QED BY <2>1, <2>6, SameOwners
<1>9. ASSUME Destroyed(c) PROVE IndexUnique' /\ Partitioned'
  <2>1. /\ node_ids' = node_ids /\ leaked' = leaked
        /\ index' = [index EXCEPT ![c] = NoIndex]
        /\ phase' = [phase EXCEPT ![c] = "absent"] /\ phase[c] = "destroying"
        /\ todo[c] = {} /\ todo' = [todo EXCEPT ![c] = {}]
    BY <1>9 DEF Destroyed, Forget, panelVars
  <2>2. \A b \in Cubes : b # c => todo'[b] = todo[b] /\ phase'[b] = phase[b]
                                  /\ index'[b] = index[b]
    BY <2>1, <1>t DEF TypeOK
  <2>3. index'[c] = NoIndex
    BY <2>1, <1>t DEF TypeOK
  <2>4. \A d \in Dirs : ~Owns(c, d) /\ ~Owns(c, d)'
    BY <2>1, <2>3 DEF Owns, NoIndex
  <2>5. \A b \in Cubes : \A d \in Dirs :
            /\ Owns(b, d)' <=> Owns(b, d)
            /\ Owns(b, d) => index'[b][d] = index[b][d]
    BY <2>1, <2>2, <2>4 DEF Owns, RemoveWork
  <2> QED BY <2>1, <2>5, SameOwners
<1> QED BY <1>1, <1>2, <1>4, <1>5, <1>6, <1>7, <1>8, <1>9 DEF Start

\* Handing out a free index to a direction that had none.
LEMMA NewOwner ==
  ASSUME IndexInv, NEW c \in Cubes, NEW d \in Dirs, node_ids # {},
         phase[c] \in {"constructing", "live"}, phase' = phase, leaked' = leaked,
         index[c][d] = 0, index' = [index EXCEPT ![c][d] = FirstFree],
         node_ids' = node_ids \ {FirstFree},
         \A b \in Cubes : b # c => todo'[b] = todo[b]
  PROVE  IndexUnique' /\ Partitioned'
<1>1. FirstFree \in node_ids /\ FirstFree # 0 /\ index \in [Cubes -> [Dirs -> Indexes]]
  BY FirstFreeType DEF IndexInv, TypeInv, TypeOK
<1>2. /\ index'[c][d] = FirstFree
      /\ \A b \in Cubes : \A e \in Dirs : <<b, e>> # <<c, d>> => index'[b][e] = index[b][e]
  BY <1>1
<1>3. Owns(c, d)' /\ ~Owns(c, d)
  BY <1>1, <1>2 DEF Owns
<1>4. \A b \in Cubes : \A e \in Dirs : <<b, e>> # <<c, d>> => (Owns(b, e)' <=> Owns(b, e))
  BY <1>2 DEF Owns, RemoveWork
<1>5. \A b \in Cubes : \A e \in Dirs : Owns(b, e) => index[b][e] # FirstFree
  BY <1>1 DEF IndexInv, IndexUnique
<1>6. IndexUnique'
  BY <1>2, <1>3, <1>4, <1>5 DEF IndexInv, IndexUnique
<1>7. Partitioned'
  <2>1. ASSUME NEW b \in Cubes, NEW e \in Dirs, Owns(b, e)'
        PROVE  index'[b][e] \notin leaked
    BY <1>1, <1>2, <1>3, <1>4, <2>1 DEF IndexInv, Partitioned
  <2>2. ASSUME NEW i \in 1 .. MaxNodes - 1
        PROVE  \/ i \in node_ids' \/ i \in leaked'
               \/ \E b \in Cubes : \E e \in Dirs : Owns(b, e)' /\ index'[b][e] = i
    <3>1. CASE i = FirstFree
      BY <1>2, <1>3, <3>1
    <3>2. CASE i # FirstFree /\ i \in node_ids
      BY <3>2
    <3>3. CASE i \in leaked
      BY <3>3
    <3>4. CASE \E b \in Cubes : \E e \in Dirs : Owns(b, e) /\ index[b][e] = i
      BY <1>2, <1>3, <1>4, <3>4
    <3> QED BY <3>1, <3>2, <3>3, <3>4 DEF IndexInv, Partitioned
  <2>3. \A i \in node_ids' : i \notin leaked'
    BY DEF IndexInv, Partitioned
  <2> QED BY <2>1, <2>2, <2>3 DEF Partitioned
<1> QED BY <1>6, <1>7

\* The destructor returns the index of direction d.
LEMMA OwnerGone ==
  ASSUME IndexInv, NEW c \in Cubes, NEW d \in Dirs,
         Owns(c, d), phase[c] = "destroying", phase' = phase, leaked' = leaked,
         index' = index, node_ids' = node_ids \cup {index[c][d]},
         todo' = [todo EXCEPT ![c] = @ \ {RemoveWork(d)}]
  PROVE  IndexUnique' /\ Partitioned'
<1>1. todo \in [Cubes -> SUBSET Work]
  BY DEF IndexInv, TypeInv, TypeOK
<1>2. ~Owns(c, d)'
  BY <1>1 DEF Owns, RemoveWork
<1>3. \A b \in Cubes : \A e \in Dirs : <<b, e>> # <<c, d>> => (Owns(b, e)' <=> Owns(b, e))
  <2>1. \A b \in Cubes : b # c => todo'[b] = todo[b]
    BY <1>1
  <2>2. \A e \in Dirs : e # d => RemoveWork(e) # RemoveWork(d)
    BY DEF RemoveWork
  <2>3. \A e \in Dirs : e # d => (RemoveWork(e) \in todo'[c] <=> RemoveWork(e) \in todo[c])
    BY <1>1, <2>2
  <2> QED BY <2>1, <2>3 DEF Owns, RemoveWork
<1>4. \A b \in Cubes : \A e \in Dirs :
        <<b, e>> # <<c, d>> /\ Owns(b, e) => index[b][e] # index[c][d]
  BY DEF IndexInv, IndexUnique
<1>5. IndexUnique'
  BY <1>2, <1>3, <1>4 DEF IndexInv, IndexUnique
<1>6. Partitioned'
  <2>1. index[c][d] \notin leaked
    BY DEF IndexInv, Partitioned
  <2>2. ASSUME NEW b \in Cubes, NEW e \in Dirs, Owns(b, e)'
        PROVE  index'[b][e] \notin leaked'
    BY <1>2, <1>3, <2>2 DEF IndexInv, Partitioned
  <2>3. ASSUME NEW i \in 1 .. MaxNodes - 1
        PROVE  \/ i \in node_ids' \/ i \in leaked'
               \/ \E b \in Cubes : \E e \in Dirs : Owns(b, e)' /\ index'[b][e] = i
    <3>1. CASE i \in node_ids \/ i = index[c][d] \/ i \in leaked
      BY <3>1
    <3>2. CASE i # index[c][d] /\ \E b \in Cubes : \E e \in Dirs : Owns(b, e) /\ index[b][e] = i
      BY <1>3, <3>2
    <3> QED BY <3>1, <3>2 DEF IndexInv, Partitioned
  <2>4. \A i \in node_ids' : i \notin leaked'
    BY <2>1 DEF IndexInv, Partitioned
  <2> QED BY <2>2, <2>3, <2>4 DEF Partitioned
<1> QED BY <1>5, <1>6

\* A constructor that throws leaves its indexes behind.
LEMMA OwnerLeaks ==
  ASSUME IndexInv, NEW c \in Cubes, phase[c] = "constructing",
         phase' = [phase EXCEPT ![c] = "absent"],
         index' = [index EXCEPT ![c] = NoIndex],
         leaked' = leaked \cup ({index[c][d] : d \in Dirs} \ {0}),
         node_ids' = node_ids, \A b \in Cubes : b # c => todo'[b] = todo[b]
  PROVE  IndexUnique' /\ Partitioned'
<1>1. /\ phase \in [Cubes -> {"absent", "constructing", "live", "destroying"}]
      /\ index \in [Cubes -> [Dirs -> Indexes]]
  BY DEF IndexInv, TypeInv, TypeOK
<1>2. index'[c] = NoIndex
      /\ \A b \in Cubes : b # c => phase'[b] = phase[b] /\ index'[b] = index[b]
  BY <1>1
<1>3. \A d \in Dirs : ~Owns(c, d)'
  BY <1>2 DEF Owns, NoIndex
<1>4. \A d \in Dirs : Owns(c, d) <=> index[c][d] # 0
  BY DEF Owns
<1>5. \A b \in Cubes : b # c => \A d \in Dirs : Owns(b, d)' <=> Owns(b, d)
  BY <1>2 DEF Owns, RemoveWork
<1>6. IndexUnique'
  BY <1>2, <1>3, <1>5 DEF IndexInv, IndexUnique
<1>7. Partitioned'
  <2>1. ASSUME NEW b \in Cubes, NEW e \in Dirs, Owns(b, e)'
        PROVE  index'[b][e] \notin leaked'
    <3>1. b # c /\ Owns(b, e) /\ index'[b][e] = index[b][e]
      BY <1>2, <1>3, <1>5, <2>1
    <3>2. index[b][e] \notin leaked
      BY <3>1 DEF IndexInv, Partitioned
    <3>3. \A d \in Dirs : index[c][d] # 0 => index[b][e] # index[c][d]
      BY <1>4, <3>1 DEF IndexInv, IndexUnique
    <3> QED BY <3>1, <3>2, <3>3
  <2>2. ASSUME NEW i \in node_ids'
        PROVE  i \notin leaked'
    <3>1. i \notin leaked
      BY <2>2 DEF IndexInv, Partitioned
    <3>2. \A d \in Dirs : index[c][d] # 0 => i # index[c][d]
      BY <1>4, <2>2 DEF IndexInv, IndexUnique
    <3> QED BY <3>1, <3>2
  <2>3. ASSUME NEW i \in 1 .. MaxNodes - 1
        PROVE  \/ i \in node_ids' \/ i \in leaked'
               \/ \E b \in Cubes : \E e \in Dirs : Owns(b, e)' /\ index'[b][e] = i
    <3>1. CASE i \in node_ids \/ i \in leaked
      BY <3>1
    <3>2. CASE \E d \in Dirs : Owns(c, d) /\ index[c][d] = i
      BY <1>4, <3>2
    <3>3. CASE \E b \in Cubes : b # c /\ \E e \in Dirs : Owns(b, e) /\ index[b][e] = i
      BY <1>2, <1>5, <3>3
    <3> QED BY <3>1, <3>2, <3>3 DEF IndexInv, Partitioned
  <2> QED BY <2>1, <2>2, <2>3 DEF Partitioned
<1> QED BY <1>6, <1>7

\* Every step of a running operation hands indexes over, one at a time.
LEMMA IndexStep ==
  ASSUME IndexInv, TypeInv', NEW c \in Cubes, Step(c)
  PROVE  IndexUnique' /\ Partitioned'
<1>t. /\ TypeInv /\ TypeOK /\ WorkOK /\ IndexUnique /\ Partitioned
      /\ todo \in [Cubes -> SUBSET Work] /\ todo' \in [Cubes -> SUBSET Work]
  BY DEF IndexInv, TypeInv, TypeOK
<1>0. PICK w \in todo[c] :
        \/ AddDone(c, w) \/ AddTwinDone(c, w) \/ AddTwinBusy(c, w) \/ AddThrows(c, w)
        \/ ConstructThrows(c, w) \/ ConstructBusy(c, w) \/ ReloadDone(c, w)
        \/ ReloadUnregistered(c, w) \/ ReloadThrows(c, w) \/ DelDone(c, w) \/ TwinCrash(c, w) \/ RemoveDone(c, w)
  BY DEF Step
<1>w. w.op = "add" => phase[c] \in {"constructing", "live"}
  BY <1>t DEF WorkOK
<1>r. w.op = "reload" => phase[c] = "live"
  BY <1>t DEF WorkOK
\* Most steps: same indexes, and work dropped that is not about the panel.
<1>same. ASSUME index' = index, node_ids' = node_ids, leaked' = leaked, phase' = phase,
                \/ phase[c] # "destroying" /\ todo' = [todo EXCEPT ![c] = {}]
                \/ w.op # "remove" /\ todo' = [todo EXCEPT ![c] = @ \ {w}]
                \/ todo' = todo
         PROVE  IndexUnique' /\ Partitioned'
  <2>1. \A b \in Cubes : b # c => todo'[b] = todo[b]
    BY <1>same, <1>t
  <2>2. w.op # "remove" => \A d \in Dirs : w # RemoveWork(d)
    BY DEF RemoveWork
  <2>3. phase[c] = "destroying" =>
          \A d \in Dirs : RemoveWork(d) \in todo'[c] <=> RemoveWork(d) \in todo[c]
    BY <1>same, <1>t, <2>2
  <2> QED BY <1>same, <1>t, <2>1, <2>3, SameOwnersBut, SameOwners
<1>1. CASE AddDone(c, w)
  <2>1. CASE w.slot = 0 /\ index[c][w.list] = 0
    <3>1. /\ w.list \in Dirs /\ phase[c] \in {"constructing", "live"}
          /\ phase' = phase /\ leaked' = leaked
          /\ index' = [index EXCEPT ![c][w.list] = FirstFree]
          /\ node_ids' = node_ids \ {FirstFree}
          /\ todo' = [todo EXCEPT ![c] = @ \ {w}]
      BY <1>1, <1>w, <2>1 DEF AddDone, Done, RegisterFirst, PanelAdd
    <3>2. \A b \in Cubes : b # c => todo'[b] = todo[b]
      BY <3>1, <1>t
    <3>3. CASE node_ids # {}
      BY <2>1, <3>1, <3>2, <3>3, NewOwner
    <3>4. CASE node_ids = {}
      <4>1. FirstFree = 0
        BY <3>4 DEF FirstFree
      <4>2. index' = index
        BY <2>1, <3>1, <4>1, <1>t DEF TypeOK
      <4>3. node_ids' = node_ids
        BY <3>1, <3>4
      <4> QED BY <1>1, <3>1, <4>2, <4>3, <1>same DEF AddDone
    <3> QED BY <3>3, <3>4
  <2>2. CASE ~(w.slot = 0 /\ index[c][w.list] = 0)
    <3>1. index' = index /\ node_ids' = node_ids
      BY <1>1, <2>2 DEF AddDone, RegisterFirst, PanelUpdate, panelVars
    <3> QED BY <1>1, <3>1, <1>same DEF AddDone, Done
  <2> QED BY <2>1, <2>2
<1>2. CASE AddTwinDone(c, w)
  <2>1. node_ids' = node_ids
    <3>1. CASE w.slot = 0
      <4>1. node_ids' = node_ids \ {index[c]["egress"]}
        BY <1>2, <3>1 DEF AddTwinDone, PanelAddAt
      <4>2. index[c]["egress"] \notin node_ids
        <5>1. "egress" \in Dirs
          BY DEF Dirs
        <5>2. CASE index[c]["egress"] = 0
          BY <5>2, <1>t DEF TypeOK
        <5>3. CASE index[c]["egress"] # 0
          <6>1. Owns(c, "egress")
            BY <1>2, <1>w, <5>3 DEF AddTwinDone, Owns
          <6> QED BY <5>1, <6>1, <1>t DEF IndexUnique
        <5> QED BY <5>2, <5>3
      <4> QED BY <4>1, <4>2
    <3>2. CASE w.slot # 0
      BY <1>2, <3>2 DEF AddTwinDone, panelVars
    <3> QED BY <3>1, <3>2
  <2> QED BY <1>2, <2>1, <1>same DEF AddTwinDone, Done
<1>3. CASE AddTwinBusy(c, w)
  BY <1>3, <1>w, <1>same DEF AddTwinBusy, TwinBusy, panelVars
<1>4. CASE AddThrows(c, w)
  BY <1>4, <1>w, <1>same DEF AddThrows, panelVars
<1>5. CASE ConstructThrows(c, w)
  <2>1. \A b \in Cubes : b # c => todo'[b] = todo[b]
    BY <1>5, <1>t DEF ConstructThrows, Forget
  <2> QED BY <1>5, <2>1, OwnerLeaks DEF ConstructThrows, Forget, panelVars
<1>b. CASE ConstructBusy(c, w)
  <2>1. \A b \in Cubes : b # c => todo'[b] = todo[b]
    BY <1>b, <1>t DEF ConstructBusy, Forget
  <2> QED BY <1>b, <2>1, OwnerLeaks DEF ConstructBusy, TwinBusy, Forget, panelVars
<1>6. CASE ReloadDone(c, w)
  <2>1. node_ids' = node_ids
    BY <1>6 DEF ReloadDone, PanelUpdate, panelVars
  <2> QED BY <1>6, <2>1, <1>same DEF ReloadDone, Done
<1>7. CASE ReloadUnregistered(c, w)
  BY <1>7, <1>r, <1>same DEF ReloadUnregistered, panelVars
<1>8. CASE ReloadThrows(c, w)
  BY <1>8, <1>r, <1>same DEF ReloadThrows, panelVars
<1>9. CASE DelDone(c, w)
  BY <1>9, <1>same DEF DelDone, Done, panelVars
<1>10. CASE TwinCrash(c, w)
  BY <1>10, <1>same DEF TwinCrash, panelVars
<1>11. CASE RemoveDone(c, w)
  <2>1. w.list \in Dirs /\ w = RemoveWork(w.list) /\ index[c][w.list] # 0
        /\ phase[c] = "destroying"
    BY <1>11, <1>t DEF RemoveDone, WorkOK
  <2>2. Owns(c, w.list)
    BY <2>1 DEF Owns
  <2>3. todo' = [todo EXCEPT ![c] = @ \ {RemoveWork(w.list)}]
    BY <1>11, <2>1 DEF RemoveDone, Done
  <2>4. node_ids' = node_ids \cup {index[c][w.list]} /\ index' = index
        /\ leaked' = leaked /\ phase' = phase
    BY <1>11 DEF RemoveDone, PanelRemove
  <2> QED BY <2>1, <2>2, <2>3, <2>4, OwnerGone
<1> QED BY <1>0, <1>1, <1>2, <1>3, <1>4, <1>5, <1>b, <1>6, <1>7, <1>8, <1>9, <1>10, <1>11

\* All indexes are free when the daemon starts.
LEMMA IndexInit == Init => IndexInv
<1> SUFFICES ASSUME Init PROVE IndexInv
  OBVIOUS
<1>1. \A c \in Cubes : \A d \in Dirs : ~Owns(c, d)
  BY DEF Init, Owns, NoIndex
<1>2. IndexUnique
  BY <1>1 DEF IndexUnique
<1>3. Partitioned
  BY <1>1 DEF Init, PanelInit, Partitioned
<1> QED BY <1>2, <1>3, TypeInit DEF IndexInv

\* Every step of the specification keeps indexes unique and accounted for.
LEMMA IndexPreserved == IndexInv /\ [Next]_vars => IndexInv'
<1> SUFFICES ASSUME IndexInv, [Next]_vars PROVE IndexInv'
  OBVIOUS
<1>1. TypeInv'
  BY TypePreserved DEF IndexInv
<1>2. CASE Next
  BY <1>1, <1>2, IndexStart, IndexStep DEF Next, IndexInv
<1>3. CASE UNCHANGED vars
  <2>1. \A c \in Cubes : \A d \in Dirs : (Owns(c, d)' <=> Owns(c, d))
                                         /\ index'[c][d] = index[c][d]
    BY <1>3 DEF vars, cubeVars, Owns, RemoveWork
  <2> QED BY <1>1, <1>3, <2>1, SameOwners DEF vars, cubeVars, panelVars, IndexInv
<1> QED BY <1>2, <1>3

\* Indexes are unique and accounted for in every state.
LEMMA IndexAlways == Spec => []IndexInv
BY IndexInit, IndexPreserved, PTL DEF Spec

\* No two directions of any cubes ever own the same index of the patch panel,
\* and PatchPanel::add never hands out an owned one: however many cubes and
\* indexes there are, and whichever compilations fail.
THEOREM IndexUniqueness == Spec => []IndexUnique
<1>1. IndexInv => IndexUnique
  BY DEF IndexInv
<1> QED BY <1>1, IndexAlways, PTL

\* The only way to lose an index of the patch panel is a constructor that
\* throws: every other index is free or owned by an existing cube.
THEOREM IndexConservation == Spec => []IndexConserved
<1>1. IndexInv => IndexConserved
  <2> SUFFICES ASSUME IndexInv PROVE IndexConserved
    OBVIOUS
  <2> DEFINE Owned == {index[x[1]][x[2]] : x \in {y \in Cubes \X Dirs : Owns(y[1], y[2])}}
  <2>1. ASSUME NEW i \in (1 .. MaxNodes - 1) \ node_ids
        PROVE  i \in leaked \cup Owned
    <3>1. CASE i \in leaked
      BY <3>1
    <3>2. CASE \E c \in Cubes : \E d \in Dirs : Owns(c, d) /\ index[c][d] = i
      <4>1. PICK c \in Cubes, d \in Dirs : Owns(c, d) /\ index[c][d] = i
        BY <3>2
      <4>2. <<c, d>> \in {y \in Cubes \X Dirs : Owns(y[1], y[2])}
        BY <4>1
      <4> QED BY <4>1, <4>2
    <3> QED BY <3>1, <3>2 DEF IndexInv, Partitioned
  <2>2. ASSUME NEW i \in leaked \cup Owned
        PROVE  i \in (1 .. MaxNodes - 1) \ node_ids
    <3>1. CASE i \in leaked
      BY <3>1 DEF IndexInv, TypeInv, TypeOK, Partitioned
    <3>2. CASE i \in Owned
      <4>1. PICK c \in Cubes, d \in Dirs : Owns(c, d) /\ index[c][d] = i
        BY <3>2
      <4>2. i \in 0 .. MaxNodes - 1 /\ i # 0
        BY <4>1 DEF IndexInv, TypeInv, TypeOK, Indexes, Owns
      <4>3. i \notin node_ids
        BY <4>1 DEF IndexInv, IndexUnique
      <4> QED BY <4>2, <4>3, MaxNodesAssumption
    <3> QED BY <3>1, <3>2
  <2> QED BY <2>1, <2>2 DEF IndexConserved
<1> QED BY <1>1, IndexAlways, PTL

\* The index of a cube never changes between its registration and the end of
\* the cube: do_add_program registers only a cube that has none.
THEOREM IndexStability == Spec => IndexStable
<1> DEFINE Stable == \A c \in Cubes : \A d \in Dirs :
                       index[c][d] # 0 => index'[c][d] = index[c][d] \/ phase'[c] = "absent"
<1>1. TypeInv /\ [Next]_vars => [Stable]_vars
  <2> SUFFICES ASSUME TypeInv, Next, NEW b \in Cubes, NEW d \in Dirs, index[b][d] # 0
               PROVE  index'[b][d] = index[b][d] \/ phase'[b] = "absent"
    OBVIOUS
  <2>1. PICK c \in Cubes : Start(c) \/ Step(c)
    BY DEF Next
  <2>2. ASSUME Forget(c) PROVE index'[b][d] = index[b][d] \/ phase'[b] = "absent"
    BY <2>2 DEF Forget, TypeInv, TypeOK
  <2>3. CASE Start(c)
    <3>1. index' = index \/ Forget(c)
      BY <2>3 DEF Start, Construct, Constructed, AddProgram, Reload, SetLogLevel,
                  DelProgram, Uninit, Destroyed, Started
    <3> QED BY <2>2, <3>1
  <2>4. CASE Step(c)
    <3>1. PICK w \in todo[c] : AddDone(c, w) \/ index' = index \/ Forget(c)
      BY <2>4 DEF Step, AddTwinDone, AddTwinBusy, AddThrows, ConstructThrows, ConstructBusy, ReloadDone,
                  ReloadUnregistered, ReloadThrows, DelDone, TwinCrash, RemoveDone
    <3>2. CASE AddDone(c, w)
      <4>1. \/ index' = index
            \/ w.list \in Dirs /\ index[c][w.list] = 0
               /\ index' = [index EXCEPT ![c][w.list] = FirstFree]
        BY <3>2 DEF AddDone, RegisterFirst
      <4>2. index \in [Cubes -> [Dirs -> Indexes]]
        BY DEF TypeInv, TypeOK
      <4>3. ASSUME w.list \in Dirs, index[c][w.list] = 0,
                   index' = [index EXCEPT ![c][w.list] = FirstFree]
            PROVE  index'[b][d] = index[b][d]
        <5>1. b # c \/ d # w.list
          BY <4>3
        <5> QED BY <4>2, <4>3, <5>1
      <4> QED BY <4>1, <4>3
    <3> QED BY <2>2, <3>1, <3>2
  <2> QED BY <2>1, <2>3, <2>4
<1>2. TypeInv /\ [Next]_vars => TypeInv'
  BY TypePreserved
<1> QED BY <1>1, <1>2, TypeInit, PTL DEF Spec, IndexStable

-----------------------------------------------------------------------------
(* What the panel, the tables and the slots hold.                          *)

Alive(c) == phase[c] \in {"constructing", "live"}

\* The same work on the TC twin, and on the egress program.
Twin(w)     == [w EXCEPT !.list = "egress_tc"]
Original(w) == [w EXCEPT !.list = "egress"]

-----------------------------------------------------------------------------
(* The work in hand.                                                       *)

\* The egress program was handled, its twin was not.
HalfDone(c, w) == w \in todo[c] /\ w.list = "egress_tc" /\ Original(w) \notin todo[c]

\* The work of a cube belongs to one operation, handles a slot once, and a twin
\* with every egress program.  Only the next work can be half done, and then the
\* egress program is the new one.
WorkInStep(c) ==
  /\ \A w, v \in todo[c] : w.op = v.op
  /\ \A w, v \in todo[c] : w.list = v.list /\ w.slot = v.slot => w = v
  /\ \A w \in todo[c] : w.list = "egress_tc" => CubeType[c] = "xdp"
  /\ \A w \in todo[c] : w.list = "egress" /\ CubeType[c] = "xdp" => Twin(w) \in todo[c]
  /\ \A w \in todo[c] : HalfDone(c, w) =>
       /\ \A v \in todo[c] : Rank(w) <= Rank(v)
       /\ w.op \in {"add", "reload"} =>
            /\ Loaded(programs[c]["egress"][w.slot])
            /\ programs[c]["egress"][w.slot].code = w.code
       /\ w.op = "del" => programs[c]["egress"][w.slot] = NoProg

\* Programs are added to empty slots; what is reloaded or deleted is there.  A
\* twin does not outlive its egress program.
SlotsInStep(c) ==
  /\ \A w \in todo[c] : w.op = "add" => programs[c][w.list][w.slot] = NoProg
  /\ \A w \in todo[c] : w.op \in {"reload", "del"} /\ w.list \in Dirs =>
       programs[c][w.list][w.slot] # NoProg
  /\ \A i \in Slots : programs[c]["egress"][i] = NoProg =>
       \/ programs[c]["egress_tc"][i] = NoProg
       \/ \E w \in todo[c] : w.op = "del" /\ w.list = "egress_tc" /\ w.slot = i

\* Only XDP cubes have twins; a cube that is gone has no programs; a slot holds
\* an object without a program only after a failure.
SlotsKept(c) ==
  /\ CubeType[c] # "xdp" => \A i \in Slots : programs[c]["egress_tc"][i] = NoProg
  /\ phase[c] = "absent" => programs[c] = NoPrograms
  /\ ~compile_failed[c] => \A l \in Lists, i \in Slots : programs[c][l][i] # Bogus

\* The twins of a cube without failures, between and during operations.
TwinsInStep(c) ==
  ~compile_failed[c] /\ CubeType[c] = "xdp" =>
    /\ \A i \in Slots : (\A w \in todo[c] : w.slot = i => ~HalfDone(c, w)) =>
         /\ programs[c]["egress"][i] = NoProg <=> programs[c]["egress_tc"][i] = NoProg
         /\ Loaded(programs[c]["egress"][i]) /\ Loaded(programs[c]["egress_tc"][i])
              => programs[c]["egress"][i].code = programs[c]["egress_tc"][i].code
    /\ \A w \in todo[c] : HalfDone(c, w) /\ w.op \in {"reload", "del"} =>
         programs[c]["egress_tc"][w.slot] # NoProg

\* The level of a cube without failures, between and during operations.
LevelInStep(c) ==
  ~compile_failed[c] =>
    \A l \in Lists, i \in Slots : Loaded(programs[c][l][i]) =>
      \/ programs[c][l][i].level = level[c]
      \/ \E w \in todo[c] : w.op = "reload" /\ w.list = l /\ w.slot = i

CubeOK(c) ==
  /\ SlotsKept(c)
  /\ Alive(c) => WorkInStep(c) /\ SlotsInStep(c) /\ TwinsInStep(c) /\ LevelInStep(c)

CubeInv == \A c \in Cubes : CubeOK(c)

-----------------------------------------------------------------------------
(* The patch panel.                                                        *)

\* A loaded program 0 is registered.
LoadedRegistered ==
  \A c \in Cubes : Alive(c) =>
    \A l \in Lists : Loaded(programs[c][l][0]) => Registered(c, l)

\* The entries of an owned index on the hook that is not the cube's.
OtherHook ==
  \A c \in Cubes, d \in Dirs : Owns(c, d) =>
    /\ CubeType[c] = "tc" => nodes["xdp"][index[c][d]] = NoProg
    /\ CubeType[c] = "xdp" /\ nodes["tc"][index[c][d]] # NoProg =>
         nodes["tc"][index[c][d]].list = "egress_tc"

PanelInv == LoadedRegistered /\ OtherHook /\ FreeIndexOnlyTwins /\ TailCallsCurrent

LoadInv == IndexInv /\ CubeInv /\ PanelInv

-----------------------------------------------------------------------------
(* Work.                                                                   *)

\* Work is the record of its four fields, and the work on a twin differs from
\* that on its egress program in the list only.
LEMMA WorkFields ==
  /\ \A w, v \in Work : w.op = v.op /\ w.list = v.list /\ w.slot = v.slot /\ w.code = v.code
                        => w = v
  /\ \A w \in Work : /\ Twin(w) \in Work /\ Twin(w).op = w.op /\ Twin(w).slot = w.slot
                     /\ Twin(w).code = w.code /\ Twin(w).list = "egress_tc"
                     /\ Original(w) \in Work /\ Original(w).op = w.op
                     /\ Original(w).slot = w.slot /\ Original(w).code = w.code
                     /\ Original(w).list = "egress"
  /\ \A w \in Work : w.list = "egress_tc" => Twin(Original(w)) = w
  /\ \A w \in Work : w.list = "egress" => Original(Twin(w)) = w
<1>1. \A w, v \in Work : w.op = v.op /\ w.list = v.list /\ w.slot = v.slot /\ w.code = v.code
                         => w = v
  BY DEF Work
<1>2. "egress" \in Lists /\ "egress_tc" \in Lists
  BY DEF Lists, Dirs
<1>3. \A w \in Work : /\ Twin(w) \in Work /\ Twin(w).op = w.op /\ Twin(w).slot = w.slot
                      /\ Twin(w).code = w.code /\ Twin(w).list = "egress_tc"
                      /\ Original(w) \in Work /\ Original(w).op = w.op
                      /\ Original(w).slot = w.slot /\ Original(w).code = w.code
                      /\ Original(w).list = "egress"
  BY <1>2 DEF Work, Twin, Original
<1> QED BY <1>1, <1>3

\* Programs are handled slot by slot, a twin right after its egress program.
LEMMA RankFacts ==
  /\ \A w \in Work : w.slot \in Int /\ Rank(w) \in Int
  /\ \A w \in Work : w.op # "remove" /\ w.list = "egress_tc" => Rank(w) = Rank(Original(w)) + 1
  /\ \A w, v \in Work : w.op # "remove" /\ v.op # "remove" /\ Rank(w) = Rank(v)
                        => w.list = v.list /\ w.slot = v.slot
<1>1. \A w \in Work : w.slot \in Int /\ w.slot >= 0 /\ w.slot < MaxProgs
  BY MaxProgsAssumption DEF Work, Slots
<1>2. \A w \in Work : w.list \in {"ingress", "egress", "egress_tc"}
  BY DEF Work, Lists, Dirs
<1>3. ASSUME NEW w \in Work, w.op # "remove"
      PROVE  /\ w.list = "ingress" => Rank(w) = 2 + w.slot
             /\ w.list = "egress" => Rank(w) = 2 + MaxProgs + 2 * w.slot
             /\ w.list = "egress_tc" => Rank(w) = 3 + MaxProgs + 2 * w.slot
  BY <1>2, <1>3 DEF Rank
<1>4. ASSUME NEW w \in Work, w.op = "remove" PROVE Rank(w) \in Int
  BY <1>4 DEF Rank
<1>5. \A w \in Work : Rank(w) \in Int
  BY <1>1, <1>2, <1>3, <1>4, MaxProgsAssumption
<1>6. \A w \in Work : w.op # "remove" /\ w.list = "egress_tc" => Rank(w) = Rank(Original(w)) + 1
  <2>1. ASSUME NEW w \in Work, w.op # "remove", w.list = "egress_tc"
        PROVE  Rank(w) = Rank(Original(w)) + 1
    <3>1. /\ Original(w) \in Work /\ Original(w).op # "remove"
          /\ Original(w).list = "egress" /\ Original(w).slot = w.slot
      BY <2>1, WorkFields
    <3>2. Rank(Original(w)) = 2 + MaxProgs + 2 * w.slot /\ Rank(w) = 3 + MaxProgs + 2 * w.slot
      BY <1>3, <2>1, <3>1
    <3> QED BY <1>1, <3>2, MaxProgsAssumption
  <2> QED BY <2>1
<1>7. ASSUME NEW w \in Work, NEW v \in Work, w.op # "remove", v.op # "remove",
             Rank(w) = Rank(v)
      PROVE  w.list = v.list /\ w.slot = v.slot
  <2>1. /\ w.list = "ingress" => Rank(w) = 2 + w.slot
        /\ w.list = "egress" => Rank(w) = 2 + MaxProgs + 2 * w.slot
        /\ w.list = "egress_tc" => Rank(w) = 3 + MaxProgs + 2 * w.slot
        /\ v.list = "ingress" => Rank(v) = 2 + v.slot
        /\ v.list = "egress" => Rank(v) = 2 + MaxProgs + 2 * v.slot
        /\ v.list = "egress_tc" => Rank(v) = 3 + MaxProgs + 2 * v.slot
    BY <1>3, <1>7
  <2>2. /\ w.slot \in Int /\ w.slot >= 0 /\ w.slot < MaxProgs /\ MaxProgs \in Int
        /\ v.slot \in Int /\ v.slot >= 0 /\ v.slot < MaxProgs
    BY <1>1, MaxProgsAssumption
  <2>3. w.list \in {"ingress", "egress", "egress_tc"} /\ v.list \in {"ingress", "egress", "egress_tc"}
    BY <1>2
  <2> QED BY <1>7, <2>1, <2>2, <2>3
<1> QED BY <1>1, <1>5, <1>6, <1>7

\* The work a cube that is not being destroyed has.
LEMMA AliveWork ==
  ASSUME TypeInv, NEW c \in Cubes, Alive(c), NEW w \in todo[c]
  PROVE  /\ w \in Work /\ w.op \in {"add", "reload", "del"} /\ w.op # "remove"
         /\ w.list \in Lists /\ w.slot \in Slots
<1>1. w \in Work
  BY DEF TypeInv, TypeOK
<1>2. w.op # "remove"
  BY DEF TypeInv, WorkOK, Alive
<1> QED BY <1>1, <1>2 DEF Work

\* The next work, when it is a twin, is half done, and nothing else is.
LEMMA NextWork ==
  ASSUME TypeInv, NEW c \in Cubes, Alive(c), WorkInStep(c), NEW w \in todo[c], Current(c, w)
  PROVE  /\ w.list = "egress_tc" => HalfDone(c, w)
         /\ \A v \in todo[c] : HalfDone(c, v) => v = w
<1>1. \A v \in todo[c] : v \in Work /\ v.op # "remove"
  BY AliveWork
<1>2. \A v \in todo[c] : Rank(w) <= Rank(v) /\ Rank(v) \in Int
  BY <1>1, RankFacts DEF Current
<1>3. ASSUME w.list = "egress_tc" PROVE HalfDone(c, w)
  <2>1. Rank(w) = Rank(Original(w)) + 1
    BY <1>1, <1>3, RankFacts
  <2>2. Original(w) \notin todo[c]
    BY <1>2, <2>1
  <2> QED BY <1>3, <2>2 DEF HalfDone
<1>4. ASSUME NEW v \in todo[c], HalfDone(c, v) PROVE v = w
  <2>1. Rank(v) <= Rank(w)
    BY <1>4 DEF WorkInStep
  <2>2. Rank(v) = Rank(w)
    BY <1>2, <2>1
  <2>3. v.list = w.list /\ v.slot = w.slot
    BY <1>1, <2>2, RankFacts
  <2> QED BY <2>3 DEF WorkInStep
<1> QED BY <1>3, <1>4

-----------------------------------------------------------------------------
(* Steps of one cube.                                                      *)

\* The other cubes keep what they have.
LEMMA OtherCube ==
  ASSUME NEW b \in Cubes, CubeOK(b),
         programs'[b] = programs[b], todo'[b] = todo[b], phase'[b] = phase[b],
         level'[b] = level[b], compile_failed'[b] = compile_failed[b]
  PROVE  CubeOK(b)'
<1>1. \A w : HalfDone(b, w)' <=> HalfDone(b, w)
  BY DEF HalfDone
<1>2. SlotsKept(b)'
  BY DEF CubeOK, SlotsKept
<1>3. Alive(b)' <=> Alive(b)
  BY DEF Alive
<1>4. WorkInStep(b) => WorkInStep(b)'
  BY <1>1 DEF WorkInStep
<1>5. SlotsInStep(b) => SlotsInStep(b)'
  BY DEF SlotsInStep
<1>6. TwinsInStep(b) => TwinsInStep(b)'
  BY <1>1 DEF TwinsInStep
<1>7. LevelInStep(b) => LevelInStep(b)'
  BY DEF LevelInStep
<1> QED BY <1>2, <1>3, <1>4, <1>5, <1>6, <1>7 DEF CubeOK

\* A program of the running operation is handled: slot w.slot of list w.list now
\* holds x, and w is done.
LEMMA SlotHandled ==
  ASSUME TypeInv, NEW c \in Cubes, CubeOK(c), Alive(c), NEW w \in todo[c], Current(c, w), NEW x,
         \A l \in Lists, i \in Slots :
           programs'[c][l][i] = IF l = w.list /\ i = w.slot THEN x ELSE programs[c][l][i],
         w.op \in {"add", "reload"} => Loaded(x) /\ x.code = w.code /\ x.level = level[c],
         w.op = "del" => x = NoProg,
         todo'[c] = todo[c] \ {w}, phase'[c] = phase[c], level'[c] = level[c],
         compile_failed'[c] = compile_failed[c]
  PROVE  CubeOK(c)'
<1>1. /\ WorkInStep(c) /\ SlotsInStep(c) /\ TwinsInStep(c) /\ LevelInStep(c) /\ SlotsKept(c)
      /\ Alive(c)' /\ phase'[c] # "absent"
  BY DEF CubeOK, Alive
<1>2. /\ w.list = "egress_tc" => HalfDone(c, w)
      /\ \A v \in todo[c] : HalfDone(c, v) => v = w
  BY <1>1, NextWork
<1>3. \A v \in todo[c] : v \in Work /\ v.op \in {"add", "reload", "del"} /\ v.list \in Lists
                         /\ v.slot \in Slots /\ v.op # "remove"
  BY AliveWork
<1>4. /\ "egress" \in Lists /\ "egress_tc" \in Lists /\ Dirs \subseteq Lists
      /\ ~Loaded(NoProg) /\ ~Loaded(Bogus) /\ NoProg # Bogus
  BY NoProgAssumption DEF Lists, Dirs, Loaded
<1>5. \A v \in todo'[c] : v \in todo[c] /\ v # w /\ ~(v.list = w.list /\ v.slot = w.slot)
  BY <1>1 DEF WorkInStep
<1>6. \A v \in todo'[c] : programs'[c][v.list][v.slot] = programs[c][v.list][v.slot]
  BY <1>3, <1>5
<1>7. ASSUME NEW v \in todo'[c], HalfDone(c, v)'
      PROVE  /\ w.list = "egress" /\ v.list = "egress_tc" /\ v = Twin(w)
             /\ w.op = v.op /\ w.slot = v.slot /\ w.code = v.code
  <2>1. v \in todo[c] /\ v # w /\ v.list = "egress_tc" /\ Original(v) \notin todo[c] \ {w}
    BY <1>5, <1>7 DEF HalfDone
  <2>2. ~HalfDone(c, v)
    BY <1>2, <2>1
  <2>3. Original(v) = w
    BY <2>1, <2>2 DEF HalfDone
  <2> QED BY <1>3, <2>1, <2>3, WorkFields
<1>8. WorkInStep(c)'
  <2>1. \A v, u \in todo'[c] : v.op = u.op /\ (v.list = u.list /\ v.slot = u.slot => v = u)
    BY <1>1 DEF WorkInStep
  <2>2. \A v \in todo'[c] : v.list = "egress_tc" => CubeType[c] = "xdp"
    BY <1>1, <1>5 DEF WorkInStep
  <2>3. ASSUME NEW v \in todo'[c], v.list = "egress", CubeType[c] = "xdp"
        PROVE  Twin(v) \in todo'[c]
    <3>1. Twin(v) \in todo[c] /\ v \in todo[c]
      BY <1>1, <1>5, <2>3 DEF WorkInStep
    <3>2. Twin(v) # w
      <4>1. ASSUME Twin(v) = w PROVE FALSE
        <5>1. w.list = "egress_tc" /\ Original(w) = v
          BY <1>3, <2>3, <3>1, <4>1, WorkFields
        <5> QED BY <1>2, <3>1, <5>1 DEF HalfDone
      <4> QED BY <4>1
    <3> QED BY <3>1, <3>2
  <2>4. ASSUME NEW v \in todo'[c], HalfDone(c, v)'
        PROVE  /\ \A u \in todo'[c] : Rank(v) <= Rank(u)
               /\ v.op \in {"add", "reload"} =>
                    /\ Loaded(programs'[c]["egress"][v.slot])
                    /\ programs'[c]["egress"][v.slot].code = v.code
               /\ v.op = "del" => programs'[c]["egress"][v.slot] = NoProg
    <3>1. /\ w.list = "egress" /\ v.list = "egress_tc" /\ v = Twin(w)
          /\ w.op = v.op /\ w.slot = v.slot /\ w.code = v.code
      BY <1>7, <2>4
    <3>2. programs'[c]["egress"][v.slot] = x
      BY <1>3, <1>4, <3>1
    <3>3. Original(v) = w /\ Rank(v) = Rank(w) + 1
      <4>1. w \in Work /\ v \in Work /\ v.op # "remove"
        BY <1>3, <1>5
      <4>2. Original(v) = w
        BY <3>1, <4>1, WorkFields
      <4> QED BY <3>1, <4>1, <4>2, RankFacts
    <3>4. ASSUME NEW u \in todo'[c] PROVE Rank(v) <= Rank(u)
      <4>1. Rank(w) <= Rank(u) /\ Rank(w) \in Int /\ Rank(u) \in Int
        BY <1>3, <1>5, RankFacts DEF Current
      <4>2. Rank(w) # Rank(u)
        BY <1>3, <1>5, RankFacts
      <4> QED BY <3>3, <4>1, <4>2
    <3> QED BY <3>1, <3>2, <3>4
  <2> QED BY <2>1, <2>2, <2>3, <2>4 DEF WorkInStep
<1>9. SlotsInStep(c)'
  <2>1. /\ \A v \in todo'[c] : v.op = "add" => programs'[c][v.list][v.slot] = NoProg
        /\ \A v \in todo'[c] : v.op \in {"reload", "del"} /\ v.list \in Dirs =>
             programs'[c][v.list][v.slot] # NoProg
    BY <1>1, <1>5, <1>6 DEF SlotsInStep
  <2>2. ASSUME NEW i \in Slots, programs'[c]["egress"][i] = NoProg
        PROVE  \/ programs'[c]["egress_tc"][i] = NoProg
               \/ \E v \in todo'[c] : v.op = "del" /\ v.list = "egress_tc" /\ v.slot = i
    <3>1. CASE w.list = "egress" /\ w.slot = i
      <4>1. x = NoProg /\ w.op = "del"
        BY <1>3, <1>4, <2>2, <3>1
      <4>2. CASE CubeType[c] = "xdp"
        <5>1. Twin(w) \in todo[c] /\ Twin(w) # w
          BY <1>1, <1>3, <3>1, <4>2, WorkFields DEF WorkInStep
        <5>2. Twin(w).op = "del" /\ Twin(w).list = "egress_tc" /\ Twin(w).slot = i
          BY <1>3, <3>1, <4>1, WorkFields
        <5> QED BY <5>1, <5>2
      <4>3. CASE CubeType[c] # "xdp"
        BY <1>1, <1>4, <3>1, <4>3 DEF SlotsKept
      <4> QED BY <4>2, <4>3
    <3>2. CASE w.list = "egress_tc" /\ w.slot = i
      <4>1. programs[c]["egress"][i] = NoProg /\ HalfDone(c, w)
        BY <1>2, <1>4, <2>2, <3>2
      <4>2. w.op = "del"
        BY <1>1, <1>3, <1>4, <3>2, <4>1 DEF WorkInStep
      <4> QED BY <1>4, <3>2, <4>2
    <3>3. CASE w.list \notin {"egress", "egress_tc"} \/ w.slot # i
      <4>1. /\ programs'[c]["egress"][i] = programs[c]["egress"][i]
            /\ programs'[c]["egress_tc"][i] = programs[c]["egress_tc"][i]
        BY <1>4, <3>3
      <4> QED BY <1>1, <2>2, <3>3, <4>1 DEF SlotsInStep
    <3> QED BY <3>1, <3>2, <3>3
  <2> QED BY <2>1, <2>2 DEF SlotsInStep
<1>10. SlotsKept(c)'
  <2>1. x # Bogus
    BY <1>3, <1>4
  <2>2. CubeType[c] # "xdp" => \A i \in Slots : programs'[c]["egress_tc"][i] = NoProg
    BY <1>1, <1>4 DEF SlotsKept, WorkInStep
  <2> QED BY <1>1, <2>1, <2>2 DEF SlotsKept
<1>11. TwinsInStep(c)'
  <2>1. SUFFICES ASSUME ~compile_failed[c], CubeType[c] = "xdp" PROVE TwinsInStep(c)'
    BY DEF TwinsInStep
  <2>2. ASSUME NEW i \in Slots, \A v \in todo'[c] : v.slot = i => ~HalfDone(c, v)'
        PROVE  /\ programs'[c]["egress"][i] = NoProg <=> programs'[c]["egress_tc"][i] = NoProg
               /\ Loaded(programs'[c]["egress"][i]) /\ Loaded(programs'[c]["egress_tc"][i])
                    => programs'[c]["egress"][i].code = programs'[c]["egress_tc"][i].code
    <3>1. CASE w.list = "egress" /\ w.slot = i
      <4>1. /\ Twin(w) \in todo[c] /\ Twin(w) # w /\ Twin(w).slot = i
            /\ Original(Twin(w)) = w /\ Twin(w).list = "egress_tc"
        BY <1>1, <1>3, <2>1, <3>1, WorkFields DEF WorkInStep
      <4>2. Twin(w) \in todo'[c] /\ HalfDone(c, Twin(w))'
        BY <4>1 DEF HalfDone, Twin, Original
      <4> QED BY <2>2, <4>1, <4>2
    <3>2. CASE w.list = "egress_tc" /\ w.slot = i
      <4>1. /\ programs'[c]["egress"][i] = programs[c]["egress"][i]
            /\ programs'[c]["egress_tc"][i] = x
        BY <1>4, <3>2
      <4>2. HalfDone(c, w)
        BY <1>2, <3>2
      <4>3. CASE w.op \in {"add", "reload"}
        BY <1>1, <1>4, <3>2, <4>1, <4>2, <4>3 DEF WorkInStep
      <4>4. CASE w.op = "del"
        BY <1>1, <1>4, <3>2, <4>1, <4>2, <4>4 DEF WorkInStep
      <4> QED BY <1>3, <4>3, <4>4
    <3>3. CASE w.list \notin {"egress", "egress_tc"} \/ w.slot # i
      <4>1. /\ programs'[c]["egress"][i] = programs[c]["egress"][i]
            /\ programs'[c]["egress_tc"][i] = programs[c]["egress_tc"][i]
        BY <1>4, <3>3
      <4>2. \A v \in todo[c] : v.slot = i => ~HalfDone(c, v)
        BY <1>2, <3>3 DEF HalfDone
      <4> QED BY <1>1, <2>1, <4>1, <4>2 DEF TwinsInStep
    <3> QED BY <3>1, <3>2, <3>3
  <2>3. ASSUME NEW v \in todo'[c], HalfDone(c, v)', v.op \in {"reload", "del"}
        PROVE  programs'[c]["egress_tc"][v.slot] # NoProg
    <3>1. w.list = "egress" /\ w.op = v.op /\ w.slot = v.slot
      BY <1>7, <2>3
    <3>2. programs[c]["egress"][w.slot] # NoProg
      BY <1>1, <2>3, <3>1 DEF SlotsInStep, Dirs
    <3>3. \A u \in todo[c] : u.slot = w.slot => ~HalfDone(c, u)
      BY <1>2, <3>1 DEF HalfDone
    <3>4. programs[c]["egress_tc"][w.slot] # NoProg
      BY <1>1, <1>3, <2>1, <3>2, <3>3 DEF TwinsInStep
    <3>5. programs'[c]["egress_tc"][w.slot] = programs[c]["egress_tc"][w.slot]
      BY <1>3, <1>4, <3>1
    <3> QED BY <3>1, <3>4, <3>5
  <2> QED BY <2>2, <2>3 DEF TwinsInStep
<1>12. LevelInStep(c)'
  <2>1. SUFFICES ASSUME ~compile_failed[c], NEW l \in Lists, NEW i \in Slots,
                        Loaded(programs'[c][l][i])
                 PROVE  \/ programs'[c][l][i].level = level[c]
                        \/ \E v \in todo'[c] : v.op = "reload" /\ v.list = l /\ v.slot = i
    BY DEF LevelInStep
  <2>2. CASE l = w.list /\ i = w.slot
    BY <1>3, <1>4, <2>1, <2>2
  <2>3. CASE ~(l = w.list /\ i = w.slot)
    BY <1>1, <2>1, <2>3 DEF LevelInStep
  <2> QED BY <2>2, <2>3
<1> QED BY <1>1, <1>8, <1>9, <1>10, <1>11, <1>12 DEF CubeOK

\* An exception ends the operation: the rest of the work is dropped, and unless a
\* compilation failed it was the registration of a twin that threw.
LEMMA WorkDropped ==
  ASSUME TypeInv, NEW c \in Cubes, CubeOK(c), Alive(c), NEW w \in todo[c], Current(c, w), NEW x,
         \A l \in Lists, i \in Slots :
           programs'[c][l][i] = IF l = w.list /\ i = w.slot THEN x ELSE programs[c][l][i],
         \/ w.op = "add" /\ x # NoProg
         \/ w.op = "reload" /\ x = programs[c][w.list][w.slot],
         \/ compile_failed'[c]
         \/ /\ compile_failed'[c] = compile_failed[c] /\ w.op = "add" /\ w.list = "egress_tc"
            /\ Loaded(x) /\ x.code = w.code /\ x.level = level[c],
         todo'[c] = {}, phase'[c] = phase[c], level'[c] = level[c]
  PROVE  CubeOK(c)'
<1>1. /\ WorkInStep(c) /\ SlotsInStep(c) /\ TwinsInStep(c) /\ LevelInStep(c) /\ SlotsKept(c)
      /\ Alive(c)' /\ phase'[c] # "absent"
  BY DEF CubeOK, Alive
<1>2. /\ w.list = "egress_tc" => HalfDone(c, w)
      /\ \A v \in todo[c] : HalfDone(c, v) => v = w
  BY <1>1, NextWork
<1>3. w \in Work /\ w.list \in Lists /\ w.slot \in Slots
  BY AliveWork
<1>4. /\ "egress" \in Lists /\ "egress_tc" \in Lists /\ Dirs \subseteq Lists
      /\ ~Loaded(NoProg) /\ ~Loaded(Bogus) /\ NoProg # Bogus
  BY NoProgAssumption DEF Lists, Dirs, Loaded
<1>5. \A v \in todo[c] : v.op = w.op
  BY <1>1 DEF WorkInStep
<1>6. WorkInStep(c)'
  BY DEF WorkInStep
<1>7. SlotsInStep(c)'
  <2>1. ASSUME NEW i \in Slots, programs'[c]["egress"][i] = NoProg
        PROVE  programs'[c]["egress_tc"][i] = NoProg
    <3>1. programs[c]["egress"][i] = NoProg
      BY <1>4, <2>1
    <3>2. programs[c]["egress_tc"][i] = NoProg
      BY <1>1, <1>5, <3>1 DEF SlotsInStep
    <3>3. CASE w.list = "egress_tc" /\ w.slot = i
      BY <1>1, <1>2, <1>4, <3>1, <3>3 DEF WorkInStep
    <3>4. CASE ~(w.list = "egress_tc" /\ w.slot = i)
      BY <1>4, <3>2, <3>4
    <3> QED BY <3>3, <3>4
  <2> QED BY <2>1 DEF SlotsInStep
<1>8. SlotsKept(c)'
  <2>1. CubeType[c] # "xdp" => \A i \in Slots : programs'[c]["egress_tc"][i] = NoProg
    BY <1>1, <1>4 DEF SlotsKept, WorkInStep
  <2>2. ~compile_failed'[c] => \A l \in Lists, i \in Slots : programs'[c][l][i] # Bogus
    BY <1>1, <1>4 DEF SlotsKept
  <2> QED BY <1>1, <2>1, <2>2 DEF SlotsKept
<1>9. TwinsInStep(c)'
  <2>1. SUFFICES ASSUME ~compile_failed'[c], CubeType[c] = "xdp" PROVE TwinsInStep(c)'
    BY DEF TwinsInStep
  <2>2. /\ ~compile_failed[c] /\ w.op = "add" /\ w.list = "egress_tc"
        /\ Loaded(x) /\ x.code = w.code
    BY <2>1
  <2>3. ASSUME NEW i \in Slots
        PROVE  /\ programs'[c]["egress"][i] = NoProg <=> programs'[c]["egress_tc"][i] = NoProg
               /\ Loaded(programs'[c]["egress"][i]) /\ Loaded(programs'[c]["egress_tc"][i])
                    => programs'[c]["egress"][i].code = programs'[c]["egress_tc"][i].code
    <3>1. programs'[c]["egress"][i] = programs[c]["egress"][i]
      BY <1>4, <2>2
    <3>2. CASE w.slot = i
      <4>1. programs'[c]["egress_tc"][i] = x
        BY <1>4, <2>2, <3>2
      <4>2. Loaded(programs[c]["egress"][i]) /\ programs[c]["egress"][i].code = w.code
        BY <1>1, <1>2, <2>2, <3>2 DEF WorkInStep
      <4> QED BY <1>4, <2>2, <3>1, <4>1, <4>2
    <3>3. CASE w.slot # i
      <4>1. programs'[c]["egress_tc"][i] = programs[c]["egress_tc"][i]
        BY <1>4, <3>3
      <4>2. \A v \in todo[c] : v.slot = i => ~HalfDone(c, v)
        BY <1>2, <3>3
      <4> QED BY <1>1, <2>1, <2>2, <3>1, <4>1, <4>2 DEF TwinsInStep
    <3> QED BY <3>2, <3>3
  <2> QED BY <2>3 DEF TwinsInStep
<1>10. LevelInStep(c)'
  <2>1. SUFFICES ASSUME ~compile_failed'[c], NEW l \in Lists, NEW i \in Slots,
                        Loaded(programs'[c][l][i])
                 PROVE  programs'[c][l][i].level = level[c]
    BY DEF LevelInStep
  <2>2. CASE l = w.list /\ i = w.slot
    BY <1>4, <2>1, <2>2
  <2>3. CASE ~(l = w.list /\ i = w.slot)
    BY <1>1, <1>5, <2>1, <2>3 DEF LevelInStep
  <2> QED BY <2>2, <2>3
<1> QED BY <1>1, <1>6, <1>7, <1>8, <1>9, <1>10 DEF CubeOK

\* S is the work of one operation, with the twins of the egress programs.
OneOperation(c, op, S) ==
  /\ S \in SUBSET Work
  /\ \A w \in S : w.op = op
  /\ \A w, v \in S : w.list = v.list /\ w.slot = v.slot => w.code = v.code
  /\ \A w \in S : w.list = "egress_tc" => CubeType[c] = "xdp" /\ Original(w) \in S
  /\ \A w \in S : w.list = "egress" /\ CubeType[c] = "xdp" => Twin(w) \in S
  /\ op = "add" => \A w \in S : w.list \in Dirs => programs[c][w.list][w.slot] = NoProg
  /\ op # "add" => \A w \in S : w.list \in Dirs => programs[c][w.list][w.slot] # NoProg

\* S reloads all the programs of c.
ReloadsAll(c, op, S) ==
  op = "reload" /\ \A l \in Lists, i \in Slots :
    programs[c][l][i] # NoProg => \E w \in S : w.list = l /\ w.slot = i

\* An operation starts on a cube that has none.
LEMMA WorkStarted ==
  ASSUME NEW c \in Cubes, CubeOK(c), phase[c] \in {"absent", "live"}, todo[c] = {},
         NEW op, NEW S, OneOperation(c, op, S),
         todo'[c] = S, phase'[c] \in {"constructing", "live"}, programs'[c] = programs[c],
         compile_failed'[c] = compile_failed[c] \/ phase[c] = "absent",
         level'[c] = level[c] \/ phase[c] = "absent" \/ ReloadsAll(c, op, S)
  PROVE  CubeOK(c)'
<1> USE DEF OneOperation
<1>0. /\ "egress" \in Lists /\ "egress_tc" \in Lists /\ "ingress" \in Lists
      /\ Dirs = {"ingress", "egress"} /\ Lists = {"ingress", "egress", "egress_tc"}
      /\ ~Loaded(NoProg) /\ ~Loaded(Bogus) /\ NoProg # Bogus
  BY NoProgAssumption DEF Lists, Dirs, Loaded
<1>1. /\ \A w \in S : w \in Work /\ w.list \in Lists /\ w.slot \in Slots
      /\ Alive(c)' /\ phase'[c] # "absent" /\ SlotsKept(c)
  BY DEF Work, Alive, CubeOK
<1>2. \A w : ~HalfDone(c, w)'
  BY DEF HalfDone
<1>3. phase[c] = "absent" => \A l \in Lists, i \in Slots : programs[c][l][i] = NoProg
  BY <1>1 DEF SlotsKept, NoPrograms
<1>4. \A i \in Slots : programs[c]["egress"][i] = NoProg => programs[c]["egress_tc"][i] = NoProg
  BY <1>0, <1>3 DEF CubeOK, Alive, SlotsInStep
<1>5. WorkInStep(c)'
  <2>1. ASSUME NEW w \in S, NEW v \in S, w.list = v.list, w.slot = v.slot PROVE w = v
    BY <1>1, <2>1, WorkFields
  <2> QED BY <1>2, <2>1 DEF WorkInStep
<1>6. SlotsInStep(c)'
  <2>1. ASSUME NEW w \in S, op = "add" PROVE programs[c][w.list][w.slot] = NoProg
    <3>1. CASE w.list \in Dirs
      BY <2>1, <3>1
    <3>2. CASE w.list = "egress_tc"
      <4>1. Original(w) \in S /\ Original(w).list = "egress" /\ Original(w).slot = w.slot
        BY <1>1, <3>2, WorkFields
      <4>2. programs[c]["egress"][w.slot] = NoProg
        BY <1>0, <2>1, <4>1
      <4> QED BY <1>1, <1>4, <3>2, <4>2
    <3> QED BY <1>0, <1>1, <3>1, <3>2
  <2> QED BY <1>4, <2>1 DEF SlotsInStep
<1>7. SlotsKept(c)'
  BY <1>0, <1>1, <1>3 DEF SlotsKept
<1>8. TwinsInStep(c)'
  <2>1. ASSUME ~compile_failed'[c], CubeType[c] = "xdp", NEW i \in Slots
        PROVE  /\ programs[c]["egress"][i] = NoProg <=> programs[c]["egress_tc"][i] = NoProg
               /\ Loaded(programs[c]["egress"][i]) /\ Loaded(programs[c]["egress_tc"][i])
                    => programs[c]["egress"][i].code = programs[c]["egress_tc"][i].code
    <3>1. CASE phase[c] = "absent"
      BY <1>0, <1>3, <3>1
    <3>2. CASE phase[c] = "live"
      BY <2>1, <3>2 DEF CubeOK, Alive, TwinsInStep
    <3> QED BY <3>1, <3>2
  <2> QED BY <1>2, <2>1 DEF TwinsInStep
<1>9. LevelInStep(c)'
  <2>1. SUFFICES ASSUME ~compile_failed'[c], NEW l \in Lists, NEW i \in Slots,
                        Loaded(programs[c][l][i])
                 PROVE  \/ programs[c][l][i].level = level'[c]
                        \/ \E w \in S : w.op = "reload" /\ w.list = l /\ w.slot = i
    BY DEF LevelInStep
  <2>2. phase[c] = "live" /\ programs[c][l][i] # NoProg
    BY <1>0, <1>3, <2>1
  <2>3. programs[c][l][i].level = level[c]
    BY <2>1, <2>2 DEF CubeOK, Alive, LevelInStep
  <2> QED BY <2>2, <2>3 DEF ReloadsAll
<1> QED BY <1>1, <1>5, <1>6, <1>7, <1>8, <1>9 DEF CubeOK

\* A step of c: the other cubes keep what they have.
LEMMA OneCubeActs ==
  ASSUME CubeInv, NEW c \in Cubes, CubeOK(c)',
         \A b \in Cubes \ {c} :
           /\ programs'[b] = programs[b] /\ todo'[b] = todo[b] /\ phase'[b] = phase[b]
           /\ level'[b] = level[b] /\ compile_failed'[b] = compile_failed[b]
  PROVE  CubeInv'
BY OtherCube DEF CubeInv

\* The work of one operation on slot i of direction d.
WorkOf(op, c, d, i, k) ==
  {[op |-> op, list |-> l, slot |-> i, code |-> k] : l \in ListsOf(c, d)}

\* What AddWork, ReloadWork and DelWork are.
LEMMA WorkNames ==
  \A c, d, i, k : /\ AddWork(c, d, i, k) = WorkOf("add", c, d, i, k)
                  /\ ReloadWork(c, d, i, k) = WorkOf("reload", c, d, i, k)
                  /\ DelWork(c, d, i) = WorkOf("del", c, d, i, NoCode)
BY DEF AddWork, ReloadWork, DelWork, WorkOf

\* Work on slot i of direction d is work on its program and on its twin.
LEMMA SlotWork ==
  ASSUME NEW c \in Cubes, NEW d \in Dirs, NEW i \in Slots, NEW k \in Codes \cup {NoCode},
         NEW op \in {"add", "reload", "del"}
  PROVE  \A w : w \in WorkOf(op, c, d, i, k) <=>
           /\ w \in Work /\ w.op = op /\ w.slot = i /\ w.code = k
           /\ Dir(w.list) = d /\ (w.list = "egress_tc" => CubeType[c] = "xdp")
<1>1. /\ Dirs = {"ingress", "egress"} /\ Lists = {"ingress", "egress", "egress_tc"}
      /\ op \in {"remove", "add", "reload", "del"}
  BY DEF Dirs, Lists
<1>2. \A l \in Lists : l \in ListsOf(c, d) <=> Dir(l) = d /\ (l = "egress_tc" => CubeType[c] = "xdp")
  BY <1>1 DEF ListsOf, Dir
<1>3. ListsOf(c, d) \subseteq Lists
  BY <1>1 DEF ListsOf
<1>4. \A l \in Lists : [op |-> op, list |-> l, slot |-> i, code |-> k] \in Work
  BY <1>1 DEF Work
<1>5. ASSUME NEW w \in WorkOf(op, c, d, i, k)
      PROVE  /\ w \in Work /\ w.op = op /\ w.slot = i /\ w.code = k
             /\ Dir(w.list) = d /\ (w.list = "egress_tc" => CubeType[c] = "xdp")
  BY <1>2, <1>3, <1>4 DEF WorkOf
<1>6. ASSUME NEW w \in Work, w.op = op, w.slot = i, w.code = k,
             Dir(w.list) = d, w.list = "egress_tc" => CubeType[c] = "xdp"
      PROVE  w \in WorkOf(op, c, d, i, k)
  <2>1. w.list \in Lists
    BY DEF Work
  <2>2. w.list \in ListsOf(c, d)
    BY <1>2, <1>6, <2>1
  <2>3. w = [op |-> op, list |-> w.list, slot |-> i, code |-> k]
    BY <1>6 DEF Work
  <2> QED BY <2>2, <2>3 DEF WorkOf
<1> QED BY <1>5, <1>6

\* Work that is the same for an egress program and its twin.
TwinsIncluded(c, S) ==
  /\ \A w \in S : w.list = "egress_tc" => CubeType[c] = "xdp"
  /\ \A w \in S, v \in Work :
       /\ w.op = v.op /\ w.slot = v.slot /\ w.code = v.code /\ Dir(w.list) = Dir(v.list)
       /\ v.list = "egress_tc" => CubeType[c] = "xdp"
       => v \in S

\* Then it holds the twin with the egress program, and the other way round.
LEMMA WorkPaired ==
  ASSUME NEW c \in Cubes, NEW S \in SUBSET Work,
         TwinsIncluded(c, S)
  PROVE  /\ \A w \in S : w.list = "egress_tc" => CubeType[c] = "xdp" /\ Original(w) \in S
         /\ \A w \in S : w.list = "egress" /\ CubeType[c] = "xdp" => Twin(w) \in S
<1>1. Dir("egress") = "egress" /\ Dir("egress_tc") = "egress"
  BY DEF Dir
<1>2. ASSUME NEW w \in S, w.list = "egress_tc" PROVE Original(w) \in S
  <2>1. /\ Original(w) \in Work /\ Original(w).op = w.op /\ Original(w).slot = w.slot
        /\ Original(w).code = w.code /\ Original(w).list = "egress"
    BY WorkFields
  <2> QED BY <1>1, <1>2, <2>1 DEF TwinsIncluded
<1>3. ASSUME NEW w \in S, w.list = "egress", CubeType[c] = "xdp" PROVE Twin(w) \in S
  <2>1. /\ Twin(w) \in Work /\ Twin(w).op = w.op /\ Twin(w).slot = w.slot
        /\ Twin(w).code = w.code /\ Twin(w).list = "egress_tc"
    BY WorkFields
  <2> QED BY <1>1, <1>3, <2>1 DEF TwinsIncluded
<1> QED BY <1>2, <1>3 DEF TwinsIncluded

\* An operation on slot i of direction d starts.
LEMMA SlotOperation ==
  ASSUME TypeInv, CubeInv, NEW c \in Cubes, Idle(c), NEW d \in Dirs, NEW i \in Slots,
         NEW k \in Codes \cup {NoCode}, NEW op \in {"add", "reload", "del"}, NEW W,
         W = WorkOf(op, c, d, i, k),
         op = "add" <=> programs[c][d][i] = NoProg,
         todo' = [todo EXCEPT ![c] = W], Started, level' = level
  PROVE  CubeInv'
<1>1. \A w : w \in W <=> /\ w \in Work /\ w.op = op /\ w.slot = i /\ w.code = k
                         /\ Dir(w.list) = d /\ (w.list = "egress_tc" => CubeType[c] = "xdp")
  BY SlotWork
<1>2. W \in SUBSET Work
  BY <1>1
<1>3. /\ \A w \in W : w.list = "egress_tc" => CubeType[c] = "xdp" /\ Original(w) \in W
      /\ \A w \in W : w.list = "egress" /\ CubeType[c] = "xdp" => Twin(w) \in W
  BY <1>1, <1>2, WorkPaired DEF TwinsIncluded
<1>4. \A w \in W : w.list \in Dirs => programs[c][w.list][w.slot] = programs[c][d][i]
  BY <1>1 DEF Dir, Dirs
<1>5. /\ phase' = phase /\ programs' = programs /\ compile_failed' = compile_failed
      /\ phase[c] = "live" /\ todo[c] = {}
  BY DEF Started, Idle
<1>6. todo'[c] = W /\ \A b \in Cubes \ {c} : todo'[b] = todo[b]
  BY DEF TypeInv, TypeOK
<1>7. CubeOK(c)
  BY DEF CubeInv
<1>8. /\ \A w \in W : w.op = op
      /\ \A w, v \in W : w.list = v.list /\ w.slot = v.slot => w.code = v.code
      /\ op = "add" => \A w \in W : w.list \in Dirs => programs[c][w.list][w.slot] = NoProg
      /\ op # "add" => \A w \in W : w.list \in Dirs => programs[c][w.list][w.slot] # NoProg
  BY <1>1, <1>4
<1>s. OneOperation(c, op, W)
  BY <1>2, <1>3, <1>8 DEF OneOperation
<1>9. CubeOK(c)'
  <2>1. /\ phase[c] \in {"absent", "live"} /\ phase'[c] \in {"constructing", "live"}
        /\ programs'[c] = programs[c] /\ compile_failed'[c] = compile_failed[c]
        /\ level'[c] = level[c]
    BY <1>5
  <2> QED BY <1>5, <1>6, <1>7, <1>s, <2>1, WorkStarted
<1> QED BY <1>5, <1>6, <1>9, OneCubeActs

\* The work of the constructor.
LEMMA ConstructorWork ==
  ASSUME TypeInv, NEW c \in Cubes, CubeOK(c), phase[c] = "absent",
         NEW ni, NEW ne, NEW k \in Codes, NEW S,
         S = (UNION {AddWork(c, "ingress", i, k) : i \in SlotsBelow(ni)})
             \cup (UNION {AddWork(c, "egress", i, k) : i \in SlotsBelow(ne)})
  PROVE  OneOperation(c, "add", S)
<1> DEFINE Wanted(d) == IF d = "ingress" THEN SlotsBelow(ni) ELSE SlotsBelow(ne)
<1>1. /\ SlotsBelow(ni) \subseteq Slots /\ SlotsBelow(ne) \subseteq Slots
      /\ "ingress" \in Dirs /\ "egress" \in Dirs /\ Dirs = {"ingress", "egress"}
      /\ k \in Codes \cup {NoCode} /\ "add" \in {"add", "reload", "del"}
  BY DEF SlotsBelow, Dirs
<1>2. ASSUME NEW d \in Dirs, NEW i \in Slots
      PROVE  \A w : w \in AddWork(c, d, i, k) <=>
               /\ w \in Work /\ w.op = "add" /\ w.slot = i /\ w.code = k
               /\ Dir(w.list) = d /\ (w.list = "egress_tc" => CubeType[c] = "xdp")
  BY <1>1, SlotWork, WorkNames
<1>3. \A w \in Work : Dir(w.list) \in Dirs
  BY <1>1 DEF Work, Lists, Dir
<1>4. \A w : w \in S <=> /\ w \in Work /\ w.op = "add" /\ w.code = k
                         /\ w.slot \in Wanted(Dir(w.list))
                         /\ w.list = "egress_tc" => CubeType[c] = "xdp"
  <2>1. ASSUME NEW w \in S
        PROVE  /\ w \in Work /\ w.op = "add" /\ w.code = k
               /\ w.slot \in Wanted(Dir(w.list))
               /\ w.list = "egress_tc" => CubeType[c] = "xdp"
    <3>1. CASE \E i \in SlotsBelow(ni) : w \in AddWork(c, "ingress", i, k)
      BY <1>1, <1>2, <3>1
    <3>2. CASE \E i \in SlotsBelow(ne) : w \in AddWork(c, "egress", i, k)
      BY <1>1, <1>2, <3>2
    <3> QED BY <2>1, <3>1, <3>2
  <2>2. ASSUME NEW w \in Work, w.op = "add", w.code = k, w.slot \in Wanted(Dir(w.list)),
               w.list = "egress_tc" => CubeType[c] = "xdp"
        PROVE  w \in S
    <3>1. CASE Dir(w.list) = "ingress"
      <4>1. w.slot \in SlotsBelow(ni) /\ w \in AddWork(c, "ingress", w.slot, k)
        BY <1>1, <1>2, <2>2, <3>1
      <4> QED BY <4>1
    <3>2. CASE Dir(w.list) = "egress"
      <4>1. w.slot \in SlotsBelow(ne) /\ w \in AddWork(c, "egress", w.slot, k)
        BY <1>1, <1>2, <2>2, <3>2
      <4> QED BY <4>1
    <3> QED BY <1>1, <1>3, <3>1, <3>2
  <2> QED BY <2>1, <2>2
<1> HIDE DEF Wanted
<1>5. S \in SUBSET Work
  BY <1>4
<1>6. /\ \A w \in S : w.list = "egress_tc" => CubeType[c] = "xdp" /\ Original(w) \in S
      /\ \A w \in S : w.list = "egress" /\ CubeType[c] = "xdp" => Twin(w) \in S
  <2>1. \A w \in S : w.list = "egress_tc" => CubeType[c] = "xdp"
    BY <1>4
  <2>2. ASSUME NEW w \in S, NEW v \in Work, w.op = v.op, w.slot = v.slot, w.code = v.code,
               Dir(w.list) = Dir(v.list), v.list = "egress_tc" => CubeType[c] = "xdp"
        PROVE  v \in S
    <3>1. w.op = "add" /\ w.code = k /\ w.slot \in Wanted(Dir(w.list))
      BY <1>4
    <3>2. Wanted(Dir(v.list)) = Wanted(Dir(w.list))
      BY <2>2
    <3> QED BY <1>4, <2>2, <3>1, <3>2
  <2>3. TwinsIncluded(c, S)
    BY <2>1, <2>2 DEF TwinsIncluded
  <2> QED BY <1>5, <2>3, WorkPaired
<1>7. \A w \in S : programs[c][w.list][w.slot] = NoProg
  BY <1>5 DEF Work, CubeOK, SlotsKept, NoPrograms
<1> QED BY <1>4, <1>5, <1>6, <1>7 DEF OneOperation

\* The work of reload_all().
LEMMA ReloadAllIs ==
  ASSUME TypeInv, NEW c \in Cubes, CubeOK(c), Idle(c)
  PROVE  /\ OneOperation(c, "reload", ReloadAllWork(c))
         /\ ReloadsAll(c, "reload", ReloadAllWork(c))
<1> DEFINE S == ReloadAllWork(c)
           K(d, i) == programs_code[c][d][i]
<1>1. /\ "ingress" \in Dirs /\ "egress" \in Dirs /\ Dirs = {"ingress", "egress"}
      /\ Lists = {"ingress", "egress", "egress_tc"} /\ "reload" \in {"add", "reload", "del"}
  BY DEF Dirs, Lists
<1>2. ASSUME NEW d \in Dirs, NEW i \in Slots
      PROVE  /\ K(d, i) \in Codes \cup {NoCode}
             /\ \A w : w \in ReloadWork(c, d, i, K(d, i)) <=>
                  /\ w \in Work /\ w.op = "reload" /\ w.slot = i /\ w.code = K(d, i)
                  /\ Dir(w.list) = d /\ (w.list = "egress_tc" => CubeType[c] = "xdp")
  <2>1. K(d, i) \in Codes \cup {NoCode}
    BY DEF TypeInv, TypeOK
  <2> HIDE DEF K
  <2> QED BY <1>1, <2>1, SlotWork, WorkNames
<1>3. \A w \in Work : Dir(w.list) \in Dirs /\ w.slot \in Slots
  BY <1>1 DEF Work, Dir
<1>4. \A w : w \in S <=> /\ w \in Work /\ w.op = "reload"
                         /\ w.code = K(Dir(w.list), w.slot)
                         /\ programs[c][Dir(w.list)][w.slot] # NoProg
                         /\ w.list = "egress_tc" => CubeType[c] = "xdp"
  <2>1. ASSUME NEW w \in S
        PROVE  /\ w \in Work /\ w.op = "reload" /\ w.code = K(Dir(w.list), w.slot)
               /\ programs[c][Dir(w.list)][w.slot] # NoProg
               /\ w.list = "egress_tc" => CubeType[c] = "xdp"
    <3>1. PICK x \in Occupied(c) : w \in ReloadWork(c, x[1], x[2], K(x[1], x[2]))
      BY DEF ReloadAllWork
    <3>2. x[1] \in Dirs /\ x[2] \in Slots /\ programs[c][x[1]][x[2]] # NoProg
      BY DEF Occupied
    <3>3. PICK d \in Dirs, i \in Slots : d = x[1] /\ i = x[2]
      BY <3>2
    <3> HIDE DEF K
    <3> QED BY <1>2, <3>1, <3>2, <3>3
  <2>2. ASSUME NEW w \in Work, w.op = "reload", w.code = K(Dir(w.list), w.slot),
               programs[c][Dir(w.list)][w.slot] # NoProg,
               w.list = "egress_tc" => CubeType[c] = "xdp"
        PROVE  w \in S
    <3>1. PICK d \in Dirs, i \in Slots : d = Dir(w.list) /\ i = w.slot
      BY <1>3
    <3>2. <<d, i>> \in Occupied(c)
      BY <2>2, <3>1 DEF Occupied
    <3>3. w \in ReloadWork(c, d, i, K(d, i))
      <4> HIDE DEF K
      <4> QED BY <1>2, <2>2, <3>1
    <3> QED BY <3>2, <3>3 DEF ReloadAllWork
  <2> QED BY <2>1, <2>2
<1> HIDE DEF S, K
<1>5. S \in SUBSET Work
  BY <1>4
<1>6. /\ \A w \in S : w.list = "egress_tc" => CubeType[c] = "xdp" /\ Original(w) \in S
      /\ \A w \in S : w.list = "egress" /\ CubeType[c] = "xdp" => Twin(w) \in S
  BY <1>4, <1>5, WorkPaired DEF TwinsIncluded
<1>7. \A w \in S : w.list \in Dirs => programs[c][w.list][w.slot] # NoProg
  BY <1>1, <1>4 DEF Dir
<1>8. OneOperation(c, "reload", S)
  BY <1>4, <1>5, <1>6, <1>7 DEF OneOperation
<1>9. ASSUME NEW l \in Lists, NEW i \in Slots, programs[c][l][i] # NoProg
      PROVE  \E w \in S : w.list = l /\ w.slot = i
  <2>1. programs[c][Dir(l)][i] # NoProg /\ (l = "egress_tc" => CubeType[c] = "xdp")
    <3>1. CASE l = "egress_tc"
      BY <1>9, <3>1 DEF Dir, CubeOK, SlotsKept, SlotsInStep, Idle, Alive
    <3>2. CASE l # "egress_tc"
      BY <1>9, <3>2 DEF Dir
    <3> QED BY <3>1, <3>2
  <2> DEFINE w == [op |-> "reload", list |-> l, slot |-> i, code |-> K(Dir(l), i)]
  <2>2. Dir(l) \in Dirs
    BY <1>1 DEF Dir
  <2>3. K(Dir(l), i) \in Codes \cup {NoCode}
    BY <1>2, <2>2
  <2>4. w \in Work /\ w.op = "reload" /\ w.list = l /\ w.slot = i /\ w.code = K(Dir(l), i)
    BY <2>3 DEF Work
  <2> HIDE DEF w
  <2>5. w \in S
    BY <1>4, <2>1, <2>4
  <2> QED BY <2>4, <2>5
<1>10. ReloadsAll(c, "reload", S)
  BY <1>9 DEF ReloadsAll
<1> QED BY <1>8, <1>10 DEF S

\* A cube that is gone has nothing.
LEMMA Forgotten ==
  ASSUME TypeInv, CubeInv, NEW c \in Cubes, Forget(c),
         \A b \in Cubes \ {c} : compile_failed'[b] = compile_failed[b]
  PROVE  CubeInv'
<1>1. /\ phase'[c] = "absent" /\ programs'[c] = NoPrograms
      /\ \A b \in Cubes \ {c} :
           /\ programs'[b] = programs[b] /\ todo'[b] = todo[b] /\ phase'[b] = phase[b]
           /\ level'[b] = level[b]
  BY DEF Forget, TypeInv, TypeOK
<1>2. \A l \in Lists, i \in Slots : NoPrograms[l][i] = NoProg
  BY DEF NoPrograms
<1>3. "egress_tc" \in Lists /\ NoProg # Bogus
  BY NoProgAssumption DEF Lists
<1>4. SlotsKept(c)'
  BY <1>1, <1>2, <1>3 DEF SlotsKept
<1>5. CubeOK(c)'
  BY <1>1, <1>4 DEF CubeOK, Alive
<1> QED BY <1>1, <1>5, OneCubeActs

\* The start of every operation keeps the programs and the work in step.
LEMMA CubeStart ==
  ASSUME TypeInv, CubeInv, NEW c \in Cubes, Start(c)
  PROVE  CubeInv'
<1>0. CubeOK(c) /\ TypeOK
  BY DEF CubeInv, TypeInv
<1>1. ASSUME NEW ni, NEW ne, NEW k \in Codes, NEW lv, Construct(c, ni, ne, k, lv)
      PROVE  CubeInv'
  <2> DEFINE S == (UNION {AddWork(c, "ingress", i, k) : i \in SlotsBelow(ni)})
                  \cup (UNION {AddWork(c, "egress", i, k) : i \in SlotsBelow(ne)})
  <2>1. /\ phase[c] = "absent" /\ programs' = programs
        /\ todo' = [todo EXCEPT ![c] = S]
        /\ phase' = [phase EXCEPT ![c] = "constructing"]
        /\ level' = [level EXCEPT ![c] = lv]
        /\ compile_failed' = [compile_failed EXCEPT ![c] = FALSE]
    BY <1>1 DEF Construct
  <2>2. OneOperation(c, "add", S)
    BY <1>0, <2>1, ConstructorWork
  <2> HIDE DEF S
  <2>3. /\ todo[c] = {} /\ todo'[c] = S /\ phase'[c] = "constructing"
        /\ \A b \in Cubes \ {c} :
             /\ todo'[b] = todo[b] /\ phase'[b] = phase[b] /\ level'[b] = level[b]
             /\ compile_failed'[b] = compile_failed[b]
    BY <1>0, <2>1 DEF TypeInv, TypeOK, AbsentOK
  <2>4. CubeOK(c)'
    BY <1>0, <2>1, <2>2, <2>3, WorkStarted
  <2> QED BY <2>1, <2>3, <2>4, OneCubeActs
<1>2. ASSUME Constructed(c) PROVE CubeInv'
  <2>1. /\ Alive(c) /\ phase' = [phase EXCEPT ![c] = "live"]
        /\ UNCHANGED <<programs, todo, level, compile_failed>>
    BY <1>2 DEF Constructed, Alive
  <2>2. phase'[c] = "live" /\ \A b \in Cubes \ {c} : phase'[b] = phase[b]
    BY <1>0, <2>1 DEF TypeOK
  <2>3. CubeOK(c)'
    <3>1. \A w : HalfDone(c, w)' <=> HalfDone(c, w)
      BY <2>1 DEF HalfDone
    <3>2. WorkInStep(c)' /\ TwinsInStep(c)'
      BY <1>0, <2>1, <3>1 DEF CubeOK, WorkInStep, TwinsInStep
    <3>3. SlotsInStep(c)' /\ LevelInStep(c)' /\ SlotsKept(c)'
      BY <1>0, <2>1, <2>2 DEF CubeOK, SlotsInStep, LevelInStep, SlotsKept
    <3> QED BY <3>2, <3>3 DEF CubeOK
  <2> QED BY <2>1, <2>2, <2>3, OneCubeActs
<1>3. ASSUME NEW d \in Dirs, NEW i \in Slots, NEW k \in Codes, AddProgram(c, d, i, k)
      PROVE  CubeInv'
  <2>1. /\ Idle(c) /\ todo' = [todo EXCEPT ![c] = WorkOf("add", c, d, i, k)]
        /\ Started /\ level' = level /\ k \in Codes \cup {NoCode}
        /\ "add" \in {"add", "reload", "del"}
        /\ "add" = "add" <=> programs[c][d][i] = NoProg
    BY <1>3, WorkNames DEF AddProgram
  <2> QED BY <2>1, SlotOperation
<1>4. ASSUME NEW d \in Dirs, NEW i \in Slots, NEW k \in Codes, Reload(c, d, i, k)
      PROVE  CubeInv'
  <2>1. /\ Idle(c) /\ todo' = [todo EXCEPT ![c] = WorkOf("reload", c, d, i, k)]
        /\ Started /\ level' = level /\ k \in Codes \cup {NoCode}
        /\ "reload" \in {"add", "reload", "del"}
        /\ "reload" = "add" <=> programs[c][d][i] = NoProg
    BY <1>4, WorkNames DEF Reload
  <2> QED BY <2>1, SlotOperation
<1>5. ASSUME NEW d \in Dirs, NEW i \in Slots, DelProgram(c, d, i)
      PROVE  CubeInv'
  <2>1. /\ Idle(c) /\ todo' = [todo EXCEPT ![c] = WorkOf("del", c, d, i, NoCode)]
        /\ Started /\ level' = level /\ NoCode \in Codes \cup {NoCode}
        /\ "del" \in {"add", "reload", "del"}
        /\ "del" = "add" <=> programs[c][d][i] = NoProg
    BY <1>5, WorkNames DEF DelProgram
  <2> QED BY <2>1, SlotOperation
<1>6. ASSUME NEW lv, SetLogLevel(c, lv)
      PROVE  CubeInv'
  <2>1. /\ Idle(c) /\ phase[c] = "live" /\ todo[c] = {}
        /\ level' = [level EXCEPT ![c] = lv] /\ todo' = [todo EXCEPT ![c] = ReloadAllWork(c)]
        /\ UNCHANGED <<phase, programs, compile_failed>>
    BY <1>6 DEF SetLogLevel, Idle, Started
  <2>2. /\ OneOperation(c, "reload", ReloadAllWork(c))
        /\ ReloadsAll(c, "reload", ReloadAllWork(c))
    BY <1>0, <2>1, ReloadAllIs
  <2>3. /\ todo'[c] = ReloadAllWork(c)
        /\ \A b \in Cubes \ {c} : todo'[b] = todo[b] /\ level'[b] = level[b]
    BY <1>0, <2>1 DEF TypeOK
  <2>4. CubeOK(c)'
    BY <1>0, <2>1, <2>2, <2>3, WorkStarted
  <2> QED BY <2>1, <2>3, <2>4, OneCubeActs
<1>7. ASSUME Uninit(c) PROVE CubeInv'
  <2>1. /\ phase' = [phase EXCEPT ![c] = "destroying"]
        /\ UNCHANGED <<programs, level, compile_failed>>
        /\ \A b \in Cubes \ {c} : todo'[b] = todo[b]
    BY <1>0, <1>7 DEF Uninit, TypeOK
  <2>2. phase'[c] = "destroying" /\ \A b \in Cubes \ {c} : phase'[b] = phase[b]
    BY <1>0, <2>1 DEF TypeOK
  <2>3. CubeOK(c)'
    BY <1>0, <2>1, <2>2 DEF CubeOK, SlotsKept, Alive
  <2> QED BY <2>1, <2>2, <2>3, OneCubeActs
<1>8. ASSUME Destroyed(c) PROVE CubeInv'
  BY <1>8, Forgotten DEF Destroyed
<1> QED BY <1>1, <1>2, <1>3, <1>4, <1>5, <1>6, <1>7, <1>8 DEF Start

\* The running operation handles w.
LEMMA HandledStep ==
  ASSUME TypeInv, CubeInv, NEW c \in Cubes, Alive(c), NEW w \in todo[c], Current(c, w), NEW x,
         programs' = SetSlot(programs, c, w.list, w.slot, x),
         w.op \in {"add", "reload"} => Loaded(x) /\ x.code = w.code /\ x.level = level[c],
         w.op = "del" => x = NoProg,
         Done(c, w), phase' = phase, level' = level, compile_failed' = compile_failed
  PROVE  CubeInv'
<1>1. w.list \in Lists /\ w.slot \in Slots
  BY CurrentWork
<1>2. programs \in [Cubes -> [Lists -> [Slots -> Slot]]] /\ todo \in [Cubes -> SUBSET Work]
  BY DEF TypeInv, TypeOK
<1>3. /\ \A m \in Lists, j \in Slots : programs'[c][m][j] =
           IF m = w.list /\ j = w.slot THEN x ELSE programs[c][m][j]
      /\ \A b \in Cubes \ {c} : programs'[b] = programs[b]
  BY <1>1, <1>2 DEF SetSlot
<1>4. todo'[c] = todo[c] \ {w} /\ \A b \in Cubes \ {c} : todo'[b] = todo[b]
  BY <1>2 DEF Done
<1>5. CubeOK(c)
  BY DEF CubeInv
<1>6. CubeOK(c)'
  BY <1>3, <1>4, <1>5, SlotHandled
<1> QED BY <1>3, <1>4, <1>6, OneCubeActs

\* The running operation ends with an exception at w.
LEMMA DroppedStep ==
  ASSUME TypeInv, CubeInv, NEW c \in Cubes, Alive(c), NEW w \in todo[c], Current(c, w), NEW x,
         programs' = SetSlot(programs, c, w.list, w.slot, x),
         \/ w.op = "add" /\ x # NoProg
         \/ w.op = "reload" /\ x = programs[c][w.list][w.slot],
         \/ compile_failed' = [compile_failed EXCEPT ![c] = TRUE]
         \/ compile_failed' = compile_failed /\ compile_failed[c]
         \/ /\ compile_failed' = compile_failed /\ w.op = "add" /\ w.list = "egress_tc"
            /\ Loaded(x) /\ x.code = w.code /\ x.level = level[c],
         todo' = [todo EXCEPT ![c] = {}], phase' = phase, level' = level
  PROVE  CubeInv'
<1>1. w.list \in Lists /\ w.slot \in Slots
  BY CurrentWork
<1>2. /\ programs \in [Cubes -> [Lists -> [Slots -> Slot]]] /\ todo \in [Cubes -> SUBSET Work]
      /\ compile_failed \in [Cubes -> BOOLEAN]
  BY DEF TypeInv, TypeOK
<1>3. /\ \A m \in Lists, j \in Slots : programs'[c][m][j] =
           IF m = w.list /\ j = w.slot THEN x ELSE programs[c][m][j]
      /\ \A b \in Cubes \ {c} : programs'[b] = programs[b]
  BY <1>1, <1>2 DEF SetSlot
<1>4. /\ todo'[c] = {} /\ \A b \in Cubes \ {c} : todo'[b] = todo[b]
      /\ \A b \in Cubes \ {c} : compile_failed'[b] = compile_failed[b]
  BY <1>2
<1>5. CubeOK(c)
  BY DEF CubeInv
<1>6. \/ compile_failed'[c]
      \/ /\ compile_failed'[c] = compile_failed[c] /\ w.op = "add" /\ w.list = "egress_tc"
         /\ Loaded(x) /\ x.code = w.code /\ x.level = level[c]
  BY <1>2
<1>7. CubeOK(c)'
  BY <1>3, <1>4, <1>5, <1>6, WorkDropped
<1> QED BY <1>3, <1>4, <1>7, OneCubeActs

\* A slot that keeps what it has.
LEMMA SlotSame ==
  ASSUME TypeInv, NEW c \in Cubes, NEW l \in Lists, NEW i \in Slots
  PROVE  programs = SetSlot(programs, c, l, i, programs[c][l][i])
BY DEF TypeInv, TypeOK, SetSlot

\* A program 0 that is to be reloaded is registered, unless a compilation failed.
LEMMA ReloadRegistered ==
  ASSUME TypeInv, CubeInv, LoadedRegistered, NEW c \in Cubes, Alive(c), ~compile_failed[c],
         NEW w \in todo[c], Current(c, w), w.op = "reload", w.slot = 0
  PROVE  Registered(c, w.list)
<1>1. /\ WorkInStep(c) /\ SlotsInStep(c) /\ TwinsInStep(c) /\ SlotsKept(c)
      /\ w.list \in Lists /\ 0 \in Slots
  BY CurrentWork, MaxProgsAssumption DEF CubeInv, CubeOK, Slots
<1>2. programs[c][w.list][0] # NoProg
  <2>1. CASE w.list \in Dirs
    BY <1>1, <2>1 DEF SlotsInStep
  <2>2. CASE w.list = "egress_tc"
    <3>1. HalfDone(c, w)
      BY <1>1, <2>2, NextWork
    <3> QED BY <1>1, <2>2, <3>1 DEF TwinsInStep, WorkInStep
  <2> QED BY <1>1, <2>1, <2>2 DEF Lists
<1>3. Loaded(programs[c][w.list][0])
  BY <1>1, <1>2 DEF SlotsKept, Loaded
<1> QED BY <1>1, <1>3 DEF LoadedRegistered

\* A program that compiled is loaded, from the source and with the level at hand.
LEMMA CompiledLoaded ==
  ASSUME TypeOK, NEW c \in Cubes, NEW l \in Lists, NEW k \in Codes
  PROVE  /\ Compiled(c, l, k) \in Program /\ Loaded(Compiled(c, l, k)) /\ Compiled(c, l, k) # NoProg
         /\ Compiled(c, l, k).code = k /\ Compiled(c, l, k).level = level[c]
         /\ Compiled(c, l, k).list = l
<1>1. Compiled(c, l, k) \in Program
  BY CompiledType
<1>2. Loaded(Compiled(c, l, k)) /\ Compiled(c, l, k) # NoProg
  BY <1>1, NoProgAssumption DEF Loaded
<1> QED BY <1>1, <1>2 DEF Compiled

\* Every step of a running operation keeps the programs and the work in step.
LEMMA CubeStep ==
  ASSUME TypeInv, CubeInv, LoadedRegistered, NEW c \in Cubes, Step(c)
  PROVE  CubeInv'
<1>0. PICK w \in todo[c] :
        \/ AddDone(c, w) \/ AddTwinDone(c, w) \/ AddTwinBusy(c, w) \/ AddThrows(c, w)
        \/ ConstructThrows(c, w) \/ ConstructBusy(c, w) \/ ReloadDone(c, w)
        \/ ReloadUnregistered(c, w) \/ ReloadThrows(c, w) \/ DelDone(c, w) \/ TwinCrash(c, w) \/ RemoveDone(c, w)
  BY DEF Step
<1>t. /\ TypeOK /\ programs \in [Cubes -> [Lists -> [Slots -> Slot]]]
      /\ todo \in [Cubes -> SUBSET Work] /\ compile_failed \in [Cubes -> BOOLEAN]
  BY DEF TypeInv, TypeOK
<1>w. /\ w.list \in Lists /\ w.slot \in Slots /\ w.code \in Codes \cup {NoCode}
      /\ w.op \in {"remove", "add", "reload", "del"}
  BY CurrentWork
<1>a. w.op = "add" => Alive(c) /\ w.code \in Codes
  BY DEF TypeInv, WorkOK, Alive
<1>r. w.op = "reload" => Alive(c)
  BY DEF TypeInv, WorkOK, Alive
<1>l. w.code \in Codes =>
        LET x == Compiled(c, w.list, w.code)
        IN  Loaded(x) /\ x.code = w.code /\ x.level = level[c] /\ x # NoProg
  BY <1>t, <1>w, CompiledLoaded
<1>1. CASE AddDone(c, w)
  <2>1. /\ Current(c, w) /\ w.op = "add" /\ Done(c, w)
        /\ programs' = SetSlot(programs, c, w.list, w.slot, Compiled(c, w.list, w.code))
        /\ phase' = phase /\ level' = level /\ compile_failed' = compile_failed
    BY <1>1 DEF AddDone
  <2> QED BY <1>a, <1>l, <2>1, HandledStep
<1>2. CASE AddTwinDone(c, w)
  <2>1. /\ Current(c, w) /\ w.op = "add" /\ Done(c, w)
        /\ programs' = SetSlot(programs, c, w.list, w.slot, Compiled(c, w.list, w.code))
        /\ phase' = phase /\ level' = level /\ compile_failed' = compile_failed
    BY <1>2 DEF AddTwinDone
  <2> QED BY <1>a, <1>l, <2>1, HandledStep
<1>3. CASE AddTwinBusy(c, w)
  <2>1. /\ Current(c, w) /\ w.op = "add" /\ w.list = "egress_tc"
        /\ programs' = SetSlot(programs, c, w.list, w.slot, Compiled(c, w.list, w.code))
        /\ todo' = [todo EXCEPT ![c] = {}]
        /\ phase' = phase /\ level' = level /\ compile_failed' = compile_failed
    BY <1>3 DEF AddTwinBusy, TwinBusy
  <2> QED BY <1>a, <1>l, <2>1, DroppedStep
<1>4. CASE AddThrows(c, w)
  <2>1. /\ Current(c, w) /\ w.op = "add" /\ Bogus # NoProg
        /\ programs' = SetSlot(programs, c, w.list, w.slot, Bogus)
        /\ todo' = [todo EXCEPT ![c] = {}]
        /\ phase' = phase /\ level' = level
        /\ compile_failed' = [compile_failed EXCEPT ![c] = TRUE]
    BY <1>4, NoProgAssumption DEF AddThrows, CompileFails
  <2> QED BY <1>a, <2>1, DroppedStep
<1>5. CASE ConstructThrows(c, w)
  <2>1. Forget(c) /\ \A b \in Cubes \ {c} : compile_failed'[b] = compile_failed[b]
    BY <1>5, <1>t DEF ConstructThrows, CompileFails
  <2> QED BY <2>1, Forgotten
<1>b. CASE ConstructBusy(c, w)
  <2>1. Forget(c) /\ \A b \in Cubes \ {c} : compile_failed'[b] = compile_failed[b]
    BY <1>b, <1>t DEF ConstructBusy
  <2> QED BY <2>1, Forgotten
<1>6. CASE ReloadDone(c, w)
  <2>1. /\ Current(c, w) /\ w.op = "reload" /\ Done(c, w) /\ w.code \in Codes
        /\ programs' = SetSlot(programs, c, w.list, w.slot, Compiled(c, w.list, w.code))
        /\ phase' = phase /\ level' = level /\ compile_failed' = compile_failed
    BY <1>6, <1>w DEF ReloadDone
  <2> QED BY <1>r, <1>l, <2>1, HandledStep
<1>7. CASE ReloadUnregistered(c, w)
  <2>1. /\ Current(c, w) /\ w.op = "reload" /\ w.slot = 0 /\ ~Registered(c, w.list)
        /\ programs' = programs /\ todo' = [todo EXCEPT ![c] = {}]
        /\ phase' = phase /\ level' = level /\ compile_failed' = compile_failed
    BY <1>7 DEF ReloadUnregistered
  <2>2. compile_failed[c]
    BY <1>r, <2>1, ReloadRegistered
  <2>3. programs' = SetSlot(programs, c, w.list, w.slot, programs[c][w.list][w.slot])
    BY <1>w, <2>1, SlotSame
  <2> QED BY <1>r, <2>1, <2>2, <2>3, DroppedStep
<1>8. CASE ReloadThrows(c, w)
  <2>1. /\ Current(c, w) /\ w.op = "reload"
        /\ programs' = programs /\ todo' = [todo EXCEPT ![c] = {}]
        /\ phase' = phase /\ level' = level
        /\ compile_failed' = [compile_failed EXCEPT ![c] = TRUE]
    BY <1>8 DEF ReloadThrows, CompileFails
  <2>3. programs' = SetSlot(programs, c, w.list, w.slot, programs[c][w.list][w.slot])
    BY <1>w, <2>1, SlotSame
  <2> QED BY <1>r, <2>1, <2>3, DroppedStep
<1>9. CASE DelDone(c, w)
  <2>1. /\ Current(c, w) /\ w.op = "del" /\ Done(c, w)
        /\ programs' = SetSlot(programs, c, w.list, w.slot, NoProg)
        /\ phase' = phase /\ level' = level /\ compile_failed' = compile_failed
    BY <1>9 DEF DelDone
  <2>2. CASE Alive(c)
    BY <2>1, <2>2, HandledStep
  <2>3. CASE ~Alive(c)
    <3>1. phase[c] = "destroying"
      BY <2>1, <2>3 DEF TypeInv, WorkOK, Alive
    <3>2. /\ \A m \in Lists, j \in Slots : programs'[c][m][j] =
               IF m = w.list /\ j = w.slot THEN NoProg ELSE programs[c][m][j]
          /\ \A b \in Cubes \ {c} : programs'[b] = programs[b]
      BY <1>t, <1>w, <2>1 DEF SetSlot
    <3>3. \A b \in Cubes \ {c} : todo'[b] = todo[b]
      BY <1>t, <2>1 DEF Done
    <3>4. SlotsKept(c) /\ "egress_tc" \in Lists /\ NoProg # Bogus
      BY NoProgAssumption DEF CubeInv, CubeOK, Lists
    <3>5. SlotsKept(c)'
      BY <2>1, <3>1, <3>2, <3>4 DEF SlotsKept
    <3>6. CubeOK(c)'
      BY <2>1, <2>3, <3>5 DEF CubeOK, Alive
    <3> QED BY <2>1, <3>2, <3>3, <3>6, OneCubeActs
  <2> QED BY <2>2, <2>3
<1>10. CASE TwinCrash(c, w)
  <2>1. UNCHANGED <<programs, todo, phase, level, compile_failed>>
    BY <1>10 DEF TwinCrash
  <2> QED BY <2>1, OtherCube DEF CubeInv
<1>11. CASE RemoveDone(c, w)
  <2>1. /\ w.op = "remove" /\ Done(c, w)
        /\ UNCHANGED <<programs, phase, level, compile_failed>>
    BY <1>11 DEF RemoveDone
  <2>2. phase[c] = "destroying"
    BY <2>1 DEF TypeInv, WorkOK
  <2>3. \A b \in Cubes \ {c} : todo'[b] = todo[b]
    BY <1>t, <2>1 DEF Done
  <2>4. CubeOK(c)'
    BY <2>1, <2>2 DEF CubeInv, CubeOK, SlotsKept, Alive
  <2> QED BY <2>1, <2>3, <2>4, OneCubeActs
<1> QED BY <1>0, <1>1, <1>2, <1>3, <1>4, <1>5, <1>b, <1>6, <1>7, <1>8, <1>9, <1>10, <1>11

-----------------------------------------------------------------------------
(* What the patch panel and the jump tables hold.                          *)

\* The names of the directions, lists and hooks.
LEMMA Names ==
  /\ Dirs = {"ingress", "egress"} /\ Lists = {"ingress", "egress", "egress_tc"}
  /\ Hooks = {"tc", "xdp"} /\ 0 \in Slots
  /\ \A l \in Lists : Dir(l) \in Dirs
  /\ \A d \in Dirs : d \in Lists /\ Dir(d) = d
  /\ \A c \in Cubes : CubeType[c] = "tc" \/ CubeType[c] = "xdp"
  /\ \A c \in Cubes, l \in Lists : HookOf(c, l) \in Hooks
  /\ \A c \in Cubes, d \in Dirs : HookOf(c, d) = CubeType[c]
BY MaxProgsAssumption, CubeTypeAssumption DEF Dirs, Lists, Hooks, Slots, Dir, HookOf

\* Slot i of list l of b is empty, or what it was, or holds the program its jump
\* table now calls, which is registered if it is a program 0.
SlotFollows(b, l, i) ==
  \/ ~Loaded(programs'[b][l][i])
  \/ /\ Alive(b) /\ index'[b] = index[b]
     /\ programs'[b][l][i] = programs[b][l][i]
     /\ programs_table'[b][l][i] = programs_table[b][l][i]
  \/ /\ index'[b] = index[b]
     /\ programs_table'[b][l][i] = programs'[b][l][i]
     /\ i = 0 => l = "egress_tc" /\ Registered(b, l)

\* Steps that do not write the patch panel.
LEMMA PanelKept ==
  ASSUME PanelInv, panelVars' = panelVars,
         \A b \in Cubes, d \in Dirs : Owns(b, d)' => Owns(b, d) /\ index'[b][d] = index[b][d],
         \A b \in Cubes, l \in Lists, i \in Slots : Alive(b)' => SlotFollows(b, l, i)
  PROVE  PanelInv'
<1>0. nodes' = nodes /\ nodes_present' = nodes_present /\ node_ids' = node_ids
  BY DEF panelVars
<1>1. LoadedRegistered'
  <2>1. SUFFICES ASSUME NEW b \in Cubes, Alive(b)', NEW l \in Lists,
                        Loaded(programs'[b][l][0])
                 PROVE  Registered(b, l)'
    BY DEF LoadedRegistered
  <2>2. SlotFollows(b, l, 0)
    BY <2>1, Names
  <2>3. index'[b] = index[b] /\ Registered(b, l)
    BY <2>1, <2>2 DEF SlotFollows, PanelInv, LoadedRegistered
  <2> QED BY <1>0, <2>3 DEF Registered
<1>2. OtherHook'
  BY <1>0 DEF PanelInv, OtherHook
<1>3. FreeIndexOnlyTwins'
  BY <1>0 DEF PanelInv, FreeIndexOnlyTwins
<1>4. TailCallsCurrent'
  <2>1. ASSUME NEW b \in Cubes, Alive(b)', NEW d \in Dirs, index'[b][d] # 0,
               Loaded(programs'[b][d][0])
        PROVE  nodes[CubeType[b]][index'[b][d]] = programs'[b][d][0]
    <3>1. SlotFollows(b, d, 0) /\ d # "egress_tc"
      BY <2>1, Names
    <3>2. /\ Alive(b) /\ index'[b] = index[b]
          /\ programs'[b][d][0] = programs[b][d][0]
      BY <2>1, <3>1 DEF SlotFollows
    <3> QED BY <2>1, <3>2 DEF PanelInv, TailCallsCurrent, Alive
  <2>2. ASSUME NEW b \in Cubes, Alive(b)', NEW l \in Lists, NEW i \in Slots,
               Loaded(programs'[b][l][i])
        PROVE  programs_table'[b][l][i] = programs'[b][l][i]
    <3>1. SlotFollows(b, l, i)
      BY <2>2
    <3> QED BY <2>2, <3>1 DEF SlotFollows, PanelInv, TailCallsCurrent, Alive
  <2> QED BY <1>0, <2>1, <2>2 DEF TailCallsCurrent, Alive
<1> QED BY <1>1, <1>2, <1>3, <1>4 DEF PanelInv

\* Program p of slot 0 of list l is written to entry j of its hook: an entry the
\* cube has, or a free one it takes now.
PanelWritten(c, l, j, p) ==
  /\ nodes' = [nodes EXCEPT ![HookOf(c, l)][j] = p]
  /\ \A h \in Hooks, i \in Indexes :
       nodes_present'[h][i] = (nodes_present[h][i] \/ (h = HookOf(c, l) /\ i = j))
  /\ node_ids' \subseteq node_ids
  /\ index'[c][Dir(l)] = j
  /\ index[c][Dir(l)] = j \/ (index[c][Dir(l)] = 0 /\ j \in node_ids)
  /\ \A e \in Dirs \ {Dir(l)} : index'[c][e] = index[c][e]
  /\ \A b \in Cubes \ {c} : index'[b] = index[b]
  /\ index'[c][Dir(l)] = index[c][Dir(l)]
       \/ \A m \in Lists \ {l} : Dir(m) = Dir(l) => ~Loaded(programs[c][m][0])

\* Steps that register a program, or replace a registered one.
LEMMA PanelWrite ==
  ASSUME TypeInv, PanelInv, IndexUnique', NEW c \in Cubes, Alive(c), NEW l \in Lists,
         NEW j \in Indexes, NEW p, PanelWritten(c, l, j, p),
         Loaded(p), p.list = l, l = "egress_tc" => CubeType[c] = "xdp",
         \A m \in Lists, i \in Slots :
           IF m = l /\ i = 0
             THEN programs'[c][m][i] = p /\ programs_table'[c][m][i] = p
             ELSE programs'[c][m][i] = programs[c][m][i]
                  /\ programs_table'[c][m][i] = programs_table[c][m][i],
         \A b \in Cubes \ {c} : /\ programs'[b] = programs[b] /\ todo'[b] = todo[b]
                                /\ programs_table'[b] = programs_table[b],
         phase' = phase
  PROVE  PanelInv'
<1>t. /\ nodes \in [Hooks -> [Indexes -> Program \cup {NoProg}]] /\ 0 \notin node_ids
      /\ \A b \in Cubes, d \in Dirs : index[b][d] \in Indexes
      /\ node_ids \subseteq Indexes
  BY MaxNodesAssumption DEF TypeInv, TypeOK, Indexes
<1>h. /\ HookOf(c, l) \in Hooks /\ Dir(l) \in Dirs
      /\ l # "egress_tc" => HookOf(c, l) = CubeType[c] /\ Dir(l) = l
      /\ l = "egress_tc" => HookOf(c, l) = "tc" /\ CubeType[c] = "xdp" /\ Dir(l) = "egress"
  BY Names DEF HookOf, Dir
<1>n. \A h \in Hooks, i \in Indexes :
        nodes'[h][i] = IF h = HookOf(c, l) /\ i = j THEN p ELSE nodes[h][i]
  BY <1>t, <1>h DEF PanelWritten
<1>p. /\ node_ids' \subseteq node_ids /\ index'[c][Dir(l)] = j
      /\ index[c][Dir(l)] = j \/ (index[c][Dir(l)] = 0 /\ j \in node_ids)
      /\ \A b \in Cubes, e \in Dirs : b # c \/ e # Dir(l) => index'[b][e] = index[b][e]
  BY DEF PanelWritten
<1>i. \A b \in Cubes, e \in Dirs : index'[b][e] \in Indexes
  BY <1>t, <1>p
<1>a. \A b \in Cubes : Alive(b)' <=> Alive(b)
  BY DEF Alive
\* Nobody else has entry j.
<1>j. ASSUME NEW b \in Cubes, NEW e \in Dirs, Owns(b, e)', index'[b][e] = j
      PROVE  b = c /\ e = Dir(l)
  <2>1. j # 0
    BY <1>j DEF Owns
  <2>2. Owns(c, Dir(l))'
    BY <1>p, <2>1 DEF Owns, Alive
  <2> QED BY <1>h, <1>j, <1>p, <2>2 DEF IndexUnique
<1>f. j \notin node_ids'
  <2>1. CASE j = 0
    BY <1>t, <1>p, <2>1
  <2>2. CASE j # 0
    <3>1. Owns(c, Dir(l))'
      BY <1>p, <2>2 DEF Owns, Alive
    <3> QED BY <1>h, <1>p, <3>1 DEF IndexUnique
  <2> QED BY <2>1, <2>2
<1>o. \A b \in Cubes, e \in Dirs :
        Alive(b) /\ index'[b][e] # 0 => Owns(b, e)'
  BY DEF Owns, Alive
<1>1. LoadedRegistered'
  <2>1. SUFFICES ASSUME NEW b \in Cubes, Alive(b), NEW m \in Lists,
                        Loaded(programs'[b][m][0])
                 PROVE  nodes_present'[HookOf(b, m)][index'[b][Dir(m)]]
    BY <1>a DEF LoadedRegistered, Registered
  <2>2. HookOf(b, m) \in Hooks /\ Dir(m) \in Dirs /\ index'[b][Dir(m)] \in Indexes /\ 0 \in Slots
    BY <1>i, Names
  <2>3. CASE b = c /\ m = l
    BY <1>p, <2>2, <2>3 DEF PanelWritten
  <2>4. CASE ~(b = c /\ m = l)
    <3>1. programs'[b][m][0] = programs[b][m][0]
      BY <2>2, <2>4
    <3>2. nodes_present[HookOf(b, m)][index[b][Dir(m)]]
      BY <2>1, <3>1 DEF PanelInv, LoadedRegistered, Registered
    <3>3. index'[b][Dir(m)] = index[b][Dir(m)]
      BY <2>1, <2>2, <2>4, <3>1 DEF PanelWritten
    <3> QED BY <2>2, <3>2, <3>3 DEF PanelWritten
  <2> QED BY <2>3, <2>4
<1>2. OtherHook'
  <2>1. SUFFICES ASSUME NEW b \in Cubes, NEW e \in Dirs, Owns(b, e)'
                 PROVE  /\ CubeType[b] = "tc" => nodes'["xdp"][index'[b][e]] = NoProg
                        /\ CubeType[b] = "xdp" /\ nodes'["tc"][index'[b][e]] # NoProg =>
                             nodes'["tc"][index'[b][e]].list = "egress_tc"
    BY DEF OtherHook
  <2>2. index'[b][e] \in Indexes /\ "tc" \in Hooks /\ "xdp" \in Hooks
    BY <1>i, Names
  <2>3. CASE b = c /\ e = Dir(l)
    <3>1. /\ CubeType[c] = "tc" => nodes["xdp"][j] = NoProg
          /\ CubeType[c] = "xdp" /\ nodes["tc"][j] # NoProg => nodes["tc"][j].list = "egress_tc"
      <4>1. CASE j \in node_ids
        BY <4>1 DEF PanelInv, FreeIndexOnlyTwins
      <4>2. CASE index[c][Dir(l)] = j
        <5>1. Owns(c, Dir(l))
          BY <1>p, <2>1, <2>3, <4>2 DEF Owns, Alive
        <5> QED BY <1>h, <4>2, <5>1 DEF PanelInv, OtherHook
      <4> QED BY <1>p, <4>1, <4>2
    <3>2. index'[b][e] = j
      BY <1>p, <2>3
    <3> QED BY <1>h, <1>n, <2>2, <2>3, <3>1, <3>2
  <2>4. CASE ~(b = c /\ e = Dir(l))
    <3>1. index'[b][e] = index[b][e] /\ index'[b][e] # j
      BY <1>j, <1>p, <2>1, <2>4
    <3>2. Owns(b, e)
      <4>1. CASE b = c
        BY <2>1, <3>1, <4>1 DEF Owns, Alive
      <4>2. CASE b # c
        BY <2>1, <3>1, <4>2 DEF Owns
      <4> QED BY <4>1, <4>2
    <3>3. nodes'["xdp"][index'[b][e]] = nodes["xdp"][index[b][e]]
          /\ nodes'["tc"][index'[b][e]] = nodes["tc"][index[b][e]]
      BY <1>n, <2>2, <3>1
    <3> QED BY <3>2, <3>3 DEF PanelInv, OtherHook
  <2> QED BY <2>3, <2>4
<1>3. FreeIndexOnlyTwins'
  <2>1. ASSUME NEW i \in node_ids'
        PROVE  nodes'["xdp"][i] = nodes["xdp"][i] /\ nodes'["tc"][i] = nodes["tc"][i]
               /\ i \in node_ids
    BY <1>f, <1>n, <1>p, <1>t, Names
  <2> QED BY <2>1 DEF PanelInv, FreeIndexOnlyTwins
<1>4. TailCallsCurrent'
  <2>1. ASSUME NEW b \in Cubes, Alive(b), NEW e \in Dirs, index'[b][e] # 0,
               Loaded(programs'[b][e][0])
        PROVE  nodes'[CubeType[b]][index'[b][e]] = programs'[b][e][0]
    <3>1. /\ CubeType[b] \in Hooks /\ index'[b][e] \in Indexes /\ e \in Lists /\ 0 \in Slots
          /\ e # "egress_tc" /\ Owns(b, e)'
      BY <1>i, <1>o, <2>1, Names
    <3>2. CASE b = c /\ e = l
      <4>1. nodes'[CubeType[b]][index'[b][e]] = p
        BY <1>h, <1>n, <1>p, <3>1, <3>2
      <4> QED BY <3>1, <3>2, <4>1
    <3>3. CASE ~(b = c /\ e = l)
      <4>1. programs'[b][e][0] = programs[b][e][0]
        BY <3>1, <3>3
      <4>2. /\ index'[b][e] = index[b][e]
            /\ nodes'[CubeType[b]][index'[b][e]] = nodes[CubeType[b]][index[b][e]]
        <5>1. CASE b = c /\ e = Dir(l)
          <6>1. l = "egress_tc" /\ HookOf(c, l) # CubeType[b]
            BY <1>h, <3>3, <5>1
          <6>2. index'[b][e] = index[b][e]
            <7>1. CASE index[c][Dir(l)] = j
              BY <1>p, <5>1, <7>1
            <7>2. CASE index'[c][Dir(l)] # index[c][Dir(l)]
              BY <2>1, <3>1, <3>3, <4>1, <5>1, <7>2, Names DEF PanelWritten
            <7> QED BY <1>p, <5>1, <7>1, <7>2
          <6> QED BY <1>n, <3>1, <6>1, <6>2
        <5>2. CASE ~(b = c /\ e = Dir(l))
          <6>1. index'[b][e] = index[b][e] /\ index'[b][e] # j
            BY <1>j, <1>p, <3>1, <5>2
          <6> QED BY <1>n, <3>1, <6>1
        <5> QED BY <5>1, <5>2
      <4> QED BY <2>1, <4>1, <4>2 DEF PanelInv, TailCallsCurrent, Alive
    <3> QED BY <3>2, <3>3
  <2>2. ASSUME NEW b \in Cubes, Alive(b), NEW m \in Lists, NEW i \in Slots,
               Loaded(programs'[b][m][i])
        PROVE  programs_table'[b][m][i] = programs'[b][m][i]
    <3>1. CASE b = c /\ m = l /\ i = 0
      BY <3>1
    <3>2. CASE ~(b = c /\ m = l /\ i = 0)
      <4>1. /\ programs'[b][m][i] = programs[b][m][i]
            /\ programs_table'[b][m][i] = programs_table[b][m][i]
        BY <3>2
      <4> QED BY <2>2, <4>1 DEF PanelInv, TailCallsCurrent, Alive
    <3> QED BY <3>1, <3>2
  <2> QED BY <1>a, <2>1, <2>2 DEF TailCallsCurrent, Alive
<1> QED BY <1>1, <1>2, <1>3, <1>4 DEF PanelInv

\* An entry is given back: the cube that does it is being destroyed.
LEMMA PanelGivenBack ==
  ASSUME IndexInv, PanelInv, NEW c \in Cubes, NEW d \in Dirs, Owns(c, d),
         phase[c] = "destroying", PanelRemove(CubeType[c], index[c][d]),
         index' = index, phase' = phase, programs' = programs,
         programs_table' = programs_table,
         todo'[c] = todo[c] \ {RemoveWork(d)}, \A b \in Cubes \ {c} : todo'[b] = todo[b]
  PROVE  PanelInv'
<1> DEFINE j == index[c][d]
<1>t. /\ nodes \in [Hooks -> [Indexes -> Program \cup {NoProg}]]
      /\ nodes_present \in [Hooks -> [Indexes -> BOOLEAN]]
      /\ \A b \in Cubes, e \in Dirs : index[b][e] \in Indexes
      /\ node_ids \subseteq Indexes /\ IndexUnique /\ j \in Indexes /\ j # 0
  BY MaxNodesAssumption DEF IndexInv, TypeInv, TypeOK, Indexes, Owns
<1>n. /\ \A h \in Hooks, i \in Indexes :
           nodes'[h][i] = IF h = CubeType[c] /\ i = j THEN NoProg ELSE nodes[h][i]
      /\ \A h \in Hooks, i \in Indexes : i # j => nodes_present'[h][i] = nodes_present[h][i]
      /\ node_ids' = node_ids \cup {j}
  BY <1>t DEF PanelRemove
<1> HIDE DEF j
<1>a. \A b \in Cubes : (Alive(b)' <=> Alive(b)) /\ ~Alive(c)
  BY DEF Alive
<1>o. \A b \in Cubes, e \in Dirs : Alive(b) /\ index[b][e] # 0 => Owns(b, e)
  BY DEF Owns, Alive
<1>j. \A b \in Cubes, e \in Dirs : Owns(b, e) /\ index[b][e] = j => b = c /\ e = d
  BY <1>t DEF IndexUnique, j
<1>k. \A b \in Cubes, e \in Dirs : Alive(b) => index[b][e] # j
  BY <1>a, <1>j, <1>o, <1>t
<1>r. \A b \in Cubes, e \in Dirs : Owns(b, e)' => Owns(b, e) /\ (b # c \/ e # d)
  BY DEF Owns, RemoveWork
<1>1. LoadedRegistered'
  <2>1. SUFFICES ASSUME NEW b \in Cubes, Alive(b), NEW m \in Lists,
                        Loaded(programs[b][m][0])
                 PROVE  nodes_present'[HookOf(b, m)][index[b][Dir(m)]]
    BY <1>a DEF LoadedRegistered, Registered
  <2>2. HookOf(b, m) \in Hooks /\ Dir(m) \in Dirs /\ index[b][Dir(m)] \in Indexes
    BY <1>t, Names
  <2>3. nodes_present[HookOf(b, m)][index[b][Dir(m)]]
    BY <2>1 DEF PanelInv, LoadedRegistered, Registered
  <2> QED BY <1>k, <1>n, <2>1, <2>2, <2>3
<1>2. OtherHook'
  <2>1. ASSUME NEW b \in Cubes, NEW e \in Dirs, Owns(b, e)'
        PROVE  /\ Owns(b, e) /\ nodes'["xdp"][index[b][e]] = nodes["xdp"][index[b][e]]
               /\ nodes'["tc"][index[b][e]] = nodes["tc"][index[b][e]]
    <3>1. Owns(b, e) /\ index[b][e] # j /\ index[b][e] \in Indexes
      BY <1>j, <1>r, <1>t, <2>1
    <3> QED BY <1>n, <3>1, Names
  <2> QED BY <2>1 DEF PanelInv, OtherHook
<1>3. FreeIndexOnlyTwins'
  <2>1. ASSUME NEW i \in node_ids, i # j
        PROVE  nodes'["xdp"][i] = nodes["xdp"][i] /\ nodes'["tc"][i] = nodes["tc"][i]
    BY <1>n, <1>t, <2>1, Names
  <2>2. nodes'["xdp"][j] = NoProg
        /\ (nodes'["tc"][j] # NoProg => nodes'["tc"][j].list = "egress_tc")
    <3>1. /\ CubeType[c] = "tc" => nodes["xdp"][j] = NoProg
          /\ CubeType[c] = "xdp" /\ nodes["tc"][j] # NoProg => nodes["tc"][j].list = "egress_tc"
      BY DEF PanelInv, OtherHook, j
    <3> QED BY <1>n, <1>t, <3>1, Names
  <2> QED BY <1>n, <2>1, <2>2 DEF PanelInv, FreeIndexOnlyTwins
<1>4. TailCallsCurrent'
  <2>1. ASSUME NEW b \in Cubes, Alive(b), NEW e \in Dirs
        PROVE  nodes'[CubeType[b]][index[b][e]] = nodes[CubeType[b]][index[b][e]]
    <3>1. index[b][e] # j /\ index[b][e] \in Indexes /\ CubeType[b] \in Hooks
      BY <1>k, <1>t, <2>1, Names
    <3> QED BY <1>n, <3>1
  <2> QED BY <1>a, <2>1 DEF PanelInv, TailCallsCurrent, Alive
<1> QED BY <1>1, <1>2, <1>3, <1>4 DEF PanelInv

\* A cube that starts an operation, or is gone.
LEMMA CubeKept ==
  ASSUME PanelInv, NEW c \in Cubes, panelVars' = panelVars,
         \A b \in Cubes \ {c} :
           /\ phase'[b] = phase[b] /\ index'[b] = index[b] /\ todo'[b] = todo[b]
           /\ programs'[b] = programs[b] /\ programs_table'[b] = programs_table[b],
         \/ /\ Alive(c) /\ index'[c] = index[c] /\ programs'[c] = programs[c]
            /\ programs_table'[c] = programs_table[c]
         \/ programs'[c] = NoPrograms /\ index'[c] = NoIndex
  PROVE  PanelInv'
<1>1. ASSUME NEW b \in Cubes, NEW d \in Dirs, Owns(b, d)'
      PROVE  Owns(b, d) /\ index'[b][d] = index[b][d]
  <2>1. CASE b # c
    BY <1>1, <2>1 DEF Owns
  <2>2. CASE b = c
    BY <1>1, <2>2 DEF Owns, Alive, NoIndex
  <2> QED BY <2>1, <2>2
<1>2. ASSUME NEW b \in Cubes, NEW l \in Lists, NEW i \in Slots, Alive(b)'
      PROVE  SlotFollows(b, l, i)
  <2>1. CASE b # c
    BY <1>2, <2>1 DEF SlotFollows, Alive
  <2>2. CASE b = c /\ programs'[c] = NoPrograms
    BY <2>2 DEF SlotFollows, NoPrograms, Loaded
  <2>3. CASE b = c /\ programs'[c] # NoPrograms
    BY <2>3 DEF SlotFollows
  <2> QED BY <2>1, <2>2, <2>3
<1> QED BY <1>1, <1>2, PanelKept

\* The start of every operation leaves the patch panel and the programs alone.
LEMMA PanelStart ==
  ASSUME TypeInv, CubeInv, PanelInv, NEW c \in Cubes, Start(c)
  PROVE  PanelInv'
<1>t. TypeOK
  BY DEF TypeInv
<1>1. ASSUME NEW ni, NEW ne, NEW k \in Codes, NEW lv, Construct(c, ni, ne, k, lv)
      PROVE  PanelInv'
  <2>1. /\ phase[c] = "absent" /\ phase' = [phase EXCEPT ![c] = "constructing"]
        /\ \A b \in Cubes \ {c} : todo'[b] = todo[b]
        /\ UNCHANGED <<panelVars, index, programs, programs_table>>
    BY <1>1, <1>t DEF Construct, TypeOK
  <2>2. programs'[c] = NoPrograms /\ index'[c] = NoIndex
    BY <2>1 DEF CubeInv, CubeOK, SlotsKept, TypeInv, AbsentOK
  <2>3. \A b \in Cubes \ {c} : phase'[b] = phase[b]
    BY <1>t, <2>1 DEF TypeOK
  <2> QED BY <2>1, <2>2, <2>3, CubeKept
<1>2. ASSUME Constructed(c) PROVE PanelInv'
  <2>1. /\ Alive(c) /\ phase' = [phase EXCEPT ![c] = "live"]
        /\ UNCHANGED <<panelVars, index, programs, programs_table, todo>>
    BY <1>2 DEF Constructed, Alive
  <2>2. \A b \in Cubes \ {c} : phase'[b] = phase[b]
    BY <1>t, <2>1 DEF TypeOK
  <2> QED BY <2>1, <2>2, CubeKept
\* The operations of a live cube.
<1>op. ASSUME Idle(c), Started, \E W : todo' = [todo EXCEPT ![c] = W] PROVE PanelInv'
  <2>1. /\ Alive(c) /\ \A b \in Cubes \ {c} : todo'[b] = todo[b]
        /\ UNCHANGED <<panelVars, index, programs, programs_table, phase>>
    BY <1>op, <1>t DEF Idle, Alive, Started, TypeOK
  <2> QED BY <2>1, CubeKept
<1>3. ASSUME NEW d \in Dirs, NEW i \in Slots, NEW k \in Codes, AddProgram(c, d, i, k)
      PROVE  PanelInv'
  BY <1>3, <1>op DEF AddProgram
<1>4. ASSUME NEW d \in Dirs, NEW i \in Slots, NEW k \in Codes, Reload(c, d, i, k)
      PROVE  PanelInv'
  BY <1>4, <1>op DEF Reload
<1>5. ASSUME NEW d \in Dirs, NEW i \in Slots, DelProgram(c, d, i)
      PROVE  PanelInv'
  BY <1>5, <1>op DEF DelProgram
<1>6. ASSUME NEW lv, SetLogLevel(c, lv)
      PROVE  PanelInv'
  BY <1>6, <1>op DEF SetLogLevel
<1>7. ASSUME Uninit(c) PROVE PanelInv'
  <2>1. /\ Alive(c) /\ phase' = [phase EXCEPT ![c] = "destroying"]
        /\ \A b \in Cubes \ {c} : todo'[b] = todo[b]
        /\ UNCHANGED <<panelVars, index, programs, programs_table>>
    BY <1>7, <1>t DEF Uninit, Idle, Alive, TypeOK
  <2>2. \A b \in Cubes \ {c} : phase'[b] = phase[b]
    BY <1>t, <2>1 DEF TypeOK
  <2> QED BY <2>1, <2>2, CubeKept
<1>8. ASSUME Destroyed(c) PROVE PanelInv'
  <2>1. panelVars' = panelVars /\ Forget(c)
    BY <1>8 DEF Destroyed
  <2>2. /\ programs'[c] = NoPrograms /\ index'[c] = NoIndex
        /\ \A b \in Cubes \ {c} :
             /\ phase'[b] = phase[b] /\ index'[b] = index[b] /\ todo'[b] = todo[b]
             /\ programs'[b] = programs[b] /\ programs_table'[b] = programs_table[b]
    BY <1>t, <2>1 DEF Forget, TypeOK
  <2> QED BY <2>1, <2>2, CubeKept
<1> QED BY <1>1, <1>2, <1>3, <1>4, <1>5, <1>6, <1>7, <1>8 DEF Start

\* A step of a running operation that does not write the patch panel.
LEMMA SlotStepKeeps ==
  ASSUME PanelInv, NEW c \in Cubes, panelVars' = panelVars,
         index' = index, phase' = phase,
         todo'[c] \subseteq todo[c],
         \A b \in Cubes \ {c} :
           /\ todo'[b] = todo[b] /\ programs'[b] = programs[b]
           /\ programs_table'[b] = programs_table[b],
         \A l \in Lists, i \in Slots : Alive(c) => SlotFollows(c, l, i)
  PROVE  PanelInv'
<1>1. ASSUME NEW b \in Cubes, NEW d \in Dirs, Owns(b, d)'
      PROVE  Owns(b, d) /\ index'[b][d] = index[b][d]
  <2>1. RemoveWork(d) \in todo'[b] => RemoveWork(d) \in todo[b]
    OBVIOUS
  <2> QED BY <1>1, <2>1 DEF Owns, RemoveWork
<1>2. ASSUME NEW b \in Cubes, NEW l \in Lists, NEW i \in Slots, Alive(b)'
      PROVE  SlotFollows(b, l, i)
  <2>1. Alive(b)
    BY <1>2 DEF Alive
  <2>2. CASE b # c
    BY <2>1, <2>2 DEF SlotFollows
  <2>3. CASE b = c
    BY <2>1, <2>3
  <2> QED BY <2>2, <2>3
<1> QED BY <1>1, <1>2, PanelKept

\* do_add_program registers program 0 of a cube under the index it has, or under
\* a free one.
LEMMA RegisterWrites ==
  ASSUME TypeInv, CubeInv, NEW c \in Cubes, Alive(c), NEW w \in todo[c], w.op = "add",
         w.list \in Dirs, w.slot = 0, NEW p \in Program, RegisterFirst(c, w.list, p)
  PROVE  \E j \in Indexes : PanelWritten(c, w.list, j, p)
<1>t. /\ nodes_present \in [Hooks -> [Indexes -> BOOLEAN]] /\ index \in [Cubes -> [Dirs -> Indexes]]
      /\ CubeType[c] \in Hooks /\ HookOf(c, w.list) = CubeType[c] /\ Dir(w.list) = w.list
      /\ index[c][w.list] \in Indexes /\ w.list \in Lists /\ Dirs \subseteq Lists
  BY Names DEF TypeInv, TypeOK
<1>1. CASE index[c][w.list] # 0
  <2>1. /\ nodes_present[CubeType[c]][index[c][w.list]]
        /\ nodes' = [nodes EXCEPT ![CubeType[c]][index[c][w.list]] = p]
        /\ UNCHANGED <<node_ids, nodes_present, index>>
    BY <1>1 DEF RegisterFirst, PanelUpdate
  <2>2. PanelWritten(c, w.list, index[c][w.list], p)
    BY <1>t, <2>1 DEF PanelWritten
  <2> QED BY <1>t, <2>2
<1>2. CASE index[c][w.list] = 0
  <2>1. /\ node_ids' = node_ids \ {FirstFree}
        /\ nodes' = [nodes EXCEPT ![CubeType[c]][FirstFree] = p]
        /\ nodes_present' = [nodes_present EXCEPT ![CubeType[c]][FirstFree] = TRUE]
        /\ index' = [index EXCEPT ![c][w.list] = FirstFree]
    BY <1>2 DEF RegisterFirst, PanelAdd
  <2>2. FirstFree \in Indexes /\ (FirstFree \in node_ids \/ FirstFree = 0)
    BY FirstFreeType DEF TypeInv
  <2>3. \A m \in Lists \ {w.list} : Dir(m) = w.list => ~Loaded(programs[c][m][0])
    <3>1. SUFFICES ASSUME w.list = "egress" PROVE programs[c]["egress_tc"][0] = NoProg
      BY <1>t, Names DEF Dir, Loaded
    <3>2. WorkInStep(c) /\ SlotsInStep(c) /\ SlotsKept(c) /\ w \in Work
      BY CurrentWork DEF CubeInv, CubeOK
    <3>3. CASE CubeType[c] = "xdp"
      <4>1. /\ Twin(w) \in todo[c] /\ Twin(w).op = "add"
            /\ Twin(w).list = "egress_tc" /\ Twin(w).slot = 0
        BY <3>1, <3>2, <3>3, WorkFields DEF WorkInStep
      <4> QED BY <3>2, <4>1 DEF SlotsInStep
    <3>4. CASE CubeType[c] # "xdp"
      BY <3>2, <3>4, Names DEF SlotsKept
    <3> QED BY <3>3, <3>4
  <2>4. /\ index'[c][w.list] = FirstFree
        /\ \A e \in Dirs \ {w.list} : index'[c][e] = index[c][e]
        /\ \A b \in Cubes \ {c} : index'[b] = index[b]
    BY <1>t, <2>1
  <2>5. \A h \in Hooks, i \in Indexes : nodes_present'[h][i] =
          (nodes_present[h][i] \/ (h = CubeType[c] /\ i = FirstFree))
    BY <1>t, <2>1, <2>2
  <2>6. PanelWritten(c, w.list, FirstFree, p)
    BY <1>2, <1>t, <2>1, <2>2, <2>3, <2>4, <2>5 DEF PanelWritten
  <2> QED BY <2>2, <2>6
<1> QED BY <1>1, <1>2

\* Every step of a running operation keeps the patch panel and the jump tables in
\* step with the programs.
LEMMA PanelStep ==
  ASSUME IndexInv, IndexUnique', CubeInv, PanelInv, NEW c \in Cubes, Step(c)
  PROVE  PanelInv'
<1>0. PICK w \in todo[c] :
        \/ AddDone(c, w) \/ AddTwinDone(c, w) \/ AddTwinBusy(c, w) \/ AddThrows(c, w)
        \/ ConstructThrows(c, w) \/ ConstructBusy(c, w) \/ ReloadDone(c, w)
        \/ ReloadUnregistered(c, w) \/ ReloadThrows(c, w) \/ DelDone(c, w) \/ TwinCrash(c, w) \/ RemoveDone(c, w)
  BY DEF Step
<1>t. /\ TypeInv /\ TypeOK /\ programs \in [Cubes -> [Lists -> [Slots -> Slot]]]
      /\ programs_table \in [Cubes -> [Lists -> [Slots -> Program \cup {NoProg}]]]
      /\ todo \in [Cubes -> SUBSET Work]
      /\ nodes_present \in [Hooks -> [Indexes -> BOOLEAN]]
      /\ index \in [Cubes -> [Dirs -> Indexes]]
      /\ ~Loaded(NoProg) /\ ~Loaded(Bogus)
  BY DEF IndexInv, TypeInv, TypeOK, Loaded
<1>w. /\ w \in Work /\ w.list \in Lists /\ w.slot \in Slots /\ w.code \in Codes \cup {NoCode}
      /\ w.op \in {"remove", "add", "reload", "del"}
      /\ HookOf(c, w.list) \in Hooks /\ Dir(w.list) \in Dirs
      /\ index[c][Dir(w.list)] \in Indexes
  BY <1>t, CurrentWork
<1>a. w.op = "add" => Alive(c) /\ w.code \in Codes
  BY <1>t DEF TypeInv, WorkOK, Alive
<1>r. w.op = "reload" => Alive(c)
  BY <1>t DEF TypeInv, WorkOK, Alive
<1>x. Alive(c) /\ w.list = "egress_tc" => CubeType[c] = "xdp"
  BY DEF CubeInv, CubeOK, WorkInStep
<1> DEFINE p == Compiled(c, w.list, w.code)
<1>l. w.code \in Codes => p \in Program /\ Loaded(p) /\ p.list = w.list
  BY <1>t, <1>w, CompiledLoaded
<1>c. p = Compiled(c, w.list, w.code)
  OBVIOUS
<1> HIDE DEF p
\* A program is loaded, and registered if it has slot 0.
<1>load. ASSUME Alive(c), w.code \in Codes, index' = index \/ w.slot = 0, phase' = phase,
                programs' = SetSlot(programs, c, w.list, w.slot, p),
                programs_table' = SetSlot(programs_table, c, w.list, w.slot, p),
                Done(c, w),
                w.slot # 0 => panelVars' = panelVars,
                w.slot = 0 => \E j \in Indexes : PanelWritten(c, w.list, j, p)
         PROVE  PanelInv'
  <2>1. /\ \A m \in Lists, i \in Slots :
             IF m = w.list /\ i = w.slot
               THEN programs'[c][m][i] = p /\ programs_table'[c][m][i] = p
               ELSE programs'[c][m][i] = programs[c][m][i]
                    /\ programs_table'[c][m][i] = programs_table[c][m][i]
        /\ \A b \in Cubes \ {c} :
             programs'[b] = programs[b] /\ programs_table'[b] = programs_table[b]
    BY <1>load, <1>t, <1>w DEF SetSlot
  <2>2. todo'[c] \subseteq todo[c] /\ \A b \in Cubes \ {c} : todo'[b] = todo[b]
    BY <1>load, <1>t DEF Done
  <2>3. CASE w.slot = 0
    <3>1. PICK j \in Indexes : PanelWritten(c, w.list, j, p)
      BY <1>load, <2>3
    <3>2. \A m \in Lists, i \in Slots :
            IF m = w.list /\ i = 0
              THEN programs'[c][m][i] = p /\ programs_table'[c][m][i] = p
              ELSE programs'[c][m][i] = programs[c][m][i]
                   /\ programs_table'[c][m][i] = programs_table[c][m][i]
      BY <2>1, <2>3
    <3>3. Loaded(p) /\ p.list = w.list /\ (w.list = "egress_tc" => CubeType[c] = "xdp")
      BY <1>load, <1>l, <1>x
    <3>4. \A b \in Cubes \ {c} : /\ programs'[b] = programs[b] /\ todo'[b] = todo[b]
                                  /\ programs_table'[b] = programs_table[b]
      BY <2>1, <2>2
    <3>5. phase' = phase /\ Alive(c) /\ TypeInv /\ w.list \in Lists
      BY <1>load, <1>t, <1>w
    <3> QED BY <3>1, <3>2, <3>3, <3>4, <3>5, PanelWrite
  <2>4. CASE w.slot # 0
    <3>1. \A l \in Lists, i \in Slots : SlotFollows(c, l, i)
      BY <1>load, <2>1, <2>4 DEF SlotFollows
    <3> QED BY <1>load, <2>1, <2>2, <2>4, <3>1, SlotStepKeeps
  <2> QED BY <2>3, <2>4
<1>1. CASE AddDone(c, w)
  <2>1. /\ w.op = "add" /\ w.list \in Dirs /\ Done(c, w) /\ phase' = phase
        /\ programs' = SetSlot(programs, c, w.list, w.slot, p)
        /\ programs_table' = SetSlot(programs_table, c, w.list, w.slot, p)
        /\ w.slot = 0 => RegisterFirst(c, w.list, p)
        /\ w.slot # 0 => UNCHANGED <<panelVars, index>>
    BY <1>1, <1>c DEF AddDone
  <2>2. w.slot = 0 => \E j \in Indexes : PanelWritten(c, w.list, j, p)
    BY <1>a, <1>l, <1>t, <2>1, RegisterWrites
  <2> QED BY <1>a, <1>load, <2>1, <2>2
<1>2. CASE AddTwinDone(c, w)
  <2>1. /\ w.op = "add" /\ w.list = "egress_tc" /\ Done(c, w) /\ phase' = phase /\ index' = index
        /\ programs' = SetSlot(programs, c, w.list, w.slot, p)
        /\ programs_table' = SetSlot(programs_table, c, w.list, w.slot, p)
        /\ w.slot = 0 => PanelAddAt("tc", index[c]["egress"], p)
        /\ w.slot # 0 => panelVars' = panelVars
    BY <1>2, <1>c DEF AddTwinDone
  <2>2. HookOf(c, w.list) = "tc" /\ Dir(w.list) = "egress" /\ "tc" \in Hooks
    BY <2>1, Names DEF HookOf, Dir
  <2>3. ASSUME w.slot = 0 PROVE PanelWritten(c, w.list, index[c]["egress"], p)
    <3>1. /\ node_ids' = node_ids \ {index[c]["egress"]}
          /\ nodes' = [nodes EXCEPT !["tc"][index[c]["egress"]] = p]
          /\ nodes_present' = [nodes_present EXCEPT !["tc"][index[c]["egress"]] = TRUE]
      BY <2>1, <2>3 DEF PanelAddAt
    <3>2. \A h \in Hooks, i \in Indexes : nodes_present'[h][i] =
            (nodes_present[h][i] \/ (h = "tc" /\ i = index[c]["egress"]))
      BY <1>t, <2>2, <3>1
    <3>3. /\ nodes' = [nodes EXCEPT ![HookOf(c, w.list)][index[c]["egress"]] = p]
          /\ \A h \in Hooks, i \in Indexes : nodes_present'[h][i] =
               (nodes_present[h][i] \/ (h = HookOf(c, w.list) /\ i = index[c]["egress"]))
          /\ node_ids' \subseteq node_ids
      <4>1. node_ids' \subseteq node_ids
        BY <3>1
      <4>2. nodes' = [nodes EXCEPT ![HookOf(c, w.list)][index[c]["egress"]] = p]
        BY <2>2, <3>1, Zenon
      <4>3. \A h \in Hooks, i \in Indexes : nodes_present'[h][i] =
               (nodes_present[h][i] \/ (h = HookOf(c, w.list) /\ i = index[c]["egress"]))
        BY <2>2, <3>2, Zenon
      <4> QED BY <4>1, <4>2, <4>3, Zenon
    <3>4. /\ index'[c][Dir(w.list)] = index[c]["egress"]
          /\ index[c][Dir(w.list)] = index[c]["egress"]
          /\ \A e \in Dirs \ {Dir(w.list)} : index'[c][e] = index[c][e]
          /\ \A b \in Cubes \ {c} : index'[b] = index[b]
      BY <2>1, <2>2
    <3> QED BY <3>3, <3>4, Zenon DEF PanelWritten
  <2> QED BY <1>a, <1>load, <1>w, <2>1, <2>2, <2>3
<1>6. CASE ReloadDone(c, w)
  <2>1. /\ w.op = "reload" /\ w.code \in Codes /\ Done(c, w) /\ phase' = phase /\ index' = index
        /\ programs' = SetSlot(programs, c, w.list, w.slot, p)
        /\ programs_table' = SetSlot(programs_table, c, w.list, w.slot, p)
        /\ w.slot = 0 => PanelUpdate(HookOf(c, w.list), index[c][Dir(w.list)], p)
        /\ w.slot # 0 => panelVars' = panelVars
    BY <1>6, <1>c, <1>w DEF ReloadDone
  <2>3. ASSUME w.slot = 0 PROVE PanelWritten(c, w.list, index[c][Dir(w.list)], p)
    BY <1>t, <1>w, <2>1, <2>3 DEF PanelUpdate, PanelWritten
  <2> QED BY <1>r, <1>load, <1>w, <2>1, <2>3
\* The other steps do not write the panel.
<1>3. CASE AddTwinBusy(c, w)
  <2>1. /\ w.op = "add" /\ w.list = "egress_tc" /\ w.slot = 0
        /\ nodes_present["tc"][index[c]["egress"]]
        /\ programs' = SetSlot(programs, c, w.list, w.slot, p)
        /\ programs_table' = SetSlot(programs_table, c, w.list, w.slot, p)
        /\ todo' = [todo EXCEPT ![c] = {}] /\ UNCHANGED <<panelVars, index, phase>>
    BY <1>3, <1>c DEF AddTwinBusy, TwinBusy
  <2>2. Registered(c, w.list)
    BY <2>1 DEF Registered, HookOf, Dir
  <2>3. /\ \A m \in Lists, i \in Slots :
             IF m = w.list /\ i = w.slot
               THEN programs'[c][m][i] = p /\ programs_table'[c][m][i] = p
               ELSE programs'[c][m][i] = programs[c][m][i]
                    /\ programs_table'[c][m][i] = programs_table[c][m][i]
        /\ \A b \in Cubes \ {c} :
             programs'[b] = programs[b] /\ programs_table'[b] = programs_table[b]
    BY <1>t, <1>w, <2>1 DEF SetSlot
  <2>4. \A l \in Lists, i \in Slots : Alive(c) => SlotFollows(c, l, i)
    BY <2>1, <2>2, <2>3 DEF SlotFollows
  <2>5. todo'[c] \subseteq todo[c] /\ \A b \in Cubes \ {c} : todo'[b] = todo[b]
    BY <1>t, <2>1
  <2> QED BY <2>1, <2>3, <2>4, <2>5, SlotStepKeeps
<1>4. CASE AddThrows(c, w)
  <2>1. /\ programs' = SetSlot(programs, c, w.list, w.slot, Bogus)
        /\ todo' = [todo EXCEPT ![c] = {}]
        /\ UNCHANGED <<panelVars, index, phase, programs_table>>
    BY <1>4 DEF AddThrows
  <2>3. /\ \A m \in Lists, i \in Slots : programs'[c][m][i] =
             IF m = w.list /\ i = w.slot THEN Bogus ELSE programs[c][m][i]
        /\ \A b \in Cubes \ {c} : programs'[b] = programs[b]
    BY <1>t, <1>w, <2>1 DEF SetSlot
  <2>4. \A l \in Lists, i \in Slots : Alive(c) => SlotFollows(c, l, i)
    BY <1>t, <2>1, <2>3 DEF SlotFollows
  <2>5. todo'[c] \subseteq todo[c] /\ \A b \in Cubes \ {c} : todo'[b] = todo[b]
    BY <1>t, <2>1
  <2> QED BY <2>1, <2>3, <2>4, <2>5, SlotStepKeeps
<1>5. CASE ConstructThrows(c, w)
  <2>1. panelVars' = panelVars /\ Forget(c)
    BY <1>5 DEF ConstructThrows
  <2>2. /\ programs'[c] = NoPrograms /\ index'[c] = NoIndex
        /\ \A b \in Cubes \ {c} :
             /\ phase'[b] = phase[b] /\ index'[b] = index[b] /\ todo'[b] = todo[b]
             /\ programs'[b] = programs[b] /\ programs_table'[b] = programs_table[b]
    BY <1>t, <2>1 DEF Forget, TypeOK
  <2> QED BY <2>1, <2>2, CubeKept
<1>b. CASE ConstructBusy(c, w)
  <2>1. panelVars' = panelVars /\ Forget(c)
    BY <1>b DEF ConstructBusy
  <2>2. /\ programs'[c] = NoPrograms /\ index'[c] = NoIndex
        /\ \A b \in Cubes \ {c} :
             /\ phase'[b] = phase[b] /\ index'[b] = index[b] /\ todo'[b] = todo[b]
             /\ programs'[b] = programs[b] /\ programs_table'[b] = programs_table[b]
    BY <1>t, <2>1 DEF Forget, TypeOK
  <2> QED BY <2>1, <2>2, CubeKept
<1>7. CASE ReloadUnregistered(c, w)
  <2>1. /\ w.op = "reload" /\ w.slot = 0 /\ ~Registered(c, w.list)
        /\ programs_table' = SetSlot(programs_table, c, w.list, w.slot, p)
        /\ todo' = [todo EXCEPT ![c] = {}] /\ UNCHANGED <<panelVars, index, phase, programs>>
    BY <1>7, <1>c DEF ReloadUnregistered
  <2>2. ~Loaded(programs[c][w.list][0])
    BY <1>r, <1>w, <2>1 DEF PanelInv, LoadedRegistered
  <2>3. /\ \A m \in Lists, i \in Slots : programs_table'[c][m][i] =
             IF m = w.list /\ i = w.slot THEN p ELSE programs_table[c][m][i]
        /\ \A b \in Cubes \ {c} : programs_table'[b] = programs_table[b]
    BY <1>t, <1>w, <2>1 DEF SetSlot
  <2>4. \A l \in Lists, i \in Slots : Alive(c) => SlotFollows(c, l, i)
    BY <2>1, <2>2, <2>3 DEF SlotFollows
  <2>5. todo'[c] \subseteq todo[c] /\ \A b \in Cubes \ {c} : todo'[b] = todo[b]
    BY <1>t, <2>1
  <2> QED BY <2>1, <2>3, <2>4, <2>5, SlotStepKeeps
<1>8. CASE ReloadThrows(c, w)
  <2>1. /\ todo' = [todo EXCEPT ![c] = {}]
        /\ UNCHANGED <<panelVars, index, phase, programs, programs_table>>
    BY <1>8 DEF ReloadThrows
  <2>4. \A l \in Lists, i \in Slots : Alive(c) => SlotFollows(c, l, i)
    BY <2>1 DEF SlotFollows
  <2>5. todo'[c] \subseteq todo[c] /\ \A b \in Cubes \ {c} : todo'[b] = todo[b]
    BY <1>t, <2>1
  <2> QED BY <2>1, <2>4, <2>5, SlotStepKeeps
<1>9. CASE DelDone(c, w)
  <2>1. /\ programs' = SetSlot(programs, c, w.list, w.slot, NoProg)
        /\ programs_table' = SetSlot(programs_table, c, w.list, w.slot, NoProg)
        /\ Done(c, w) /\ UNCHANGED <<panelVars, index, phase>>
    BY <1>9 DEF DelDone
  <2>3. /\ \A m \in Lists, i \in Slots :
             IF m = w.list /\ i = w.slot
               THEN programs'[c][m][i] = NoProg
               ELSE programs'[c][m][i] = programs[c][m][i]
                    /\ programs_table'[c][m][i] = programs_table[c][m][i]
        /\ \A b \in Cubes \ {c} :
             programs'[b] = programs[b] /\ programs_table'[b] = programs_table[b]
    BY <1>t, <1>w, <2>1 DEF SetSlot
  <2>4. \A l \in Lists, i \in Slots : Alive(c) => SlotFollows(c, l, i)
    BY <1>t, <2>1, <2>3 DEF SlotFollows
  <2>5. todo'[c] \subseteq todo[c] /\ \A b \in Cubes \ {c} : todo'[b] = todo[b]
    BY <1>t, <2>1 DEF Done
  <2> QED BY <2>1, <2>3, <2>4, <2>5, SlotStepKeeps
<1>10. CASE TwinCrash(c, w)
  <2>1. UNCHANGED <<panelVars, index, phase, programs, programs_table, todo>>
    BY <1>10 DEF TwinCrash
  <2>4. \A l \in Lists, i \in Slots : Alive(c) => SlotFollows(c, l, i)
    BY <2>1 DEF SlotFollows
  <2> QED BY <2>1, <2>4, SlotStepKeeps
<1>11. CASE RemoveDone(c, w)
  <2>1. /\ w.op = "remove" /\ PanelRemove(CubeType[c], index[c][w.list]) /\ Done(c, w)
        /\ UNCHANGED <<index, phase, programs, programs_table>>
    BY <1>11 DEF RemoveDone
  <2>2. /\ phase[c] = "destroying" /\ w.list \in Dirs /\ w = RemoveWork(w.list)
        /\ index[c][w.list] # 0
    BY <1>t, <2>1 DEF TypeInv, WorkOK
  <2>3. Owns(c, w.list)
    BY <2>2 DEF Owns
  <2>4. /\ todo'[c] = todo[c] \ {RemoveWork(w.list)}
        /\ \A b \in Cubes \ {c} : todo'[b] = todo[b]
    BY <1>t, <2>1, <2>2 DEF Done
  <2> QED BY <2>1, <2>2, <2>3, <2>4, PanelGivenBack
<1> QED BY <1>0, <1>1, <1>2, <1>3, <1>4, <1>5, <1>b, <1>6, <1>7, <1>8, <1>9, <1>10, <1>11

-----------------------------------------------------------------------------
(* The theorems.                                                           *)

\* No cube has a program and no entry is written before the first operation.
LEMMA LoadInit == Init => LoadInv
<1> SUFFICES ASSUME Init PROVE LoadInv
  OBVIOUS
<1>1. IndexInv
  BY IndexInit
<1>2. /\ \A c \in Cubes : /\ phase[c] = "absent" /\ programs[c] = NoPrograms
                          /\ \A d \in Dirs : index[c][d] = 0
      /\ \A l \in Lists, i \in Slots : NoPrograms[l][i] = NoProg
      /\ \A i \in Indexes : nodes["xdp"][i] = NoProg /\ nodes["tc"][i] = NoProg
      /\ node_ids \subseteq Indexes
  BY MaxNodesAssumption, Names DEF Init, PanelInit, NoPrograms, NoIndex, Indexes
<1>3. CubeInv
  BY <1>2, NoProgAssumption, Names DEF CubeInv, CubeOK, SlotsKept, Alive
<1>4. LoadedRegistered /\ OtherHook /\ TailCallsCurrent
  BY <1>2 DEF LoadedRegistered, OtherHook, TailCallsCurrent, Owns, Alive
<1>5. FreeIndexOnlyTwins
  BY <1>2 DEF FreeIndexOnlyTwins
<1> QED BY <1>1, <1>3, <1>4, <1>5 DEF LoadInv, PanelInv

\* Every step keeps indexes, programs, jump tables and patch panel in step.
LEMMA LoadPreserved == LoadInv /\ [Next]_vars => LoadInv'
<1> SUFFICES ASSUME LoadInv, [Next]_vars PROVE LoadInv'
  OBVIOUS
<1>0. IndexInv /\ TypeInv /\ CubeInv /\ PanelInv /\ LoadedRegistered
  BY DEF LoadInv, IndexInv, PanelInv
<1>1. IndexInv' /\ IndexUnique'
  BY <1>0, IndexPreserved DEF IndexInv
<1>2. CASE Next
  <2>1. PICK c \in Cubes : Start(c) \/ Step(c)
    BY <1>2 DEF Next
  <2>2. CASE Start(c)
    BY <1>0, <1>1, <2>2, CubeStart, PanelStart DEF LoadInv
  <2>3. CASE Step(c)
    BY <1>0, <1>1, <2>3, CubeStep, PanelStep DEF LoadInv
  <2> QED BY <2>1, <2>2, <2>3
<1>3. CASE UNCHANGED vars
  <2>1. /\ UNCHANGED <<phase, index, programs, programs_table, level, todo, compile_failed>>
        /\ panelVars' = panelVars
    BY <1>3 DEF vars, cubeVars
  <2>2. CubeInv'
    BY <1>0, <2>1, OtherCube DEF CubeInv
  <2>3. PanelInv'
    <3>1. \A b \in Cubes, d \in Dirs : Owns(b, d)' => Owns(b, d) /\ index'[b][d] = index[b][d]
      BY <2>1 DEF Owns, RemoveWork
    <3>2. \A b \in Cubes, l \in Lists, i \in Slots : Alive(b)' => SlotFollows(b, l, i)
      BY <2>1 DEF SlotFollows, Alive
    <3> QED BY <1>0, <2>1, <3>1, <3>2, PanelKept
  <2> QED BY <1>1, <2>2, <2>3 DEF LoadInv
<1> QED BY <1>2, <1>3

\* Indexes, programs, jump tables and patch panel are in step in every state.
LEMMA LoadAlways == Spec => []LoadInv
BY LoadInit, LoadPreserved, PTL DEF Spec

\* Behind a free index of the patch panel there is nothing but TC twins, whatever
\* cubes came and went and whichever operation failed: uninit() empties the
\* entries of the cube's own hook, and nothing else is ever left on the other one.
THEOREM FreeIndexesEmpty == Spec => []FreeIndexOnlyTwins
<1>1. LoadInv => FreeIndexOnlyTwins
  BY DEF LoadInv, PanelInv
<1> QED BY <1>1, LoadAlways, PTL

\* The patch panel entry of a cube is its loaded program 0 and its jump table
\* calls the loaded programs, with any number of cubes that load, reload and fail
\* at the same time: no write of another cube, of another direction or of a twin
\* reaches the entry (do_add_program, do_reload, PatchPanel).
THEOREM TailCallsReachCurrent == Spec => []TailCallsCurrent
<1>1. LoadInv => TailCallsCurrent
  BY DEF LoadInv, PanelInv
<1> QED BY <1>1, LoadAlways, PTL

\* As long as no compilation failed, an egress program of an idle XDP cube and its
\* TC twin exist together and come from the same source (CubeXDP).
THEOREM TwinsFromOneSource == Spec => []TwinsAgree
<1>1. LoadInv => TwinsAgree
  <2>1. SUFFICES ASSUME CubeInv, NEW c \in Cubes, Idle(c), ~compile_failed[c],
                        CubeType[c] = "xdp", NEW i \in Slots
                 PROVE  /\ programs[c]["egress"][i] = NoProg
                             <=> programs[c]["egress_tc"][i] = NoProg
                        /\ Loaded(programs[c]["egress"][i]) /\ Loaded(programs[c]["egress_tc"][i])
                             => programs[c]["egress"][i].code = programs[c]["egress_tc"][i].code
    BY DEF LoadInv, TwinsAgree
  <2>2. TwinsInStep(c) /\ todo[c] = {}
    BY <2>1 DEF CubeInv, CubeOK, Idle, Alive
  <2> QED BY <2>1, <2>2 DEF TwinsInStep
<1> QED BY <1>1, LoadAlways, PTL

\* As long as no compilation failed, every program of an idle cube was compiled
\* with its log level: set_log_level() reaches every program, the twins included.
THEOREM LevelsApplied == Spec => []LevelApplied
<1>1. LoadInv => LevelApplied
  <2>1. SUFFICES ASSUME CubeInv, NEW c \in Cubes, Idle(c), ~compile_failed[c],
                        NEW l \in Lists, NEW i \in Slots, Loaded(programs[c][l][i])
                 PROVE  programs[c][l][i].level = level[c]
    BY DEF LoadInv, LevelApplied
  <2>2. LevelInStep(c) /\ todo[c] = {}
    BY <2>1 DEF CubeInv, CubeOK, Idle, Alive
  <2> QED BY <2>1, <2>2 DEF LevelInStep
<1> QED BY <1>1, LoadAlways, PTL
=============================================================================
