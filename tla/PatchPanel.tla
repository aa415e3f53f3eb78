----------------------------- MODULE PatchPanel -----------------------------
(***************************************************************************)
(* The patch panel of polycubed (src/polycubed/src/patchpanel.{h,cpp}):    *)
(* one BPF program table per hook ("nodes" for TC, "xdp_nodes" for XDP),   *)
(* through which every cube tail-calls the next one.  The set of free      *)
(* indexes is shared by the two hooks; the presence flags are per hook.    *)
(*                                                                         *)
(* The operations are action fragments: a caller conjoins exactly one of   *)
(* them with what it does to its own state.                                *)
(***************************************************************************)
EXTENDS Integers, FiniteSets

CONSTANTS
  MaxNodes,   \* _POLYCUBE_MAX_NODES, 1024 in the code
  NoProg      \* an empty entry of a program table

ASSUME MaxNodesAssumption == MaxNodes \in Nat \ {0, 1}

VARIABLES
  node_ids,       \* free indexes (static: shared by both hooks)
  nodes_present,  \* nodes_present[h][i]: nodes_present_tc_ / nodes_present_xdp_
  nodes           \* nodes[h][i]: the program the kernel runs on a tail call to i

panelVars == <<node_ids, nodes_present, nodes>>

Hooks == {"tc", "xdp"}

\* Index 0 is never handed out: everywhere in polycubed it means "no index".
Indexes == 0 .. MaxNodes - 1

PanelInit ==
  /\ node_ids = 1 .. MaxNodes - 1
  /\ nodes_present = [h \in Hooks |-> [i \in Indexes |-> FALSE]]
  /\ nodes = [h \in Hooks |-> [i \in Indexes |-> NoProg]]

\* *node_ids_.begin().  The code does not test for an empty set: it reads the
\* word behind the tree header, which in libstdc++ is the element count, so an
\* exhausted panel hands out index 0.
FirstFree ==
  IF node_ids = {} THEN 0
  ELSE CHOOSE i \in node_ids : \A j \in node_ids : i <= j

\* Mutant of PanelAdd: the index is not taken out of the free set.
PanelAddKeepsFree(h, p) ==
  /\ nodes' = [nodes EXCEPT ![h][FirstFree] = p]
  /\ nodes_present' = [nodes_present EXCEPT ![h][FirstFree] = TRUE]
  /\ UNCHANGED node_ids

\* uint16_t add(int fd): returns FirstFree
PanelAdd(h, p) ==
  /\ node_ids' = node_ids \ {FirstFree}
  /\ nodes' = [nodes EXCEPT ![h][FirstFree] = p]
  /\ nodes_present' = [nodes_present EXCEPT ![h][FirstFree] = TRUE]

\* void add(int fd, uint16_t index), when it does not throw "Index is busy"
PanelAddAt(h, i, p) ==
  /\ ~nodes_present[h][i]
  /\ node_ids' = node_ids \ {i}
  /\ nodes' = [nodes EXCEPT ![h][i] = p]
  /\ nodes_present' = [nodes_present EXCEPT ![h][i] = TRUE]

\* Mutant of PanelRemove: the index is not returned to the free set.
PanelRemoveKeepsIndex(h, i) ==
  /\ nodes' = [nodes EXCEPT ![h][i] = NoProg]
  /\ nodes_present' = [g \in Hooks |-> [nodes_present[g] EXCEPT ![i] = FALSE]]
  /\ UNCHANGED node_ids

\* Mutant of PanelRemove: the program stays in the table.
PanelRemoveKeepsProgram(h, i) ==
  /\ nodes_present' = [g \in Hooks |-> [nodes_present[g] EXCEPT ![i] = FALSE]]
  /\ node_ids' = node_ids \cup {i}
  /\ UNCHANGED nodes

\* void remove(uint16_t index): empties the entry of this hook only, but drops
\* the presence flag of both hooks.
PanelRemove(h, i) ==
  /\ nodes' = [nodes EXCEPT ![h][i] = NoProg]
  /\ nodes_present' = [g \in Hooks |-> [nodes_present[g] EXCEPT ![i] = FALSE]]
  /\ node_ids' = node_ids \cup {i}

\* Mutant of PanelUpdate: the table is not written.
PanelUpdateForgotten(h, i, p) == nodes_present[h][i] /\ UNCHANGED panelVars

\* void update(uint16_t index, int fd), when it does not throw
\* "Index is not registered"
PanelUpdate(h, i, p) ==
  /\ nodes_present[h][i]
  /\ nodes' = [nodes EXCEPT ![h][i] = p]
  /\ UNCHANGED <<node_ids, nodes_present>>

=============================================================================
