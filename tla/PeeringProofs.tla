---------------------------- MODULE PeeringProofs ----------------------------
(***************************************************************************)
(* Theorems about Peering, with their proofs, for any number of workers,   *)
(* ports, cubes and interfaces.  The first part is about any operations at *)
(* the same time and any interleaving of their steps, the second about one *)
(* client and the netlink listener, in any interleaving.                   *)
(***************************************************************************)
EXTENDS Peering, FiniteSetTheorems, SequenceTheorems, TLAPS

\* A pointer to a port or an interface.
Pointers == Ends \cup {NoPeer, Dangling}

Ops == {"none", "set_peer", "connect", "disconnect", "add_port", "remove_port",
        "destroy_cube", "netlink"}
Places == {"check", "read", "unlink", "unlink_other", "used", "forget", "resolve",
           "link_other", "assign", "hung"}

Tasks == [op : Ops, script : Seq(Commands), pc : Places, old : Pointers, ref : Pointers]

-----------------------------------------------------------------------------
(* The inductive invariant.                                                *)

\* Interfaces are linked to ports only.
Typed ==
  /\ ports \subseteq Ports /\ available \subseteq Netdevs
  /\ link \in [Ends -> Pointers]
  /\ \A n \in Netdevs : link[n] \notin Netdevs
  /\ ports_to_ports \in [Ports -> Ports \cup {NoPeer}]
  /\ task \in [Threads -> Tasks]
  /\ failures \in Nat

\* A thread without an operation has no script, and one that is inside
\* set_port_peer runs the command "set".
InScript ==
  \A t \in Threads :
    /\ task[t].op = "none" => task[t].script = <<>>
    /\ task[t].pc # "check" => task[t].script # <<>> /\ Now(t).cmd = "set"

Linking(t)   == task[t].pc = "link_other"
Unlinking(t) == task[t].pc = "unlink_other"

\* One of the two ports was first given the other, and both were given a port.
Chosen(p, q) ==
  /\ ports_to_ports[p] \in Ports /\ ports_to_ports[q] \in Ports
  /\ ports_to_ports[p] = q \/ ports_to_ports[q] = p

\* A half-made link: its thread owns the mutex, and two ports have chosen each
\* other.
HalfLinks ==
  \A t \in Threads : Linking(t) =>
    /\ mutex = t /\ Now(t).to \in Ends
    /\ Now(t).to \in Ports => Chosen(Now(t).on, Now(t).to)

\* Ports are linked to ports that they have chosen.
LinksChosen == \A p, q \in Ports : link[p] = q => Chosen(p, q)

\* Somebody is about to link interface n back to port p.
AboutToLink(p, n) == \E t \in Threads : Linking(t) /\ Now(t).on = p /\ Now(t).to = n

\* An interface whose link is half made has none yet.
NotYetLinked ==
  \A t \in Threads : Linking(t) /\ Now(t).to \in Netdevs => link[Now(t).to] = NoPeer

\* An interface is linked back to the port that is linked to it, or will be.
LinkedBack ==
  \A p \in Ports, n \in Netdevs : link[p] = n => link[n] = p \/ AboutToLink(p, n)

\* While a thread is about to unlink an interface, it is not free, no port is
\* linked to it, and no other thread is about to unlink it.
UnlinkedOnce ==
  \A t \in Threads, n \in Netdevs : Unlinking(t) /\ task[t].ref = n =>
    /\ link[n] # NoPeer \/ \E p \in Ports : AboutToLink(p, n)
    /\ \A p \in Ports : link[p] # n
    /\ \A u \in Threads : Unlinking(u) /\ task[u].ref = n => u = t

\* The part that needs every program to load.
Exclusive == failures = 0 => NotYetLinked /\ LinkedBack /\ UnlinkedOnce

Inv == Typed /\ InScript /\ HalfLinks /\ LinksChosen /\ Exclusive

-----------------------------------------------------------------------------
(* Scripts and tasks.                                                      *)

\* The command a thread runs.
LEMMA NowCommand ==
  ASSUME Typed, NEW t \in Threads, task[t].script # <<>>
  PROVE  /\ Now(t).to \in Ends \cup {NoPeer}
         /\ Now(t).cmd \in {"set", "erase", "destroy"} => Now(t).on \in Ports
         /\ Now(t).cmd = "forget_iface" => Now(t).on \in Netdevs
         /\ Tail(task[t].script) \in Seq(Commands)
<1>1. task[t].script \in Seq(Commands)
  BY DEF Typed, Tasks
<1>2. Now(t) \in Commands /\ Tail(task[t].script) \in Seq(Commands)
  BY <1>1, HeadTailProperties DEF Now
<1>3. \A c \in Commands : /\ c.to \in Ends \cup {NoPeer}
                          /\ c.cmd \in {"set", "erase", "destroy"} => c.on \in Ports
                          /\ c.cmd = "forget_iface" => c.on \in Netdevs
  BY DEF Commands, Set, Erase, Destroy, ForgetIface
<1> QED BY <1>2, <1>3

\* What a step of thread t does to the tasks, when it makes them tk: the other
\* threads keep their place, and may lose a copy of a pointer.
Moved(t, tk) ==
  /\ tk \in [Threads -> Tasks]
  /\ \A u \in Threads \ {t} :
       /\ tk[u].pc = task[u].pc /\ tk[u].script = task[u].script /\ tk[u].op = task[u].op
       /\ tk[u].ref \in {task[u].ref, Dangling}
  /\ tk[t].op = "none" => tk[t].script = <<>>
  /\ tk[t].pc # "check" => /\ tk[t].script = task[t].script
                           /\ task[t].script # <<>> /\ Now(t).cmd = "set"

\* A thread that stays in its script.
LEMMA NewRecord ==
  ASSUME Typed, InScript, NEW t \in Threads, task[t].script # <<>>, Now(t).cmd = "set",
         NEW rec \in Tasks, rec.script = task[t].script, rec.op = task[t].op,
         NEW tk, tk = [task EXCEPT ![t] = rec]
  PROVE  Moved(t, tk) /\ tk[t] = rec
<1>1. task \in [Threads -> Tasks]
  BY DEF Typed
<1>2. tk[t] = rec /\ \A u \in Threads \ {t} : tk[u] = task[u]
  BY <1>1
<1>3. tk \in [Threads -> Tasks]
  BY <1>1
<1>4. tk[t].op = "none" => tk[t].script = <<>>
  BY <1>2 DEF InScript
<1> QED BY <1>2, <1>3, <1>4 DEF Moved

\* A thread that goes to another place of set_port_peer.
LEMMA NewPlace ==
  ASSUME Typed, InScript, NEW t \in Threads, task[t].script # <<>>, Now(t).cmd = "set",
         NEW v \in Places, NEW tk, tk = [task EXCEPT ![t].pc = v]
  PROVE  Moved(t, tk) /\ tk[t].pc = v /\ tk[t].script = task[t].script
<1> DEFINE rec == [task[t] EXCEPT !.pc = v]
<1>1. task[t] \in Tasks
  BY DEF Typed
<1>2. /\ rec \in Tasks /\ rec.pc = v /\ rec.script = task[t].script /\ rec.op = task[t].op
  BY <1>1 DEF Tasks
<1>3. \A f : f = [task EXCEPT ![t] = rec] => Moved(t, f) /\ f[t] = rec
  <2> HIDE DEF rec
  <2> QED BY <1>2, NewRecord
<1> QED BY <1>2, <1>3

\* A thread that gets a new script.
LEMMA NewScript ==
  ASSUME Typed, NEW t \in Threads, NEW op \in Ops, NEW s \in Seq(Commands),
         op = "none" => s = <<>>
  PROVE  LET tk == [task EXCEPT ![t] = Doing(op, s)]
         IN Moved(t, tk) /\ tk[t].pc = "check"
<1> DEFINE tk == [task EXCEPT ![t] = Doing(op, s)]
<1>1. task \in [Threads -> Tasks]
  BY DEF Typed
<1>2. /\ Doing(op, s) \in Tasks /\ Doing(op, s).pc = "check"
      /\ Doing(op, s).op = op /\ Doing(op, s).script = s
  <2>1. NoPeer \in Pointers /\ "check" \in Places
    BY DEF Pointers, Places
  <2> QED BY <2>1 DEF Doing, Tasks
<1>3. tk[t] = Doing(op, s) /\ \A u \in Threads \ {t} : tk[u] = task[u]
  BY <1>1
<1>4. tk \in [Threads -> Tasks]
  BY <1>1, <1>2
<1> HIDE DEF tk
<1> QED BY <1>2, <1>3, <1>4 DEF Moved, tk

\* A thread that goes on with the rest of its script, or has none.
LEMMA GoOnMoves ==
  ASSUME Typed, InScript, NEW t \in Threads, task[t].script # <<>>,
         NEW s \in Seq(Commands)
  PROVE  LET tk == [task EXCEPT ![t] = IF s = <<>> THEN Idle ELSE Doing(task[t].op, s)]
         IN Moved(t, tk) /\ tk[t].pc = "check"
<1>1. <<>> \in Seq(Commands)
  OBVIOUS
<1>2. CASE s = <<>>
  <2>1. "none" \in Ops
    BY DEF Ops
  <2>2. LET tk == [task EXCEPT ![t] = Doing("none", <<>>)]
        IN Moved(t, tk) /\ tk[t].pc = "check"
    BY <1>1, <2>1, NewScript
  <2> QED BY <1>2, <2>2 DEF Idle
<1>3. CASE s # <<>>
  <2>1. task[t].op \in Ops /\ task[t].op # "none"
    BY DEF Typed, Tasks, InScript
  <2> QED BY <1>3, <2>1, NewScript
<1> QED BY <1>2, <1>3

\* The last holder of a port goes on with its destructor.
LEMMA LetGoMoves ==
  ASSUME Typed, InScript, NEW t \in Threads, task[t].script # <<>>,
         NEW p \in Ports, NEW rest \in Seq(Commands), NEW inMap, LetGo(t, p, rest, inMap)
  PROVE  Moved(t, task') /\ task'[t].pc = "check"
<1>1. Set(p, NoPeer) \in Commands /\ Destroy(p) \in Commands
  BY DEF Commands
<1>2. Destructor(p) \in Seq(Commands)
  BY <1>1 DEF Destructor
<1>3. Destructor(p) \o rest \in Seq(Commands)
  BY <1>2, ConcatProperties
<1>4. PICK s \in Seq(Commands) : GoOn(t, s)
  BY <1>3 DEF LetGo
<1> QED BY <1>4, GoOnMoves DEF GoOn

\* Dropping the copies of a pointer moves no thread.
LEMMA CopiesDropped ==
  ASSUME NEW t \in Threads, NEW tk, Moved(t, tk), NEW d \in Ends
  PROVE  LET out == WithoutCopies(d, tk)
         IN /\ Moved(t, out) /\ out[t].pc = tk[t].pc
            /\ \A u \in Threads : out[u].ref # d
<1> DEFINE out == WithoutCopies(d, tk)
<1>1. tk \in [Threads -> Tasks]
  BY DEF Moved
<1>2. ASSUME NEW u \in Threads
      PROVE  /\ out[u] \in Tasks /\ out[u].pc = tk[u].pc /\ out[u].script = tk[u].script
             /\ out[u].op = tk[u].op
             /\ out[u].ref = IF tk[u].ref = d THEN Dangling ELSE tk[u].ref
  <2>1. tk[u] \in Tasks
    BY <1>1
  <2> QED BY <2>1 DEF WithoutCopies, Tasks, Pointers
<1>3. out \in [Threads -> Tasks]
  BY <1>2 DEF WithoutCopies
<1>4. d # Dangling
  BY MarksAssumption
<1> HIDE DEF out
<1>5. \A u \in Threads : out[u].ref # d /\ out[u].ref \in {tk[u].ref, Dangling}
  BY <1>2, <1>4
<1> QED BY <1>2, <1>3, <1>5 DEF Moved, out

-----------------------------------------------------------------------------
(* Steps that make no link.                                                *)

\* The first choices of ports stay, and may be added to.
Grows == \A p \in Ports : ports_to_ports[p] \in Ports => ports_to_ports'[p] = ports_to_ports[p]

\* A half-made link of the next state is one of this state.
StillLinking ==
  \A u \in Threads : task'[u].pc = "link_other" =>
    Linking(u) /\ task'[u].script = task[u].script /\ mutex' = mutex

\* All the half-made links go on as before.
SameLinking == StillLinking /\ \A u \in Threads : Linking(u) => task'[u].pc = "link_other"

\* No thread gets to the point where it unlinks an interface.
NoMoreUnlinking ==
  \A u \in Threads, n \in Netdevs : task'[u].pc = "unlink_other" /\ task'[u].ref = n
    => Unlinking(u) /\ task[u].ref = n

\* The choice of two ports for each other stays.
LEMMA ChosenStays ==
  ASSUME Typed, Typed', Grows, NEW p \in Ports, NEW q \in Ports, Chosen(p, q)
  PROVE  Chosen(p, q)'
<1>1. ports_to_ports'[p] = ports_to_ports[p] /\ ports_to_ports'[q] = ports_to_ports[q]
  BY DEF Grows, Chosen
<1> QED BY <1>1 DEF Chosen

\* A step of a thread keeps scripts and places together.
LEMMA InScriptKept ==
  ASSUME InScript, NEW t \in Threads, Moved(t, task')
  PROVE  InScript'
<1>1. ASSUME NEW u \in Threads
      PROVE  /\ task'[u].op = "none" => task'[u].script = <<>>
             /\ task'[u].pc # "check" => task'[u].script # <<>> /\ Head(task'[u].script).cmd = "set"
  <2>1. CASE u = t
    BY <2>1 DEF Moved, Now
  <2>2. CASE u # t
    BY <2>2 DEF Moved, InScript, Now
  <2> QED BY <2>1, <2>2
<1> QED BY <1>1 DEF InScript, Now

\* A step that makes no link keeps half-made links.
LEMMA HalfLinksKept ==
  ASSUME Inv, Grows, StillLinking
  PROVE  HalfLinks'
<1>0. Typed /\ InScript
  BY DEF Inv
<1>2. ASSUME NEW t \in Threads, Linking(t)'
      PROVE  mutex' = t /\ Now(t)'.to \in Ends /\ (Now(t)'.to \in Ports => Chosen(Now(t).on, Now(t).to)')
  <2>1. Linking(t) /\ Now(t)' = Now(t) /\ mutex' = mutex
    BY <1>2 DEF StillLinking, Linking, Now
  <2>2. mutex = t /\ Now(t).to \in Ends /\ (Now(t).to \in Ports => Chosen(Now(t).on, Now(t).to))
    BY <2>1 DEF Inv, HalfLinks
  <2>3. Now(t).on \in Ports
    <3>1. task[t].script # <<>> /\ Now(t).cmd = "set"
      BY <1>0, <2>1 DEF InScript, Linking
    <3> QED BY <1>0, <3>1, NowCommand
  <2>4. ASSUME Now(t).to \in Ports PROVE Chosen(Now(t).on, Now(t).to)'
    <3> DEFINE p == Now(t).on
               q == Now(t).to
    <3>1. /\ ports_to_ports'[p] = ports_to_ports[p] /\ ports_to_ports'[q] = ports_to_ports[q]
          /\ Chosen(p, q)
      BY <2>2, <2>3, <2>4 DEF Grows, Chosen
    <3>2. Now(t)'.on = p /\ Now(t)'.to = q
      BY <2>1
    <3> QED BY <3>1, <3>2 DEF Chosen
  <2> QED BY <2>1, <2>2, <2>4
<1> QED BY <1>2 DEF HalfLinks

\* A step that links ports only when they have chosen each other.
LEMMA LinksChosenKept ==
  ASSUME Inv, Typed', Grows,
         \A p, q \in Ports : link'[p] = q => link[p] = q \/ Chosen(p, q)'
  PROVE  LinksChosen'
<1>1. ASSUME NEW p \in Ports, NEW q \in Ports, link'[p] = q PROVE Chosen(p, q)'
  BY <1>1, ChosenStays DEF Inv, LinksChosen
<1> QED BY <1>1 DEF LinksChosen

\* A step that makes no link keeps the interfaces exclusive, if it frees an
\* interface only when no port and no thread has it.
LEMMA ExclusiveKept ==
  ASSUME Inv, SameLinking, NoMoreUnlinking, NotYetLinked, LinkedBack, UnlinkedOnce,
         \A p \in Ports, n \in Netdevs : link'[p] = n => link[p] = n,
         \A n \in Netdevs : link[n] = NoPeer => link'[n] = NoPeer,
         \A p \in Ports, n \in Netdevs : link'[p] = n /\ link[n] = p => link'[n] = p,
         \A u \in Threads, n \in Netdevs :
           task'[u].pc = "unlink_other" /\ task'[u].ref = n /\ link[n] # NoPeer => link'[n] # NoPeer
  PROVE  NotYetLinked' /\ LinkedBack' /\ UnlinkedOnce'
<1>0. \A u \in Threads : /\ Linking(u)' <=> Linking(u)
                         /\ Linking(u) => Now(u)' = Now(u)
  BY DEF SameLinking, StillLinking, Linking, Now
<1>1. NotYetLinked'
  BY <1>0 DEF NotYetLinked
<1>2. \A p, n : AboutToLink(p, n) =>
        \E t \in Threads : Linking(t)' /\ Now(t)'.on = p /\ Now(t)'.to = n
  BY <1>0 DEF AboutToLink
<1>3. ASSUME NEW p \in Ports, NEW n \in Netdevs, link'[p] = n
      PROVE  link'[n] = p \/ AboutToLink(p, n)'
  <2>1. link[n] = p \/ AboutToLink(p, n)
    BY <1>3 DEF LinkedBack
  <2>2. CASE link[n] = p
    BY <1>3, <2>2
  <2>3. CASE AboutToLink(p, n)
    BY <1>2, <2>3 DEF AboutToLink
  <2> QED BY <2>1, <2>2, <2>3
<1>4. ASSUME NEW t \in Threads, NEW n \in Netdevs, Unlinking(t)', task'[t].ref = n
      PROVE  /\ link'[n] # NoPeer \/ \E p \in Ports : AboutToLink(p, n)'
             /\ \A p \in Ports : link'[p] # n
             /\ \A u \in Threads : Unlinking(u)' /\ task'[u].ref = n => u = t
  <2>1. Unlinking(t) /\ task[t].ref = n
    BY <1>4 DEF NoMoreUnlinking, Unlinking
  <2>2. /\ link[n] # NoPeer \/ \E p \in Ports : AboutToLink(p, n)
        /\ \A p \in Ports : link[p] # n
        /\ \A u \in Threads : Unlinking(u) /\ task[u].ref = n => u = t
    BY <2>1 DEF UnlinkedOnce
  <2>3. link'[n] # NoPeer \/ \E p \in Ports : AboutToLink(p, n)'
    <3>1. CASE link[n] # NoPeer
      BY <1>4, <3>1 DEF Unlinking
    <3>2. ASSUME NEW p \in Ports, AboutToLink(p, n) PROVE AboutToLink(p, n)'
      BY <1>2, <3>2 DEF AboutToLink
    <3> QED BY <2>2, <3>1, <3>2
  <2>4. \A u \in Threads : Unlinking(u)' /\ task'[u].ref = n => u = t
    BY <2>2 DEF NoMoreUnlinking, Unlinking
  <2> QED BY <2>2, <2>3, <2>4
<1>5. LinkedBack'
  BY <1>3 DEF LinkedBack
<1>6. UnlinkedOnce'
  BY <1>4 DEF UnlinkedOnce
<1> QED BY <1>1, <1>5, <1>6

\* A step of t that neither starts nor ends a half-made link.
LEMMA MovedSameLinking ==
  ASSUME Inv, NEW t \in Threads, Moved(t, task'),
         ~Linking(t), task'[t].pc \notin {"link_other", "unlink_other"},
         mutex' = mutex \/ mutex \in {t, NoThread}
  PROVE  SameLinking /\ NoMoreUnlinking
<1>1. ASSUME NEW u \in Threads
      PROVE  /\ task'[u].pc = "link_other" <=> Linking(u)
             /\ Linking(u) => task'[u].script = task[u].script /\ mutex' = mutex
  <2>1. CASE u = t
    BY <2>1
  <2>2. CASE u # t
    <3>1. task'[u].pc = task[u].pc /\ task'[u].script = task[u].script
      BY <2>2 DEF Moved
    <3>2. Linking(u) => mutex = u
      BY DEF Inv, HalfLinks
    <3>3. u # NoThread
      BY ThreadsAssumption
    <3> QED BY <2>2, <3>1, <3>2, <3>3 DEF Linking
  <2> QED BY <2>1, <2>2
<1>2. ASSUME NEW u \in Threads, NEW n \in Netdevs, task'[u].pc = "unlink_other", task'[u].ref = n
      PROVE  Unlinking(u) /\ task[u].ref = n
  <2>1. u # t
    BY <1>2
  <2>2. n # Dangling
    BY MarksAssumption DEF Ends
  <2> QED BY <1>2, <2>1, <2>2 DEF Moved, Unlinking
<1>3. SameLinking
  BY <1>1 DEF SameLinking, StillLinking
<1>4. NoMoreUnlinking
  BY <1>2 DEF NoMoreUnlinking
<1> QED BY <1>3, <1>4

\* A step of t that leaves the links alone.
LEMMA LinksAlone ==
  ASSUME Inv, Typed', NEW t \in Threads, Moved(t, task'),
         ~Linking(t), task'[t].pc \notin {"link_other", "unlink_other"},
         mutex' = mutex \/ mutex \in {t, NoThread},
         Grows, link' = link, failures' = failures
  PROVE  Inv'
<1>1. SameLinking /\ NoMoreUnlinking
  BY MovedSameLinking
<1>2. InScript'
  BY InScriptKept DEF Inv
<1>3. HalfLinks' /\ LinksChosen'
  BY <1>1, HalfLinksKept, LinksChosenKept DEF SameLinking
<1>4. Exclusive'
  BY <1>1, ExclusiveKept DEF Inv, Exclusive
<1> QED BY <1>2, <1>3, <1>4 DEF Inv

\* A step that frees object d: pointers to it dangle.
LEMMA ObjectFreed ==
  ASSUME Inv, Typed', InScript', SameLinking, NoMoreUnlinking,
         Grows, NEW d \in Ends, link' = Severed(d), failures' = failures,
         \A u \in Threads : task'[u].ref # d
  PROVE  Inv'
<1>0. /\ link \in [Ends -> Pointers] /\ Ports \cap Netdevs = {} /\ NoPeer # Dangling
      /\ Ports \subseteq Ends /\ Netdevs \subseteq Ends
      /\ NoPeer \notin Ends /\ Dangling \notin Ends
  BY EndsAssumption, MarksAssumption DEF Inv, Typed, Ends
<1>3. \A e \in Ends : link'[e] = IF e = d THEN NoPeer ELSE IF link[e] = d THEN Dangling ELSE link[e]
  BY DEF Severed
<1>4. \A e \in Ends, f \in Ends : link'[e] = f => link[e] = f /\ e # d /\ f # d
  BY <1>0, <1>3
<1>5. HalfLinks' /\ LinksChosen'
  BY <1>0, <1>4, HalfLinksKept, LinksChosenKept DEF SameLinking
<1>6. /\ \A p \in Ports, n \in Netdevs : link'[p] = n => link[p] = n
      /\ \A n \in Netdevs : link[n] = NoPeer => link'[n] = NoPeer
      /\ \A p \in Ports, n \in Netdevs : link'[p] = n /\ link[n] = p => link'[n] = p
      /\ \A u \in Threads, n \in Netdevs :
           task'[u].pc = "unlink_other" /\ task'[u].ref = n /\ link[n] # NoPeer => link'[n] # NoPeer
  BY <1>0, <1>3, <1>4
<1>7. Exclusive'
  BY <1>6, ExclusiveKept DEF Inv, Exclusive
<1> QED BY <1>5, <1>7 DEF Inv

\* A step of t that fails to relink: its exception ends the half-made link.
LEMMA RelinkingFailed ==
  ASSUME Inv, Typed', NEW t \in Threads, Moved(t, task'), task'[t].pc = "check",
         mutex' = mutex \/ mutex \in {t, NoThread},
         Grows, failures' = failures + 1,
         \A p, q \in Ports : link'[p] = q => link[p] = q \/ Chosen(p, q)'
  PROVE  Inv'
<1>1. StillLinking
  <2>1. ASSUME NEW u \in Threads, task'[u].pc = "link_other"
        PROVE  Linking(u) /\ task'[u].script = task[u].script /\ mutex' = mutex
    <3>1. u # t
      BY <2>1
    <3>2. Linking(u) /\ task'[u].script = task[u].script
      BY <2>1, <3>1 DEF Moved, Linking
    <3>3. mutex = u /\ u # NoThread
      BY <3>2, ThreadsAssumption DEF Inv, HalfLinks
    <3> QED BY <3>1, <3>2, <3>3
  <2> QED BY <2>1 DEF StillLinking
<1>2. InScript'
  BY InScriptKept DEF Inv
<1>3. HalfLinks' /\ LinksChosen'
  BY <1>1, HalfLinksKept, LinksChosenKept
<1>4. Exclusive'
  <2>1. failures' # 0
    BY DEF Inv, Typed
  <2> QED BY <2>1 DEF Exclusive
<1> QED BY <1>2, <1>3, <1>4 DEF Inv

\* The types of the next state.
LEMMA TypedKept ==
  ASSUME Typed, NEW t \in Threads, Moved(t, task'),
         ports' \subseteq Ports, available' \subseteq Netdevs, failures' \in Nat,
         link' \in [Ends -> Pointers], \A n \in Netdevs : link'[n] \notin Netdevs,
         ports_to_ports' \in [Ports -> Ports \cup {NoPeer}]
  PROVE  Typed'
BY DEF Typed, Moved

\* An exception of set_peer: the thread ends its script, and the mutex is free
\* if it had it.
LEMMA Thrown ==
  ASSUME Inv, NEW t \in Threads, task[t].script # <<>>, Now(t).cmd = "set", Throw(t)
  PROVE  /\ Moved(t, task') /\ task'[t].pc = "check" /\ ports' \subseteq Ports
         /\ mutex' = mutex \/ mutex \in {t, NoThread}
<1>1. Typed /\ InScript /\ Now(t).on \in Ports /\ <<>> \in Seq(Commands)
  BY NowCommand DEF Inv
<1>2. ports' \subseteq Ports
  BY <1>1 DEF Throw, Typed
<1>3. mutex' = mutex \/ mutex \in {t, NoThread}
  BY DEF Throw, Release
<1>4. \E inMap : LetGo(t, Now(t).on, <<>>, inMap)
  BY DEF Throw
<1>5. Moved(t, task') /\ task'[t].pc = "check"
  BY <1>1, <1>4, LetGoMoves
<1> QED BY <1>2, <1>3, <1>5

-----------------------------------------------------------------------------
(* The steps of set_peer and set_port_peer.                                *)

\* Inside the command "set" of a thread.
LEMMA InSet ==
  ASSUME Inv, NEW t \in Threads, NEW v, At(t, v)
  PROVE  /\ Typed /\ InScript /\ task[t].script # <<>> /\ Now(t).cmd = "set" /\ task[t].pc = v
         /\ Now(t).on \in Ports /\ Now(t).to \in Ends \cup {NoPeer}
         /\ Tail(task[t].script) \in Seq(Commands)
BY NowCommand DEF At, Inv

\* Steps that change neither links nor choices of ports.
LEMMA OnlyTask ==
  ASSUME Inv, NEW t \in Threads, Moved(t, task'),
         ~Linking(t), task'[t].pc \notin {"link_other", "unlink_other"},
         mutex' = mutex \/ mutex \in {t, NoThread},
         ports' \subseteq Ports, available' \subseteq Netdevs,
         link' = link, ports_to_ports' = ports_to_ports, failures' = failures
  PROVE  Inv'
<1>1. Typed'
  BY TypedKept DEF Inv, Typed
<1>2. Grows
  BY DEF Grows
<1> QED BY <1>1, <1>2, LinksAlone

\* PortGone keeps the invariant.
LEMMA PortGoneInv ==
  ASSUME Inv, NEW t \in Threads, PortGone(t)
  PROVE  Inv'
<1>1. At(t, "check") /\ GoOn(t, <<>>)
  BY DEF PortGone
<1>in. /\ Typed /\ InScript /\ task[t].script # <<>> /\ Now(t).cmd = "set" /\ ~Linking(t)
      /\ Now(t).on \in Ports /\ Tail(task[t].script) \in Seq(Commands)
  BY <1>1, InSet DEF Linking
<1>2. Moved(t, task') /\ task'[t].pc = "check" /\ ~Linking(t)
  <2>1. <<>> \in Seq(Commands)
    OBVIOUS
  <2> QED BY <1>1, <2>1, <1>in, GoOnMoves DEF GoOn
<1> QED BY <1>2, OnlyTask DEF PortGone, portVars, netVars, Inv, Typed

\* SetPeerSame keeps the invariant.
LEMMA SetPeerSameInv ==
  ASSUME Inv, NEW t \in Threads, SetPeerSame(t)
  PROVE  Inv'
<1>1. At(t, "check") /\ LetGo(t, Now(t).on, Tail(task[t].script), Now(t).on \in ports)
  BY DEF SetPeerSame, EntersSetPeer
<1>in. /\ Typed /\ InScript /\ task[t].script # <<>> /\ Now(t).cmd = "set" /\ ~Linking(t)
      /\ Now(t).on \in Ports /\ Tail(task[t].script) \in Seq(Commands)
  BY <1>1, InSet DEF Linking
<1>2. Moved(t, task') /\ task'[t].pc = "check" /\ ~Linking(t)
  BY <1>1, <1>in, LetGoMoves
<1> QED BY <1>2, OnlyTask DEF SetPeerSame, portVars, netVars, Inv, Typed

\* Assigns keeps the invariant.
LEMMA AssignsInv ==
  ASSUME Inv, NEW t \in Threads, Assigns(t)
  PROVE  Inv'
<1>1. At(t, "assign") /\ LetGo(t, Now(t).on, Tail(task[t].script), Now(t).on \in ports)
  BY DEF Assigns
<1>in. /\ Typed /\ InScript /\ task[t].script # <<>> /\ Now(t).cmd = "set" /\ ~Linking(t)
      /\ Now(t).on \in Ports /\ Tail(task[t].script) \in Seq(Commands)
  BY <1>1, InSet DEF Linking
<1>2. Moved(t, task') /\ task'[t].pc = "check" /\ ~Linking(t)
  BY <1>1, <1>in, LetGoMoves
<1> QED BY <1>2, OnlyTask DEF Assigns, portVars, netVars, Inv, Typed

\* SetPeerDiffers keeps the invariant.
LEMMA SetPeerDiffersInv ==
  ASSUME Inv, NEW t \in Threads, SetPeerDiffers(t)
  PROVE  Inv'
<1>1. At(t, "check") /\ task' = [task EXCEPT ![t].pc = "read"]
  BY DEF SetPeerDiffers, EntersSetPeer
<1>2. "read" \in Places
  BY DEF Places
<1>in. /\ Typed /\ InScript /\ task[t].script # <<>> /\ Now(t).cmd = "set" /\ ~Linking(t)
      /\ Now(t).on \in Ports /\ Tail(task[t].script) \in Seq(Commands)
  BY <1>1, InSet DEF Linking
<1>3. Moved(t, task') /\ task'[t].pc = "read" /\ ~Linking(t)
  BY <1>1, <1>2, <1>in, NewPlace
<1> QED BY <1>3, OnlyTask DEF SetPeerDiffers, portVars, netVars, Inv, Typed

\* ReadLink keeps the invariant.
LEMMA ReadLinkInv ==
  ASSUME Inv, NEW t \in Threads, ReadLink(t)
  PROVE  Inv'
<1> DEFINE l == link[Now(t).on]
           v == IF l = NoPeer THEN "resolve" ELSE "unlink"
           rec == [task[t] EXCEPT !.old = l, !.pc = v]
<1>1. At(t, "read") /\ task' = [task EXCEPT ![t] = rec]
  BY DEF ReadLink
<1>2. l \in Pointers /\ v \in Places /\ v \notin {"link_other", "unlink_other"} /\ task[t] \in Tasks
  BY <1>1, InSet DEF Typed, Ends, Places
<1> HIDE DEF l, v
<1>3. rec \in Tasks /\ rec.script = task[t].script /\ rec.op = task[t].op /\ rec.pc = v
  BY <1>2 DEF Tasks
<1> HIDE DEF rec
<1>in. /\ Typed /\ InScript /\ task[t].script # <<>> /\ Now(t).cmd = "set" /\ ~Linking(t)
      /\ Now(t).on \in Ports /\ Tail(task[t].script) \in Seq(Commands)
  BY <1>1, InSet DEF Linking
<1>4. Moved(t, task') /\ task'[t].pc = v /\ ~Linking(t)
  BY <1>1, <1>3, <1>in, NewRecord
<1> QED BY <1>2, <1>4, OnlyTask DEF ReadLink, portVars, netVars, Inv, Typed

\* ChecksUsed keeps the invariant.
LEMMA ChecksUsedInv ==
  ASSUME Inv, NEW t \in Threads, ChecksUsed(t)
  PROVE  Inv'
<1>1. /\ At(t, "used")
      /\ \/ task' = [task EXCEPT ![t].pc = "resolve"]
         \/ task' = [task EXCEPT ![t].pc = "forget"]
  BY DEF ChecksUsed
<1>2. "resolve" \in Places /\ "forget" \in Places
  BY DEF Places
<1>in. Typed /\ InScript /\ task[t].script # <<>> /\ Now(t).cmd = "set" /\ ~Linking(t)
  BY <1>1, InSet DEF Linking
<1>3. Moved(t, task') /\ task'[t].pc \in {"resolve", "forget"}
  <2>1. CASE task' = [task EXCEPT ![t].pc = "resolve"]
    BY <1>2, <1>in, <2>1, NewPlace
  <2>2. CASE task' = [task EXCEPT ![t].pc = "forget"]
    BY <1>2, <1>in, <2>2, NewPlace
  <2> QED BY <1>1, <2>1, <2>2
<1> QED BY <1>in, <1>3, OnlyTask DEF ChecksUsed, portVars, netVars, Inv, Typed

\* ResolveEmpty keeps the invariant.
LEMMA ResolveEmptyInv ==
  ASSUME Inv, NEW t \in Threads, ResolveEmpty(t)
  PROVE  Inv'
<1>1. At(t, "resolve") /\ task' = [task EXCEPT ![t].pc = "assign"]
  BY DEF ResolveEmpty
<1>2. "assign" \in Places
  BY DEF Places
<1>in. /\ Typed /\ InScript /\ task[t].script # <<>> /\ Now(t).cmd = "set" /\ ~Linking(t)
      /\ Now(t).on \in Ports /\ Tail(task[t].script) \in Seq(Commands)
  BY <1>1, InSet DEF Linking
<1>3. Moved(t, task') /\ task'[t].pc = "assign" /\ ~Linking(t)
  BY <1>1, <1>2, <1>in, NewPlace
<1> QED BY <1>3, OnlyTask DEF ResolveEmpty, portVars, netVars, Inv, Typed

\* ResolveThrows keeps the invariant.
LEMMA ResolveThrowsInv ==
  ASSUME Inv, NEW t \in Threads, ResolveThrows(t)
  PROVE  Inv'
<1>1. At(t, "resolve") /\ Throw(t)
  BY DEF ResolveThrows, Resolves
<1>2. ~Linking(t) /\ task[t].script # <<>> /\ Now(t).cmd = "set"
  BY <1>1, InSet DEF Linking
<1>3. /\ Moved(t, task') /\ task'[t].pc = "check" /\ ports' \subseteq Ports
      /\ mutex' = mutex \/ mutex \in {t, NoThread}
  BY <1>1, <1>2, Thrown
<1> QED BY <1>2, <1>3, OnlyTask DEF ResolveThrows, netVars, Inv, Typed

-----------------------------------------------------------------------------
(* The steps that unlink and link.                                         *)

\* Names of ports, names of interfaces and null pointers are apart.
LEMMA EndsApart ==
  /\ Ports \cap Netdevs = {} /\ Ports \subseteq Ends /\ Netdevs \subseteq Ends
  /\ Ends \subseteq Ports \cup Netdevs
  /\ NoPeer \notin Ends /\ Dangling \notin Ends /\ NoPeer # Dangling
  /\ Ends \subseteq Pointers /\ NoPeer \in Pointers /\ Dangling \in Pointers
BY EndsAssumption, MarksAssumption DEF Ends, Pointers

\* Only the owner of the mutex makes a link.
LEMMA OneLinks ==
  ASSUME Inv, NEW t \in Threads, NEW u \in Threads, Linking(u), mutex = t \/ mutex = NoThread
  PROVE  u = t
BY ThreadsAssumption DEF Inv, HalfLinks

\* An interface has one port.
LEMMA OneOwner ==
  ASSUME Inv, NotYetLinked, LinkedBack, NEW p \in Ports, NEW q \in Ports, NEW n \in Netdevs,
         link[p] = n, link[q] = n
  PROVE  p = q
<1>1. ASSUME NEW r \in Ports, AboutToLink(r, n) PROVE link[n] = NoPeer
  BY <1>1 DEF AboutToLink, NotYetLinked
<1>2. ASSUME AboutToLink(p, n), AboutToLink(q, n) PROVE p = q
  BY <1>2 DEF AboutToLink, Inv, HalfLinks
<1>3. link[n] = p \/ AboutToLink(p, n)
  BY DEF LinkedBack
<1>4. link[n] = q \/ AboutToLink(q, n)
  BY DEF LinkedBack
<1> QED BY <1>1, <1>2, <1>3, <1>4, EndsApart

\* UnlinkOwn keeps the invariant.
LEMMA UnlinkOwnInv ==
  ASSUME Inv, NEW t \in Threads, UnlinkOwn(t)
  PROVE  Inv'
<1> DEFINE p == Now(t).on
<1>1. /\ Typed /\ InScript /\ task[t].script # <<>> /\ Now(t).cmd = "set" /\ ~Linking(t)
      /\ p \in Ports /\ ~Unlinking(t)
  BY InSet DEF UnlinkOwn, Linking, Unlinking
<1>2. /\ link' = [link EXCEPT ![p] = NoPeer] /\ ports_to_ports' = ports_to_ports
      /\ available' = available
  BY DEF UnlinkOwn, netVars
<1>3. /\ \A e \in Ends : link'[e] = IF e = p THEN NoPeer ELSE link[e]
      /\ link' \in [Ends -> Pointers] /\ \A n \in Netdevs : link'[n] = link[n]
  BY <1>1, <1>2, EndsApart DEF Typed
<1>4. Grows
  BY <1>2 DEF Grows
<1>5. CASE RelinkFails(t)
  <2>1. /\ Moved(t, task') /\ task'[t].pc = "check" /\ ports' \subseteq Ports
        /\ mutex' = mutex \/ mutex \in {t, NoThread}
    BY <1>1, <1>5, Thrown DEF RelinkFails
  <2>2. failures' = failures + 1 /\ failures' \in Nat
    BY <1>1, <1>5 DEF RelinkFails, Typed
  <2>3. Typed'
    BY <1>1, <1>2, <1>3, <2>1, <2>2, TypedKept DEF Typed
  <2>4. \A q, r \in Ports : link'[q] = r => link[q] = r
    BY <1>3, EndsApart
  <2> QED BY <1>4, <2>1, <2>2, <2>3, <2>4, RelinkingFailed
<1>6. CASE Relinked(t, [task EXCEPT ![t].ref = link[p], ![t].pc = "unlink_other"]) /\ UNCHANGED mutex
  <2> DEFINE rec == [task[t] EXCEPT !.ref = link[p], !.pc = "unlink_other"]
  <2>1. task' = [task EXCEPT ![t] = rec] /\ mutex' = mutex /\ ports' = ports /\ failures' = failures
    BY <1>6 DEF Relinked
  <2>2. link[p] \in Pointers /\ "unlink_other" \in Places /\ task[t] \in Tasks
    BY <1>1, EndsApart DEF Typed, Places
  <2>3. /\ rec \in Tasks /\ rec.script = task[t].script /\ rec.op = task[t].op
        /\ rec.pc = "unlink_other" /\ rec.ref = link[p]
    BY <2>2 DEF Tasks
  <2> HIDE DEF rec
  <2>4. Moved(t, task') /\ task'[t].pc = "unlink_other" /\ task'[t].ref = link[p]
    BY <1>1, <2>1, <2>3, NewRecord
  <2>5. Typed'
    BY <1>1, <1>2, <1>3, <2>1, <2>4, TypedKept DEF Typed
  <2>6. SameLinking
    <3>1. ASSUME NEW u \in Threads
          PROVE  /\ task'[u].pc = "link_other" <=> Linking(u)
                 /\ Linking(u) => task'[u].script = task[u].script
      BY <1>1, <2>4 DEF Moved, Linking
    <3> QED BY <2>1, <3>1 DEF SameLinking, StillLinking
  <2>7. \A q, r \in Ports : link'[q] = r => link[q] = r
    BY <1>3, EndsApart
  <2>8. InScript' /\ HalfLinks' /\ LinksChosen'
    BY <1>1, <1>4, <2>4, <2>5, <2>6, <2>7, InScriptKept, HalfLinksKept, LinksChosenKept
    DEF SameLinking
  <2>9. ASSUME NotYetLinked, LinkedBack, UnlinkedOnce
        PROVE  NotYetLinked' /\ LinkedBack' /\ UnlinkedOnce'
    <3>1. /\ \A u \in Threads : Linking(u)' <=> Linking(u)
          /\ \A u \in Threads : Linking(u) => Now(u)' = Now(u)
          /\ \A r, n : AboutToLink(r, n) => AboutToLink(r, n)'
      BY <2>6 DEF SameLinking, StillLinking, Linking, Now, AboutToLink
    <3>2. NotYetLinked'
      BY <1>3, <2>9, <3>1 DEF NotYetLinked
    <3>3. \A q \in Ports, n \in Netdevs : link'[q] = n => q # p /\ link[q] = n
      BY <1>3, EndsApart
    <3>4. LinkedBack'
      BY <1>3, <2>9, <3>1, <3>3 DEF LinkedBack
    <3>5. ASSUME NEW u \in Threads, NEW n \in Netdevs, u # t, Unlinking(u)', task'[u].ref = n
          PROVE  Unlinking(u) /\ task[u].ref = n /\ link[p] # n
      <4>1. Unlinking(u) /\ task[u].ref = n
        BY <2>4, <3>5, EndsApart DEF Moved, Unlinking
      <4> QED BY <1>1, <2>9, <4>1 DEF UnlinkedOnce
    <3>6. ASSUME NEW u \in Threads, NEW n \in Netdevs, Unlinking(u)', task'[u].ref = n
          PROVE  /\ link'[n] # NoPeer \/ \E q \in Ports : AboutToLink(q, n)'
                 /\ \A q \in Ports : link'[q] # n
                 /\ \A w \in Threads : Unlinking(w)' /\ task'[w].ref = n => w = u
      <4>1. CASE u = t
        <5>1. link[p] = n
          BY <2>4, <3>6, <4>1
        <5>2. link[n] = p \/ AboutToLink(p, n)
          BY <1>1, <2>9, <5>1 DEF LinkedBack
        <5>3. \A q \in Ports : link'[q] # n
          BY <1>1, <2>9, <3>3, <5>1, OneOwner
        <5>4. \A w \in Threads : Unlinking(w)' /\ task'[w].ref = n => w = t
          BY <3>5, <5>1
        <5> QED BY <1>1, <1>3, <3>1, <4>1, <5>2, <5>3, <5>4, EndsApart
      <4>2. CASE u # t
        <5>1. Unlinking(u) /\ task[u].ref = n /\ link[p] # n
          BY <3>5, <3>6, <4>2
        <5>2. /\ link[n] # NoPeer \/ \E q \in Ports : AboutToLink(q, n)
              /\ \A q \in Ports : link[q] # n
              /\ \A w \in Threads : Unlinking(w) /\ task[w].ref = n => w = u
          BY <2>9, <5>1 DEF UnlinkedOnce
        <5>3. \A w \in Threads : Unlinking(w)' /\ task'[w].ref = n => w = u
          BY <2>4, <3>5, <5>1, <5>2
        <5> QED BY <1>3, <3>1, <3>3, <5>2, <5>3
      <4> QED BY <4>1, <4>2
    <3>7. UnlinkedOnce'
      BY <3>6 DEF UnlinkedOnce
    <3> QED BY <3>2, <3>4, <3>7
  <2>10. Exclusive'
    BY <2>1, <2>9 DEF Inv, Exclusive
  <2> QED BY <2>5, <2>8, <2>10 DEF Inv
<1> QED BY <1>5, <1>6 DEF UnlinkOwn

\* UnlinkOther keeps the invariant: the interface it frees has no port and no
\* other thread.
LEMMA UnlinkOtherInv ==
  ASSUME Inv, NEW t \in Threads, UnlinkOther(t)
  PROVE  Inv'
<1> DEFINE r == task[t].ref
<1>1. /\ Typed /\ InScript /\ task[t].script # <<>> /\ Now(t).cmd = "set" /\ ~Linking(t)
      /\ Unlinking(t) /\ r \in Ends
  BY InSet DEF UnlinkOther, Linking, Unlinking
<1>2. /\ link' = [link EXCEPT ![r] = NoPeer] /\ ports_to_ports' = ports_to_ports
      /\ available' = available
  BY DEF UnlinkOther, netVars
<1>3. /\ \A e \in Ends : link'[e] = IF e = r THEN NoPeer ELSE link[e]
      /\ link' \in [Ends -> Pointers] /\ \A n \in Netdevs : link'[n] \notin Netdevs
  BY <1>1, <1>2, EndsApart DEF Typed
<1>4. Grows
  BY <1>2 DEF Grows
<1>5. \A e \in Ends, f \in Ends : link'[e] = f => link[e] = f
  BY <1>3, EndsApart
<1>6. CASE RelinkFails(t)
  <2>1. /\ Moved(t, task') /\ task'[t].pc = "check" /\ ports' \subseteq Ports
        /\ mutex' = mutex \/ mutex \in {t, NoThread}
    BY <1>1, <1>6, Thrown DEF RelinkFails
  <2>2. failures' = failures + 1 /\ failures' \in Nat
    BY <1>1, <1>6 DEF RelinkFails, Typed
  <2>3. Typed'
    BY <1>1, <1>2, <1>3, <2>1, <2>2, TypedKept DEF Typed
  <2> QED BY <1>4, <1>5, <2>1, <2>2, <2>3, EndsApart, RelinkingFailed
<1>7. CASE Relinked(t, [task EXCEPT ![t].pc = AfterUnlink(t)]) /\ UNCHANGED mutex
  <2>1. /\ \/ task' = [task EXCEPT ![t].pc = "used"]
           \/ task' = [task EXCEPT ![t].pc = "resolve"]
        /\ mutex' = mutex /\ ports' = ports /\ failures' = failures
    BY <1>7 DEF Relinked, AfterUnlink
  <2>2. "used" \in Places /\ "resolve" \in Places
    BY DEF Places
  <2>3. Moved(t, task') /\ task'[t].pc \in {"used", "resolve"}
    <3>1. CASE task' = [task EXCEPT ![t].pc = "used"]
      BY <1>1, <2>2, <3>1, NewPlace
    <3>2. CASE task' = [task EXCEPT ![t].pc = "resolve"]
      BY <1>1, <2>2, <3>2, NewPlace
    <3> QED BY <2>1, <3>1, <3>2
  <2>4. Typed'
    BY <1>1, <1>2, <1>3, <2>1, <2>3, TypedKept DEF Typed
  <2>5. SameLinking /\ NoMoreUnlinking
    BY <1>1, <2>1, <2>3, MovedSameLinking
  <2>6. InScript' /\ HalfLinks' /\ LinksChosen'
    BY <1>1, <1>4, <1>5, <2>3, <2>4, <2>5, EndsApart, InScriptKept, HalfLinksKept,
       LinksChosenKept DEF SameLinking
  <2>7. ASSUME NotYetLinked, LinkedBack, UnlinkedOnce
        PROVE  NotYetLinked' /\ LinkedBack' /\ UnlinkedOnce'
    <3>1. r \in Netdevs => /\ \A p \in Ports : link[p] # r
                           /\ \A u \in Threads : Unlinking(u) /\ task[u].ref = r => u = t
      BY <1>1, <2>7 DEF UnlinkedOnce
    <3>2. \A p \in Ports, n \in Netdevs : link'[p] = n => link[p] = n
      BY <1>5, EndsApart
    <3>3. \A n \in Netdevs : link[n] = NoPeer => link'[n] = NoPeer
      BY <1>3, EndsApart
    <3>4. \A p \in Ports, n \in Netdevs : link'[p] = n /\ link[n] = p => link'[n] = p
      BY <1>3, <3>1, <3>2, EndsApart
    <3>5. ASSUME NEW u \in Threads, NEW n \in Netdevs, task'[u].pc = "unlink_other",
                 task'[u].ref = n, link[n] # NoPeer
          PROVE  link'[n] # NoPeer
      <4>1. Unlinking(u) /\ task[u].ref = n /\ u # t
        BY <2>3, <2>5, <3>5 DEF NoMoreUnlinking
      <4>2. n # r
        BY <3>1, <4>1
      <4> QED BY <1>3, <3>5, <4>2, EndsApart
    <3> QED BY <2>5, <2>7, <3>2, <3>3, <3>4, <3>5, ExclusiveKept
  <2>8. Exclusive'
    BY <2>1, <2>7 DEF Inv, Exclusive
  <2> QED BY <2>4, <2>6, <2>8 DEF Inv
<1> QED BY <1>6, <1>7 DEF UnlinkOther

\* The first half of a link: the mutex is free, so nobody else makes one.
LEMMA LinkOwnInv ==
  ASSUME Inv, NEW t \in Threads, At(t, "resolve"), mutex = NoThread, LinkOwn(t), Grows,
         NEW p \in Ports, NEW x \in Ends, Now(t).on = p, Now(t).to = x,
         x \in Netdevs => link[x] = NoPeer, x \in Ports => Chosen(p, x)',
         ports_to_ports' \in [Ports -> Ports \cup {NoPeer}], available' \subseteq Netdevs
  PROVE  Inv'
<1>0. Typed /\ InScript /\ task[t].script # <<>> /\ Now(t).cmd = "set"
  BY InSet
<1>1. Typed /\ InScript /\ task[t].script # <<>> /\ Now(t).cmd = "set" /\ ~Linking(t)
  BY <1>0, InSet DEF Linking
<1>2. \A u \in Threads : ~Linking(u)
  BY <1>1, OneLinks
<1>3. /\ \A e \in Ends : link'[e] = IF e = p THEN x ELSE link[e]
      /\ link' \in [Ends -> Pointers] /\ \A n \in Netdevs : link'[n] = link[n]
  <2>1. link' = [link EXCEPT ![p] = x]
    BY DEF LinkOwn
  <2> QED BY <1>1, <2>1, EndsApart DEF Typed
<1>4. \A q, s \in Ports : link'[q] = s => link[q] = s \/ Chosen(q, s)'
  <2>1. ASSUME NEW q \in Ports, NEW s \in Ports, link'[q] = s PROVE link[q] = s \/ Chosen(q, s)'
    <3>1. CASE q # p
      BY <1>3, <2>1, <3>1, EndsApart
    <3>2. CASE q = p
      BY <1>3, <2>1, <3>2, EndsApart
    <3> QED BY <3>1, <3>2
  <2> QED BY <2>1
<1>5. CASE RelinkFails(t)
  <2>1. /\ Moved(t, task') /\ task'[t].pc = "check" /\ ports' \subseteq Ports
        /\ mutex' = mutex \/ mutex \in {t, NoThread}
    BY <1>1, <1>5, Thrown DEF RelinkFails
  <2>2. failures' = failures + 1 /\ failures' \in Nat
    BY <1>1, <1>5 DEF RelinkFails, Typed
  <2>3. Typed'
    BY <1>1, <1>3, <2>1, <2>2, TypedKept DEF Typed
  <2> QED BY <1>4, <2>1, <2>2, <2>3, RelinkingFailed
<1>6. CASE mutex' = t /\ Relinked(t, [task EXCEPT ![t].pc = "link_other"])
  <2>1. /\ task' = [task EXCEPT ![t].pc = "link_other"]
        /\ ports' = ports /\ failures' = failures
    BY <1>6 DEF Relinked
  <2>2. "link_other" \in Places
    BY DEF Places
  <2>3. /\ Moved(t, task') /\ task'[t].pc = "link_other"
        /\ task'[t].script = task[t].script
    <3>1. ASSUME NEW f, f = [task EXCEPT ![t].pc = "link_other"]
          PROVE  Moved(t, f) /\ f[t].pc = "link_other" /\ f[t].script = task[t].script
      BY <1>0, <2>2, <3>1, NewPlace, ZenonT(60)
    <3> QED BY <2>1, <3>1
  <2>4. Typed'
    BY <1>1, <1>3, <2>1, <2>3, TypedKept DEF Typed
  <2>5. /\ Linking(t)' /\ Now(t)'.on = p /\ Now(t)'.to = x
        /\ \A u \in Threads : Linking(u)' => u = t
    BY <1>2, <2>3 DEF Linking, Now, Moved
  <2>6. HalfLinks'
    <3>1. ASSUME NEW u \in Threads, Linking(u)'
          PROVE  /\ mutex' = u /\ Now(u)'.to \in Ends
                 /\ Now(u)'.to \in Ports => Chosen(Now(u).on, Now(u).to)'
      <4>1. u = t /\ Now(u)'.on = p /\ Now(u)'.to = x
        BY <2>5, <3>1
      <4>2. x \in Ports => Chosen(Now(u).on, Now(u).to)'
        BY <4>1 DEF Chosen
      <4> QED BY <1>6, <4>1, <4>2
    <3> QED BY <3>1 DEF HalfLinks
  <2>7. InScript' /\ LinksChosen'
    BY <1>1, <1>4, <2>3, <2>4, InScriptKept, LinksChosenKept
  <2>8. ASSUME NotYetLinked, LinkedBack, UnlinkedOnce
        PROVE  NotYetLinked' /\ LinkedBack' /\ UnlinkedOnce'
    <3>1. \A q, n : ~AboutToLink(q, n)
      BY <1>2 DEF AboutToLink
    <3>2. AboutToLink(p, x)'
      BY <2>5 DEF AboutToLink
    <3>3. NotYetLinked'
      <4>1. ASSUME NEW u \in Threads, Linking(u)', Now(u)'.to \in Netdevs
            PROVE  link'[Now(u)'.to] = NoPeer
        BY <1>3, <2>5, <4>1
      <4> QED BY <4>1 DEF NotYetLinked
    <3>4. LinkedBack'
      <4>1. ASSUME NEW q \in Ports, NEW n \in Netdevs, link'[q] = n
            PROVE  link'[n] = q \/ AboutToLink(q, n)'
        <5>1. CASE q = p
          BY <1>3, <3>2, <4>1, <5>1, EndsApart
        <5>2. CASE q # p
          BY <1>3, <2>8, <3>1, <4>1, <5>2, EndsApart DEF LinkedBack
        <5> QED BY <5>1, <5>2
      <4> QED BY <4>1 DEF LinkedBack
    <3>5. UnlinkedOnce'
      <4>1. ASSUME NEW u \in Threads, NEW n \in Netdevs, Unlinking(u)', task'[u].ref = n
            PROVE  /\ link'[n] # NoPeer
                   /\ \A q \in Ports : link'[q] # n
                   /\ \A w \in Threads : Unlinking(w)' /\ task'[w].ref = n => w = u
        <5>1. \A w \in Threads : Unlinking(w)' /\ task'[w].ref = n => Unlinking(w) /\ task[w].ref = n
          BY <2>3, EndsApart DEF Moved, Unlinking
        <5>2. /\ link[n] # NoPeer /\ \A q \in Ports : link[q] # n
              /\ \A w \in Threads : Unlinking(w) /\ task[w].ref = n => w = u
          BY <2>8, <3>1, <4>1, <5>1 DEF UnlinkedOnce
        <5>3. n # x
          BY <5>2
        <5> QED BY <1>3, <5>1, <5>2, <5>3, EndsApart
      <4> QED BY <4>1 DEF UnlinkedOnce
    <3> QED BY <3>3, <3>4, <3>5
  <2>9. Exclusive'
    BY <2>1, <2>8 DEF Inv, Exclusive
  <2> QED BY <2>4, <2>6, <2>7, <2>9 DEF Inv
<1> QED BY <1>5, <1>6 DEF LinkOwn

\* ResolveIface keeps the invariant.
LEMMA ResolveIfaceInv ==
  ASSUME Inv, NEW t \in Threads, ResolveIface(t)
  PROVE  Inv'
<1>1. /\ At(t, "resolve") /\ mutex = NoThread /\ LinkOwn(t) /\ link[Now(t).to] = NoPeer
      /\ Now(t).to \in available /\ ports_to_ports' = ports_to_ports /\ available' = available
  BY DEF ResolveIface, Resolves, netVars
<1>2. /\ Typed /\ Now(t).on \in Ports
  BY <1>1, InSet
<1>3. Now(t).to \in Netdevs /\ Now(t).to \in Ends /\ Now(t).to \notin Ports
  BY <1>1, <1>2, EndsApart DEF Typed
<1>4. Grows /\ available' \subseteq Netdevs /\ ports_to_ports' \in [Ports -> Ports \cup {NoPeer}]
  BY <1>1, <1>2 DEF Grows, Typed
<1>5. PICK p \in Ports, x \in Ends : Now(t).on = p /\ Now(t).to = x
  BY <1>2, <1>3
<1> QED BY <1>1, <1>3, <1>4, <1>5, LinkOwnInv

\* ResolvePort keeps the invariant: what it links wanted to be linked.
LEMMA ResolvePortInv ==
  ASSUME Inv, NEW t \in Threads, ResolvePort(t)
  PROVE  Inv'
<1>1. At(t, "resolve") /\ mutex = NoThread /\ Now(t).to \in Ports
  BY DEF ResolvePort, Resolves
<1>2. /\ Typed /\ InScript /\ task[t].script # <<>> /\ Now(t).cmd = "set" /\ ~Linking(t)
      /\ Now(t).on \in Ports
  BY <1>1, InSet DEF Linking
<1>3. PICK p \in Ports, x \in Ports : Now(t).on = p /\ Now(t).to = x
  BY <1>1, <1>2
<1>4. /\ ports_to_ports' = Emplaced(p, x) /\ available' = available
      /\ available' \subseteq Netdevs
  BY <1>2, <1>3 DEF ResolvePort, netVars, Typed
<1>5. /\ ports_to_ports' \in [Ports -> Ports \cup {NoPeer}] /\ ports_to_ports'[p] \in Ports
      /\ Grows
  BY <1>2, <1>4, EndsApart DEF Emplaced, Typed, Grows
<1>6. WantsBack(p, x) => Chosen(p, x)'
  BY <1>4, <1>5 DEF WantsBack, Chosen
<1>7. CASE /\ task' = [task EXCEPT ![t].pc = "assign"]
           /\ UNCHANGED <<link, mutex, ports, failures, crashed>>
  <2>1. "assign" \in Places
    BY DEF Places
  <2>2. Moved(t, task') /\ task'[t].pc = "assign"
    BY <1>2, <1>7, <2>1, NewPlace
  <2>3. Typed'
    BY <1>2, <1>4, <1>5, <1>7, <2>2, TypedKept DEF Typed
  <2> QED BY <1>2, <1>5, <1>7, <2>2, <2>3, LinksAlone
<1>8. CASE WantsBack(p, x) /\ LinkOwn(t)
  <2>1. x \in Ends /\ x \notin Netdevs
    BY EndsApart
  <2> QED BY <1>1, <1>3, <1>4, <1>5, <1>6, <1>8, <2>1, LinkOwnInv
<1>9. CASE /\ WantsBack(p, x) /\ x = p
           /\ link' = [link EXCEPT ![p] = p]
           /\ mutex' = t
           /\ task' = [task EXCEPT ![t].pc = "hung"]
           /\ UNCHANGED <<ports, failures, crashed>>
  <2>1. "hung" \in Places
    BY DEF Places
  <2>2. Moved(t, task') /\ task'[t].pc = "hung"
    BY <1>2, <1>9, <2>1, NewPlace
  <2>3. /\ \A e \in Ends : link'[e] = IF e = p THEN p ELSE link[e]
        /\ link' \in [Ends -> Pointers] /\ \A n \in Netdevs : link'[n] = link[n]
    BY <1>2, <1>9, EndsApart DEF Typed
  <2>4. Typed'
    BY <1>2, <1>4, <1>5, <1>9, <2>2, <2>3, TypedKept DEF Typed
  <2>5. SameLinking /\ NoMoreUnlinking
    BY <1>1, <1>2, <2>2, MovedSameLinking
  <2>6. \A q, s \in Ports : link'[q] = s => link[q] = s \/ Chosen(q, s)'
    <3>1. ASSUME NEW q \in Ports, NEW s \in Ports, link'[q] = s
          PROVE  link[q] = s \/ Chosen(q, s)'
      <4>1. CASE q # p
        BY <2>3, <3>1, <4>1, EndsApart
      <4>2. CASE q = p
        <5>1. s = x /\ q = p
          BY <1>9, <2>3, <3>1, <4>2, EndsApart
        <5> QED BY <1>6, <1>9, <5>1
      <4> QED BY <4>1, <4>2
    <3> QED BY <3>1
  <2>7. InScript' /\ HalfLinks' /\ LinksChosen'
    BY <1>2, <1>5, <2>2, <2>4, <2>5, <2>6, InScriptKept, HalfLinksKept, LinksChosenKept
    DEF SameLinking
  <2>8. \A q \in Ports, n \in Netdevs : link'[q] = n => link[q] = n
    BY <2>3, EndsApart
  <2>9. ASSUME NotYetLinked, LinkedBack, UnlinkedOnce
        PROVE  NotYetLinked' /\ LinkedBack' /\ UnlinkedOnce'
    BY <2>3, <2>5, <2>8, <2>9, ExclusiveKept
  <2>10. Exclusive'
    BY <1>9, <2>9 DEF Inv, Exclusive
  <2> QED BY <2>4, <2>7, <2>10 DEF Inv
<1> QED BY <1>3, <1>7, <1>8, <1>9 DEF ResolvePort

\* LinkOther keeps the invariant: it ends the only half-made link.
LEMMA LinkOtherInv ==
  ASSUME Inv, NEW t \in Threads, LinkOther(t)
  PROVE  Inv'
<1>1. At(t, "link_other")
  BY DEF LinkOther
<1>2. /\ Typed /\ InScript /\ task[t].script # <<>> /\ Now(t).cmd = "set" /\ Linking(t)
      /\ Now(t).on \in Ports
  BY <1>1, InSet DEF Linking
<1>3. /\ mutex = t /\ Now(t).to \in Ends
      /\ Now(t).to \in Ports => Chosen(Now(t).on, Now(t).to)
  BY <1>2 DEF Inv, HalfLinks
<1>4. PICK p \in Ports, x \in Ends : Now(t).on = p /\ Now(t).to = x
  BY <1>2, <1>3
<1>5. \A u \in Threads : Linking(u) => u = t
  BY <1>3, OneLinks
<1>6. /\ link' = [link EXCEPT ![x] = p] /\ ports_to_ports' = ports_to_ports
      /\ available' = available /\ Grows
  BY <1>4 DEF LinkOther, netVars, Grows
<1>7. /\ \A e \in Ends : link'[e] = IF e = x THEN p ELSE link[e]
      /\ link' \in [Ends -> Pointers] /\ \A n \in Netdevs : link'[n] \notin Netdevs
  BY <1>2, <1>6, EndsApart DEF Typed
<1>8. \A q, s \in Ports : link'[q] = s => link[q] = s \/ Chosen(q, s)'
  <2>1. ASSUME NEW q \in Ports, NEW s \in Ports, link'[q] = s
        PROVE  link[q] = s \/ Chosen(q, s)'
    <3>1. CASE q # x
      BY <1>7, <2>1, <3>1, EndsApart
    <3>2. CASE q = x
      <4>1. s = p /\ Chosen(p, x)
        BY <1>3, <1>4, <1>7, <2>1, <3>2
      <4> QED BY <1>6, <3>2, <4>1 DEF Chosen
    <3> QED BY <3>1, <3>2
  <2> QED BY <2>1
<1>9. CASE RelinkFails(t)
  <2>1. /\ Moved(t, task') /\ task'[t].pc = "check" /\ ports' \subseteq Ports
        /\ mutex' = mutex \/ mutex \in {t, NoThread}
    BY <1>2, <1>9, Thrown DEF RelinkFails
  <2>2. failures' = failures + 1 /\ failures' \in Nat
    BY <1>2, <1>9 DEF RelinkFails, Typed
  <2>3. Typed'
    BY <1>2, <1>6, <1>7, <2>1, <2>2, TypedKept DEF Typed
  <2> QED BY <1>6, <1>8, <2>1, <2>2, <2>3, RelinkingFailed
<1>10. CASE Relinked(t, [task EXCEPT ![t].pc = "assign"]) /\ Release(t)
  <2>1. /\ task' = [task EXCEPT ![t].pc = "assign"]
        /\ ports' = ports /\ failures' = failures
    BY <1>10 DEF Relinked
  <2>2. "assign" \in Places
    BY DEF Places
  <2>3. Moved(t, task') /\ task'[t].pc = "assign"
    BY <1>2, <2>1, <2>2, NewPlace
  <2>4. Typed'
    BY <1>2, <1>6, <1>7, <2>1, <2>3, TypedKept DEF Typed
  <2>5. \A u \in Threads : ~Linking(u)'
    BY <1>5, <2>3 DEF Linking, Moved
  <2>6. InScript' /\ HalfLinks' /\ LinksChosen'
    BY <1>2, <1>6, <1>8, <2>3, <2>4, <2>5, InScriptKept, LinksChosenKept DEF HalfLinks
  <2>7. ASSUME NotYetLinked, LinkedBack, UnlinkedOnce
        PROVE  NotYetLinked' /\ LinkedBack' /\ UnlinkedOnce'
    <3>1. \A q, n : AboutToLink(q, n) => q = p /\ n = x
      BY <1>4, <1>5 DEF AboutToLink
    <3>2. x \in Netdevs => link[x] = NoPeer
      BY <1>2, <1>4, <2>7 DEF NotYetLinked
    <3>3. \A q \in Ports, n \in Netdevs : link'[q] = n => link[q] = n
      BY <1>7, EndsApart
    <3>4. NotYetLinked'
      BY <2>5 DEF NotYetLinked
    <3>5. LinkedBack'
      <4>1. ASSUME NEW q \in Ports, NEW n \in Netdevs, link'[q] = n
            PROVE  link'[n] = q
        <5>1. link[n] = q \/ AboutToLink(q, n)
          BY <2>7, <3>3, <4>1 DEF LinkedBack
        <5>2. CASE AboutToLink(q, n)
          BY <1>7, <3>1, <5>2
        <5>3. CASE link[n] = q
          BY <1>7, <3>2, <5>3, EndsApart
        <5> QED BY <5>1, <5>2, <5>3
      <4> QED BY <4>1 DEF LinkedBack
    <3>6. UnlinkedOnce'
      <4>1. ASSUME NEW u \in Threads, NEW n \in Netdevs, Unlinking(u)', task'[u].ref = n
            PROVE  /\ link'[n] # NoPeer
                   /\ \A q \in Ports : link'[q] # n
                   /\ \A w \in Threads : Unlinking(w)' /\ task'[w].ref = n => w = u
        <5>1. \A w \in Threads : Unlinking(w)' /\ task'[w].ref = n => Unlinking(w) /\ task[w].ref = n
          BY <2>3, EndsApart DEF Moved, Unlinking
        <5>2. /\ link[n] # NoPeer \/ \E q \in Ports : AboutToLink(q, n)
              /\ \A q \in Ports : link[q] # n
              /\ \A w \in Threads : Unlinking(w) /\ task[w].ref = n => w = u
          BY <2>7, <4>1, <5>1 DEF UnlinkedOnce
        <5>3. link'[n] # NoPeer
          BY <1>7, <3>1, <5>2, EndsApart
        <5> QED BY <3>3, <5>1, <5>2, <5>3
      <4> QED BY <4>1 DEF UnlinkedOnce
    <3> QED BY <3>4, <3>5, <3>6
  <2>8. Exclusive'
    BY <2>1, <2>7 DEF Inv, Exclusive
  <2> QED BY <2>4, <2>6, <2>8 DEF Inv
<1> QED BY <1>9, <1>10 DEF LinkOther

-----------------------------------------------------------------------------
(* The steps that free an object, and the other commands.                  *)

\* The links once d is freed have the types of links.
LEMMA SeveredTyped ==
  ASSUME Typed, NEW d \in Ends, link' = Severed(d)
  PROVE  link' \in [Ends -> Pointers] /\ \A n \in Netdevs : link'[n] \notin Netdevs
BY EndsApart DEF Severed, Typed

\* A step of t that frees object d.
LEMMA ThreadFrees ==
  ASSUME Inv, NEW t \in Threads, NEW tk, Moved(t, tk), ~Linking(t),
         tk[t].pc \notin {"link_other", "unlink_other"},
         mutex' = mutex \/ mutex \in {t, NoThread},
         NEW d \in Ends, link' = Severed(d), task' = WithoutCopies(d, tk),
         ports' = ports, available' = available, ports_to_ports' = ports_to_ports,
         failures' = failures
  PROVE  Inv'
<1>1. /\ Moved(t, task') /\ task'[t].pc \notin {"link_other", "unlink_other"}
      /\ \A u \in Threads : task'[u].ref # d
  BY CopiesDropped
<1>2. Typed'
  BY <1>1, SeveredTyped, TypedKept DEF Inv, Typed
<1>3. SameLinking /\ NoMoreUnlinking
  BY <1>1, MovedSameLinking
<1>4. InScript'
  BY <1>1, InScriptKept DEF Inv
<1>5. Grows
  BY DEF Grows
<1> QED BY <1>1, <1>2, <1>3, <1>4, <1>5, ObjectFreed

\* Steps of nobody, or that kill the daemon: links and tasks stay.
LEMMA TasksAlone ==
  ASSUME Inv, ports' \subseteq Ports, available' \subseteq Netdevs,
         UNCHANGED <<link, ports_to_ports, mutex, task, failures>>
  PROVE  Inv'
<1>1. Typed' /\ InScript'
  BY DEF Inv, Typed, InScript, Now
<1>2. HalfLinks' /\ LinksChosen'
  BY DEF Inv, HalfLinks, LinksChosen, Chosen, Linking, Now
<1>3. Exclusive'
  BY DEF Inv, Exclusive, NotYetLinked, LinkedBack, UnlinkedOnce, AboutToLink, Linking,
         Unlinking, Now
<1> QED BY <1>1, <1>2, <1>3 DEF Inv

\* A daemon that dies keeps the invariant.
LEMMA CrashInv ==
  ASSUME Inv, Crash
  PROVE  Inv'
BY TasksAlone DEF Crash, portVars, netVars, Inv, Typed

\* Forgets keeps the invariant.
LEMMA ForgetsInv ==
  ASSUME Inv, NEW t \in Threads, Forgets(t)
  PROVE  Inv'
<1> DEFINE n == peer[Now(t).on]
           tk == [task EXCEPT ![t].pc = "resolve"]
<1>1. At(t, "forget")
  BY DEF Forgets
<1>2. "resolve" \in Places
  BY DEF Places
<1>3. Typed /\ InScript /\ task[t].script # <<>> /\ Now(t).cmd = "set"
  BY <1>1, InSet
<1>7. ~Linking(t)
  BY <1>1, InSet DEF Linking
<1>4. Moved(t, tk) /\ tk[t].pc = "resolve"
  <2>1. ASSUME NEW f, f = [task EXCEPT ![t].pc = "resolve"]
        PROVE  Moved(t, f) /\ f[t].pc = "resolve"
    BY <1>2, <1>3, <2>1, NewPlace
  <2> QED BY <2>1
<1>5. CASE n \in Netdevs /\ EraseIface(n, tk)
  <2>1. n \in Ends /\ link' = Severed(n) /\ task' = WithoutCopies(n, tk)
    BY <1>5, EndsApart DEF EraseIface
  <2> HIDE DEF n, tk
  <2> QED BY <1>3, <1>4, <1>7, <2>1, ThreadFrees DEF Forgets, portVars, netVars
<1>6. CASE task' = tk /\ UNCHANGED <<link, ifaces, iface_cubes>>
  BY <1>3, <1>4, <1>6, <1>7, OnlyTask DEF Forgets, portVars, netVars, Typed
<1> QED BY <1>5, <1>6 DEF Forgets

\* A thread that runs another command than "set".
LEMMA InCommand ==
  ASSUME Inv, NEW t \in Threads, NEW c, Runs(t, c), c # "set"
  PROVE  /\ Typed /\ InScript /\ task[t].script # <<>> /\ ~Linking(t)
         /\ Tail(task[t].script) \in Seq(Commands) /\ Now(t).cmd = c
BY NowCommand DEF Runs, Inv, InScript, Linking

\* ErasesPort keeps the invariant.
LEMMA ErasesPortInv ==
  ASSUME Inv, NEW t \in Threads, ErasesPort(t)
  PROVE  Inv'
<1>1. /\ Typed /\ InScript /\ task[t].script # <<>> /\ ~Linking(t)
      /\ Tail(task[t].script) \in Seq(Commands) /\ Now(t).cmd = "erase"
  BY InCommand DEF ErasesPort
<1>2. Now(t).on \in Ports
  BY <1>1, NowCommand
<1>3. LetGo(t, Now(t).on, Tail(task[t].script), FALSE) /\ ports' \subseteq Ports
  BY <1>1 DEF ErasesPort, Typed
<1>4. Moved(t, task') /\ task'[t].pc = "check"
  BY <1>1, <1>2, <1>3, LetGoMoves
<1> QED BY <1>1, <1>3, <1>4, OnlyTask DEF ErasesPort, netVars, Typed

\* DestroysPort keeps the invariant.
LEMMA DestroysPortInv ==
  ASSUME Inv, NEW t \in Threads, DestroysPort(t)
  PROVE  Inv'
<1> DEFINE rest == Tail(task[t].script)
           tk == [task EXCEPT ![t] = IF rest = <<>> THEN Idle ELSE Doing(task[t].op, rest)]
<1>1. /\ Typed /\ InScript /\ task[t].script # <<>> /\ ~Linking(t)
      /\ rest \in Seq(Commands) /\ Now(t).cmd = "destroy"
  BY InCommand DEF DestroysPort
<1>2. Now(t).on \in Ends
  BY <1>1, NowCommand, EndsApart
<1>3. link' = Severed(Now(t).on) /\ task' = WithoutCopies(Now(t).on, tk)
  BY DEF DestroysPort
<1>4. Moved(t, tk) /\ tk[t].pc = "check"
  <2> HIDE DEF rest
  <2> QED BY <1>1, GoOnMoves
<1> HIDE DEF tk
<1> QED BY <1>1, <1>2, <1>3, <1>4, ThreadFrees DEF DestroysPort, portVars, netVars

\* ForgetsIface keeps the invariant.
LEMMA ForgetsIfaceInv ==
  ASSUME Inv, NEW t \in Threads, ForgetsIface(t)
  PROVE  Inv'
<1> DEFINE tk == [task EXCEPT ![t] = Idle]
<1>1. Typed /\ ~Linking(t) /\ task[t].script # <<>> /\ Now(t).cmd = "forget_iface"
  BY InCommand DEF ForgetsIface
<1>2. Now(t).on \in Ends
  BY <1>1, NowCommand, EndsApart
<1>3. link' = Severed(Now(t).on) /\ task' = WithoutCopies(Now(t).on, tk)
  BY DEF ForgetsIface, EraseIface
<1>4. "none" \in Ops /\ <<>> \in Seq(Commands)
  BY DEF Ops
<1>5. Moved(t, tk) /\ tk[t].pc = "check"
  BY <1>1, <1>4, NewScript DEF Idle
<1>6. mutex' = mutex \/ mutex \in {t, NoThread}
  BY DEF ForgetsIface, Release
<1> HIDE DEF tk
<1> QED BY <1>1, <1>2, <1>3, <1>5, <1>6, ThreadFrees DEF ForgetsIface, portVars, netVars

-----------------------------------------------------------------------------
(* What clients, the kernel and the daemon start.                          *)

\* A thread that starts an operation.
LEMMA StartsInv ==
  ASSUME Inv, NEW t \in Threads, NEW op \in Ops, NEW s \in Seq(Commands),
         op = "none" => s = <<>>, task[t].op = "none",
         task' = [task EXCEPT ![t] = Doing(op, s)],
         mutex' = mutex \/ mutex \in {t, NoThread},
         ports' \subseteq Ports, available' \subseteq Netdevs,
         link' = link, ports_to_ports' = ports_to_ports, failures' = failures
  PROVE  Inv'
<1>1. Typed /\ ~Linking(t)
  BY DEF Inv, InScript, Linking
<1>2. Moved(t, task') /\ task'[t].pc = "check"
  BY <1>1, NewScript
<1> QED BY <1>1, <1>2, OnlyTask

\* The commands of a request.
LEMMA RequestCommands ==
  ASSUME NEW p \in Ports, NEW x \in Ends \cup {NoPeer}
  PROVE  Set(p, x) \in Commands /\ Set(p, NoPeer) \in Commands /\ Erase(p) \in Commands
BY DEF Commands

\* The operations, one by one.
LEMMA OpNames ==
  /\ "none" \in Ops /\ "set_peer" \in Ops /\ "connect" \in Ops /\ "disconnect" \in Ops
  /\ "add_port" \in Ops /\ "remove_port" \in Ops /\ "destroy_cube" \in Ops
  /\ "netlink" \in Ops
BY DEF Ops

\* The requests about ports keep the invariant.
LEMMA PortRequestInv ==
  ASSUME Inv, NEW t \in Threads, NEW p \in Ports, NEW x \in Peers \cup {NoPeer},
         \/ SetPeer(t, p, x) \/ AddPort(t, p, x) \/ RemovePort(t, p)
         \/ x \in Peers /\ (Connect(t, p, x) \/ Disconnect(t, p, x))
  PROVE  Inv'
<1>1. x \in Ends \cup {NoPeer} /\ p \in Ends
  BY EndsAssumption, EndsApart
<1>2. /\ Set(p, x) \in Commands /\ Set(p, NoPeer) \in Commands /\ Erase(p) \in Commands
      /\ x \in Ports => Set(x, p) \in Commands /\ Set(x, NoPeer) \in Commands
  BY <1>1, RequestCommands
<1>3. Inv /\ Typed
  BY DEF Inv
<1>4. CASE SetPeer(t, p, x)
  <2>1. <<Set(p, x)>> \in Seq(Commands)
    BY <1>2
  <2>2. /\ task[t].op = "none" /\ task' = [task EXCEPT ![t] = Doing("set_peer", <<Set(p, x)>>)]
        /\ UNCHANGED <<mutex, ports, available, link, ports_to_ports, failures>>
    BY <1>4 DEF SetPeer, Starts, OthersUnchanged, netVars
  <2> QED BY <1>3, <2>1, <2>2, OpNames, StartsInv DEF Typed
<1>5. CASE AddPort(t, p, x)
  <2>1. <<Set(p, x)>> \in Seq(Commands)
    BY <1>2
  <2>2. /\ task[t].op = "none" /\ ports' = ports \cup {p}
        /\ UNCHANGED <<mutex, available, link, ports_to_ports, failures>>
        /\ \/ task' = task
           \/ task' = [task EXCEPT ![t] = Doing("add_port", <<Set(p, x)>>)]
    BY <1>5 DEF AddPort, OthersUnchanged, netVars
  <2>3. ports' \subseteq Ports /\ available' \subseteq Netdevs
    BY <1>3, <2>2 DEF Typed
  <2>4. CASE task' = task
    BY <2>2, <2>3, <2>4, TasksAlone
  <2>5. CASE task' = [task EXCEPT ![t] = Doing("add_port", <<Set(p, x)>>)]
    BY <2>1, <2>2, <2>3, <2>5, OpNames, StartsInv
  <2> QED BY <2>2, <2>4, <2>5
<1>6. CASE RemovePort(t, p)
  <2>1. <<Set(p, NoPeer), Erase(p)>> \in Seq(Commands)
    BY <1>2
  <2>2. /\ task[t].op = "none"
        /\ task' = [task EXCEPT ![t] = Doing("remove_port", <<Set(p, NoPeer), Erase(p)>>)]
        /\ UNCHANGED <<mutex, ports, available, link, ports_to_ports, failures>>
    BY <1>6 DEF RemovePort, Starts, OthersUnchanged, netVars
  <2> QED BY <1>3, <2>1, <2>2, OpNames, StartsInv DEF Typed
<1>7. CASE Connect(t, p, x)
  <2> DEFINE s == IF x \in Ports THEN <<Set(p, x), Set(x, p)>> ELSE <<Set(p, x)>>
  <2>1. s \in Seq(Commands)
    BY <1>2
  <2>2. /\ task[t].op = "none" /\ task' = [task EXCEPT ![t] = Doing("connect", s)]
        /\ UNCHANGED <<mutex, ports, available, link, ports_to_ports, failures>>
    BY <1>7 DEF Connect, Starts, OthersUnchanged, netVars
  <2> HIDE DEF s
  <2> QED BY <1>3, <2>1, <2>2, OpNames, StartsInv DEF Typed
<1>8. CASE Disconnect(t, p, x)
  <2> DEFINE s == IF x \in Ports THEN <<Set(p, NoPeer), Set(x, NoPeer)>>
                  ELSE <<Set(p, NoPeer)>>
  <2>1. s \in Seq(Commands)
    BY <1>2
  <2>2. /\ task[t].op = "none" /\ task' = [task EXCEPT ![t] = Doing("disconnect", s)]
        /\ UNCHANGED <<mutex, ports, available, link, ports_to_ports, failures>>
    BY <1>8 DEF Disconnect, Starts, OthersUnchanged, netVars
  <2> HIDE DEF s
  <2> QED BY <1>3, <2>1, <2>2, OpNames, StartsInv DEF Typed
<1> QED BY <1>4, <1>5, <1>6, <1>7, <1>8

\* DestroyCube keeps the invariant.
LEMMA DestroyCubeInv ==
  ASSUME Inv, NEW t \in Threads, NEW c, DestroyCube(t, c)
  PROVE  Inv'
<1> DEFINE P == PortsOf(c)
           N == Cardinality(P)
<1>1. P \subseteq Ports /\ N \in Nat
  <2>1. P \subseteq Ports
    BY DEF PortsOf, Inv, Typed
  <2>2. IsFiniteSet(P)
    BY <2>1, EndsAssumption, FS_Subset
  <2> QED BY <2>1, <2>2, FS_CardinalityType
<1>2. PICK s \in Orders(P) :
        Starts(t, IF s = <<>> THEN "none" ELSE "destroy_cube",
               [i \in DOMAIN s |-> Set(s[i], NoPeer)] \o [i \in DOMAIN s |-> Erase(s[i])])
  BY DEF DestroyCube
<1> HIDE DEF P, N
<1>3. s \in [1 .. N -> P]
  BY DEF Orders, N
<1> DEFINE a == [i \in DOMAIN s |-> Set(s[i], NoPeer)]
           b == [i \in DOMAIN s |-> Erase(s[i])]
           op == IF s = <<>> THEN "none" ELSE "destroy_cube"
<1>4. \A i \in 1 .. N : Set(s[i], NoPeer) \in Commands /\ Erase(s[i]) \in Commands
  BY <1>1, <1>3, RequestCommands
<1>5. a \in Seq(Commands) /\ Len(a) = N /\ b \in Seq(Commands) /\ Len(b) = N
  <2>1. a \in [1 .. N -> Commands] /\ b \in [1 .. N -> Commands]
    BY <1>3, <1>4
  <2> HIDE DEF a, b
  <2> QED BY <1>1, <2>1
<1>6. s = <<>> => N = 0
  BY <1>1, <1>3
<1>7. /\ task[t].op = "none" /\ task' = [task EXCEPT ![t] = Doing(op, a \o b)]
      /\ UNCHANGED <<mutex, ports, available, link, ports_to_ports, failures>>
  BY <1>2 DEF DestroyCube, Starts, netVars
<1>8. op \in Ops /\ (op = "none" => s = <<>>)
  BY OpNames
<1> HIDE DEF a, b, op
<1>9. a \o b \in Seq(Commands) /\ (N = 0 => a \o b = <<>>)
  BY <1>1, <1>5, ConcatProperties
<1> QED BY <1>6, <1>7, <1>8, <1>9, StartsInv DEF Inv, Typed

\* NetlinkNotification keeps the invariant.
LEMMA NetlinkNotificationInv ==
  ASSUME Inv, NEW n \in Netdevs, NetlinkNotification(n)
  PROVE  Inv'
<1>1. /\ task[Listener].op = "none" /\ mutex = NoThread
      /\ UNCHANGED <<ports, available, link, ports_to_ports, failures>>
  BY DEF NetlinkNotification, portVars
<1>2. Typed /\ Listener \in Threads
  BY DEF Inv, Threads
<1>3. CASE UNCHANGED <<mutex, task>>
  BY <1>1, <1>2, <1>3, TasksAlone DEF Typed
<1>4. CASE /\ link[n] # Dangling
           /\ task' = [task EXCEPT ![Listener] = Doing("netlink",
                         IF link[n] = NoPeer THEN <<ForgetIface(n)>>
                         ELSE <<Set(link[n], NoPeer), ForgetIface(n)>>)]
  <2> DEFINE s == IF link[n] = NoPeer THEN <<ForgetIface(n)>>
                  ELSE <<Set(link[n], NoPeer), ForgetIface(n)>>
  <2>1. link[n] # NoPeer => link[n] \in Ports
    BY <1>2, <1>4, EndsApart DEF Typed, Pointers
  <2>2. ForgetIface(n) \in Commands /\ (link[n] # NoPeer => Set(link[n], NoPeer) \in Commands)
    BY <2>1, RequestCommands DEF Commands
  <2>3. s \in Seq(Commands)
    BY <2>2
  <2>4. task' = [task EXCEPT ![Listener] = Doing("netlink", s)]
    BY <1>4
  <2> HIDE DEF s
  <2> QED BY <1>1, <1>2, <2>3, <2>4, OpNames, StartsInv DEF Typed
<1> QED BY <1>3, <1>4 DEF NetlinkNotification

\* DetachIface keeps the invariant.
LEMMA DetachIfaceInv ==
  ASSUME Inv, NEW n \in Netdevs, DetachIface(n)
  PROVE  Inv'
<1>1. CASE Crash
  BY <1>1, CrashInv
<1>2. CASE EraseIface(n, task) /\ UNCHANGED <<portVars, ports_to_ports, netVars, mutex, failures>>
  <2>1. /\ n \in Ends /\ link' = Severed(n) /\ task' = WithoutCopies(n, task)
        /\ task \in [Threads -> Tasks] /\ Typed
        /\ UNCHANGED <<ports, available, ports_to_ports, mutex, failures>>
    BY <1>2, EndsApart DEF EraseIface, Inv, Typed, portVars, netVars
  <2>2. ASSUME NEW u \in Threads
        PROVE  /\ task'[u] \in Tasks /\ task'[u].pc = task[u].pc
               /\ task'[u].script = task[u].script /\ task'[u].op = task[u].op
               /\ task'[u].ref = IF task[u].ref = n THEN Dangling ELSE task[u].ref
    <3>1. task[u] \in Tasks
      BY <2>1
    <3> QED BY <2>1, <3>1 DEF WithoutCopies, Tasks, Pointers
  <2>3. task' \in [Threads -> Tasks]
    BY <2>1, <2>2 DEF WithoutCopies
  <2>4. Typed'
    <3>1. link' \in [Ends -> Pointers] /\ \A m \in Netdevs : link'[m] \notin Netdevs
      BY <2>1, SeveredTyped
    <3> QED BY <2>1, <2>3, <3>1 DEF Typed
  <2>5. InScript'
    BY <2>2 DEF Inv, InScript, Now
  <2>6. SameLinking
    BY <2>1, <2>2 DEF SameLinking, StillLinking, Linking
  <2>7. NoMoreUnlinking /\ \A u \in Threads : task'[u].ref # n
    BY <2>1, <2>2, EndsApart DEF NoMoreUnlinking, Unlinking
  <2>8. Grows
    BY <2>1 DEF Grows
  <2> QED BY <2>1, <2>4, <2>5, <2>6, <2>7, <2>8, ObjectFreed
<1>3. CASE UNCHANGED <<portVars, link, ports_to_ports, netVars, mutex, task, failures>>
  BY <1>3, TasksAlone DEF portVars, netVars, Inv, Typed
<1> QED BY <1>1, <1>2, <1>3 DEF DetachIface

-----------------------------------------------------------------------------
(* The theorems.                                                           *)

\* The invariant holds at the start.
LEMMA InitInv == Init => Inv
<1> SUFFICES ASSUME Init PROVE Inv
  OBVIOUS
<1>1. /\ \A t \in Threads : task[t].op = "none" /\ task[t].script = <<>> /\ task[t].pc = "check"
      /\ \A e \in Ends : link[e] = NoPeer
  BY DEF Init, Idle, Doing
<1>2. task \in [Threads -> Tasks]
  <2>1. Idle \in Tasks
    <3>1. NoPeer \in Pointers /\ "check" \in Places /\ <<>> \in Seq(Commands)
      BY EndsApart DEF Places
    <3> QED BY <3>1, OpNames DEF Idle, Doing, Tasks
  <2> QED BY <2>1 DEF Init
<1>3. Typed
  BY <1>1, <1>2, EndsApart DEF Init, Typed
<1>4. InScript /\ HalfLinks
  BY <1>1 DEF InScript, HalfLinks, Linking
<1>5. LinksChosen
  BY <1>1, EndsApart DEF LinksChosen
<1>6. Exclusive
  BY <1>1, EndsApart
  DEF Exclusive, NotYetLinked, LinkedBack, UnlinkedOnce, AboutToLink, Linking, Unlinking
<1> QED BY <1>3, <1>4, <1>5, <1>6 DEF Inv

\* Every step of a thread keeps it.
LEMMA ThreadStepInv ==
  ASSUME Inv, NEW t \in Threads, ThreadStep(t)
  PROVE  Inv'
<1>1. CASE PortGone(t) \/ SetPeerSame(t) \/ SetPeerDiffers(t) \/ ReadLink(t) \/ Assigns(t)
  BY <1>1, PortGoneInv, SetPeerSameInv, SetPeerDiffersInv, ReadLinkInv, AssignsInv
<1>2. CASE UnlinkOwn(t) \/ UnlinkOther(t) \/ ChecksUsed(t) \/ Forgets(t)
  BY <1>2, UnlinkOwnInv, UnlinkOtherInv, ChecksUsedInv, ForgetsInv
<1>3. CASE FollowsBadLink(t)
  BY <1>3, CrashInv DEF FollowsBadLink
<1>4. CASE \/ ResolveEmpty(t) \/ ResolveIface(t) \/ ResolvePort(t) \/ ResolveThrows(t)
           \/ LinkOther(t)
  BY <1>4, ResolveEmptyInv, ResolveIfaceInv, ResolvePortInv, ResolveThrowsInv, LinkOtherInv
<1>5. CASE ErasesPort(t) \/ DestroysPort(t) \/ ForgetsIface(t)
  BY <1>5, ErasesPortInv, DestroysPortInv, ForgetsIfaceInv
<1> QED BY <1>1, <1>2, <1>3, <1>4, <1>5 DEF ThreadStep, SetPeerStep

\* Every request keeps it.
LEMMA RequestInv ==
  ASSUME Inv, Request
  PROVE  Inv'
<1>1. PICK t \in Workers :
        \/ \E p \in Ports, x \in Peers \cup {NoPeer} : SetPeer(t, p, x) \/ AddPort(t, p, x)
        \/ \E p \in Ports, x \in Peers : Connect(t, p, x) \/ Disconnect(t, p, x)
        \/ \E p \in Ports : RemovePort(t, p)
        \/ \E c \in Cubes : DestroyCube(t, c)
  BY DEF Request
<1>2. t \in Threads /\ NoPeer \in Peers \cup {NoPeer}
  BY DEF Threads
<1>3. CASE \E p \in Ports, x \in Peers \cup {NoPeer} : SetPeer(t, p, x) \/ AddPort(t, p, x)
  BY <1>2, <1>3, PortRequestInv
<1>4. CASE \E p \in Ports, x \in Peers : Connect(t, p, x) \/ Disconnect(t, p, x)
  BY <1>2, <1>4, PortRequestInv
<1>5. CASE \E p \in Ports : RemovePort(t, p)
  BY <1>2, <1>5, PortRequestInv
<1>6. CASE \E c \in Cubes : DestroyCube(t, c)
  BY <1>2, <1>6, DestroyCubeInv
<1> QED BY <1>1, <1>3, <1>4, <1>5, <1>6

\* Every step of the kernel and the daemon keeps it.
LEMMA EnvironmentInv ==
  ASSUME Inv, Environment
  PROVE  Inv'
<1>1. Typed
  BY DEF Inv
<1>2. CASE \E c \in Cubes : CreateCube(c)
  BY <1>1, <1>2, TasksAlone DEF CreateCube, netVars, Typed
<1>3. CASE \E n \in Netdevs : NetdevAdded(n) \/ NetdevRemoved(n)
  BY <1>1, <1>3, TasksAlone DEF NetdevAdded, NetdevRemoved, portVars, Typed
<1>4. CASE \E n \in Netdevs : NetlinkNotification(n) \/ DetachIface(n)
  BY <1>4, NetlinkNotificationInv, DetachIfaceInv
<1>5. ASSUME NEW n \in Netdevs, NEW ty \in AttachTypes, AttachIface(n, ty)
      PROVE  Inv'
  <2>1. CASE Crash
    BY <2>1, CrashInv
  <2>2. CASE UNCHANGED <<portVars, peer, link, ports_to_ports, netVars, mutex, task,
                         failures, crashed>>
    BY <1>1, <2>2, TasksAlone DEF portVars, netVars, Typed
  <2> QED BY <1>5, <2>1, <2>2 DEF AttachIface
<1>6. ASSUME NEW n \in Netdevs, NEW ty \in AttachTypes, AttachRefused(n, ty)
      PROVE  Inv'
  <2>1. /\ UNCHANGED <<portVars, peer, link, ports_to_ports, netVars, mutex, task, crashed>>
        /\ failures' = failures + 1 /\ failures \in Nat
    BY <1>1, <1>6 DEF AttachRefused, Typed
  <2> QED BY <1>1, <2>1 DEF Inv, Typed, InScript, HalfLinks, LinksChosen, Chosen, Exclusive, Linking,
                        Now, portVars, netVars
<1> QED BY <1>2, <1>3, <1>4, <1>5, <1>6 DEF Environment

\* Every step keeps it.
LEMMA NextInv == Inv /\ [Next]_vars => Inv'
<1> SUFFICES ASSUME Inv, [Next]_vars PROVE Inv'
  OBVIOUS
<1>1. CASE UNCHANGED vars
  BY <1>1, TasksAlone DEF vars, portVars, netVars, Inv, Typed
<1>2. CASE Next
  BY <1>2, ThreadStepInv, RequestInv, EnvironmentInv DEF Next
<1> QED BY <1>1, <1>2

\* Two ports are linked only if both were given a port as their peer and one of
\* them was first given the other, whatever set_peer, connect, disconnect,
\* remove_port and the failures of relinking do (set_port_peer).
THEOREM LinkedByChoice == Spec => []LinkedFirstChoice
<1>1. Inv => LinkedFirstChoice
  BY DEF Inv, LinksChosen, Chosen, LinkedFirstChoice
<1> QED BY <1>1, InitInv, NextInv, PTL DEF Spec

\* As long as every program loads, no two ports are ever linked to one
\* interface: set_port_peer looks at the interface and links it under
\* service_ctrl_mutex_, and those who unlink do so from the side of the port
\* first, outside that mutex.
THEOREM InterfacesExclusive == Spec => []IfaceExclusive
<1>1. Inv => IfaceExclusive
  BY OneOwner DEF Inv, Exclusive, IfaceExclusive
<1> QED BY <1>1, InitInv, NextInv, PTL DEF Spec

\* With any number of clients and the listener at the same time, as long as
\* every program loads: when all are done, an interface a port is linked to is
\* linked back (Port::connect and unconnect under set_port_peer).
THEOREM LinkedBackInTheEnd == Spec => []LinkedBackAtRest
<1>1. Inv => LinkedBackAtRest
  <2> SUFFICES ASSUME Inv, Quiet, failures = 0,
                      NEW p \in Ports, NEW n \in Netdevs, link[p] = n
               PROVE  link[n] = p
    BY DEF LinkedBackAtRest
  <2>1. \A t \in Threads : ~Linking(t)
    BY DEF Quiet, Running, Inv, InScript, Linking
  <2> QED BY <2>1 DEF Inv, Exclusive, LinkedBack, AboutToLink
<1> QED BY <1>1, InitInv, NextInv, PTL DEF Spec

-----------------------------------------------------------------------------
(* A client and the listener.  The second invariant is about one worker    *)
(* whose requests overlap with the notifications of the listener in any    *)
(* way, while transparent cubes are attached and detached.  The listener   *)
(* holds service_ctrl_mutex_ from its first step to its last, but set_peer *)
(* takes a link apart without it.                                          *)

OneClient == \A t, u \in Workers : t = u

\* Only interfaces are given to ports as peers.
IfacePeers == Peers \cap Ports = {}

NamesTyped ==
  /\ peer \in [Ports -> Ends \cup {NoPeer}]
  /\ ifaces \in [Netdevs -> Types \cup {"none"}]

Script(t) == task[t].script

IfaceCommands == {c \in Commands : c.to \notin Ports}

ToIfaces == OnlyIfaces /\ \A t \in Threads : Script(t) \in Seq(IfaceCommands)

\* The two scripts of the listener.
Drops(n)    == <<ForgetIface(n)>>
Takes(p, n) == <<Set(p, NoPeer), ForgetIface(n)>>

ListenerForm ==
  Script(Listener) # <<>> =>
    /\ mutex = Listener /\ task[Listener].op = "netlink"
    /\ \E n \in Netdevs : \/ Script(Listener) = Drops(n)
                          \/ \E p \in Ports : Script(Listener) = Takes(p, n)

Form == NamesTyped /\ ToIfaces /\ ListenerForm

\* The listener is going to forget n.
ForgetsIn(s, n) == \E i \in DOMAIN s : s[i] = ForgetIface(n)
Forgetting(n)   == ForgetsIn(Script(Listener), n)

Dropping(t) == task[t].pc \in {"used", "forget"}

\* The port got a new link and its name follows.
Renaming(t, p) == task[t].pc \in {"link_other", "assign"} /\ Now(t).on = p

\* t takes a link apart, or has.
Parting(t) == task[t].pc \in {"unlink", "unlink_other", "used", "forget"}

\* What the places of set_port_peer say of the port and its old peer.  The
\* other thread may have unlinked the port or erased the interface.
Midway(t) ==
  LET p == Now(t).on
      old == task[t].old
      pc == task[t].pc
  IN /\ Parting(t) => old \in Netdevs \cup {Dangling}
     /\ Parting(t) /\ old \in Netdevs => peer[p] = old \/ Forgetting(old)
     /\ pc = "unlink" => link[p] \in {old, NoPeer}
     /\ pc = "unlink_other" => task[t].ref \in {old, NoPeer}
     /\ pc \in {"unlink_other", "used", "forget", "resolve"} => link[p] = NoPeer
     /\ pc = "link_other" => link[p] \in {Now(t).to, Dangling}
     /\ pc = "assign" => link[p] \in {Now(t).to, NoPeer, Dangling}

\* The port that the listener takes an interface from is not linked to another
\* one, nor is another one taken from it.
Target ==
  \A p \in Ports, n \in Netdevs : Script(Listener) = Takes(p, n) =>
    /\ link[p] \in Netdevs => link[p] = n
    /\ \A t \in Threads : Parting(t) /\ Now(t).on = p /\ task[t].old \in Netdevs => task[t].old = n

Named == \A p \in Ports : link[p] \in Netdevs => peer[p] = link[p] \/ \E t \in Threads : Renaming(t, p)

\* An interface is used, or somebody is about to link, to drop or to forget it.
Used ==
  \A n \in Netdevs : ifaces[n] # "none" =>
    \/ n \in iface_cubes \/ link[n] # NoPeer
    \/ \E t \in Threads : Linking(t) /\ Now(t).to = n
    \/ \E t \in Threads : Dropping(t) /\ task[t].old = n
    \/ Forgetting(n)

\* A port to which an interface is linked is linked to it, or somebody is about
\* to take the other side away, or will go down with the link.
Back ==
  \A p \in Ports, n \in Netdevs : link[n] = p =>
    \/ link[p] \in {n, Dangling}
    \/ \E t \in Threads : Unlinking(t) /\ Now(t).on = p /\ task[t].ref \in {n, Dangling}

Good == ~crashed /\ failures = 0

Orderly == (\A t \in Threads : Midway(t)) /\ Target /\ Named /\ Used /\ Back

Meanwhile == Form /\ (Good => Orderly)

LEMMA IdleThread ==
  ASSUME Inv, NEW t \in Threads, task[t].op = "none"
  PROVE  task[t].script = <<>> /\ task[t].pc = "check"
BY DEF Inv, InScript

\* Without ports as peers no port is linked to a port.
LEMMA NoPortLinks ==
  ASSUME Inv, OnlyIfaces, NEW p \in Ports
  PROVE  link[p] \notin Ports
BY MarksAssumption, EndsApart DEF OnlyIfaces, Inv, LinksChosen, Chosen

\* The links once an object is freed.
LEMMA SeveredLinks ==
  ASSUME Inv, NEW d \in Ends, link' = Severed(d)
  PROVE  /\ \A e \in Ends : link'[e] = IF e = d THEN NoPeer
                                       ELSE IF link[e] = d THEN Dangling ELSE link[e]
         /\ \A e \in Ends \ {d} : link[e] # d => link'[e] = link[e]
         /\ \A e \in Ends \ {d} : link'[e] = NoPeer => link[e] = NoPeer
         /\ \A e \in Ends, f \in Ends : link'[e] = f => e # d /\ link[e] = f
BY EndsApart DEF Severed

\* Two threads are a worker and the listener.
LEMMA TwoThreads ==
  ASSUME OneClient, NEW t \in Threads, NEW u \in Threads, t # u
  PROVE  /\ t = Listener \/ u = Listener
         /\ t # Listener => u = Listener
BY DEF OneClient, Threads

\* What the two scripts forget.
LEMMA ForgetsDropped ==
  \A n, m : ForgetsIn(Drops(n), m) <=> m = n
<1> SUFFICES ASSUME NEW n, NEW m PROVE ForgetsIn(Drops(n), m) <=> m = n
  OBVIOUS
<1>1. DOMAIN Drops(n) = {1} /\ Drops(n)[1] = ForgetIface(n)
  BY DEF Drops
<1>2. ForgetIface(n) = ForgetIface(m) => n = m
  <2>1. ForgetIface(n).on = n /\ ForgetIface(m).on = m
    BY DEF ForgetIface
  <2> QED BY <2>1
<1> QED BY <1>1, <1>2 DEF ForgetsIn

LEMMA ForgetsTaken ==
  \A p, n, m : ForgetsIn(Takes(p, n), m) <=> m = n
<1> SUFFICES ASSUME NEW p, NEW n, NEW m PROVE ForgetsIn(Takes(p, n), m) <=> m = n
  OBVIOUS
<1>1. DOMAIN Takes(p, n) = {1, 2} /\ Takes(p, n)[1] = Set(p, NoPeer) /\ Takes(p, n)[2] = ForgetIface(n)
  BY DEF Takes
<1>2. ForgetIface(n) = ForgetIface(m) => n = m
  <2>1. ForgetIface(n).on = n /\ ForgetIface(m).on = m
    BY DEF ForgetIface
  <2> QED BY <2>1
<1>3. Set(p, NoPeer) # ForgetIface(m)
  <2>1. Set(p, NoPeer).cmd = "set" /\ ForgetIface(m).cmd = "forget_iface"
    BY DEF Set, ForgetIface
  <2> QED BY <2>1
<1> QED BY <1>1, <1>2, <1>3 DEF ForgetsIn

\* The scripts of the listener are told apart.
LEMMA ListenerScripts ==
  /\ \A n : /\ Drops(n) # <<>> /\ Tail(Drops(n)) = <<>> /\ Head(Drops(n)) = ForgetIface(n)
            /\ \A p, m : Drops(n) # Takes(p, m)
  /\ \A p, n : /\ Takes(p, n) # <<>> /\ Tail(Takes(p, n)) = Drops(n)
               /\ Head(Takes(p, n)) = Set(p, NoPeer)
               /\ \A q, m : Takes(p, n) = Takes(q, m) => p = q /\ n = m
<1>1. ASSUME NEW n PROVE /\ Drops(n) # <<>> /\ Tail(Drops(n)) = <<>> /\ Head(Drops(n)) = ForgetIface(n)
                         /\ Len(Drops(n)) = 1
  BY DEF Drops
<1>2. ASSUME NEW p, NEW n
      PROVE  /\ Takes(p, n) # <<>> /\ Tail(Takes(p, n)) = Drops(n) /\ Len(Takes(p, n)) = 2
             /\ Takes(p, n)[1] = Set(p, NoPeer) /\ Takes(p, n)[2] = ForgetIface(n)
             /\ Head(Takes(p, n)) = Set(p, NoPeer)
  BY DEF Takes, Drops
<1>3. ASSUME NEW p, NEW n, NEW q, NEW m, Takes(p, n) = Takes(q, m) PROVE p = q /\ n = m
  <2>1. Set(p, NoPeer) = Set(q, NoPeer) /\ ForgetIface(n) = ForgetIface(m)
    BY <1>2, <1>3
  <2>2. Set(p, NoPeer).on = p /\ Set(q, NoPeer).on = q /\ ForgetIface(n).on = n /\ ForgetIface(m).on = m
    BY DEF Set, ForgetIface
  <2> QED BY <2>1, <2>2
<1>4. ASSUME NEW n, NEW p, NEW m PROVE Drops(n) # Takes(p, m)
  BY <1>1, <1>2
<1> QED BY <1>1, <1>2, <1>3, <1>4

\* The listener inside set_peer.
LEMMA ListenerSets ==
  ASSUME Form, Script(Listener) # <<>>, Now(Listener).cmd = "set"
  PROVE  \E p \in Ports, n \in Netdevs :
           /\ Script(Listener) = Takes(p, n) /\ Tail(Script(Listener)) = Drops(n)
           /\ Now(Listener).on = p /\ Now(Listener).to = NoPeer
           /\ mutex = Listener /\ task[Listener].op = "netlink"
<1>1. Now(Listener) = Head(Script(Listener))
  BY DEF Script, Now
<1>2. PICK n \in Netdevs : \/ Script(Listener) = Drops(n)
                           \/ \E p \in Ports : Script(Listener) = Takes(p, n)
  BY DEF Form, ListenerForm
<1>3. Script(Listener) # Drops(n)
  BY <1>1, ListenerScripts DEF ForgetIface
<1>4. PICK p \in Ports : Script(Listener) = Takes(p, n)
  BY <1>2, <1>3
<1>5. Set(p, NoPeer).on = p /\ Set(p, NoPeer).to = NoPeer
  BY DEF Set
<1> QED BY <1>1, <1>4, <1>5, ListenerScripts DEF Form, ListenerForm

\* The listener never destroys or erases a port.
LEMMA ListenerForgets ==
  ASSUME Form, Script(Listener) # <<>>
  PROVE  Now(Listener).cmd \in {"set", "forget_iface"}
<1>1. Now(Listener) = Head(Script(Listener))
  BY DEF Script, Now
<1> QED BY <1>1, ListenerScripts DEF Form, ListenerForm, Set, ForgetIface

\* While somebody else has the mutex, or nobody, the listener does nothing.
LEMMA ListenerFree ==
  ASSUME Inv, Form, mutex # Listener
  PROVE  /\ Script(Listener) = <<>> /\ task[Listener].pc = "check"
         /\ \A n : ~Forgetting(n)
         /\ \A p, n : Script(Listener) # Takes(p, n)
<1>1. Script(Listener) = <<>>
  BY DEF Form, ListenerForm
<1>2. task[Listener].pc = "check"
  BY <1>1 DEF Inv, InScript, Script, Threads
<1>3. \A n : ~Forgetting(n)
  BY <1>1 DEF Forgetting, ForgetsIn
<1> QED BY <1>1, <1>2, <1>3, ListenerScripts

\* Commands name interfaces.
LEMMA ToIface ==
  ASSUME Form, NEW t \in Threads, task[t].script # <<>>
  PROVE  /\ Now(t).to \in Netdevs \cup {NoPeer} /\ Tail(task[t].script) \in Seq(IfaceCommands)
         /\ Script(t) = task[t].script /\ Script(t) \in Seq(IfaceCommands)
<1>1. Script(t) = task[t].script /\ Script(t) \in Seq(IfaceCommands)
  BY DEF Form, ToIfaces, Script
<1>2. Now(t) \in IfaceCommands /\ Tail(task[t].script) \in Seq(IfaceCommands)
  BY <1>1, HeadTailProperties DEF Now
<1>3. \A c \in Commands : c.to \in Ends \cup {NoPeer}
  BY DEF Commands, Set, Erase, Destroy, ForgetIface
<1> QED BY <1>1, <1>2, <1>3, EndsApart DEF IfaceCommands

\* Only a client links, with the mutex.
LEMMA ClientLinks ==
  ASSUME Inv, Form, NEW t \in Threads, Linking(t)
  PROVE  t # Listener /\ mutex = t /\ Now(t).to \in Netdevs
<1>1. mutex = t /\ Now(t).to \in Ends /\ task[t].script # <<>> /\ Now(t).cmd = "set"
  BY DEF Inv, HalfLinks, InScript, Linking
<1>2. Now(t).to \in Netdevs
  BY <1>1, ToIface, EndsApart
<1>3. t # Listener
  BY <1>1, ListenerSets, EndsApart DEF Script
<1> QED BY <1>1, <1>2, <1>3

\* The scripts keep their form when one thread gets another one.
LEMMA FormKept ==
  ASSUME Form, NEW t \in Threads,
         \A u \in Threads \ {t} : task'[u].script = task[u].script /\ task'[u].op = task[u].op,
         Script(t)' \in Seq(IfaceCommands), NamesTyped', OnlyIfaces',
         t = Listener => \/ Script(t)' = <<>>
                         \/ /\ mutex' = mutex /\ task'[t].op = task[t].op
                            /\ Script(t) # <<>> /\ Script(t)' = Tail(Script(t)),
         t # Listener /\ mutex = Listener => mutex' = Listener
  PROVE  Form'
<1>1. ToIfaces'
  BY DEF Form, ToIfaces, Script
<1>2. ListenerForm'
  <2>1. Listener \in Threads
    BY DEF Threads
  <2>2. CASE t = Listener /\ Script(t)' = <<>>
    BY <2>2 DEF ListenerForm
  <2>3. CASE /\ t = Listener /\ mutex' = mutex /\ task'[t].op = task[t].op
             /\ Script(t) # <<>> /\ Script(t)' = Tail(Script(t))
    <3>1. PICK n \in Netdevs : \/ Script(Listener) = Drops(n)
                               \/ \E p \in Ports : Script(Listener) = Takes(p, n)
      BY <2>3 DEF Form, ListenerForm
    <3>2. Script(Listener)' = <<>> \/ Script(Listener)' = Drops(n)
      BY <2>3, <3>1, ListenerScripts
    <3> QED BY <2>3, <3>2 DEF Form, ListenerForm
  <2>4. CASE t # Listener
    BY <2>1, <2>4 DEF Form, ListenerForm, Script
  <2> QED BY <2>2, <2>3, <2>4
<1> QED BY <1>1, <1>2 DEF Form

\* And when all threads stay in their scripts.
LEMMA FormStays ==
  ASSUME Form, \A u \in Threads : task'[u].script = task[u].script /\ task'[u].op = task[u].op,
         NamesTyped', OnlyIfaces', mutex = Listener => mutex' = Listener
  PROVE  Form'
<1>1. Listener \in Threads
  BY DEF Threads
<1>2. ToIfaces'
  BY DEF Form, ToIfaces, Script
<1>3. ListenerForm'
  BY <1>1 DEF Form, ListenerForm, Script
<1> QED BY <1>2, <1>3 DEF Form

\* The script of a thread that lets go of its port.
LEMMA LetGoScript ==
  ASSUME task \in [Threads -> Tasks], NEW t \in Threads, NEW p \in Ports,
         NEW rest \in Seq(IfaceCommands), NEW inMap, LetGo(t, p, rest, inMap)
  PROVE  /\ Script(t)' \in Seq(IfaceCommands) /\ task'[t].pc = "check"
         /\ t = Listener => /\ Script(t)' = rest
                            /\ rest # <<>> => task'[t].op = task[t].op
         /\ \A u \in Threads \ {t} : task'[u] = task[u]
<1>1. ASSUME NEW s, GoOn(t, s)
      PROVE  /\ Script(t)' = s /\ task'[t].pc = "check" /\ (s # <<>> => task'[t].op = task[t].op)
             /\ \A u \in Threads \ {t} : task'[u] = task[u]
  BY <1>1 DEF GoOn, Idle, Doing, Script
<1>2. Destructor(p) \in Seq(IfaceCommands)
  <2>1. Set(p, NoPeer) \in IfaceCommands /\ Destroy(p) \in IfaceCommands
    BY EndsApart DEF IfaceCommands, Commands, Set, Destroy
  <2> QED BY <2>1 DEF Destructor
<1>3. Destructor(p) \o rest \in Seq(IfaceCommands)
  BY <1>2, ConcatProperties
<1>4. t = Listener => Holders(p) # {t}
  BY ThreadsAssumption DEF Holders
<1>5. CASE GoOn(t, rest)
  BY <1>1, <1>5
<1>6. CASE t # Listener /\ GoOn(t, Destructor(p) \o rest)
  BY <1>1, <1>3, <1>6
<1> QED BY <1>4, <1>5, <1>6 DEF LetGo

\* The listener still forgets the interfaces it was going to, and does not
\* begin to take another one.
StillForgets ==
  /\ \A n \in Netdevs : Forgetting(n) => Forgetting(n)'
  /\ Script(Listener)' = Script(Listener) \/ \A p, n : Script(Listener)' # Takes(p, n)

\* A thread lets go of its port and goes on with its script or leaves it.
LEMMA LetsGo ==
  ASSUME Inv, Form, NEW t \in Threads, task[t].script # <<>>, Now(t).on \in Ports,
         NEW rest, rest \in {<<>>, Tail(task[t].script)}, NEW inMap,
         LetGo(t, Now(t).on, rest, inMap), NamesTyped', OnlyIfaces',
         rest = <<>> \/ mutex' = mutex, t # Listener /\ mutex = Listener => mutex' = Listener
  PROVE  /\ Form' /\ task'[t].pc = "check" /\ \A u \in Threads \ {t} : task'[u] = task[u]
         /\ (t # Listener \/ (rest = Tail(task[t].script) /\ Now(t).cmd = "set")) => StillForgets
<1>1. /\ Tail(task[t].script) \in Seq(IfaceCommands) /\ Script(t) = task[t].script
      /\ <<>> \in Seq(IfaceCommands) /\ task \in [Threads -> Tasks] /\ Listener \in Threads
  BY ToIface DEF Inv, Typed, Threads
<1>2. /\ Script(t)' \in Seq(IfaceCommands) /\ task'[t].pc = "check"
      /\ t = Listener => /\ Script(t)' = rest
                         /\ rest # <<>> => task'[t].op = task[t].op
      /\ \A u \in Threads \ {t} : task'[u] = task[u]
  BY <1>1, LetGoScript
<1>3. Form'
  BY <1>1, <1>2, FormKept
<1>4. CASE t # Listener
  <2>1. Script(Listener)' = Script(Listener)
    BY <1>1, <1>2, <1>4 DEF Script
  <2>2. StillForgets
    BY <2>1 DEF StillForgets, Forgetting
  <2> QED BY <1>2, <1>3, <2>2
<1>5. CASE t = Listener /\ rest = Tail(task[t].script) /\ Now(t).cmd = "set"
  <2>1. PICK p \in Ports, n \in Netdevs : Script(Listener) = Takes(p, n) /\ Tail(Script(Listener)) = Drops(n)
    BY <1>1, <1>5, ListenerSets
  <2>2. Script(Listener)' = Drops(n)
    BY <1>1, <1>2, <1>5, <2>1
  <2>3. StillForgets
    BY <2>1, <2>2, ForgetsDropped, ForgetsTaken, ListenerScripts DEF StillForgets, Forgetting
  <2> QED BY <1>2, <1>3, <2>3
<1> QED BY <1>2, <1>3, <1>4, <1>5

\* A thread leaves its command, and no link changes.
LEMMA Leaves ==
  ASSUME Inv, Form, Orderly, NEW t \in Threads, task'[t].pc = "check",
         \A u \in Threads \ {t} : task'[u] = task[u],
         StillForgets, UNCHANGED <<link, ifaces, iface_cubes>>,
         \/ task[t].pc \in {"check", "resolve"} /\ peer' = peer
         \/ /\ task[t].pc = "assign" /\ peer' = [peer EXCEPT ![Now(t).on] = Now(t).to]
            /\ \A u \in Threads, m \in Netdevs :
                 Parting(u) /\ Now(u).on = Now(t).on /\ task[u].old = m => Forgetting(m)'
  PROVE  Orderly'
<1> DEFINE p0 == Now(t).on
<1>1. \A u \in Threads \ {t} : /\ task'[u].pc = task[u].pc /\ task'[u].old = task[u].old
                               /\ task'[u].ref = task[u].ref /\ Now(u)' = Now(u)
  BY DEF Now
<1>2. peer \in [Ports -> Ends \cup {NoPeer}] /\ \A u \in Threads : Midway(u)
  BY DEF Form, NamesTyped, Orderly
<1>3. ASSUME NEW u \in Threads PROVE Midway(u)'
  <2>1. CASE u = t
    BY <2>1 DEF Midway, Parting
  <2>2. CASE u # t
    <3>1. ASSUME NEW m \in Netdevs, Parting(u), task[u].old = m
          PROVE  peer'[Now(u).on] = m \/ Forgetting(m)'
      <4>1. peer[Now(u).on] = m \/ Forgetting(m)
        BY <1>2, <3>1 DEF Midway
      <4>2. CASE Forgetting(m)
        BY <4>2 DEF StillForgets
      <4>3. CASE peer'[Now(u).on] = peer[Now(u).on]
        BY <4>1, <4>2, <4>3
      <4>4. Now(u).on \in Ports
        BY <3>1, NowCommand DEF Inv, InScript, Parting
      <4>5. CASE Now(u).on = Now(t).on /\ task[t].pc = "assign"
        BY <3>1, <4>5
      <4> QED BY <1>2, <3>1, <4>3, <4>4, <4>5
    <3>2. Midway(u)
      BY <1>2
    <3> QED BY <1>1, <2>2, <3>1, <3>2 DEF Midway, Parting
  <2> QED BY <2>1, <2>2
<1>4. Target'
  <2>1. ASSUME NEW p \in Ports, NEW n \in Netdevs, Script(Listener)' = Takes(p, n)
        PROVE  /\ link'[p] \in Netdevs => link'[p] = n
               /\ \A u \in Threads : Parting(u)' /\ Now(u)'.on = p /\ task'[u].old \in Netdevs
                                       => task'[u].old = n
    <3>1. Script(Listener) = Takes(p, n)
      BY <2>1 DEF StillForgets
    <3>2. /\ link[p] \in Netdevs => link[p] = n
          /\ \A u \in Threads : Parting(u) /\ Now(u).on = p /\ task[u].old \in Netdevs
                                  => task[u].old = n
      BY <3>1 DEF Orderly, Target
    <3>3. \A u \in Threads : Parting(u)' => u # t
      BY DEF Parting
    <3> QED BY <1>1, <3>2, <3>3 DEF Parting
  <2> QED BY <2>1 DEF Target
<1>5. Named'
  <2>1. ASSUME NEW p \in Ports, link[p] \in Netdevs
        PROVE  peer'[p] = link[p] \/ \E u \in Threads : Renaming(u, p)'
    <3>1. PICK u \in Threads : peer[p] = link[p] \/ Renaming(u, p)
      BY <2>1 DEF Orderly, Named
    <3>2. CASE u # t /\ Renaming(u, p)
      BY <1>1, <3>2 DEF Renaming
    <3>3. CASE task[t].pc = "assign" /\ Now(t).on = p
      <4>1. link[p] = Now(t).to
        BY <1>2, <2>1, <3>3, EndsApart DEF Midway
      <4> QED BY <1>2, <2>1, <3>3, <4>1
    <3>4. CASE peer[p] = link[p] /\ peer'[p] = peer[p]
      BY <3>4
    <3> QED BY <1>2, <3>1, <3>2, <3>3, <3>4 DEF Renaming
  <2> QED BY <2>1 DEF Named
<1>6. Used'
  <2>1. ASSUME NEW n \in Netdevs, ifaces[n] # "none", ~(n \in iface_cubes \/ link[n] # NoPeer), ~Forgetting(n)
        PROVE  \E u \in Threads \ {t} : (Linking(u) /\ Now(u).to = n) \/ (Dropping(u) /\ task[u].old = n)
    BY <2>1 DEF Orderly, Used, Linking, Dropping
  <2> QED BY <1>1, <2>1 DEF Used, StillForgets, Linking, Dropping
<1>7. Back'
  <2>1. ASSUME NEW p \in Ports, NEW n \in Netdevs, link[n] = p, link[p] \notin {n, Dangling}
        PROVE  \E u \in Threads \ {t} : Unlinking(u) /\ Now(u).on = p /\ task[u].ref \in {n, Dangling}
    BY <2>1 DEF Orderly, Back, Unlinking
  <2> QED BY <1>1, <2>1 DEF Back, Unlinking
<1> QED BY <1>3, <1>4, <1>5, <1>6, <1>7 DEF Orderly

\* Good states stay good only from good states.
LEMMA GoodBefore ==
  ASSUME Meanwhile, ~crashed, failures' = failures, Good'
  PROVE  Orderly
BY DEF Meanwhile, Good

\* PortGone.
LEMMA PortGoneMeanwhile ==
  ASSUME Inv, Inv', Meanwhile, NEW t \in Threads, PortGone(t)
  PROVE  Meanwhile'
<1>1. /\ At(t, "check") /\ GoOn(t, <<>>) /\ task[t].op \in {"connect", "disconnect"}
      /\ UNCHANGED <<peer, link, ifaces, iface_cubes, mutex, failures, crashed, ports_to_ports>>
  BY DEF PortGone
<1>2. /\ task[t].script # <<>> /\ Now(t).cmd = "set" /\ task[t].pc = "check" /\ Now(t).on \in Ports
      /\ Form /\ ~crashed
  BY <1>1, InSet DEF At, Meanwhile
<1>3. t # Listener
  BY <1>1, <1>2, ListenerSets DEF Script
<1>4. NamesTyped' /\ OnlyIfaces'
  BY <1>1, <1>2 DEF Form, NamesTyped, ToIfaces, OnlyIfaces
<1>5. /\ Script(t)' = <<>> /\ task'[t].pc = "check" /\ \A u \in Threads \ {t} : task'[u] = task[u]
  BY <1>1 DEF GoOn, Idle, Doing, Script, Inv, Typed
<1>6. Form' /\ StillForgets
  <2>1. Listener \in Threads /\ <<>> \in Seq(IfaceCommands)
    BY DEF Threads
  <2>2. Script(Listener)' = Script(Listener)
    BY <1>3, <1>5, <2>1 DEF Script
  <2> QED BY <1>1, <1>2, <1>3, <1>4, <1>5, <2>1, <2>2, FormKept DEF StillForgets, Forgetting
<1>7. Good' => Orderly'
  BY <1>1, <1>2, <1>5, <1>6, Leaves, GoodBefore
<1> QED BY <1>6, <1>7 DEF Meanwhile

\* SetPeerSame.
LEMMA SetPeerSameMeanwhile ==
  ASSUME Inv, Inv', Meanwhile, NEW t \in Threads, SetPeerSame(t)
  PROVE  Meanwhile'
<1>1. /\ At(t, "check") /\ LetGo(t, Now(t).on, Tail(task[t].script), Now(t).on \in ports)
      /\ UNCHANGED <<peer, link, ifaces, iface_cubes, mutex, failures, crashed, ports_to_ports>>
  BY DEF SetPeerSame, EntersSetPeer
<1>2. /\ task[t].script # <<>> /\ Now(t).cmd = "set" /\ task[t].pc = "check" /\ Now(t).on \in Ports
      /\ Form /\ ~crashed
  BY <1>1, InSet DEF At, Meanwhile
<1>3. NamesTyped' /\ OnlyIfaces'
  BY <1>1, <1>2 DEF Form, NamesTyped, ToIfaces, OnlyIfaces
<1>4. Form' /\ task'[t].pc = "check" /\ (\A u \in Threads \ {t} : task'[u] = task[u]) /\ StillForgets
  BY <1>1, <1>2, <1>3, LetsGo
<1>5. Good' => Orderly'
  BY <1>1, <1>2, <1>4, Leaves, GoodBefore
<1> QED BY <1>4, <1>5 DEF Meanwhile

\* Assigns: whoever takes a link from the port apart at that moment loses its
\* name for the interface, but then the listener is going to forget it.
LEMMA AssignsMeanwhile ==
  ASSUME Inv, Inv', OneClient, Meanwhile, NEW t \in Threads, Assigns(t)
  PROVE  Meanwhile'
<1>1. /\ At(t, "assign") /\ LetGo(t, Now(t).on, Tail(task[t].script), Now(t).on \in ports)
      /\ peer' = [peer EXCEPT ![Now(t).on] = Now(t).to]
      /\ UNCHANGED <<link, ifaces, iface_cubes, mutex, failures, crashed, ports_to_ports>>
  BY DEF Assigns
<1>2. /\ task[t].script # <<>> /\ Now(t).cmd = "set" /\ task[t].pc = "assign" /\ Now(t).on \in Ports
      /\ Now(t).to \in Ends \cup {NoPeer} /\ Form /\ ~crashed
  BY <1>1, InSet DEF At, Meanwhile
<1>3. NamesTyped' /\ OnlyIfaces'
  BY <1>1, <1>2 DEF Form, NamesTyped, ToIfaces, OnlyIfaces
<1>4. Form' /\ task'[t].pc = "check" /\ (\A u \in Threads \ {t} : task'[u] = task[u]) /\ StillForgets
  BY <1>1, <1>2, <1>3, LetsGo
<1>5. ASSUME Orderly, NEW u \in Threads, NEW m \in Netdevs, Parting(u), Now(u).on = Now(t).on,
             task[u].old = m
      PROVE  Forgetting(m)'
  <2>1. u # t /\ Listener \in Threads
    BY <1>2, <1>5 DEF Parting, Threads
  <2>2. Script(Listener) # <<>> /\ Now(Listener).cmd = "set" /\ Now(Listener).on = Now(t).on
    BY <1>2, <1>5, <2>1, TwoThreads DEF Parting, Inv, InScript, Script
  <2>3. PICK p \in Ports, n \in Netdevs : Script(Listener) = Takes(p, n) /\ Now(Listener).on = p
    BY <1>2, <2>2, ListenerSets
  <2>4. m = n
    BY <1>5, <2>2, <2>3 DEF Orderly, Target
  <2>5. Forgetting(m)
    BY <2>3, <2>4, ForgetsTaken DEF Forgetting
  <2> QED BY <1>4, <2>5 DEF StillForgets
<1>6. Good' => Orderly'
  BY <1>1, <1>2, <1>4, <1>5, Leaves, GoodBefore
<1> QED BY <1>4, <1>6 DEF Meanwhile

\* ResolveThrows: the listener does not survive it.
LEMMA ResolveThrowsMeanwhile ==
  ASSUME Inv, Inv', Meanwhile, NEW t \in Threads, ResolveThrows(t)
  PROVE  Meanwhile'
<1>1. /\ At(t, "resolve") /\ Throw(t) /\ mutex = NoThread
      /\ UNCHANGED <<peer, link, ifaces, iface_cubes, failures, ports_to_ports>>
  BY DEF ResolveThrows, Resolves
<1>2. /\ task[t].script # <<>> /\ Now(t).cmd = "set" /\ task[t].pc = "resolve" /\ Now(t).on \in Ports
      /\ Form /\ ~crashed
  BY <1>1, InSet DEF At, Meanwhile
<1>3. NamesTyped' /\ OnlyIfaces' /\ mutex # Listener
  BY <1>1, <1>2, ThreadsAssumption DEF Form, NamesTyped, ToIfaces, OnlyIfaces, Threads
<1>4. t # Listener
  BY <1>2, <1>3, ListenerFree DEF Script
<1>5. PICK inMap : LetGo(t, Now(t).on, <<>>, inMap)
  BY <1>1 DEF Throw
<1>6. Form' /\ task'[t].pc = "check" /\ (\A u \in Threads \ {t} : task'[u] = task[u]) /\ StillForgets
  BY <1>2, <1>3, <1>4, <1>5, LetsGo
<1>7. Good' => Orderly'
  BY <1>1, <1>2, <1>6, Leaves, GoodBefore
<1> QED BY <1>6, <1>7 DEF Meanwhile

\* ErasesPort.
LEMMA ErasesPortMeanwhile ==
  ASSUME Inv, Inv', Meanwhile, NEW t \in Threads, ErasesPort(t)
  PROVE  Meanwhile'
<1>1. /\ Runs(t, "erase") /\ LetGo(t, Now(t).on, Tail(task[t].script), FALSE)
      /\ UNCHANGED <<peer, link, ifaces, iface_cubes, mutex, failures, crashed, ports_to_ports>>
  BY DEF ErasesPort
<1>2. /\ task[t].script # <<>> /\ Now(t).cmd = "erase" /\ Form /\ ~crashed
  BY <1>1 DEF Runs, Meanwhile
<1>3. Now(t).on \in Ports /\ task[t].pc = "check"
  BY <1>2, NowCommand DEF Inv, InScript
<1>4. NamesTyped' /\ OnlyIfaces' /\ t # Listener
  BY <1>1, <1>2, ListenerForgets DEF Form, NamesTyped, ToIfaces, OnlyIfaces, Script
<1>5. Form' /\ task'[t].pc = "check" /\ (\A u \in Threads \ {t} : task'[u] = task[u]) /\ StillForgets
  BY <1>1, <1>2, <1>3, <1>4, LetsGo
<1>6. Good' => Orderly'
  BY <1>1, <1>2, <1>3, <1>5, Leaves, GoodBefore
<1> QED BY <1>5, <1>6 DEF Meanwhile

\* A thread goes to another place of set_port_peer, and no link changes.
LEMMA Proceeds ==
  ASSUME Inv, Form, Orderly, NEW t \in Threads,
         task[t].pc \in {"check", "read", "used", "forget", "resolve"},
         task'[t].pc \in {"read", "unlink", "forget", "resolve", "assign"},
         Now(t)' = Now(t), Script(Listener)' = Script(Listener),
         \A u \in Threads \ {t} : task'[u] = task[u],
         UNCHANGED <<peer, link, ifaces, iface_cubes>>, Midway(t)',
         Parting(t)' => \/ Parting(t) /\ task'[t].old = task[t].old
                        \/ link[Now(t).on] = task'[t].old,
         Dropping(t) => \/ Dropping(t)' /\ task'[t].old = task[t].old
                        \/ \A n \in Netdevs : task[t].old = n =>
                             n \in iface_cubes \/ link[n] # NoPeer \/ Forgetting(n)
  PROVE  Orderly'
<1>1. /\ \A u \in Threads \ {t} : /\ task'[u].pc = task[u].pc /\ task'[u].old = task[u].old
                                  /\ task'[u].ref = task[u].ref
      /\ \A u \in Threads : Now(u)' = Now(u)
  BY DEF Now
<1>2. \A n : Forgetting(n)' <=> Forgetting(n)
  BY DEF Forgetting
<1>3. ASSUME NEW u \in Threads PROVE Midway(u)'
  <2>1. CASE u # t
    BY <1>1, <1>2, <2>1 DEF Orderly, Midway, Parting, Forgetting
  <2> QED BY <2>1
<1>4. Target'
  <2>1. ASSUME NEW p \in Ports, NEW n \in Netdevs, Script(Listener) = Takes(p, n)
        PROVE  /\ link[p] \in Netdevs => link[p] = n
               /\ \A u \in Threads : Parting(u)' /\ Now(u).on = p /\ task'[u].old \in Netdevs
                                       => task'[u].old = n
    <3>1. /\ link[p] \in Netdevs => link[p] = n
          /\ \A u \in Threads : Parting(u) /\ Now(u).on = p /\ task[u].old \in Netdevs
                                  => task[u].old = n
      BY <2>1 DEF Orderly, Target
    <3> QED BY <1>1, <3>1 DEF Parting
  <2> QED BY <1>1, <2>1 DEF Target
<1>5. Named'
  <2>1. \A u \in Threads, p \in Ports : Renaming(u, p) => Renaming(u, p)'
    BY <1>1 DEF Renaming
  <2> QED BY <2>1 DEF Orderly, Named
<1>6. Used'
  <2>1. ASSUME NEW n \in Netdevs, ifaces[n] # "none", ~(n \in iface_cubes \/ link[n] # NoPeer), ~Forgetting(n)
        PROVE  \E u \in Threads : (Linking(u)' /\ Now(u).to = n) \/ (Dropping(u)' /\ task'[u].old = n)
    <3>1. PICK u \in Threads : (Linking(u) /\ Now(u).to = n) \/ (Dropping(u) /\ task[u].old = n)
      BY <2>1 DEF Orderly, Used
    <3>2. CASE u # t
      BY <1>1, <3>1, <3>2 DEF Linking, Dropping
    <3>3. CASE u = t
      BY <2>1, <3>1, <3>3 DEF Linking
    <3> QED BY <3>2, <3>3
  <2> QED BY <1>1, <1>2, <2>1 DEF Used
<1>7. Back'
  <2>1. \A u \in Threads : Unlinking(u) => Unlinking(u)' /\ task'[u].ref = task[u].ref
    BY <1>1 DEF Unlinking
  <2> QED BY <1>1, <2>1 DEF Orderly, Back
<1> QED BY <1>3, <1>4, <1>5, <1>6, <1>7 DEF Orderly

\* A thread that only changes its place and its copy of the link.
LEMMA NewFields ==
  ASSUME Inv, Form, NEW t \in Threads, NEW rec, task' = [task EXCEPT ![t] = rec],
         rec.script = task[t].script, rec.op = task[t].op, NamesTyped', OnlyIfaces',
         mutex = Listener => mutex' = Listener
  PROVE  /\ Form' /\ task'[t] = rec /\ \A u \in Threads \ {t} : task'[u] = task[u]
         /\ Now(t)' = Now(t) /\ Script(Listener)' = Script(Listener)
<1>1. task'[t] = rec /\ (\A u \in Threads \ {t} : task'[u] = task[u]) /\ Listener \in Threads
  BY DEF Inv, Typed, Threads
<1>2. \A u \in Threads : task'[u].script = task[u].script /\ task'[u].op = task[u].op
  BY <1>1
<1> QED BY <1>1, <1>2, FormStays DEF Now, Script

\* The same for the place alone.
LEMMA NewPc ==
  ASSUME Inv, Form, NEW t \in Threads, NEW v, task' = [task EXCEPT ![t].pc = v],
         NamesTyped', OnlyIfaces', mutex = Listener => mutex' = Listener
  PROVE  /\ Form' /\ \A u \in Threads \ {t} : task'[u] = task[u]
         /\ task'[t].pc = v /\ task'[t].old = task[t].old /\ task'[t].ref = task[t].ref
         /\ Now(t)' = Now(t) /\ Script(Listener)' = Script(Listener)
<1> DEFINE rec == [task[t] EXCEPT !.pc = v]
<1>1. task[t] \in Tasks
  BY DEF Inv, Typed
<1>2. /\ rec.pc = v /\ rec.script = task[t].script /\ rec.op = task[t].op
      /\ rec.old = task[t].old /\ rec.ref = task[t].ref
  BY <1>1 DEF Tasks
<1>3. task' = [task EXCEPT ![t] = rec]
  OBVIOUS
<1> HIDE DEF rec
<1> QED BY <1>2, <1>3, NewFields

\* SetPeerDiffers.
LEMMA SetPeerDiffersMeanwhile ==
  ASSUME Inv, Inv', Meanwhile, NEW t \in Threads, SetPeerDiffers(t)
  PROVE  Meanwhile'
<1>1. /\ At(t, "check") /\ task' = [task EXCEPT ![t].pc = "read"]
      /\ UNCHANGED <<peer, link, ifaces, iface_cubes, mutex, failures, crashed, ports_to_ports>>
  BY DEF SetPeerDiffers, EntersSetPeer
<1>2. task[t].pc = "check" /\ Form /\ ~crashed
  BY <1>1 DEF At, Meanwhile
<1>3. NamesTyped' /\ OnlyIfaces'
  BY <1>1, <1>2 DEF Form, NamesTyped, ToIfaces, OnlyIfaces
<1>4. /\ Form' /\ \A u \in Threads \ {t} : task'[u] = task[u]
      /\ task'[t].pc = "read" /\ Now(t)' = Now(t) /\ Script(Listener)' = Script(Listener)
  BY <1>1, <1>2, <1>3, NewPc
<1>5. Midway(t)' /\ ~Parting(t)' /\ ~Dropping(t)
  BY <1>2, <1>4 DEF Midway, Parting, Dropping
<1>6. Good' => Orderly'
  BY <1>1, <1>2, <1>4, <1>5, Proceeds, GoodBefore
<1> QED BY <1>4, <1>6 DEF Meanwhile

\* A port that is linked to an interface, and whose name is not about to
\* change by the thread itself, has its name, or the listener will forget it.
LEMMA LinkedName ==
  ASSUME Inv, Form, OneClient, Orderly, NEW t \in Threads, task[t].script # <<>>,
         Now(t).cmd = "set", task[t].pc = "read", link[Now(t).on] \in Netdevs
  PROVE  peer[Now(t).on] = link[Now(t).on] \/ Forgetting(link[Now(t).on])
<1> DEFINE p == Now(t).on
<1>1. p \in Ports
  BY NowCommand DEF Inv
<1>2. PICK v \in Threads : peer[p] = link[p] \/ Renaming(v, p)
  BY <1>1 DEF Orderly, Named
<1>3. CASE Renaming(v, p)
  <2>1. v # t /\ task[v].script # <<>> /\ Now(v).cmd = "set"
    BY <1>3 DEF Renaming, Inv, InScript
  <2>2. CASE v = Listener
    <3>1. Now(v).to = NoPeer
      BY <2>1, <2>2, ListenerSets DEF Script
    <3>2. task[v].pc = "link_other" => FALSE
      BY <2>2, ClientLinks DEF Linking
    <3>3. link[p] \in {NoPeer, Dangling}
      BY <1>3, <3>1, <3>2 DEF Orderly, Midway, Renaming
    <3> QED BY <3>3, EndsApart
  <2>3. CASE t = Listener
    <3>1. PICK q \in Ports, n \in Netdevs : Script(Listener) = Takes(q, n) /\ Now(Listener).on = q
      BY <2>3, ListenerSets DEF Script
    <3>2. link[p] = n
      BY <1>1, <2>3, <3>1 DEF Orderly, Target
    <3> QED BY <3>1, <3>2, ForgetsTaken DEF Forgetting
  <2> QED BY <2>1, <2>2, <2>3, TwoThreads
<1> QED BY <1>2, <1>3

\* ReadLink.
LEMMA ReadLinkMeanwhile ==
  ASSUME Inv, Inv', OneClient, Meanwhile, NEW t \in Threads, ReadLink(t)
  PROVE  Meanwhile'
<1> DEFINE l == link[Now(t).on]
           v == IF l = NoPeer THEN "resolve" ELSE "unlink"
           rec == [task[t] EXCEPT !.old = l, !.pc = v]
<1>1. /\ At(t, "read") /\ task' = [task EXCEPT ![t] = rec]
      /\ UNCHANGED <<peer, link, ifaces, iface_cubes, mutex, failures, crashed, ports_to_ports>>
  BY DEF ReadLink
<1>2. /\ task[t].script # <<>> /\ Now(t).cmd = "set" /\ task[t].pc = "read" /\ Now(t).on \in Ports
      /\ Form /\ ~crashed /\ task[t] \in Tasks
  BY <1>1, InSet DEF At, Meanwhile, Typed
<1>3. NamesTyped' /\ OnlyIfaces' /\ OnlyIfaces
  BY <1>1, <1>2 DEF Form, NamesTyped, ToIfaces, OnlyIfaces
<1>4. /\ rec.script = task[t].script /\ rec.op = task[t].op /\ rec.pc = v /\ rec.old = l
  BY <1>2 DEF Tasks
<1> HIDE DEF rec
<1>5. /\ Form' /\ task'[t] = rec /\ \A u \in Threads \ {t} : task'[u] = task[u]
      /\ Now(t)' = Now(t) /\ Script(Listener)' = Script(Listener)
  BY <1>1, <1>2, <1>3, <1>4, NewFields
<1>6. l \in Netdevs \cup {NoPeer, Dangling}
  BY <1>2, <1>3, NoPortLinks, EndsApart DEF Inv, Typed, Pointers
<1>7. ASSUME Orderly PROVE Midway(t)'
  <2>1. l \in Netdevs => peer[Now(t).on] = l \/ Forgetting(l)
    BY <1>2, <1>7, LinkedName
  <2>2. /\ task'[t].old = l /\ task'[t].pc = v /\ Now(t)'.on = Now(t).on /\ link' = link /\ peer' = peer
        /\ v = "unlink" => l # NoPeer
        /\ v = "resolve" => l = NoPeer
        /\ v \in {"unlink", "resolve"}
    BY <1>1, <1>4, <1>5
  <2>3. Forgetting(l) => Forgetting(task[t].old)'
    BY <1>4, <1>5 DEF Forgetting
  <2> HIDE DEF v
  <2> QED BY <1>6, <2>1, <2>2, <2>3 DEF Midway, Parting
<1>8. Good' => Orderly'
  <2>1. v \in {"resolve", "unlink"} /\ task'[t].pc = v /\ task'[t].old = l /\ ~Dropping(t)
    BY <1>2, <1>4, <1>5 DEF Dropping
  <2> HIDE DEF v
  <2> QED BY <1>1, <1>2, <1>5, <1>7, <2>1, Proceeds, GoodBefore
<1> QED BY <1>5, <1>8 DEF Meanwhile

\* ChecksUsed.
LEMMA ChecksUsedMeanwhile ==
  ASSUME Inv, Inv', Meanwhile, NEW t \in Threads, ChecksUsed(t)
  PROVE  Meanwhile'
<1> DEFINE n == task[t].old
           v == IF n \in iface_cubes \/ link[n] # NoPeer THEN "resolve" ELSE "forget"
<1>1. /\ At(t, "used") /\ task' = [task EXCEPT ![t].pc = v] /\ n \in Netdevs
      /\ UNCHANGED <<peer, link, ifaces, iface_cubes, mutex, failures, crashed, ports_to_ports>>
  BY DEF ChecksUsed
<1>2. task[t].pc = "used" /\ Form /\ ~crashed
  BY <1>1 DEF At, Meanwhile
<1>3. NamesTyped' /\ OnlyIfaces'
  BY <1>1, <1>2 DEF Form, NamesTyped, ToIfaces, OnlyIfaces
<1>4. v \in {"resolve", "forget"} /\ (v = "resolve" => n \in iface_cubes \/ link[n] # NoPeer)
  OBVIOUS
<1> HIDE DEF v
<1>5. /\ Form' /\ \A u \in Threads \ {t} : task'[u] = task[u]
      /\ task'[t].pc = v /\ task'[t].old = n
      /\ Now(t)' = Now(t) /\ Script(Listener)' = Script(Listener)
  BY <1>1, <1>2, <1>3, NewPc
<1>6. Orderly => Midway(t)'
  <2>1. Forgetting(n) => Forgetting(task[t].old)'
    BY <1>5 DEF Forgetting
  <2> QED BY <1>1, <1>2, <1>4, <1>5, <2>1 DEF Orderly, Midway, Parting
<1>7. Parting(t) /\ (v = "forget" => Dropping(t)')
  BY <1>2, <1>5 DEF Parting, Dropping
<1>8. Good' => Orderly'
  BY <1>1, <1>2, <1>4, <1>5, <1>6, <1>7, Proceeds, GoodBefore
<1> QED BY <1>5, <1>8 DEF Meanwhile

\* ResolveEmpty.
LEMMA ResolveEmptyMeanwhile ==
  ASSUME Inv, Inv', Meanwhile, NEW t \in Threads, ResolveEmpty(t)
  PROVE  Meanwhile'
<1>1. /\ At(t, "resolve") /\ task' = [task EXCEPT ![t].pc = "assign"]
      /\ UNCHANGED <<peer, link, ifaces, iface_cubes, mutex, failures, crashed, ports_to_ports>>
  BY DEF ResolveEmpty
<1>2. task[t].pc = "resolve" /\ Form /\ ~crashed
  BY <1>1 DEF At, Meanwhile
<1>3. NamesTyped' /\ OnlyIfaces'
  BY <1>1, <1>2 DEF Form, NamesTyped, ToIfaces, OnlyIfaces
<1>4. /\ Form' /\ \A u \in Threads \ {t} : task'[u] = task[u]
      /\ task'[t].pc = "assign" /\ Now(t)' = Now(t) /\ Script(Listener)' = Script(Listener)
  BY <1>1, <1>2, <1>3, NewPc
<1>5. Orderly => Midway(t)'
  BY <1>1, <1>2, <1>4 DEF Orderly, Midway, Parting
<1>6. ~Parting(t)' /\ ~Dropping(t)
  BY <1>2, <1>4 DEF Parting, Dropping
<1>7. Good' => Orderly'
  BY <1>1, <1>2, <1>4, <1>5, <1>6, Proceeds, GoodBefore
<1> QED BY <1>4, <1>7 DEF Meanwhile

\* Steps that leave no good state need no more than the form.
LEMMA CrashMeanwhile ==
  ASSUME Meanwhile, Crash
  PROVE  Meanwhile'
<1>1. Form'
  BY DEF Crash, Meanwhile, Form, NamesTyped, ToIfaces, OnlyIfaces, ListenerForm, Script
<1> QED BY <1>1 DEF Meanwhile, Good, Crash

LEMMA RelinkFailsMeanwhile ==
  ASSUME Inv, Meanwhile, NEW t \in Threads, NEW v, At(t, v), RelinkFails(t), NamesTyped', OnlyIfaces'
  PROVE  Meanwhile'
<1>1. Typed /\ task[t].script # <<>> /\ Now(t).on \in Ports /\ Form /\ Listener \in Threads
  BY InSet DEF Meanwhile, Threads
<1>2. PICK inMap : LetGo(t, Now(t).on, <<>>, inMap)
  BY DEF RelinkFails, Throw
<1>3. t # Listener /\ mutex = Listener => mutex' = Listener
  BY DEF RelinkFails, Throw, Release
<1>4. Form'
  BY <1>1, <1>2, <1>3, LetsGo
<1>5. failures' # 0
  BY <1>1 DEF RelinkFails, Typed
<1> QED BY <1>4, <1>5 DEF Meanwhile, Good

\* UnlinkOwn: nobody links the port at that moment.
LEMMA UnlinkOwnMeanwhile ==
  ASSUME Inv, Inv', OneClient, Meanwhile, NEW t \in Threads, UnlinkOwn(t)
  PROVE  Meanwhile'
<1> DEFINE p == Now(t).on
<1>1. /\ task[t].script # <<>> /\ Now(t).cmd = "set" /\ task[t].pc = "unlink" /\ p \in Ports
      /\ Form /\ ~crashed /\ task[t] \in Tasks /\ At(t, "unlink")
      /\ link \in [Ends -> Pointers]
  BY InSet DEF UnlinkOwn, At, Meanwhile, Typed
<1>2. link' = [link EXCEPT ![p] = NoPeer] /\ UNCHANGED <<peer, ifaces, iface_cubes, ports_to_ports>>
  BY DEF UnlinkOwn
<1>3. NamesTyped' /\ OnlyIfaces'
  BY <1>1, <1>2 DEF Form, NamesTyped, ToIfaces, OnlyIfaces
<1>4. CASE RelinkFails(t)
  BY <1>1, <1>3, <1>4, RelinkFailsMeanwhile
<1>5. CASE /\ Relinked(t, [task EXCEPT ![t].ref = link[p], ![t].pc = "unlink_other"])
           /\ UNCHANGED mutex
  <2> DEFINE rec == [task[t] EXCEPT !.ref = link[p], !.pc = "unlink_other"]
  <2>1. task' = [task EXCEPT ![t] = rec] /\ failures' = failures
    BY <1>5 DEF Relinked
  <2>2. /\ rec.script = task[t].script /\ rec.op = task[t].op
        /\ rec.pc = "unlink_other" /\ rec.ref = link[p] /\ rec.old = task[t].old
    BY <1>1 DEF Tasks
  <2> HIDE DEF rec
  <2>3. /\ Form' /\ task'[t] = rec /\ \A u \in Threads \ {t} : task'[u] = task[u]
        /\ Now(t)' = Now(t) /\ Script(Listener)' = Script(Listener)
    BY <1>1, <1>3, <1>5, <2>1, <2>2, NewFields
  <2>4. /\ \A e \in Ends : link'[e] = IF e = p THEN NoPeer ELSE link[e]
        /\ \A n \in Netdevs : link'[n] = link[n]
    BY <1>1, <1>2, EndsApart
  <2>5. \A u \in Threads \ {t} : /\ task'[u].pc = task[u].pc /\ task'[u].old = task[u].old
                                 /\ task'[u].ref = task[u].ref /\ Now(u)' = Now(u)
    BY <2>3 DEF Now
  <2>6. \A n : Forgetting(n)' <=> Forgetting(n)
    BY <2>3 DEF Forgetting
  <2>7. ASSUME Orderly PROVE Orderly'
    <3>1. ASSUME NEW u \in Threads PROVE Midway(u)'
      <4>1. Midway(u)
        BY <2>7 DEF Orderly
      <4>2. Forgetting(task[u].old) => task[u].old = task'[u].old /\ Forgetting(task[u].old)'
        <5>1. task'[u].old = task[u].old
          BY <2>2, <2>3, <2>5
        <5> QED BY <2>3, <5>1 DEF Forgetting
      <4>3. CASE u = t
        BY <1>1, <1>2, <2>2, <2>3, <2>4, <4>1, <4>2, <4>3, EndsApart DEF Midway, Parting
      <4>4. CASE u # t
        <5>1. task[u].pc # "check" => Now(u).on \in Ports
          BY NowCommand DEF Inv, InScript
        <5>2. task[u].pc = "link_other" => Now(u).on # p
          <6> SUFFICES ASSUME Linking(u) PROVE FALSE
            BY DEF Linking
          <6>1. u # Listener /\ mutex = u
            BY <1>1, ClientLinks
          <6>2. t = Listener /\ Script(Listener) # <<>>
            BY <1>1, <4>4, <6>1, TwoThreads DEF Script
          <6> QED BY <1>1, <6>1, <6>2 DEF Form, ListenerForm
        <5>3. Parting(u)' <=> Parting(u)
          BY <2>5, <4>4 DEF Parting
        <5>4. task[u].pc # "check" => link'[Now(u).on] = IF Now(u).on = p THEN NoPeer ELSE link[Now(u).on]
          BY <2>4, <5>1, EndsApart
        <5> QED BY <1>2, <2>5, <4>1, <4>2, <4>4, <5>2, <5>3, <5>4 DEF Midway, Parting
      <4> QED BY <4>3, <4>4
    <3>2. Target'
      <4>1. \A u \in Threads : Parting(u)' => Parting(u) /\ task'[u].old = task[u].old /\ Now(u)' = Now(u)
        BY <1>1, <2>2, <2>3, <2>5 DEF Parting
      <4>2. \A q \in Ports : link'[q] \in Netdevs => link'[q] = link[q]
        BY <2>4, EndsApart
      <4> QED BY <2>3, <2>7, <4>1, <4>2 DEF Orderly, Target
    <3>3. Named'
      <4>1. \A u \in Threads, q \in Ports : Renaming(u, q) => Renaming(u, q)'
        BY <1>1, <2>5 DEF Renaming
      <4>2. \A q \in Ports : link'[q] \in Netdevs => link'[q] = link[q]
        BY <2>4, EndsApart
      <4> QED BY <1>2, <2>7, <4>1, <4>2 DEF Orderly, Named
    <3>4. Used'
      <4>1. \A u \in Threads : /\ Linking(u) => Linking(u)' /\ Now(u)' = Now(u)
                               /\ Dropping(u) => Dropping(u)' /\ task'[u].old = task[u].old
        BY <1>1, <2>5 DEF Linking, Dropping
      <4> QED BY <1>2, <2>4, <2>6, <2>7, <4>1 DEF Orderly, Used
    <3>5. Back'
      <4>1. ASSUME NEW q \in Ports, NEW n \in Netdevs, link[n] = q
            PROVE  \/ link'[q] \in {n, Dangling}
                   \/ \E u \in Threads : Unlinking(u)' /\ Now(u)'.on = q /\ task'[u].ref \in {n, Dangling}
        <5>1. CASE \E u \in Threads : Unlinking(u) /\ Now(u).on = q /\ task[u].ref \in {n, Dangling}
          BY <1>1, <2>5, <5>1 DEF Unlinking
        <5>2. CASE link[q] \in {n, Dangling} /\ q # p
          BY <2>4, <5>2, EndsApart
        <5>3. CASE link[q] \in {n, Dangling} /\ q = p
          BY <2>2, <2>3, <5>3 DEF Unlinking
        <5> QED BY <2>7, <4>1, <5>1, <5>2, <5>3 DEF Orderly, Back
      <4> QED BY <2>4, <4>1 DEF Back
    <3> QED BY <3>1, <3>2, <3>3, <3>4, <3>5 DEF Orderly
  <2> QED BY <1>1, <2>1, <2>3, <2>7, GoodBefore DEF Meanwhile
<1> QED BY <1>4, <1>5 DEF UnlinkOwn

\* UnlinkOther: what the thread unlinks is the interface it read, and it looks
\* next whether that is still used.
LEMMA UnlinkOtherMeanwhile ==
  ASSUME Inv, Inv', Meanwhile, NEW t \in Threads, UnlinkOther(t)
  PROVE  Meanwhile'
<1> DEFINE p == Now(t).on
           r == task[t].ref
           v == AfterUnlink(t)
<1>1. /\ task[t].script # <<>> /\ Now(t).cmd = "set" /\ task[t].pc = "unlink_other" /\ p \in Ports
      /\ Form /\ ~crashed /\ At(t, "unlink_other") /\ link \in [Ends -> Pointers]
  BY InSet DEF UnlinkOther, At, Meanwhile, Typed
<1>2. /\ link' = [link EXCEPT ![r] = NoPeer] /\ r \in Ends /\ task[t].old \in Ends
      /\ UNCHANGED <<peer, ifaces, iface_cubes, ports_to_ports>>
  BY DEF UnlinkOther
<1>3. NamesTyped' /\ OnlyIfaces'
  BY <1>1, <1>2 DEF Form, NamesTyped, ToIfaces, OnlyIfaces
<1>4. CASE RelinkFails(t)
  BY <1>1, <1>3, <1>4, RelinkFailsMeanwhile
<1>5. CASE Relinked(t, [task EXCEPT ![t].pc = v]) /\ UNCHANGED mutex
  <2>1. task' = [task EXCEPT ![t].pc = v] /\ failures' = failures
    BY <1>5 DEF Relinked
  <2> HIDE DEF v
  <2>2. /\ Form' /\ \A u \in Threads \ {t} : task'[u] = task[u]
        /\ task'[t].pc = v /\ task'[t].old = task[t].old /\ task'[t].ref = r
        /\ Now(t)' = Now(t) /\ Script(Listener)' = Script(Listener)
    BY <1>1, <1>3, <1>5, <2>1, NewPc
  <2>3. \A u \in Threads : /\ task'[u].old = task[u].old /\ task'[u].ref = task[u].ref /\ Now(u)' = Now(u)
                           /\ u # t => task'[u].pc = task[u].pc
    BY <2>2 DEF Now
  <2>4. \A n : Forgetting(n)' <=> Forgetting(n)
    BY <2>2 DEF Forgetting
  <2>5. ASSUME Orderly PROVE Orderly'
    <3>1. r = task[t].old /\ r \in Netdevs /\ link[p] = NoPeer /\ v = "used"
      <4>1. r = task[t].old /\ r \in Netdevs /\ link[p] = NoPeer
        BY <1>1, <1>2, <2>5, EndsApart DEF Orderly, Midway, Parting
      <4> QED BY <4>1 DEF AfterUnlink, v
    <3>2. /\ \A e \in Ports : link'[e] = link[e]
          /\ \A e \in Netdevs : link'[e] = IF e = r THEN NoPeer ELSE link[e]
      BY <1>1, <1>2, <3>1, EndsApart
    <3>3. ASSUME NEW u \in Threads PROVE Midway(u)'
      <4>1. Midway(u) /\ (Forgetting(task[u].old) => Forgetting(task[u].old)')
        <5>1. task'[u].old = task[u].old
          BY <2>3
        <5> QED BY <2>2, <2>5, <5>1 DEF Forgetting, Orderly
      <4>2. CASE u = t
        BY <1>1, <1>2, <2>2, <3>1, <3>2, <4>1, <4>2 DEF Midway, Parting
      <4>3. CASE u # t
        <5>1. task[u].pc # "check" => Now(u).on \in Ports
          BY NowCommand DEF Inv, InScript
        <5> QED BY <1>2, <2>3, <3>2, <4>1, <4>3, <5>1 DEF Midway, Parting
      <4> QED BY <4>2, <4>3
    <3>4. Target'
      <4>1. \A u \in Threads : Parting(u)' => Parting(u)
        BY <1>1, <2>3 DEF Parting
      <4> QED BY <2>2, <2>3, <2>5, <3>2, <4>1 DEF Orderly, Target
    <3>5. Named'
      <4>1. \A u \in Threads, q \in Ports : Renaming(u, q) => Renaming(u, q)'
        BY <1>1, <2>3 DEF Renaming
      <4> QED BY <1>2, <2>5, <3>2, <4>1 DEF Orderly, Named
    <3>6. Used'
      <4>1. \A u \in Threads : /\ Linking(u) => Linking(u)'
                               /\ Dropping(u) => Dropping(u)'
        BY <1>1, <2>3 DEF Linking, Dropping
      <4>2. Dropping(t)' /\ task'[t].old = r
        BY <2>2, <3>1 DEF Dropping
      <4> QED BY <1>2, <2>3, <2>4, <2>5, <3>2, <4>1, <4>2 DEF Orderly, Used
    <3>7. Back'
      <4>1. ASSUME NEW q \in Ports, NEW n \in Netdevs, link'[n] = q
            PROVE  \/ link'[q] \in {n, Dangling}
                   \/ \E u \in Threads : Unlinking(u)' /\ Now(u)'.on = q /\ task'[u].ref \in {n, Dangling}
        <5>1. link[n] = q /\ n # r
          BY <3>2, <4>1, EndsApart
        <5>2. r \notin {n, Dangling}
          BY <3>1, <5>1, EndsApart
        <5>3. \A u \in Threads \ {t} : Unlinking(u) => Unlinking(u)'
          BY <2>3 DEF Unlinking
        <5> QED BY <2>3, <2>5, <3>2, <5>1, <5>2, <5>3 DEF Orderly, Back
      <4> QED BY <4>1 DEF Back
    <3> QED BY <3>3, <3>4, <3>5, <3>6, <3>7 DEF Orderly
  <2> QED BY <1>1, <2>1, <2>2, <2>5, GoodBefore DEF Meanwhile
<1> QED BY <1>4, <1>5 DEF UnlinkOther

\* While nobody has the mutex the other thread of two is the listener, and it
\* does nothing.
LEMMA OthersRest ==
  ASSUME Inv, Form, OneClient, NEW t \in Threads, t # Listener, mutex # Listener
  PROVE  \A u \in Threads \ {t} : u = Listener /\ task[u].pc = "check"
BY ListenerFree, TwoThreads

\* ResolveIface: only a client gets here, and the listener does nothing.
LEMMA ResolveIfaceMeanwhile ==
  ASSUME Inv, Inv', OneClient, Meanwhile, NEW t \in Threads, ResolveIface(t)
  PROVE  Meanwhile'
<1> DEFINE p == Now(t).on
           n == Now(t).to
<1>1. /\ task[t].script # <<>> /\ Now(t).cmd = "set" /\ task[t].pc = "resolve" /\ p \in Ports
      /\ Form /\ ~crashed /\ At(t, "resolve") /\ link \in [Ends -> Pointers] /\ mutex = NoThread
  BY InSet DEF ResolveIface, Resolves, At, Meanwhile, Typed
<1>2. /\ link' = [link EXCEPT ![p] = n] /\ link[n] = NoPeer /\ n \in Netdevs
      /\ ifaces' = [ifaces EXCEPT ![n] = IF @ = "none" THEN TypeOf(p) ELSE @]
      /\ UNCHANGED <<peer, iface_cubes, ports_to_ports>>
  BY DEF ResolveIface, LinkOwn, Inv, Typed
<1>3. NamesTyped' /\ OnlyIfaces' /\ \A m \in Netdevs \ {n} : ifaces'[m] = ifaces[m]
  <2>1. TypeOf(p) \in Types
    BY <1>1, CubeOfAssumption, TypesAssumption DEF TypeOf
  <2> QED BY <1>1, <1>2, <2>1 DEF Form, NamesTyped, ToIfaces, OnlyIfaces
<1>4. /\ mutex # Listener /\ Script(Listener) = <<>> /\ task[Listener].pc = "check" /\ t # Listener
      /\ \A a, b : Script(Listener) # Takes(a, b)
  BY <1>1, ThreadsAssumption, ListenerFree DEF Script, Threads
<1>5. CASE RelinkFails(t)
  BY <1>1, <1>3, <1>5, RelinkFailsMeanwhile
<1>6. CASE mutex' = t /\ Relinked(t, [task EXCEPT ![t].pc = "link_other"])
  <2>1. task' = [task EXCEPT ![t].pc = "link_other"] /\ failures' = failures
    BY <1>6 DEF Relinked
  <2>2. /\ Form' /\ \A u \in Threads \ {t} : task'[u] = task[u]
        /\ task'[t].pc = "link_other"
        /\ Now(t)' = Now(t) /\ Script(Listener)' = Script(Listener)
    BY <1>1, <1>3, <1>4, <2>1, NewPc
  <2>3. \A u \in Threads \ {t} : task[u].pc = "check" /\ task'[u].pc = "check"
    BY <1>1, <1>4, <2>2, OthersRest
  <2>4. \A e \in Ends : link'[e] = IF e = p THEN n ELSE link[e]
    BY <1>1, <1>2, EndsApart
  <2>5. ASSUME Orderly PROVE Orderly'
    <3>1. link[p] = NoPeer
      BY <1>1, <2>5 DEF Orderly, Midway
    <3>2. ASSUME NEW u \in Threads PROVE Midway(u)'
      <4>1. CASE u = t
        <5>1. link'[Now(t)'.on] = Now(t)'.to
          BY <1>1, <2>2, <2>4, EndsApart
        <5> QED BY <2>2, <4>1, <5>1 DEF Midway, Parting
      <4>2. CASE u # t
        BY <2>3, <4>2 DEF Midway, Parting
      <4> QED BY <4>1, <4>2
    <3>3. Target'
      BY <1>4, <2>2 DEF Target
    <3>4. Named'
      <4>1. ASSUME NEW q \in Ports, link'[q] \in Netdevs
            PROVE  peer'[q] = link'[q] \/ \E u \in Threads : Renaming(u, q)'
        <5>1. CASE q = p
          BY <2>2, <5>1 DEF Renaming
        <5>2. CASE q # p
          <6>1. link'[q] = link[q] /\ \A u \in Threads : ~Renaming(u, q)
            BY <1>1, <2>3, <2>4, <5>2, EndsApart DEF Renaming
          <6> QED BY <1>2, <2>5, <4>1, <6>1 DEF Orderly, Named
        <5> QED BY <5>1, <5>2
      <4> QED BY <4>1 DEF Named
    <3>5. Used'
      <4>1. ASSUME NEW m \in Netdevs, ifaces'[m] # "none", m # n
            PROVE  m \in iface_cubes \/ link'[m] # NoPeer
        <5>1. \A u \in Threads : ~Linking(u) /\ ~Dropping(u)
          BY <1>1, <2>3 DEF Linking, Dropping
        <5>2. ~Forgetting(m)
          BY <1>1, <1>4, ListenerFree
        <5>3. m \in iface_cubes \/ link[m] # NoPeer
          BY <1>3, <2>5, <4>1, <5>1, <5>2 DEF Orderly, Used
        <5> QED BY <1>1, <2>4, <5>3, EndsApart
      <4>2. Linking(t)' /\ Now(t)'.to = n
        BY <2>2 DEF Linking
      <4> QED BY <1>2, <4>1, <4>2 DEF Used
    <3>6. Back'
      <4>1. ASSUME NEW q \in Ports, NEW m \in Netdevs, link'[m] = q PROVE link'[q] \in {m, Dangling}
        <5>1. link[m] = q
          BY <1>1, <2>4, <4>1, EndsApart
        <5>2. \A u \in Threads : ~Unlinking(u)
          BY <1>1, <2>3 DEF Unlinking
        <5>3. link[q] \in {m, Dangling}
          BY <2>5, <5>1, <5>2 DEF Orderly, Back
        <5> QED BY <2>4, <3>1, <5>3, EndsApart
      <4> QED BY <4>1 DEF Back
    <3> QED BY <3>2, <3>3, <3>4, <3>5, <3>6 DEF Orderly
  <2> QED BY <1>1, <2>1, <2>2, <2>5, GoodBefore DEF Meanwhile
<1> QED BY <1>5, <1>6 DEF ResolveIface, LinkOwn

\* LinkOther: the name of the port follows.
LEMMA LinkOtherMeanwhile ==
  ASSUME Inv, Inv', OneClient, Meanwhile, NEW t \in Threads, LinkOther(t)
  PROVE  Meanwhile'
<1> DEFINE p == Now(t).on
           x == Now(t).to
<1>1. /\ task[t].script # <<>> /\ Now(t).cmd = "set" /\ task[t].pc = "link_other" /\ p \in Ports
      /\ Form /\ ~crashed /\ At(t, "link_other") /\ link \in [Ends -> Pointers] /\ Linking(t)
  BY InSet DEF LinkOther, At, Meanwhile, Typed, Linking
<1>2. /\ link' = [link EXCEPT ![x] = p] /\ UNCHANGED <<peer, ifaces, iface_cubes, ports_to_ports>>
  BY DEF LinkOther
<1>3. NamesTyped' /\ OnlyIfaces'
  BY <1>1, <1>2 DEF Form, NamesTyped, ToIfaces, OnlyIfaces
<1>4. t # Listener /\ mutex = t /\ x \in Netdevs
  BY <1>1, ClientLinks
<1>5. /\ Script(Listener) = <<>> /\ task[Listener].pc = "check"
      /\ \A a, b : Script(Listener) # Takes(a, b)
  BY <1>1, <1>4, ListenerFree
<1>6. CASE RelinkFails(t)
  BY <1>1, <1>3, <1>6, RelinkFailsMeanwhile
<1>7. CASE Relinked(t, [task EXCEPT ![t].pc = "assign"])
  <2>1. task' = [task EXCEPT ![t].pc = "assign"] /\ failures' = failures
    BY <1>7 DEF Relinked
  <2>2. /\ Form' /\ \A u \in Threads \ {t} : task'[u] = task[u]
        /\ task'[t].pc = "assign"
        /\ Now(t)' = Now(t) /\ Script(Listener)' = Script(Listener)
    BY <1>1, <1>3, <1>4, <2>1, NewPc
  <2>3. \A u \in Threads \ {t} : task[u].pc = "check" /\ task'[u].pc = "check"
    BY <1>1, <1>4, <2>2, OthersRest
  <2>4. /\ \A e \in Ends : link'[e] = IF e = x THEN p ELSE link[e]
        /\ \A q \in Ports : link'[q] = link[q]
    BY <1>1, <1>2, <1>4, EndsApart
  <2>5. ASSUME Orderly PROVE Orderly'
    <3>1. link[p] \in {x, Dangling}
      BY <1>1, <2>5 DEF Orderly, Midway
    <3>2. ASSUME NEW u \in Threads PROVE Midway(u)'
      <4>1. CASE u = t
        BY <1>1, <2>2, <2>4, <3>1, <4>1 DEF Midway, Parting
      <4>2. CASE u # t
        BY <2>3, <4>2 DEF Midway, Parting
      <4> QED BY <4>1, <4>2
    <3>3. Target'
      BY <1>5, <2>2 DEF Target
    <3>4. Named'
      <4>1. \A u \in Threads, q \in Ports : Renaming(u, q) => Renaming(u, q)'
        BY <1>1, <2>2, <2>3 DEF Renaming
      <4> QED BY <1>2, <2>4, <2>5, <4>1 DEF Orderly, Named
    <3>5. Used'
      <4>1. ASSUME NEW m \in Netdevs, ifaces[m] # "none" PROVE m \in iface_cubes \/ link'[m] # NoPeer
        <5>1. CASE m = x
          BY <1>1, <2>4, <5>1, EndsApart
        <5>2. CASE m # x
          <6>1. \A u \in Threads : ~Dropping(u) /\ (Linking(u) => u = t)
            BY <1>1, <2>3 DEF Linking, Dropping
          <6>2. ~Forgetting(m)
            BY <1>1, <1>4, ListenerFree
          <6>3. m \in iface_cubes \/ link[m] # NoPeer
            BY <2>5, <4>1, <5>2, <6>1, <6>2 DEF Orderly, Used
          <6> QED BY <2>4, <5>2, <6>3, EndsApart
        <5> QED BY <5>1, <5>2
      <4> QED BY <1>2, <4>1 DEF Used
    <3>6. Back'
      <4>1. ASSUME NEW q \in Ports, NEW m \in Netdevs, link'[m] = q PROVE link'[q] \in {m, Dangling}
        <5>1. CASE m = x
          BY <1>1, <1>4, <2>4, <3>1, <4>1, <5>1, EndsApart
        <5>2. CASE m # x
          <6>1. link[m] = q
            BY <2>4, <4>1, <5>2, EndsApart
          <6>2. \A u \in Threads : ~Unlinking(u)
            BY <1>1, <2>3 DEF Unlinking
          <6>3. link[q] \in {m, Dangling}
            BY <2>5, <6>1, <6>2 DEF Orderly, Back
          <6> QED BY <2>4, <6>3
        <5> QED BY <5>1, <5>2
      <4> QED BY <4>1 DEF Back
    <3> QED BY <3>2, <3>3, <3>4, <3>5, <3>6 DEF Orderly
  <2> QED BY <1>1, <2>1, <2>2, <2>5, GoodBefore DEF Meanwhile
<1> QED BY <1>6, <1>7 DEF LinkOther

\* What the threads keep when an object is freed.
LEMMA CopyFields ==
  ASSUME NEW tk \in [Threads -> Tasks], NEW d \in Ends, task' = WithoutCopies(d, tk), NEW u \in Threads
  PROVE  /\ task'[u].pc = tk[u].pc /\ task'[u].script = tk[u].script /\ task'[u].op = tk[u].op
         /\ task'[u].old = IF tk[u].old = d THEN Dangling ELSE tk[u].old
         /\ task'[u].ref = IF tk[u].ref = d THEN Dangling ELSE tk[u].ref
<1>1. tk[u] \in Tasks
  OBVIOUS
<1> QED BY <1>1 DEF WithoutCopies, Tasks

\* Interface n is erased, by t or by nobody.  Links to it and copies of it
\* dangle, and everything else stays.
LEMMA Erases ==
  ASSUME Inv, Form, Orderly, NEW t \in Threads, NEW n \in Netdevs, NEW tk \in [Threads -> Tasks],
         \A u \in Threads \ {t} : tk[u] = task[u],
         link' = Severed(n), ifaces' = [ifaces EXCEPT ![n] = "none"],
         iface_cubes' = iface_cubes \ {n}, task' = WithoutCopies(n, tk), peer' = peer,
         \A m \in Netdevs \ {n} : Forgetting(m) => Forgetting(m)',
         Script(Listener)' = Script(Listener) \/ \A p, m : Script(Listener)' # Takes(p, m),
         \/ tk[t] = task[t]
         \/ /\ task[t].pc \in {"check", "forget"} /\ tk[t].pc \in {"check", "resolve"}
            /\ tk[t].pc = "resolve" => /\ tk[t].script = task[t].script /\ Now(t).on \in Ports
                                       /\ link[Now(t).on] = NoPeer
            /\ task[t].pc = "forget" => \A m \in Netdevs \ {n} : task[t].old = m => Forgetting(m)
  PROVE  Orderly'
<1>1. n \in Ends /\ n # NoPeer /\ n # Dangling /\ NoPeer # Dangling
  BY EndsApart
<1>2. /\ \A p \in Ports : link'[p] = IF link[p] = n THEN Dangling ELSE link[p]
      /\ \A m \in Netdevs : link'[m] = IF m = n THEN NoPeer ELSE link[m]
  <2>1. \A e \in Ends : link'[e] = IF e = n THEN NoPeer ELSE IF link[e] = n THEN Dangling ELSE link[e]
    BY <1>1, SeveredLinks
  <2>2. \A m \in Netdevs : link[m] \notin Netdevs
    BY DEF Inv, Typed
  <2> QED BY <2>1, <2>2, EndsApart
<1>3. \A u \in Threads : /\ task'[u].pc = tk[u].pc /\ task'[u].script = tk[u].script
                         /\ task'[u].old = IF tk[u].old = n THEN Dangling ELSE tk[u].old
                         /\ task'[u].ref = IF tk[u].ref = n THEN Dangling ELSE tk[u].ref
  BY <1>1, CopyFields
<1>4. \A u \in Threads : tk[u] = task[u] =>
        /\ task'[u].pc = task[u].pc /\ Now(u)' = Now(u)
        /\ task'[u].old = IF task[u].old = n THEN Dangling ELSE task[u].old
        /\ task'[u].ref = IF task[u].ref = n THEN Dangling ELSE task[u].ref
  BY <1>3 DEF Now
<1>5. tk[t] # task[t] => ~Linking(t) /\ ~Unlinking(t) /\ ~Parting(t)' /\ \A p : ~Renaming(t, p)
  BY <1>3 DEF Linking, Unlinking, Parting, Renaming
<1>6. ASSUME NEW u \in Threads PROVE Midway(u)'
  <2>1. CASE tk[u] = task[u]
    <3>1. ASSUME Parting(u)', task'[u].old \in Netdevs
          PROVE  peer'[Now(u)'.on] = task'[u].old \/ Forgetting(task[u].old)'
      <4>1. task'[u].old = task[u].old /\ task[u].old \in Netdevs \ {n} /\ Parting(u)
        BY <1>4, <2>1, <3>1, EndsApart DEF Parting
      <4>2. peer[Now(u).on] = task[u].old \/ Forgetting(task[u].old)
        BY <4>1 DEF Orderly, Midway
      <4>3. ASSUME Forgetting(task[u].old) PROVE Forgetting(task[u].old)'
        <5>1. \A m \in Netdevs \ {n} : m = task[u].old => Forgetting(m)'
          BY <4>3
        <5>2. \A m \in Netdevs \ {n} : m = task'[u].old => Forgetting(m)'
          BY <4>1, <5>1
        <5> QED BY <4>1, <5>2 DEF Forgetting
      <4> QED BY <1>4, <2>1, <4>1, <4>2, <4>3
    <3>2. task[u].pc # "check" => Now(u).on \in Ports
      BY NowCommand DEF Inv, InScript
    <3>3. Midway(u) /\ (Parting(u)' <=> Parting(u))
      BY <1>4, <2>1 DEF Orderly, Parting
    <3>4. Parting(u)' => task'[u].old \in Netdevs \cup {Dangling}
      BY <1>4, <2>1, <3>3 DEF Midway
    <3>5. LET pc == task[u].pc
              l == link'[Now(u).on]
          IN /\ pc = "unlink" => l \in {task'[u].old, NoPeer}
             /\ pc = "unlink_other" => task'[u].ref \in {task'[u].old, NoPeer}
             /\ pc \in {"unlink_other", "used", "forget", "resolve"} => l = NoPeer
             /\ pc = "link_other" => l \in {Now(u).to, Dangling}
             /\ pc = "assign" => l \in {Now(u).to, NoPeer, Dangling}
      BY <1>1, <1>2, <1>4, <2>1, <3>2, <3>3 DEF Midway
    <3> QED BY <1>4, <2>1, <3>1, <3>4, <3>5 DEF Midway
  <2>2. CASE tk[u] # task[u]
    <3>1. u = t /\ task'[u].pc \in {"check", "resolve"}
      BY <1>3, <2>2
    <3>2. task'[u].pc = "resolve" => link'[Now(u)'.on] = NoPeer
      BY <1>1, <1>2, <1>3, <2>2, <3>1 DEF Now
    <3> QED BY <3>1, <3>2 DEF Midway, Parting
  <2> QED BY <2>1, <2>2
<1>7. Target'
  <2>1. ASSUME NEW p \in Ports, NEW m \in Netdevs, Script(Listener)' = Takes(p, m)
        PROVE  /\ link'[p] \in Netdevs => link'[p] = m
               /\ \A u \in Threads : Parting(u)' /\ Now(u)'.on = p /\ task'[u].old \in Netdevs
                                       => task'[u].old = m
    <3>1. Script(Listener) = Takes(p, m)
      BY <2>1
    <3>2. /\ link[p] \in Netdevs => link[p] = m
          /\ \A u \in Threads : Parting(u) /\ Now(u).on = p /\ task[u].old \in Netdevs
                                  => task[u].old = m
      BY <3>1 DEF Orderly, Target
    <3>3. \A u \in Threads : Parting(u)' => Parting(u) /\ tk[u] = task[u]
      BY <1>4, <1>5 DEF Parting
    <3> QED BY <1>2, <1>4, <3>2, <3>3, EndsApart
  <2> QED BY <2>1 DEF Target
<1>8. Named'
  <2>1. \A u \in Threads, p \in Ports : Renaming(u, p) => Renaming(u, p)'
    BY <1>4, <1>5 DEF Renaming
  <2> QED BY <1>2, <2>1, EndsApart DEF Orderly, Named
<1>9. Used'
  <2>1. ASSUME NEW m \in Netdevs, ifaces'[m] # "none"
        PROVE  \/ m \in iface_cubes' \/ link'[m] # NoPeer
               \/ \E u \in Threads : Linking(u)' /\ Now(u)'.to = m
               \/ \E u \in Threads : Dropping(u)' /\ task'[u].old = m
               \/ Forgetting(m)'
    <3>1. m # n /\ ifaces[m] # "none"
      BY <2>1 DEF Form, NamesTyped
    <3>2. CASE m \in iface_cubes \/ link[m] # NoPeer
      BY <1>2, <3>1, <3>2
    <3>3. CASE Forgetting(m)
      BY <3>1, <3>3
    <3>4. ASSUME NEW u \in Threads, Linking(u), Now(u).to = m PROVE Linking(u)' /\ Now(u)'.to = m
      BY <1>4, <1>5, <3>4 DEF Linking
    <3>5. ASSUME NEW u \in Threads, Dropping(u), task[u].old = m
          PROVE  (Dropping(u)' /\ task'[u].old = m) \/ Forgetting(m)
      <4>1. CASE tk[u] = task[u]
        BY <1>4, <3>1, <3>5, <4>1 DEF Dropping
      <4>2. CASE tk[u] # task[u]
        BY <3>1, <3>5, <4>2 DEF Dropping
      <4> QED BY <4>1, <4>2
    <3> QED BY <3>1, <3>2, <3>3, <3>4, <3>5 DEF Orderly, Used
  <2> QED BY <2>1 DEF Used
<1>10. Back'
  <2>1. ASSUME NEW p \in Ports, NEW m \in Netdevs, link'[m] = p
        PROVE  \/ link'[p] \in {m, Dangling}
               \/ \E u \in Threads : Unlinking(u)' /\ Now(u)'.on = p /\ task'[u].ref \in {m, Dangling}
    <3>1. m # n /\ link[m] = p
      BY <1>2, <2>1, EndsApart
    <3>2. \A u \in Threads : Unlinking(u) => tk[u] = task[u]
      BY <1>5
    <3> QED BY <1>2, <1>4, <3>1, <3>2 DEF Orderly, Back, Unlinking
  <2> QED BY <2>1 DEF Back
<1> QED BY <1>6, <1>7, <1>8, <1>9, <1>10 DEF Orderly

\* Forgets: by the name the port still has, or another thread has forgotten
\* the interface already.
LEMMA ForgetsMeanwhile ==
  ASSUME Inv, Inv', Meanwhile, NEW t \in Threads, Forgets(t)
  PROVE  Meanwhile'
<1> DEFINE n == peer[Now(t).on]
           tk == [task EXCEPT ![t].pc = "resolve"]
<1>1. /\ task[t].script # <<>> /\ Now(t).cmd = "set" /\ task[t].pc = "forget" /\ Now(t).on \in Ports
      /\ Form /\ ~crashed /\ task \in [Threads -> Tasks] /\ At(t, "forget") /\ Listener \in Threads
  BY InSet DEF Forgets, At, Meanwhile, Typed, Threads
<1>2. /\ UNCHANGED <<peer, ports_to_ports, mutex, failures, crashed>>
      /\ \/ n \in Netdevs /\ EraseIface(n, tk)
         \/ n \notin Netdevs /\ task' = tk /\ UNCHANGED <<link, ifaces, iface_cubes>>
  BY DEF Forgets
<1>3. NamesTyped' /\ OnlyIfaces'
  BY <1>1, <1>2 DEF Form, NamesTyped, ToIfaces, OnlyIfaces, EraseIface
<1>4. ASSUME Orderly
      PROVE  /\ link[Now(t).on] = NoPeer
             /\ \A m \in Netdevs : task[t].old = m => n = m \/ Forgetting(m)
  BY <1>1, <1>4 DEF Orderly, Midway, Parting
<1>5. CASE n \notin Netdevs /\ task' = tk /\ UNCHANGED <<link, ifaces, iface_cubes>>
  <2>1. /\ Form' /\ \A u \in Threads \ {t} : task'[u] = task[u]
        /\ task'[t].pc = "resolve" /\ Now(t)' = Now(t) /\ Script(Listener)' = Script(Listener)
    BY <1>1, <1>2, <1>3, <1>5, NewPc
  <2>2. Orderly => Midway(t)'
    BY <1>4, <1>5, <2>1 DEF Midway, Parting
  <2>3. ~Parting(t)'
    BY <2>1 DEF Parting
  <2>4. Good' => Orderly'
    <3> HIDE DEF n
    <3> QED BY <1>1, <1>2, <1>4, <1>5, <2>1, <2>2, <2>3, Proceeds, GoodBefore
  <2> QED BY <2>1, <2>4 DEF Meanwhile
<1>6. CASE n \in Netdevs /\ EraseIface(n, tk)
  <2>1. /\ tk \in [Threads -> Tasks] /\ \A u \in Threads \ {t} : tk[u] = task[u]
        /\ tk[t].pc = "resolve" /\ tk[t].script = task[t].script /\ tk[t].op = task[t].op
    <3>1. "resolve" \in Places /\ task[t] \in Tasks
      BY <1>1 DEF Places
    <3> QED BY <1>1, <3>1 DEF Tasks
  <2>2. /\ link' = Severed(n) /\ ifaces' = [ifaces EXCEPT ![n] = "none"]
        /\ iface_cubes' = iface_cubes \ {n} /\ task' = WithoutCopies(n, tk) /\ n \in Ends
    BY <1>6, EndsApart DEF EraseIface
  <2> HIDE DEF tk, n
  <2>3. \A u \in Threads : task'[u].script = task[u].script /\ task'[u].op = task[u].op
    BY <2>1, <2>2, CopyFields
  <2>4. Form'
    BY <1>1, <1>2, <1>3, <2>3, FormStays
  <2>5. Script(Listener)' = Script(Listener) /\ \A m : Forgetting(m) => Forgetting(m)'
    BY <1>1, <2>3 DEF Script, Forgetting
  <2>6. Orderly => Orderly'
    BY <1>1, <1>2, <1>4, <1>6, <2>1, <2>2, <2>5, Erases
  <2> QED BY <1>1, <1>2, <2>4, <2>6, GoodBefore DEF Meanwhile
<1> QED BY <1>2, <1>5, <1>6

\* ForgetsIface.
LEMMA ForgetsIfaceMeanwhile ==
  ASSUME Inv, Inv', Meanwhile, NEW t \in Threads, ForgetsIface(t)
  PROVE  Meanwhile'
<1> DEFINE n == Now(t).on
           tk == [task EXCEPT ![t] = Idle]
<1>1. /\ task[t].script # <<>> /\ Now(t).cmd = "forget_iface" /\ n \in Netdevs
      /\ Form /\ ~crashed /\ task \in [Threads -> Tasks] /\ Listener \in Threads
      /\ task[t].pc = "check" /\ n \in Ends
  <2>1. task[t].script # <<>> /\ Now(t).cmd = "forget_iface" /\ Form /\ ~crashed /\ Inv
    BY DEF ForgetsIface, Runs, Meanwhile
  <2> QED BY <2>1, NowCommand, EndsApart DEF Inv, InScript, Typed, Threads
<1>2. /\ UNCHANGED <<peer, ports_to_ports, failures, crashed>> /\ Release(t)
      /\ link' = Severed(n) /\ ifaces' = [ifaces EXCEPT ![n] = "none"]
      /\ iface_cubes' = iface_cubes \ {n} /\ task' = WithoutCopies(n, tk)
  BY DEF ForgetsIface, EraseIface
<1>3. NamesTyped' /\ OnlyIfaces'
  BY <1>1, <1>2 DEF Form, NamesTyped, ToIfaces, OnlyIfaces
<1>4. /\ tk \in [Threads -> Tasks] /\ \A u \in Threads \ {t} : tk[u] = task[u]
      /\ tk[t].pc = "check" /\ tk[t].script = <<>>
  <2>1. Idle \in Tasks /\ Idle.pc = "check" /\ Idle.script = <<>>
    <3>1. "check" \in Places /\ "none" \in Ops /\ NoPeer \in Pointers
      BY EndsApart DEF Places, Ops
    <3> QED BY <3>1 DEF Idle, Doing, Tasks
  <2> QED BY <1>1, <2>1
<1> HIDE DEF tk
<1>5. /\ \A u \in Threads \ {t} : task'[u].script = task[u].script /\ task'[u].op = task[u].op
      /\ Script(t)' = <<>>
  BY <1>1, <1>2, <1>4, CopyFields DEF Script
<1>6. Form'
  <2>1. <<>> \in Seq(IfaceCommands)
    OBVIOUS
  <2> QED BY <1>1, <1>2, <1>3, <1>5, <2>1, FormKept DEF Release
<1>7. CASE t # Listener
  <2>1. Script(Listener)' = Script(Listener) /\ \A m : Forgetting(m) => Forgetting(m)'
    BY <1>1, <1>5, <1>7 DEF Script, Forgetting
  <2>2. Orderly => Orderly'
    BY <1>1, <1>2, <1>4, <2>1, Erases
  <2> QED BY <1>1, <1>2, <1>6, <2>2, GoodBefore DEF Meanwhile
<1>8. CASE t = Listener
  <2>1. Script(Listener) = Drops(n)
    <3>1. PICK m \in Netdevs : \/ Script(Listener) = Drops(m)
                               \/ \E p \in Ports : Script(Listener) = Takes(p, m)
      BY <1>1, <1>8 DEF Form, ListenerForm, Script
    <3>2. Now(Listener) = Head(Script(Listener)) /\ Set(n, NoPeer).cmd = "set"
      BY DEF Now, Script, Set
    <3>3. Script(Listener) = Drops(m)
      BY <1>1, <1>8, <3>1, <3>2, ListenerScripts DEF Set
    <3>4. ForgetIface(m).on = m
      BY DEF ForgetIface
    <3> QED BY <1>1, <1>8, <3>2, <3>3, <3>4, ListenerScripts
  <2>2. \A m \in Netdevs \ {n} : ~Forgetting(m)
    BY <2>1, ForgetsDropped DEF Forgetting
  <2>3. \A p, m : Script(Listener)' # Takes(p, m)
    BY <1>5, <1>8, ListenerScripts
  <2>4. Orderly => Orderly'
    BY <1>1, <1>2, <1>4, <2>2, <2>3, Erases
  <2> QED BY <1>1, <1>2, <1>6, <2>4, GoodBefore DEF Meanwhile
<1> QED BY <1>7, <1>8

\* Steps that leave links and threads alone.
LEMMA MeanwhileUnchanged ==
  ASSUME Meanwhile, UNCHANGED <<peer, link, ifaces, iface_cubes, ports_to_ports, mutex, task, failures>>,
         crashed' = crashed \/ crashed'
  PROVE  Meanwhile'
<1>1. Form'
  BY DEF Meanwhile, Form, NamesTyped, ToIfaces, OnlyIfaces, ListenerForm, Script
<1>2. Good' => Good
  BY DEF Good
<1>3. Orderly => Orderly'
  BY DEF Orderly, Midway, Parting, Target, Named, Renaming, Used, Linking, Dropping, Back, Unlinking,
         Forgetting, Script, Now
<1> QED BY <1>1, <1>2, <1>3 DEF Meanwhile

\* AttachIface.
LEMMA AttachIfaceMeanwhile ==
  ASSUME Inv, Meanwhile, NEW n \in Netdevs, NEW ty \in AttachTypes, AttachIface(n, ty)
  PROVE  Meanwhile'
<1>1. CASE Crash
  BY <1>1, CrashMeanwhile
<1>2. CASE /\ ifaces' = [ifaces EXCEPT ![n] = IF @ = "none" THEN ty ELSE @]
           /\ iface_cubes' = iface_cubes \cup {n}
           /\ UNCHANGED <<peer, link, ports_to_ports, mutex, task, failures, crashed>>
  <2>1. ty \in Types
    BY TypesAssumption
  <2>2. /\ Form' /\ \A m \in Netdevs : m # n => ifaces'[m] = ifaces[m]
    BY <1>2, <2>1 DEF Meanwhile, Form, NamesTyped, ToIfaces, OnlyIfaces, ListenerForm, Script
  <2>3. ASSUME Orderly PROVE Orderly'
    <3>1. (\A u \in Threads : Midway(u)') /\ Target' /\ Named' /\ Back'
      BY <1>2, <2>3 DEF Orderly, Midway, Parting, Target, Named, Renaming, Back, Unlinking,
                        Forgetting, Script, Now
    <3>2. Used'
      BY <1>2, <2>2, <2>3 DEF Orderly, Used, Linking, Dropping, Forgetting, Script, Now
    <3> QED BY <3>1, <3>2 DEF Orderly
  <2> QED BY <1>2, <2>2, <2>3 DEF Meanwhile, Good
<1> QED BY <1>1, <1>2 DEF AttachIface

\* AttachRefused: nothing is claimed any more.
LEMMA AttachRefusedMeanwhile ==
  ASSUME Inv, Meanwhile, NEW n \in Netdevs, NEW ty \in AttachTypes, AttachRefused(n, ty)
  PROVE  Meanwhile'
<1>1. ty \in Types /\ failures \in Nat /\ failures' = failures + 1
  BY TypesAssumption DEF AttachRefused, Inv, Typed
<1>2. Form'
  BY <1>1 DEF AttachRefused, Meanwhile, Form, NamesTyped, ToIfaces, OnlyIfaces, ListenerForm, Script
<1> QED BY <1>1, <1>2 DEF Meanwhile, Good

\* DetachIface.
LEMMA DetachIfaceMeanwhile ==
  ASSUME Inv, Meanwhile, NEW n \in Netdevs, DetachIface(n)
  PROVE  Meanwhile'
<1>1. CASE Crash
  BY <1>1, CrashMeanwhile
<1>2. CASE /\ link[n] = NoPeer /\ EraseIface(n, task)
           /\ UNCHANGED <<peer, ports_to_ports, mutex, failures, crashed>>
  <2>1. /\ link' = Severed(n) /\ ifaces' = [ifaces EXCEPT ![n] = "none"]
        /\ iface_cubes' = iface_cubes \ {n} /\ task' = WithoutCopies(n, task)
        /\ task \in [Threads -> Tasks] /\ Listener \in Threads /\ n \in Ends
        /\ Form /\ Inv
    BY <1>2, EndsApart DEF EraseIface, Inv, Typed, Threads, Meanwhile
  <2>2. \A u \in Threads : task'[u].script = task[u].script /\ task'[u].op = task[u].op
    BY <2>1, CopyFields
  <2>3. NamesTyped' /\ OnlyIfaces'
    BY <1>2, <2>1 DEF Form, NamesTyped, ToIfaces, OnlyIfaces
  <2>4. Form'
    BY <1>2, <2>1, <2>2, <2>3, FormStays
  <2>5. Script(Listener)' = Script(Listener) /\ \A m : Forgetting(m) => Forgetting(m)'
    BY <2>1, <2>2 DEF Script, Forgetting
  <2>6. Orderly => Orderly'
    BY <1>2, <2>1, <2>5, Erases
  <2> QED BY <1>2, <2>4, <2>6 DEF Meanwhile, Good
<1>3. CASE /\ link[n] \in Ports /\ iface_cubes' = iface_cubes \ {n}
           /\ UNCHANGED <<peer, link, ifaces, ports_to_ports, mutex, task, failures, crashed>>
  <2>1. Form'
    BY <1>3 DEF Meanwhile, Form, NamesTyped, ToIfaces, OnlyIfaces, ListenerForm, Script
  <2>2. ASSUME Orderly PROVE Orderly'
    <3>1. (\A u \in Threads : Midway(u)') /\ Target' /\ Named' /\ Back'
      BY <1>3, <2>2 DEF Orderly, Midway, Parting, Target, Named, Renaming, Back, Unlinking,
                        Forgetting, Script, Now
    <3>2. link[n] # NoPeer
      BY <1>3, EndsApart
    <3>3. Used'
      BY <1>3, <2>2, <3>2 DEF Orderly, Used, Linking, Dropping, Forgetting, Script, Now
    <3> QED BY <3>1, <3>3 DEF Orderly
  <2> QED BY <1>3, <2>1, <2>2 DEF Meanwhile, Good
<1> QED BY <1>1, <1>2, <1>3 DEF DetachIface

\* DestroysPort: the daemon does not survive it while the listener works on
\* the port.
LEMMA DestroysPortMeanwhile ==
  ASSUME Inv, Inv', OneClient, Meanwhile, NEW t \in Threads, DestroysPort(t)
  PROVE  Meanwhile'
<1> DEFINE p == Now(t).on
           rest == Tail(task[t].script)
           tk == [task EXCEPT ![t] = IF rest = <<>> THEN Idle ELSE Doing(task[t].op, rest)]
<1>1. /\ task[t].script # <<>> /\ Now(t).cmd = "destroy" /\ p \in Ports /\ p \in Ends
      /\ Form /\ ~crashed /\ task \in [Threads -> Tasks] /\ Listener \in Threads
      /\ task[t].pc = "check" /\ rest \in Seq(Commands) /\ rest \in Seq(IfaceCommands)
      /\ Typed /\ InScript
  <2>1. task[t].script # <<>> /\ Now(t).cmd = "destroy" /\ Form /\ ~crashed /\ Inv
    BY DEF DestroysPort, Runs, Meanwhile
  <2> QED BY <2>1, NowCommand, ToIface, EndsApart DEF Inv, InScript, Typed, Threads
<1>2. /\ UNCHANGED <<ifaces, iface_cubes, ports_to_ports, mutex, failures>>
      /\ link' = Severed(p) /\ peer' = [peer EXCEPT ![p] = NoPeer] /\ task' = WithoutCopies(p, tk)
      /\ crashed' = (task[Listener].script # <<>> /\ Now(Listener).on = p)
  BY DEF DestroysPort
<1>3. NamesTyped' /\ OnlyIfaces' /\ OnlyIfaces
  BY <1>1, <1>2 DEF Form, NamesTyped, ToIfaces, OnlyIfaces
<1>4. t # Listener
  BY <1>1, ListenerForgets DEF Script
<1>5. /\ tk \in [Threads -> Tasks] /\ \A u \in Threads \ {t} : tk[u] = task[u]
      /\ tk[t].pc = "check" /\ tk[t].script = rest
  <2>1. Moved(t, tk) /\ tk[t].pc = "check"
    BY <1>1, GoOnMoves
  <2>2. tk[t].script = rest /\ \A u \in Threads \ {t} : tk[u] = task[u]
    BY <1>1 DEF Idle, Doing
  <2> QED BY <2>1, <2>2 DEF Moved
<1> HIDE DEF tk, rest
<1>6. /\ \A u \in Threads \ {t} : /\ task'[u].script = task[u].script /\ task'[u].op = task[u].op
                                  /\ task'[u].pc = task[u].pc /\ Now(u)' = Now(u)
                                  /\ task'[u].old = IF task[u].old = p THEN Dangling ELSE task[u].old
                                  /\ task'[u].ref = IF task[u].ref = p THEN Dangling ELSE task[u].ref
      /\ Script(t)' = rest /\ task'[t].pc = "check"
  <2>1. \A u \in Threads : /\ task'[u].script = tk[u].script /\ task'[u].op = tk[u].op
                           /\ task'[u].pc = tk[u].pc
                           /\ task'[u].old = IF tk[u].old = p THEN Dangling ELSE tk[u].old
                           /\ task'[u].ref = IF tk[u].ref = p THEN Dangling ELSE tk[u].ref
    BY <1>1, <1>2, <1>5, CopyFields
  <2>2. \A u \in Threads \ {t} : Now(u)' = Now(u)
    BY <1>5, <2>1 DEF Now
  <2> QED BY <1>5, <2>1, <2>2 DEF Script
<1>7. Form'
  BY <1>1, <1>2, <1>3, <1>4, <1>6, FormKept
<1>8. Script(Listener)' = Script(Listener) /\ \A m : Forgetting(m)' <=> Forgetting(m)
  BY <1>1, <1>4, <1>6 DEF Script, Forgetting
<1>9. /\ \A e \in Ports : link'[e] = IF e = p THEN NoPeer ELSE link[e]
      /\ \A e \in Netdevs : link'[e] = IF link[e] = p THEN Dangling ELSE link[e]
  <2>1. \A e \in Ends : link'[e] = IF e = p THEN NoPeer ELSE IF link[e] = p THEN Dangling ELSE link[e]
    BY <1>1, <1>2, SeveredLinks
  <2>2. \A e \in Ports : link[e] # p
    BY <1>1, <1>3, NoPortLinks
  <2> QED BY <1>1, <2>1, <2>2, EndsApart
<1>10. ASSUME Orderly, Good' PROVE Orderly'
  <2>1. \A u \in Threads \ {t} : task[u].pc # "check" => Now(u).on \in Ports /\ Now(u).on # p
    <3>1. ASSUME NEW u \in Threads \ {t}, task[u].pc # "check" PROVE Now(u).on \in Ports /\ Now(u).on # p
      <4>1. u = Listener
        BY <1>4, TwoThreads
      <4>2. task[u].script # <<>> /\ Now(u).cmd = "set"
        BY <1>1, <3>1 DEF InScript
      <4> QED BY <1>1, <1>2, <1>10, <4>1, <4>2, NowCommand DEF Good
    <3> QED BY <3>1
  <2>2. \A q \in Ports : q # p => link'[q] = link[q] /\ peer'[q] = peer[q]
    BY <1>1, <1>2, <1>9 DEF Form, NamesTyped
  <2>3. p \notin Netdevs /\ p # NoPeer /\ p # Dangling
    BY <1>1, EndsApart
  <2>4. ASSUME NEW u \in Threads PROVE Midway(u)'
    <3>1. CASE u = t
      BY <1>6, <3>1 DEF Midway, Parting
    <3>2. CASE u # t
      <4>1. Midway(u) /\ (Parting(u)' <=> Parting(u))
        BY <1>6, <1>10, <3>2 DEF Orderly, Parting
      <4>2. Parting(u) => task'[u].old = task[u].old
        BY <1>6, <2>3, <3>2, <4>1 DEF Midway
      <4>3. task[u].pc # "check" => /\ link'[Now(u).on] = link[Now(u).on]
                                    /\ peer'[Now(u).on] = peer[Now(u).on]
        BY <2>1, <2>2, <3>2
      <4>4. Parting(u) /\ Forgetting(task[u].old) => Forgetting(task[u].old)'
        BY <1>8, <4>2 DEF Forgetting
      <4>5. task[u].pc = "unlink_other" => task'[u].ref = task[u].ref
        <5>1. task[u].pc = "unlink_other" => task[u].ref # p
          BY <2>3, <4>1 DEF Midway, Parting
        <5> QED BY <1>6, <3>2, <5>1
      <4> QED BY <1>6, <3>2, <4>1, <4>2, <4>3, <4>4, <4>5 DEF Midway, Parting
    <3> QED BY <3>1, <3>2
  <2>5. Target'
    <3>1. ASSUME NEW q \in Ports, NEW n \in Netdevs, Script(Listener) = Takes(q, n)
          PROVE  /\ link'[q] \in Netdevs => link'[q] = n
                 /\ \A u \in Threads : Parting(u)' /\ Now(u)'.on = q /\ task'[u].old \in Netdevs
                                         => task'[u].old = n
      <4>1. /\ link[q] \in Netdevs => link[q] = n
            /\ \A u \in Threads : Parting(u) /\ Now(u).on = q /\ task[u].old \in Netdevs
                                    => task[u].old = n
        BY <1>10, <3>1 DEF Orderly, Target
      <4>2. \A u \in Threads : Parting(u)' /\ task'[u].old \in Netdevs =>
              u # t /\ Parting(u) /\ Now(u)' = Now(u) /\ task'[u].old = task[u].old
        BY <1>6, EndsApart DEF Parting
      <4> QED BY <1>9, <4>1, <4>2, EndsApart
    <3> QED BY <1>8, <3>1 DEF Target
  <2>6. Named'
    <3>1. \A u \in Threads, q \in Ports : Renaming(u, q) => Renaming(u, q)'
      BY <1>1, <1>6 DEF Renaming
    <3> QED BY <1>9, <1>10, <2>2, <3>1, EndsApart DEF Orderly, Named
  <2>7. Used'
    <3>1. \A u \in Threads, n \in Netdevs :
            /\ Linking(u) => Linking(u)' /\ Now(u)' = Now(u)
            /\ Dropping(u) /\ task[u].old = n => Dropping(u)' /\ task'[u].old = n
      BY <1>1, <1>6, <2>3 DEF Linking, Dropping
    <3>2. \A n \in Netdevs : link[n] # NoPeer => link'[n] # NoPeer
      BY <1>9, EndsApart
    <3> QED BY <1>2, <1>8, <1>10, <3>1, <3>2 DEF Orderly, Used
  <2>8. Back'
    <3>1. ASSUME NEW q \in Ports, NEW n \in Netdevs, link'[n] = q
          PROVE  \/ link'[q] \in {n, Dangling}
                 \/ \E u \in Threads : Unlinking(u)' /\ Now(u)'.on = q /\ task'[u].ref \in {n, Dangling}
      <4>1. link[n] = q /\ q # p
        BY <1>9, <3>1, EndsApart
      <4>2. \A u \in Threads : Unlinking(u) /\ task[u].ref \in {n, Dangling} =>
              Unlinking(u)' /\ Now(u)' = Now(u) /\ task'[u].ref = task[u].ref
        BY <1>1, <1>6, <2>3 DEF Unlinking
      <4> QED BY <1>10, <2>2, <4>1, <4>2 DEF Orderly, Back
    <3> QED BY <3>1 DEF Back
  <2> QED BY <2>4, <2>5, <2>6, <2>7, <2>8 DEF Orderly
<1> QED BY <1>1, <1>2, <1>7, <1>10, GoodBefore DEF Meanwhile

\* NetlinkNotification: the port that an interface is linked to is linked to
\* that interface, or is being taken from it.
LEMMA NetlinkNotificationMeanwhile ==
  ASSUME Inv, Inv', OneClient, Meanwhile, NEW n \in Netdevs, NetlinkNotification(n)
  PROVE  Meanwhile'
<1> DEFINE s == IF link[n] = NoPeer THEN Drops(n) ELSE Takes(link[n], n)
<1>1. /\ Form /\ Listener \in Threads /\ task \in [Threads -> Tasks] /\ mutex # Listener
      /\ UNCHANGED <<peer, link, ifaces, iface_cubes, ports_to_ports, failures>>
  BY ThreadsAssumption DEF NetlinkNotification, Meanwhile, Threads, Inv, Typed
<1>2. /\ task[Listener].pc = "check" /\ \A m : ~Forgetting(m)
  BY <1>1, ListenerFree
<1>3. CASE UNCHANGED <<mutex, task>> /\ (crashed' = crashed \/ crashed')
  BY <1>1, <1>3, MeanwhileUnchanged
<1>4. CASE /\ link[n] # Dangling /\ mutex' = Listener
           /\ task' = [task EXCEPT ![Listener] = Doing("netlink", s)] /\ UNCHANGED crashed
  <2>1. link[n] \in Ports \cup {NoPeer}
    BY <1>4, EndsApart DEF Inv, Typed, Pointers
  <2>2. /\ Script(Listener)' = s /\ task'[Listener].op = "netlink" /\ task'[Listener].pc = "check"
        /\ \A u \in Threads \ {Listener} : task'[u] = task[u]
    BY <1>1, <1>4 DEF Script, Doing
  <2>3. \/ s = Drops(n)
        \/ link[n] \in Ports /\ s = Takes(link[n], n)
    BY <2>1
  <2>4. s \in Seq(IfaceCommands)
    <3>1. ForgetIface(n) \in IfaceCommands /\ \A p \in Ports : Set(p, NoPeer) \in IfaceCommands
      BY EndsApart DEF IfaceCommands, Commands, Set, ForgetIface
    <3>2. Drops(n) \in Seq(IfaceCommands)
      BY <3>1 DEF Drops
    <3>3. \A p \in Ports : Takes(p, n) \in Seq(IfaceCommands)
      BY <3>1 DEF Takes
    <3> QED BY <2>3, <3>2, <3>3
  <2> HIDE DEF s
  <2>5. NamesTyped' /\ OnlyIfaces'
    BY <1>1 DEF Form, NamesTyped, ToIfaces, OnlyIfaces
  <2>6. Form'
    <3>1. ToIfaces'
      BY <1>1, <2>2, <2>4, <2>5 DEF Form, ToIfaces, Script
    <3>2. ListenerForm'
      BY <1>4, <2>2, <2>3 DEF ListenerForm
    <3> QED BY <2>5, <3>1, <3>2 DEF Form
  <2>7. ASSUME Orderly PROVE Orderly'
    <3>1. \A u \in Threads \ {Listener} : /\ task'[u].pc = task[u].pc /\ task'[u].old = task[u].old
                                          /\ task'[u].ref = task[u].ref /\ Now(u)' = Now(u)
      BY <2>2 DEF Now
    <3>2. ASSUME NEW u \in Threads PROVE Midway(u)'
      <4>1. CASE u = Listener
        BY <2>2, <4>1 DEF Midway, Parting
      <4>2. CASE u # Listener
        BY <1>1, <1>2, <2>7, <3>1, <4>2 DEF Orderly, Midway, Parting
      <4> QED BY <4>1, <4>2
    <3>3. Target'
      <4>1. ASSUME NEW p \in Ports, NEW m \in Netdevs, s = Takes(p, m)
            PROVE  /\ link[p] \in Netdevs => link[p] = m
                   /\ \A u \in Threads : Parting(u)' /\ Now(u)'.on = p /\ task'[u].old \in Netdevs
                                           => task'[u].old = m
        <5>1. link[n] = p /\ m = n
          BY <2>3, <4>1, ListenerScripts
        <5>2. \A u \in Threads : Parting(u) /\ Now(u).on = p => u # Listener /\ Midway(u)
          BY <1>2, <2>7 DEF Parting, Orderly
        <5>3. CASE link[p] \in {n, Dangling}
          <6>1. ASSUME NEW u \in Threads, Parting(u), Now(u).on = p, task[u].old \in Netdevs
                PROVE  task[u].old = n
            BY <5>2, <5>3, <6>1, EndsApart DEF Midway, Parting
          <6>2. \A u \in Threads : Parting(u)' => Parting(u) /\ u # Listener
            BY <2>2, <3>1 DEF Parting
          <6> QED BY <3>1, <5>1, <5>3, <6>1, <6>2, EndsApart
        <5>4. ASSUME NEW v \in Threads, Unlinking(v), Now(v).on = p, task[v].ref \in {n, Dangling}
              PROVE  /\ link[p] = NoPeer
                     /\ \A u \in Threads : Parting(u) /\ Now(u).on = p /\ task[u].old \in Netdevs
                                             => task[u].old = n
          <6>1. v # Listener /\ Parting(v) /\ Midway(v)
            BY <1>2, <5>2, <5>4 DEF Unlinking, Parting
          <6>2. link[p] = NoPeer /\ task[v].old \in {n, Dangling}
            BY <5>4, <6>1, EndsApart DEF Midway, Unlinking
          <6>3. \A u \in Threads : Parting(u) => u = v
            BY <1>2, <6>1, TwoThreads DEF Parting
          <6> QED BY <6>2, <6>3, EndsApart
        <5>5. CASE \E v \in Threads : Unlinking(v) /\ Now(v).on = p /\ task[v].ref \in {n, Dangling}
          <6>1. \A u \in Threads : Parting(u)' => Parting(u) /\ u # Listener
            BY <2>2, <3>1 DEF Parting
          <6> QED BY <3>1, <5>1, <5>4, <5>5, <6>1, EndsApart
        <5> QED BY <2>7, <5>1, <5>3, <5>5 DEF Orderly, Back
      <4> QED BY <1>1, <2>2, <4>1 DEF Target
    <3>4. Named'
      <4>1. \A u \in Threads, q \in Ports : Renaming(u, q) => Renaming(u, q)'
        BY <1>2, <3>1 DEF Renaming
      <4> QED BY <1>1, <2>7, <4>1 DEF Orderly, Named
    <3>5. Used'
      <4>1. \A u \in Threads : /\ Linking(u) => Linking(u)' /\ Now(u)' = Now(u)
                               /\ Dropping(u) => Dropping(u)' /\ task'[u].old = task[u].old
        BY <1>2, <3>1 DEF Linking, Dropping
      <4> QED BY <1>1, <1>2, <2>7, <4>1 DEF Orderly, Used
    <3>6. Back'
      <4>1. \A u \in Threads : Unlinking(u) => Unlinking(u)' /\ Now(u)' = Now(u) /\ task'[u].ref = task[u].ref
        BY <1>2, <3>1 DEF Unlinking
      <4> QED BY <1>1, <2>7, <4>1 DEF Orderly, Back
    <3> QED BY <3>2, <3>3, <3>4, <3>5, <3>6 DEF Orderly
  <2> QED BY <1>1, <1>4, <2>6, <2>7 DEF Meanwhile, Good
<1> QED BY <1>3, <1>4 DEF NetlinkNotification, Drops, Takes

\* A client starts an operation.
LEMMA ClientStarts ==
  ASSUME Inv, Inv', Meanwhile, NEW t \in Threads, t # Listener, task[t].op = "none",
         NEW op, NEW s \in Seq(IfaceCommands), task' = [task EXCEPT ![t] = Doing(op, s)],
         UNCHANGED <<peer, link, ifaces, iface_cubes, ports_to_ports, mutex, failures, crashed>>
  PROVE  Meanwhile'
<1>1. /\ task \in [Threads -> Tasks] /\ Form /\ Listener \in Threads /\ task[t].pc = "check"
  BY IdleThread DEF Inv, Typed, Meanwhile, Threads
<1>2. /\ Script(t)' = s /\ task'[t].pc = "check" /\ \A u \in Threads \ {t} : task'[u] = task[u]
  BY <1>1 DEF Script, Doing
<1>3. NamesTyped' /\ OnlyIfaces'
  BY <1>1 DEF Form, NamesTyped, ToIfaces, OnlyIfaces
<1>4. Form'
  BY <1>1, <1>2, <1>3, FormKept
<1>5. StillForgets
  <2>1. Script(Listener)' = Script(Listener)
    BY <1>1, <1>2 DEF Script
  <2> QED BY <2>1 DEF StillForgets, Forgetting
<1>6. Orderly => Orderly'
  BY <1>1, <1>2, <1>5, Leaves
<1> QED BY <1>4, <1>6 DEF Meanwhile, Good

\* The requests about ports, with interfaces as peers.
LEMMA PortRequestMeanwhile ==
  ASSUME Inv, Inv', IfacePeers, Meanwhile, NEW t \in Threads, t # Listener, NEW p \in Ports,
         NEW x \in Peers \cup {NoPeer},
         \/ SetPeer(t, p, x) \/ AddPort(t, p, x) \/ RemovePort(t, p)
         \/ x \in Peers /\ (Connect(t, p, x) \/ Disconnect(t, p, x))
  PROVE  Meanwhile'
<1>1. x \in Ends \cup {NoPeer} /\ x \notin Ports
  BY EndsAssumption, EndsApart DEF IfacePeers
<1>2. Set(p, x) \in IfaceCommands /\ Set(p, NoPeer) \in IfaceCommands /\ Erase(p) \in IfaceCommands
  <2>1. Set(p, x) \in Commands /\ Set(p, NoPeer) \in Commands /\ Erase(p) \in Commands
    BY <1>1, RequestCommands
  <2>2. Set(p, x).to = x /\ Set(p, NoPeer).to = NoPeer /\ Erase(p).to = NoPeer
    BY DEF Set, Erase
  <2> QED BY <1>1, <2>1, <2>2, EndsApart DEF IfaceCommands
<1>3. /\ <<Set(p, x)>> \in Seq(IfaceCommands) /\ <<Set(p, NoPeer)>> \in Seq(IfaceCommands)
      /\ <<Set(p, NoPeer), Erase(p)>> \in Seq(IfaceCommands)
  BY <1>2
<1>4. CASE SetPeer(t, p, x)
  BY <1>3, <1>4, ClientStarts DEF SetPeer, Starts, OthersUnchanged
<1>5. CASE AddPort(t, p, x)
  <2>1. /\ task[t].op = "none"
        /\ UNCHANGED <<peer, link, ifaces, iface_cubes, ports_to_ports, mutex, failures, crashed>>
        /\ \/ task' = task
           \/ task' = [task EXCEPT ![t] = Doing("add_port", <<Set(p, x)>>)]
    BY <1>5 DEF AddPort, OthersUnchanged
  <2> QED BY <1>3, <2>1, ClientStarts, MeanwhileUnchanged
<1>6. CASE RemovePort(t, p)
  BY <1>3, <1>6, ClientStarts DEF RemovePort, Starts, OthersUnchanged
<1>7. CASE Connect(t, p, x)
  BY <1>1, <1>3, <1>7, ClientStarts DEF Connect, Starts, OthersUnchanged
<1>8. CASE Disconnect(t, p, x)
  BY <1>1, <1>3, <1>8, ClientStarts DEF Disconnect, Starts, OthersUnchanged
<1> QED BY <1>4, <1>5, <1>6, <1>7, <1>8

\* DestroyCube.
LEMMA DestroyCubeMeanwhile ==
  ASSUME Inv, Inv', Meanwhile, NEW t \in Threads, t # Listener, NEW c, DestroyCube(t, c)
  PROVE  Meanwhile'
<1> DEFINE P == PortsOf(c)
           N == Cardinality(P)
<1>1. P \subseteq Ports /\ N \in Nat
  <2>1. P \subseteq Ports
    BY DEF PortsOf, Inv, Typed
  <2>2. IsFiniteSet(P)
    BY <2>1, EndsAssumption, FS_Subset
  <2> QED BY <2>1, <2>2, FS_CardinalityType
<1>2. PICK s \in Orders(P) :
        Starts(t, IF s = <<>> THEN "none" ELSE "destroy_cube",
               [i \in DOMAIN s |-> Set(s[i], NoPeer)] \o [i \in DOMAIN s |-> Erase(s[i])])
  BY DEF DestroyCube
<1> HIDE DEF P, N
<1>3. s \in [1 .. N -> P]
  BY DEF Orders, N
<1> DEFINE a == [i \in DOMAIN s |-> Set(s[i], NoPeer)]
           b == [i \in DOMAIN s |-> Erase(s[i])]
           op == IF s = <<>> THEN "none" ELSE "destroy_cube"
<1>4. \A p \in Ports : Set(p, NoPeer) \in IfaceCommands /\ Erase(p) \in IfaceCommands
  <2>1. \A p \in Ports : Set(p, NoPeer) \in Commands /\ Erase(p) \in Commands
    BY RequestCommands
  <2>2. \A p : Set(p, NoPeer).to = NoPeer /\ Erase(p).to = NoPeer
    BY DEF Set, Erase
  <2> QED BY <2>1, <2>2, EndsApart DEF IfaceCommands
<1>5. a \in Seq(IfaceCommands) /\ b \in Seq(IfaceCommands)
  <2>1. a \in [1 .. N -> IfaceCommands] /\ b \in [1 .. N -> IfaceCommands]
    BY <1>1, <1>3, <1>4
  <2> HIDE DEF a, b
  <2> QED BY <1>1, <2>1
<1>6. /\ task[t].op = "none" /\ task' = [task EXCEPT ![t] = Doing(op, a \o b)]
      /\ UNCHANGED <<peer, link, ifaces, iface_cubes, ports_to_ports, mutex, failures, crashed>>
  BY <1>2 DEF DestroyCube, Starts
<1> HIDE DEF a, b, op
<1>7. a \o b \in Seq(IfaceCommands)
  BY <1>5, ConcatProperties
<1> QED BY <1>6, <1>7, ClientStarts

-----------------------------------------------------------------------------
(* The theorem for a client and the listener.                              *)

\* The second invariant holds at the start.
LEMMA InitMeanwhile == Init => Meanwhile
<1> SUFFICES ASSUME Init PROVE Meanwhile
  OBVIOUS
<1>1. /\ Listener \in Threads
      /\ \A u \in Threads : task[u].op = "none" /\ task[u].script = <<>> /\ task[u].pc = "check"
      /\ \A e \in Ends : link[e] = NoPeer
      /\ \A n \in Netdevs : ifaces[n] = "none"
  BY DEF Init, Idle, Doing, Threads
<1>2. NamesTyped /\ OnlyIfaces
  BY DEF Init, NamesTyped, OnlyIfaces
<1>3. Form
  <2>1. \A u \in Threads : Script(u) = <<>> /\ <<>> \in Seq(IfaceCommands)
    BY <1>1 DEF Script
  <2> QED BY <1>1, <1>2, <2>1 DEF Form, ToIfaces, ListenerForm
<1>4. \A u \in Threads : Midway(u)
  BY <1>1 DEF Midway, Parting
<1>5. Target
  BY <1>1, ListenerScripts DEF Target, Script
<1>6. Named /\ Used /\ Back
  BY <1>1, EndsApart DEF Named, Used, Back
<1> QED BY <1>3, <1>4, <1>5, <1>6 DEF Meanwhile, Orderly

\* Every step of a thread keeps it.
LEMMA ThreadStepMeanwhile ==
  ASSUME Inv, Inv', OneClient, Meanwhile, NEW t \in Threads, ThreadStep(t)
  PROVE  Meanwhile'
<1>1. CASE PortGone(t) \/ SetPeerSame(t) \/ SetPeerDiffers(t) \/ ReadLink(t) \/ Assigns(t)
  BY <1>1, PortGoneMeanwhile, SetPeerSameMeanwhile, SetPeerDiffersMeanwhile, ReadLinkMeanwhile,
     AssignsMeanwhile
<1>2. CASE UnlinkOwn(t) \/ UnlinkOther(t) \/ ChecksUsed(t) \/ Forgets(t)
  BY <1>2, UnlinkOwnMeanwhile, UnlinkOtherMeanwhile, ChecksUsedMeanwhile, ForgetsMeanwhile
<1>3. CASE FollowsBadLink(t)
  BY <1>3, CrashMeanwhile DEF FollowsBadLink
<1>4. CASE ResolveEmpty(t) \/ ResolveIface(t) \/ ResolveThrows(t) \/ LinkOther(t)
  BY <1>4, ResolveEmptyMeanwhile, ResolveIfaceMeanwhile, ResolveThrowsMeanwhile, LinkOtherMeanwhile
<1>5. CASE ResolvePort(t)
  <2>1. task[t].script # <<>> /\ Now(t).to \in Ports /\ Form
    BY <1>5 DEF ResolvePort, Resolves, At, Meanwhile
  <2> QED BY <2>1, ToIface, EndsApart
<1>6. CASE ErasesPort(t) \/ DestroysPort(t) \/ ForgetsIface(t)
  BY <1>6, ErasesPortMeanwhile, DestroysPortMeanwhile, ForgetsIfaceMeanwhile
<1> QED BY <1>1, <1>2, <1>3, <1>4, <1>5, <1>6 DEF ThreadStep, SetPeerStep

\* Every request keeps it.
LEMMA RequestMeanwhile ==
  ASSUME Inv, Inv', IfacePeers, Meanwhile, Request
  PROVE  Meanwhile'
<1>1. PICK t \in Workers :
        \/ \E p \in Ports, x \in Peers \cup {NoPeer} : SetPeer(t, p, x) \/ AddPort(t, p, x)
        \/ \E p \in Ports, x \in Peers : Connect(t, p, x) \/ Disconnect(t, p, x)
        \/ \E p \in Ports : RemovePort(t, p)
        \/ \E c \in Cubes : DestroyCube(t, c)
  BY DEF Request
<1>2. t \in Threads /\ t # Listener /\ NoPeer \in Peers \cup {NoPeer}
  BY ThreadsAssumption DEF Threads
<1>3. CASE \E p \in Ports, x \in Peers \cup {NoPeer} : SetPeer(t, p, x) \/ AddPort(t, p, x)
  BY <1>2, <1>3, PortRequestMeanwhile
<1>4. CASE \E p \in Ports, x \in Peers : Connect(t, p, x) \/ Disconnect(t, p, x)
  BY <1>2, <1>4, PortRequestMeanwhile
<1>5. CASE \E p \in Ports : RemovePort(t, p)
  BY <1>2, <1>5, PortRequestMeanwhile
<1>6. CASE \E c \in Cubes : DestroyCube(t, c)
  BY <1>2, <1>6, DestroyCubeMeanwhile
<1> QED BY <1>1, <1>3, <1>4, <1>5, <1>6

\* Every step keeps it.
LEMMA NextMeanwhile ==
  ASSUME Inv, Inv', OneClient, IfacePeers, Meanwhile, [Next]_vars
  PROVE  Meanwhile'
<1>1. CASE UNCHANGED vars
  BY <1>1, MeanwhileUnchanged DEF vars
<1>2. CASE \E t \in Threads : ThreadStep(t)
  BY <1>2, ThreadStepMeanwhile
<1>3. CASE Request
  BY <1>3, RequestMeanwhile
<1>4. CASE \E c \in Cubes : CreateCube(c)
  BY <1>4, MeanwhileUnchanged DEF CreateCube
<1>5. CASE \E n \in Netdevs : NetdevAdded(n) \/ NetdevRemoved(n)
  BY <1>5, MeanwhileUnchanged DEF NetdevAdded, NetdevRemoved
<1>6. CASE \E n \in Netdevs : NetlinkNotification(n) \/ DetachIface(n)
                              \/ \E ty \in AttachTypes : AttachIface(n, ty) \/ AttachRefused(n, ty)
  BY <1>6, NetlinkNotificationMeanwhile, DetachIfaceMeanwhile, AttachIfaceMeanwhile,
     AttachRefusedMeanwhile
<1> QED BY <1>1, <1>2, <1>3, <1>4, <1>5, <1>6 DEF Next, Environment

\* With one client, interfaces as peers and any overlap of its requests with
\* the notifications of the listener, no interface is kept for nobody once
\* both are done: what set_port_peer unlinks without service_ctrl_mutex_ it
\* drops by the name of the port, or netlink_notification drops it.
THEOREM InterfacesUsedMeanwhile ==
  ASSUME OneClient, IfacePeers
  PROVE  Spec => []IfaceUsed
<1>1. Init => Inv /\ Meanwhile
  BY InitInv, InitMeanwhile
<1>2. Inv /\ Meanwhile /\ [Next]_vars => (Inv /\ Meanwhile)'
  BY NextInv, NextMeanwhile
<1>3. Inv /\ Meanwhile => IfaceUsed
  <2> SUFFICES ASSUME Inv, Meanwhile, Quiet, failures = 0, NEW n \in Netdevs, ifaces[n] # "none"
               PROVE  n \in iface_cubes \/ link[n] # NoPeer
    BY DEF IfaceUsed
  <2>1. Orderly /\ \A t \in Threads : task[t].op = "none"
    BY DEF Meanwhile, Good, Quiet, Running
  <2>2. \A t \in Threads : task[t].script = <<>> /\ task[t].pc = "check"
    BY <2>1, IdleThread
  <2>3. ~Forgetting(n)
    BY <2>2 DEF Forgetting, ForgetsIn, Script, Threads
  <2> QED BY <2>1, <2>2, <2>3 DEF Orderly, Used, Linking, Dropping
<1> QED BY <1>1, <1>2, <1>3, PTL DEF Spec

\* In the same setting, once both are done: a port that is linked to an
\* interface reports it and is linked back, and an interface is linked to no
\* port that is linked elsewhere or not at all (set_peer assigns the name last,
\* with the mutexes released; only the listener can take the link meanwhile).
THEOREM LinksAgreeMeanwhile ==
  ASSUME OneClient, IfacePeers
  PROVE  Spec => []LinksAgreeAtRest
<1>1. Init => Inv /\ Meanwhile
  BY InitInv, InitMeanwhile
<1>2. Inv /\ Meanwhile /\ [Next]_vars => (Inv /\ Meanwhile)'
  BY NextInv, NextMeanwhile
<1>3. Inv /\ Meanwhile => LinksAgreeAtRest
  <2> SUFFICES ASSUME Inv, Meanwhile, Quiet, failures = 0, NEW p \in Ports, NEW n \in Netdevs
               PROVE  /\ link[p] = n => link[n] = p /\ peer[p] = n
                      /\ link[n] = p => link[p] \in {n, Dangling}
    BY DEF LinksAgreeAtRest
  <2>1. Orderly /\ \A t \in Threads : task[t].op = "none"
    BY DEF Meanwhile, Good, Quiet, Running
  <2>2. \A t \in Threads : task[t].script = <<>> /\ task[t].pc = "check"
    BY <2>1, IdleThread
  <2>3. link[p] = n => link[n] = p
    BY <2>2 DEF Inv, Exclusive, LinkedBack, AboutToLink, Linking
  <2>4. link[p] = n => peer[p] = n
    BY <2>1, <2>2 DEF Orderly, Named, Renaming
  <2>5. link[n] = p => link[p] \in {n, Dangling}
    BY <2>1, <2>2 DEF Orderly, Back, Unlinking
  <2> QED BY <2>3, <2>4, <2>5
<1> QED BY <1>1, <1>2, <1>3, PTL DEF Spec
=============================================================================
