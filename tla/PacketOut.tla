------------------------------ MODULE PacketOut ------------------------------
(***************************************************************************)
(* The way of a packet from a service to the kernel (controller.cpp):      *)
(* Controller::send_packet_to_cube and the receive program behind the      *)
(* interface of the controller, controller_module_rx.                      *)
(*                                                                         *)
(* The daemon writes where the packet is to go into a ring of metadata     *)
(* and the packet to the interface; the receive program counts the packets *)
(* it sees and reads the ring at its own index.  Nothing but the order     *)
(* ties the two together.                                                  *)
(*                                                                         *)
(* Services send from packet_in, which call_back_proxy calls with          *)
(* cbs_mutex_ held; that mutex is static, so the pollers of both hooks     *)
(* exclude each other.  The two controllers share nothing else, and one of *)
(* them is modelled.  In place of the packet the model keeps the metadata  *)
(* its sender meant for it.                                                *)
(***************************************************************************)
EXTENDS Integers, Sequences, FiniteSets

CONSTANTS
  Handlers,   \* threads that run packet_in of some service
  Metadata,   \* module, kind of module, port and flags of a packet
  Empty,      \* an entry of the ring that was never written
  NoThread,   \* owner of a free mutex
  RingSize,   \* MD_MAP_SIZE
  Backlog,    \* packets the kernel queues in front of the receive program
  MaxRefused  \* bound: packets that the interface refuses

Slots == 0 .. RingSize - 1

ASSUME ThreadsAssumption == NoThread \notin Handlers
ASSUME BoundsAssumption  ==
  RingSize \in Nat \ {0} /\ Backlog \in Nat \ {0} /\ MaxRefused \in Nat

\* The packets that wait, the one that is received, the one that is sent and
\* those that were refused have a slot each (1024 slots; the kernel queues
\* 1000 packets unless it is told otherwise).
ASSUME RingAssumption == Backlog + 2 + MaxRefused <= RingSize

VARIABLES
  md_index,   \* ctrl_rx_md_index_
  ring,       \* md_map_rx
  rx_index,   \* index_map_rx
  wire,       \* packets queued in front of the receive program
  rx,         \* the packet it works on, between index and metadata
  out,        \* history: the last packet received, and the metadata it got
  cbs_mutex,  \* owner of cbs_mutex_
  pc,         \* per handler: place in the code
  msg,        \* per handler: the metadata it sends
  refused     \* history: packets that the interface refused

vars == <<md_index, ring, rx_index, wire, rx, out, cbs_mutex, pc, msg, refused>>

Init ==
  /\ md_index = 0
  /\ ring = [i \in Slots |-> Empty]
  /\ rx_index = 0
  /\ wire = <<>>
  /\ rx = <<>>
  /\ out = <<>>
  /\ cbs_mutex = NoThread
  /\ pc = [t \in Handlers |-> "idle"]
  /\ msg = [t \in Handlers |-> Empty]
  /\ refused = 0

-----------------------------------------------------------------------------
(* call_back_proxy.                                                        *)

\* Mutant of BeginHandler: the mutex is not static, each poller has its own.
BeginHandlerOwnMutex(t) ==
  /\ pc[t] = "idle"
  /\ cbs_mutex' = t
  /\ pc' = [pc EXCEPT ![t] = "handler"]
  /\ UNCHANGED <<md_index, ring, rx_index, wire, rx, out, msg, refused>>

BeginHandler(t) ==
  /\ pc[t] = "idle" /\ cbs_mutex = NoThread
  /\ cbs_mutex' = t
  /\ pc' = [pc EXCEPT ![t] = "handler"]
  /\ UNCHANGED <<md_index, ring, rx_index, wire, rx, out, msg, refused>>

EndHandler(t) ==
  /\ pc[t] = "handler"
  /\ cbs_mutex' = NoThread
  /\ pc' = [pc EXCEPT ![t] = "idle"]
  /\ UNCHANGED <<md_index, ring, rx_index, wire, rx, out, msg, refused>>

-----------------------------------------------------------------------------
(* send_packet_to_cube.                                                    *)

\* Mutant of Claim: the index is not reduced to the size of the ring.
ClaimNoWrap(t, m) ==
  /\ pc[t] = "handler"
  /\ md_index' = md_index + 1
  /\ msg' = [msg EXCEPT ![t] = m]
  /\ pc' = [pc EXCEPT ![t] = "write"]
  /\ UNCHANGED <<ring, rx_index, wire, rx, out, cbs_mutex, refused>>

Claim(t, m) ==
  /\ pc[t] = "handler"
  /\ md_index' = (md_index + 1) % RingSize
  /\ msg' = [msg EXCEPT ![t] = m]
  /\ pc' = [pc EXCEPT ![t] = "write"]
  /\ UNCHANGED <<ring, rx_index, wire, rx, out, cbs_mutex, refused>>

\* Mutant of WriteMd: the slot is the one before the index was advanced.
WriteMdBefore(t) ==
  /\ pc[t] = "write"
  /\ ring' = [ring EXCEPT ![(md_index + RingSize - 1) % RingSize] = msg[t]]
  /\ pc' = [pc EXCEPT ![t] = "send"]
  /\ UNCHANGED <<md_index, rx_index, wire, rx, out, cbs_mutex, msg, refused>>

WriteMd(t) ==
  /\ pc[t] = "write"
  /\ ring' = [ring EXCEPT ![md_index] = msg[t]]
  /\ pc' = [pc EXCEPT ![t] = "send"]
  /\ UNCHANGED <<md_index, rx_index, wire, rx, out, cbs_mutex, msg, refused>>

SendFrame(t) ==
  /\ pc[t] = "send" /\ Len(wire) < Backlog
  /\ wire' = Append(wire, msg[t])
  /\ pc' = [pc EXCEPT ![t] = "handler"]
  /\ msg' = [msg EXCEPT ![t] = Empty]
  /\ UNCHANGED <<md_index, ring, rx_index, rx, out, cbs_mutex, refused>>

\* The kernel drops a packet it cannot queue and reports success.
DropFrame(t) ==
  /\ pc[t] = "send" /\ Len(wire) = Backlog
  /\ refused < MaxRefused
  /\ refused' = refused + 1
  /\ pc' = [pc EXCEPT ![t] = "handler"]
  /\ msg' = [msg EXCEPT ![t] = Empty]
  /\ UNCHANGED <<md_index, ring, rx_index, wire, rx, out, cbs_mutex>>

\* VIface::send throws (the packet is larger than the MTU, or the write
\* fails): call_back_proxy catches it and the handler is over.
ThrowFrame(t) ==
  /\ pc[t] = "send"
  /\ refused < MaxRefused
  /\ refused' = refused + 1
  /\ pc' = [pc EXCEPT ![t] = "idle"]
  /\ msg' = [msg EXCEPT ![t] = Empty]
  /\ cbs_mutex' = NoThread
  /\ UNCHANGED <<md_index, ring, rx_index, wire, rx, out>>

-----------------------------------------------------------------------------
(* controller_module_rx.                                                   *)

\* Mutant of RxIndex: the index wraps one slot late.
RxIndexLate ==
  /\ wire # <<>> /\ rx = <<>>
  /\ rx_index' = IF rx_index + 1 > RingSize - 1 THEN 1 ELSE rx_index + 1
  /\ rx' = <<Head(wire)>>
  /\ wire' = Tail(wire)
  /\ UNCHANGED <<md_index, ring, out, cbs_mutex, pc, msg, refused>>

\* The index is advanced under the spin lock of the entry.
RxIndex ==
  /\ wire # <<>> /\ rx = <<>>
  /\ rx_index' = (rx_index + 1) % RingSize
  /\ rx' = <<Head(wire)>>
  /\ wire' = Tail(wire)
  /\ UNCHANGED <<md_index, ring, out, cbs_mutex, pc, msg, refused>>

RxRead ==
  /\ rx # <<>>
  /\ out' = [packet |-> Head(rx), md |-> ring[rx_index]]
  /\ rx' = <<>>
  /\ UNCHANGED <<md_index, ring, rx_index, wire, cbs_mutex, pc, msg, refused>>

-----------------------------------------------------------------------------
Handler(t) ==
  \/ BeginHandler(t) \/ EndHandler(t)
  \/ \E m \in Metadata : Claim(t, m)
  \/ WriteMd(t) \/ SendFrame(t) \/ DropFrame(t) \/ ThrowFrame(t)

Next == (\E t \in Handlers : Handler(t)) \/ RxIndex \/ RxRead

\* The kernel runs the receive program for every packet it queued.
Spec == Init /\ [][Next]_vars /\ WF_vars(RxIndex) /\ WF_vars(RxRead)

-----------------------------------------------------------------------------
(* Properties.                                                             *)

Entries == Metadata \cup {Empty}

TypeOK ==
  /\ md_index \in Slots /\ rx_index \in Slots
  /\ ring \in [Slots -> Entries]
  /\ wire \in Seq(Entries) /\ Len(wire) <= Backlog
  /\ rx \in {<<>>} \cup {<<m>> : m \in Entries}
  /\ cbs_mutex \in Handlers \cup {NoThread}
  /\ pc \in [Handlers -> {"idle", "handler", "write", "send"}]
  /\ msg \in [Handlers -> Entries]
  /\ refused \in 0 .. MaxRefused

\* The handlers that have taken a slot and not yet sent the packet for it.
Sending == {t \in Handlers : pc[t] \in {"write", "send"}}

\* Each packet that the interface refused, and nothing else, moves the index
\* of the daemon away from the one of the receive program, for good.
IndexesOff ==
  md_index = (rx_index + Len(wire) + refused + Cardinality(Sending)) % RingSize

\* As long as no packet was refused each one is given the metadata that its
\* sender wrote for it, however the ring wraps.
OwnMetadata == (refused = 0 /\ out # <<>>) => out.packet = out.md

\* The ring between the two indexes is the queue of metadata of a channel.
Waiting ==
  LET first == rx_index - Len(rx)
  IN [i \in 1 .. Len(rx) + Len(wire) + refused |-> ring[(first + i) % RingSize]]

Channel == INSTANCE PacketChannel WITH
  frames <- rx \o wire, mds <- Waiting, out <- out, Nothing <- <<>>

\* The controller implements a channel: a packet is given the metadata that
\* stand at its place in the order of sending, also after packets were
\* refused, and every packet the interface took is delivered.
ChannelSpec == Channel!Spec
=============================================================================
