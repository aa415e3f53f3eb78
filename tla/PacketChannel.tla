---------------------------- MODULE PacketChannel ----------------------------
(***************************************************************************)
(* What a controller promises to the services that send packets: packets   *)
(* and their metadata travel in two queues, in the order in which they     *)
(* were sent, and are joined again at the other end.  The interface may    *)
(* refuse a packet (it is too large, or the queue of the kernel is full);  *)
(* its metadata stays in the other queue.                                  *)
(***************************************************************************)
EXTENDS Naturals, Sequences

CONSTANT Nothing   \* no packet has been delivered yet

VARIABLES
  frames,    \* packets between the daemon and the receive program
  mds,       \* metadata that no packet has been given yet
  out        \* the last packet delivered, with the metadata it was given

vars == <<frames, mds, out>>

Init ==
  /\ frames = <<>>
  /\ mds = <<>>
  /\ out = Nothing

\* t is s with one more element at its end.
Extended(s, t) == Len(t) = Len(s) + 1 /\ SubSeq(t, 1, Len(s)) = s

Send ==
  /\ Extended(frames, frames')
  /\ Extended(mds, mds')
  /\ UNCHANGED out

Refuse ==
  /\ Extended(mds, mds')
  /\ UNCHANGED <<frames, out>>

Deliver ==
  /\ frames # <<>>
  /\ out' = [packet |-> Head(frames), md |-> Head(mds)]
  /\ frames' = Tail(frames)
  /\ mds' = Tail(mds)

Next == Send \/ Refuse \/ Deliver

SafeSpec == Init /\ [][Next]_vars

\* A packet that the interface took is delivered.
Spec == SafeSpec /\ WF_vars(Deliver)
=============================================================================
