---------------------------- MODULE MCPacketOut ----------------------------
(* Names of the model values of the instances of PacketOut.                *)
EXTENDS PacketOut
CONSTANTS t1, t2, m1, m2, m3
=============================================================================
