----------------------------- MODULE MCSlowPath -----------------------------
(* Instances of SlowPath for TLC.                                          *)
EXTENDS SlowPath, TLC

CONSTANTS c1, c2

OneOfEach == c1 :> "tc" @@ c2 :> "xdp"
=============================================================================
