--------------------------- MODULE MCCubePrograms ---------------------------
(* Instances of CubePrograms for TLC. *)
EXTENDS CubePrograms, TLC

CONSTANTS c1, c2, k1, k2, lv1, lv2

TCandXDP   == c1 :> "tc" @@ c2 :> "xdp"
OneXDP     == c1 :> "xdp"

\* Program sources and log levels are only ever compared with one another.
CodeLevelSymmetry == Permutations({k1, k2}) \cup Permutations({lv1, lv2})
=============================================================================
