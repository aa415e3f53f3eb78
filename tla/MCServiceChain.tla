--------------------------- MODULE MCServiceChain ---------------------------
(* Instances of ServiceChain for TLC.                                      *)
EXTENDS ServiceChain, TLC

CONSTANTS t1, t2, t3

\* nat comes before ddosmitigator in compare_position; the third service is
\* not in its list.
SomePositions == t1 :> 0 @@ t2 :> 1 @@ t3 :> Unknown
=============================================================================
