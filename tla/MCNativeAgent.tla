---------------------------- MODULE MCNativeAgent ----------------------------
(* Instances of NativeAgent for TLC. *)
EXTENDS NativeAgent, TLC

CONSTANTS p1, p2, w1, w2

Apart == [p \in Procs |-> IF p = p1 THEN w1 ELSE w2]
=============================================================================
