-------------------------- MODULE MCCheckpointStore --------------------------
(* Instances of CheckpointStore for TLC. *)
EXTENDS CheckpointStore, TLC

CONSTANTS p1, p2, a1, a2, s1, s2, left, right, t1, t2

OneForEach == [p \in Procs |-> IF p = p1 THEN s1 ELSE s2]
SharedStore == [p \in Procs |-> s1]
SameAgent == [p \in Procs |-> a1]
OwnAgent == [p \in Procs |-> IF p = p1 THEN a1 ELSE a2]

NoLabelOnly == {NoName}
ForkOne == {<<left>>}
ForkOneOrTwo == {<<left>>, <<left, right>>}
Instants == Permutations(Times)
Writers == Permutations(Procs)
=============================================================================
