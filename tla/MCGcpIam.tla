------------------------------ MODULE MCGcpIam ------------------------------
(* Two partitions of one project and two bindings of the operator's. *)
EXTENDS GcpIam, TLC
CONSTANTS q1, q2, o1, o2

\* Nothing tells one partition, or one of the operator's bindings, from the other.
Symmetry == Permutations(Partition) \cup Permutations(Other)
=============================================================================
