--------------------------- MODULE MCStoreBackend ---------------------------
(* Small instances of StoreBackend for TLC. *)
EXTENDS StoreBackend, TLC

\* Nothing tells one caller, partition or value from another.
Symmetry == Permutations(Caller) \cup Permutations(Enclave) \cup Permutations(Part) \cup Permutations(Value)

=============================================================================
