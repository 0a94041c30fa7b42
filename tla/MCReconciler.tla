---------------------------- MODULE MCReconciler ----------------------------
(* Small instances of Reconciler for TLC. *)
EXTENDS Reconciler

CONSTANTS a, b, p1, p2

\* b imports the export of a.
OneImport    == {<<b, a>>}
NoImports    == {}
ExportsP1    == [e \in Enclave |-> p1]
AllDrivers   == {Enclave}
SomeDrivers  == {Enclave, Enclave \ {a}}
JustApply    == {"apply"}
EveryOp      == {"apply", "destroy", "destroy_part"}
Either       == BOOLEAN
Never        == {FALSE}

=============================================================================
