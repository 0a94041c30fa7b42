---------------------------- MODULE MCGcpEnclave ----------------------------
(* One enclave with a network, a subnet and a zone, for TLC.                 *)
EXTENDS GcpEnclave

CONSTANTS e1, p1

Everything == [e \in Enclave |-> Step]
OneProject == [e \in Enclave |-> p1]

=============================================================================
