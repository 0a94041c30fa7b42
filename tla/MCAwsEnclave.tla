---------------------------- MODULE MCAwsEnclave ----------------------------
(* Enclaves whose ids give one account name: the second is refused.  The     *)
(* partition of the first declares the input the driver asks for.            *)
EXTENDS AwsEnclave

CONSTANTS e1, e2, a1

OneAccount == [e \in Enclave |-> a1]
FirstHas == [e \in Enclave |-> e = e1]

=============================================================================
