-------------------------- MODULE ResourceLifecycle --------------------------
(***************************************************************************)
(* What nclav promises about one partition, whoever works on it: the       *)
(* lifecycle of ProvisioningStatus over the partition's stored record and  *)
(* the resources that really exist.                                        *)
(*                                                                         *)
(*   none -> Provisioning -> Active <-> Updating                           *)
(*   Provisioning | Updating -> Error -> Provisioning | Updating           *)
(*                                                                         *)
(* Resources come into being or change version only while the record is in *)
(* flight; the record turns Active only to say what then exists; a failure *)
(* keeps the hash of the last success.  A teardown may take resources away *)
(* under any status: Deleting is never stored.                             *)
(***************************************************************************)
EXTENDS Integers

CONSTANTS Version,  \* 0: nothing
          Broken    \* half applied or half destroyed

VARIABLES status, hash, handle, real

vars == <<status, hash, handle, real>>

InFlight == status \in {"provisioning", "updating"}

Init == status = "none" /\ hash = 0 /\ handle = FALSE /\ real = 0

Begin ==
  /\ status' = IF handle THEN "updating" ELSE "provisioning"
  /\ UNCHANGED <<hash, handle, real>>

\* The driver works on the resources.
Change ==
  /\ InFlight
  /\ real' \in Version \cup {Broken}
  /\ UNCHANGED <<status, hash, handle>>

SaveHandle ==
  /\ InFlight
  /\ handle' = TRUE
  /\ UNCHANGED <<status, hash, real>>

Succeed ==
  /\ InFlight
  /\ real # Broken /\ hash' = real
  /\ status' = "active" /\ handle' = TRUE
  /\ UNCHANGED real

Fail ==
  /\ InFlight
  /\ status' = "error"
  /\ handle' \in {handle, TRUE}
  /\ UNCHANGED <<hash, real>>

Destroy ==
  /\ real' \in {0, Broken}
  /\ real = 0 => real' = 0
  /\ UNCHANGED <<status, hash, handle>>

Forget ==
  /\ status' = "none" /\ hash' = 0 /\ handle' = FALSE
  /\ UNCHANGED real

Next == Begin \/ Change \/ SaveHandle \/ Succeed \/ Fail \/ Destroy \/ Forget

Spec == Init /\ [][Next]_vars

=============================================================================
