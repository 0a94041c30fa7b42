----------------------------- MODULE AwsEnclave -----------------------------
(***************************************************************************)
(* The AWS driver: provision_enclave makes an account of the organization, *)
(* moves it, and makes a network, subnets, a zone and a role inside it;    *)
(* provision_partition makes a role and attaches a policy to it, Terraform *)
(* runs under it, and the handle it returns replaces the role's.  Unlike   *)
(* GCP nothing but roles is adopted: an account that exists is refused, so *)
(* what is made without a name of its own is made once.  Each enclave has  *)
(* one partition here; the reconciler calls for an enclave one at a time.  *)
(***************************************************************************)
EXTENDS Integers

CONSTANTS
  Enclave, Account,
  AccountOf,       \* the account name, hence e-mail, derived from an enclave's id
  HasInput,        \* its partition declares the input nclav_account_id
  MaxFaults, MaxEdits

ASSUME AwsAssumption ==
  /\ AccountOf \in [Enclave -> Account] /\ HasInput \in [Enclave -> BOOLEAN]
  /\ MaxFaults \in Nat /\ MaxEdits \in Nat

Thing == {"vpc", "subnet", "zone"}    \* made without a name: a second one is another one

VARIABLES
  declared,  \* the enclave is in the configuration
  handle,    \* its record has a complete handle
  phandle,   \* the handle in its partition's record: "none", or whose it is
  at,        \* where the call for it is
  account,   \* "none", "creating", "open", "closed"
  maker,     \* whose request made the account: only that enclave learns its id
  unit,      \* the account is in the configured unit, and no longer at the root
  made,      \* how many of each thing it has
  role,      \* the partition's role: "none", "bare", "attached"
  torn,      \* history: the account was closed, the handle is still recorded
  ptorn,     \* history: the role was deleted, the partition's handle still recorded
  faults, edits

vars == <<declared, handle, phandle, at, account, maker, unit, made, role, torn, ptorn,
          faults, edits>>
records == <<handle, phandle>>
cloud == <<account, maker, unit, made, role>>
history == <<torn, ptorn>>
bounds == <<faults, edits>>

Making == {"vpc", "subnet", "zone"}
Points == {"idle", "create", "wait", "move", "assume", "save", "partition", "attach",
           "savePartition", "terraform", "detach", "delete", "parted", "forget"} \cup Making

CallsTyped == at \in [Enclave -> Points]
RecordsTyped ==
  /\ declared \in [Enclave -> BOOLEAN]
  /\ handle \in [Enclave -> BOOLEAN] /\ phandle \in [Enclave -> {"none", "driver", "terraform"}]
  /\ torn \in [Enclave -> BOOLEAN] /\ ptorn \in [Enclave -> BOOLEAN]
CloudTyped ==
  /\ account \in [Account -> {"none", "creating", "open", "closed"}]
  /\ maker \in [Account -> Enclave]
  /\ unit \in [Account -> BOOLEAN] /\ made \in [Account -> [Thing -> 0 .. 2]]
  /\ role \in [Account -> {"none", "bare", "attached"}]
BoundsKept == faults \in 0 .. MaxFaults /\ edits \in 0 .. MaxEdits

TypeOK == CallsTyped /\ RecordsTyped /\ CloudTyped /\ BoundsKept

Init ==
  /\ declared = [e \in Enclave |-> TRUE]
  /\ handle = [e \in Enclave |-> FALSE] /\ phandle = [e \in Enclave |-> "none"]
  /\ at = [e \in Enclave |-> "idle"]
  /\ account = [a \in Account |-> "none"] /\ maker \in [Account -> Enclave]
  /\ unit = [a \in Account |-> FALSE]
  /\ made = [a \in Account |-> [t \in Thing |-> 0]]
  /\ role = [a \in Account |-> "none"]
  /\ torn = [e \in Enclave |-> FALSE] /\ ptorn = [e \in Enclave |-> FALSE]
  /\ faults = 0 /\ edits = 0

Made(e, a) == account' = [account EXCEPT ![a] = "creating"] /\ maker' = [maker EXCEPT ![a] = e]
Open(e) == account[AccountOf[e]] = "open" /\ maker[AccountOf[e]] = e
Goto(e, point) == at' = [at EXCEPT ![e] = point]
Return(e) == Goto(e, "idle")
Fault == faults < MaxFaults /\ faults' = faults + 1
SetAccount(a, x) == account' = [account EXCEPT ![a] = x]

----------------------------------------------------------------------------
(* provision_enclave *)

\* A complete handle ends the call at once: the cloud is not asked.
Apply(e) ==
  /\ at[e] = "idle" /\ declared[e] /\ ~ handle[e] /\ Goto(e, "create")
  /\ UNCHANGED <<declared, records, cloud, history, bounds>>

\* CreateAccount; an account with that e-mail is refused.
CreateAccount_faulty(e) ==
  LET a == AccountOf[e] IN
  /\ at[e] = "create"
  /\ \/ account[a] = "none" /\ Made(e, a) /\ Goto(e, "wait")
     \/ account[a] # "none" /\ UNCHANGED <<account, maker>> /\ Goto(e, "wait")
  /\ UNCHANGED <<declared, records, unit, made, role, history, bounds>>

CreateAccount(e) ==
  LET a == AccountOf[e] IN
  /\ at[e] = "create"
  /\ \/ account[a] = "none" /\ Made(e, a) /\ Goto(e, "wait")
     \/ account[a] # "none" /\ UNCHANGED <<account, maker>> /\ Return(e)
  /\ UNCHANGED <<declared, records, unit, made, role, history, bounds>>

\* org_wait_for_account, with the id of this request.
WaitForAccount(e) ==
  LET a == AccountOf[e] IN
  /\ at[e] = "wait"
  /\ \/ Open(e) /\ Goto(e, "move")
     \/ account[a] = "none" /\ Return(e)
     \/ maker[a] # e /\ Return(e)
  /\ UNCHANGED <<declared, records, cloud, history, bounds>>

\* ListParents and MoveAccount.
MoveAccount(e) ==
  /\ at[e] = "move" /\ Open(e)
  /\ unit' = [unit EXCEPT ![AccountOf[e]] = TRUE] /\ Goto(e, "assume")
  /\ UNCHANGED <<declared, records, account, maker, made, role, history, bounds>>

AssumeRole(e) ==
  /\ at[e] = "assume" /\ Open(e) /\ Goto(e, "vpc")
  /\ UNCHANGED <<declared, records, cloud, history, bounds>>

\* CreateVpc, CreateSubnet, CreateHostedZone (its caller reference is the time).
After_faulty(t) == IF t = "vpc" THEN "subnet" ELSE "save"
After(t) == IF t = "vpc" THEN "subnet" ELSE IF t = "subnet" THEN "zone" ELSE "save"

Make(e) ==
  LET a == AccountOf[e] t == at[e] IN
  /\ t \in Making /\ Open(e) /\ made[a][t] < 2
  /\ made' = [made EXCEPT ![a][t] = @ + 1] /\ Goto(e, After(t))
  /\ UNCHANGED <<declared, records, account, maker, unit, role, history, bounds>>

\* The identity's role is like the partition's and left out.
Save(e) ==
  /\ at[e] = "save"
  /\ handle' = [handle EXCEPT ![e] = TRUE] /\ torn' = [torn EXCEPT ![e] = FALSE]
  /\ Return(e)
  /\ UNCHANGED <<declared, phandle, cloud, ptorn, bounds>>

----------------------------------------------------------------------------
(* provision_partition and teardown_partition *)

\* A handle of the driver's own ends provision_partition, one of Terraform's does not.
\* The account id must come from an input, and the inputs are those the partition
\* declares; without it the call is refused.  With the role, Terraform runs.
ApplyPartition(e) ==
  /\ at[e] = "idle" /\ declared[e] /\ handle[e]
  /\ phandle[e] = "driver" \/ HasInput[e]
  /\ Goto(e, IF phandle[e] = "driver" THEN "terraform" ELSE "partition")
  /\ UNCHANGED <<declared, records, cloud, history, bounds>>

\* A role that exists is taken as it is.
CreateRole_faulty(e) ==
  LET a == AccountOf[e] IN
  /\ at[e] = "partition" /\ Open(e)
  /\ IF role[a] = "none"
     THEN role' = [role EXCEPT ![a] = "bare"] /\ Goto(e, "attach")
     ELSE UNCHANGED role /\ Goto(e, "savePartition")
  /\ UNCHANGED <<declared, records, account, maker, unit, made, history, bounds>>

CreateRole(e) ==
  LET a == AccountOf[e] IN
  /\ at[e] = "partition" /\ Open(e)
  /\ role' = [role EXCEPT ![a] = IF @ = "none" THEN "bare" ELSE @] /\ Goto(e, "attach")
  /\ UNCHANGED <<declared, records, account, maker, unit, made, history, bounds>>

AttachPolicy(e) ==
  LET a == AccountOf[e] IN
  /\ at[e] = "attach" /\ Open(e)
  /\ \/ role[a] # "none" /\ role' = [role EXCEPT ![a] = "attached"]
        /\ Goto(e, "savePartition")
     \/ role[a] = "none" /\ UNCHANGED role /\ Return(e)
  /\ UNCHANGED <<declared, records, account, maker, unit, made, history, bounds>>

SavePartition(e) ==
  /\ at[e] = "savePartition"
  /\ phandle' = [phandle EXCEPT ![e] = "driver"] /\ ptorn' = [ptorn EXCEPT ![e] = FALSE]
  /\ Goto(e, "terraform")
  /\ UNCHANGED <<declared, handle, cloud, torn, bounds>>

\* What is stored after Terraform's success is its handle, which names no account.
Terraform(e) ==
  /\ at[e] = "terraform" /\ Open(e)
  /\ phandle' = [phandle EXCEPT ![e] = "terraform"] /\ Return(e)
  /\ UNCHANGED <<declared, handle, cloud, history, bounds>>

\* delete_partition, delete_enclave, or a reconcile that removes the enclave: the
\* partition goes first.  A handle without an account ends its teardown with Ok.
TearDown(e) ==
  /\ at[e] = "idle" /\ handle[e]
  /\ Goto(e, IF phandle[e] = "driver" THEN "detach" ELSE "parted")
  /\ UNCHANGED <<declared, records, cloud, history, bounds>>

\* An account that cannot be entered ends the teardown as if it were done; a role that
\* is gone has no policies to list, which is an error.
Detach(e) ==
  LET a == AccountOf[e] IN
  /\ at[e] = "detach"
  /\ \/ Open(e) /\ role[a] # "none" /\ role' = [role EXCEPT ![a] = "bare"]
        /\ ptorn' = [ptorn EXCEPT ![e] = TRUE] /\ Goto(e, "delete")
     \/ (~ Open(e) \/ role[a] = "none") /\ UNCHANGED <<role, ptorn>> /\ Goto(e, "parted")
  /\ UNCHANGED <<declared, records, account, maker, unit, made, torn, bounds>>

\* A role that is gone counts as deleted.
DeleteRole(e) ==
  /\ at[e] = "delete" /\ Open(e)
  /\ role' = [role EXCEPT ![AccountOf[e]] = "none"] /\ Goto(e, "parted")
  /\ UNCHANGED <<declared, records, account, maker, unit, made, history, bounds>>

\* A failed AssumeRole is passed over by the driver, a failed request by its caller.
PassOver(e) ==
  /\ at[e] \in {"detach", "delete"} /\ Fault /\ Goto(e, "parted")
  /\ UNCHANGED <<declared, records, cloud, history, edits>>

\* delete_partition forgets the partition whatever came of it.
ForgetPartition(e) ==
  /\ at[e] = "parted" /\ phandle[e] # "none"
  /\ phandle' = [phandle EXCEPT ![e] = "none"] /\ ptorn' = [ptorn EXCEPT ![e] = FALSE]
  /\ Return(e)
  /\ UNCHANGED <<declared, handle, cloud, torn, bounds>>

----------------------------------------------------------------------------
(* teardown_enclave *)

\* One that is gone counts as closed; one closed before is an error.
CloseAccount(e) ==
  LET a == AccountOf[e] IN
  /\ at[e] = "parted"
  /\ \/ Open(e) /\ SetAccount(a, "closed")
        /\ torn' = [torn EXCEPT ![e] = TRUE] /\ Goto(e, "forget")
     \/ (account[a] = "none" \/ maker[a] # e)
        /\ UNCHANGED <<account, torn>> /\ Goto(e, "forget")
     \/ account[a] = "closed" /\ maker[a] = e /\ UNCHANGED <<account, torn>> /\ Return(e)
  /\ UNCHANGED <<declared, records, maker, unit, made, role, ptorn, bounds>>

\* With resources_only the account is left; and delete_enclave, unlike a reconcile,
\* goes on after an error.
KeepAccount(e) ==
  /\ at[e] = "parted" /\ Goto(e, "forget")
  /\ UNCHANGED <<declared, records, cloud, history, bounds>>

Forget(e) ==
  /\ at[e] = "forget" /\ Return(e)
  /\ handle' = [handle EXCEPT ![e] = FALSE] /\ phandle' = [phandle EXCEPT ![e] = "none"]
  /\ torn' = [torn EXCEPT ![e] = FALSE] /\ ptorn' = [ptorn EXCEPT ![e] = FALSE]
  /\ UNCHANGED <<declared, cloud, bounds>>

----------------------------------------------------------------------------
(* The cloud, the operator, and what goes wrong *)

AccountMade(a) ==
  /\ account[a] = "creating" /\ SetAccount(a, "open")
  /\ UNCHANGED <<declared, records, at, maker, unit, made, role, history, bounds>>

AccountNotMade(a) ==
  /\ account[a] = "creating" /\ Fault /\ SetAccount(a, "none")
  /\ UNCHANGED <<declared, records, at, maker, unit, made, role, history, edits>>

\* The end of the 90 days.
Purge(a) ==
  /\ account[a] = "closed" /\ SetAccount(a, "none")
  /\ unit' = [unit EXCEPT ![a] = FALSE] /\ made' = [made EXCEPT ![a] = [t \in Thing |-> 0]]
  /\ role' = [role EXCEPT ![a] = "none"]
  /\ UNCHANGED <<declared, records, at, maker, history, bounds>>

\* Nothing can be done in an account that is not open.
Refused(e) ==
  /\ at[e] \in {"move", "assume", "partition", "attach", "terraform"} \cup Making /\ ~ Open(e)
  /\ Return(e)
  /\ UNCHANGED <<declared, records, cloud, history, bounds>>

\* A timeout, an error reply, a crash.
Fail(e) ==
  /\ at[e] # "idle" /\ Fault /\ Return(e)
  /\ UNCHANGED <<declared, records, cloud, history, edits>>

\* The request is carried out and its reply never arrives.
LostReply(e) ==
  LET a == AccountOf[e] t == at[e] IN
  /\ Fault /\ Return(e)
  /\ \/ t = "create" /\ account[a] = "none" /\ Made(e, a)
        /\ UNCHANGED <<made, torn>>
     \/ t \in Making /\ Open(e) /\ made[a][t] < 2
        /\ made' = [made EXCEPT ![a][t] = @ + 1]
        /\ UNCHANGED <<account, maker, torn>>
     \/ t = "parted" /\ Open(e) /\ SetAccount(a, "closed")
        /\ torn' = [torn EXCEPT ![e] = TRUE] /\ UNCHANGED <<maker, made>>
  /\ UNCHANGED <<declared, records, unit, role, ptorn, edits>>

Edit(e) ==
  /\ edits < MaxEdits /\ edits' = edits + 1
  /\ declared' = [declared EXCEPT ![e] = ~ @]
  /\ UNCHANGED <<records, at, cloud, history, faults>>

Provision(e) ==
  \/ CreateAccount(e) \/ WaitForAccount(e) \/ MoveAccount(e) \/ AssumeRole(e) \/ Make(e)
  \/ Save(e) \/ Refused(e)

Partition(e) ==
  \/ CreateRole(e) \/ AttachPolicy(e) \/ SavePartition(e) \/ Terraform(e)
  \/ Detach(e) \/ DeleteRole(e) \/ PassOver(e) \/ ForgetPartition(e)

Next ==
  \/ \E e \in Enclave : \/ Apply(e) \/ ApplyPartition(e) \/ TearDown(e) \/ Provision(e)
                        \/ Partition(e) \/ CloseAccount(e) \/ KeepAccount(e) \/ Forget(e)
                        \/ Fail(e) \/ LostReply(e) \/ Edit(e)
  \/ \E a \in Account : AccountMade(a) \/ AccountNotMade(a) \/ Purge(a)

Spec == Init /\ [][Next]_vars

----------------------------------------------------------------------------
(* Properties. *)

\* However often provisioning was cut short and tried again, an account never gets a
\* second network, subnet or zone: what has no name to be found by is made once.
MadeOnce == \A a \in Account : \A t \in Thing : made[a][t] <= 1

\* A complete handle means an open account of the enclave's own, in its unit, with
\* everything in it, unless its teardown stopped halfway: whatever their ids, no two
\* enclaves hold one account.
CompleteIsReal ==
  \A e \in Enclave : handle[e] /\ ~ torn[e] =>
    LET a == AccountOf[e]
    IN Open(e) /\ unit[a] /\ \A t \in Thing : made[a][t] = 1

\* A partition's handle, the driver's or Terraform's, means a role with its policy in an
\* account that is open, unless a teardown has begun: however often making the role
\* was cut short, and whatever role an earlier partition left behind.
RoleIsReal ==
  \A e \in Enclave :
    phandle[e] # "none" /\ ~ ptorn[e] /\ ~ torn[e] => role[AccountOf[e]] = "attached"

=============================================================================
