---------------------------- MODULE AzureEnclave ----------------------------
(***************************************************************************)
(* The Azure driver's calls for one enclave and its partition: a           *)
(* subscription made through an alias, moved to a management group, then a *)
(* resource group, an identity, and, if configured, a network, a zone and  *)
(* a link between the two; for the partition an identity and its role,     *)
(* under which Terraform runs, whose handle then replaces the identity's.  *)
(* Almost all of it is PUT: nothing is looked up, a call that was cut      *)
(* short is made again from the start.  A PUT is answered 200/201, which   *)
(* the driver takes for done, or 202, which it polls.  The reconciler      *)
(* calls for an enclave one at a time.                                     *)
(***************************************************************************)
EXTENDS Integers

CONSTANTS
  HasInput,        \* the partition's call learns the subscription's id
  MaxFaults,       \* timeouts, error replies, lost replies, failed operations, crashes
  MaxEdits         \* changes of the configuration, and partitions destroyed by hand

ASSUME AzureAssumption == HasInput \in BOOLEAN /\ MaxFaults \in Nat /\ MaxEdits \in Nat

Extra == {"vnet", "zone"}                   \* what a configuration may ask for
Long == {"rg", "vnet", "zone", "link"}      \* what arm_put_and_wait makes
Thing == Long \cup {"group", "mi", "pmi", "role"}

VARIABLES
  declared, conf,  \* the enclave is in the YAML, and what it asks for there
  at, polling,     \* the driver's call: where it is, and waiting there or not
  want, vid,       \* what it was asked for; the network's id as it knows it
  handle,          \* the recorded handle: complete or not, with its vid and zone
  phandle,         \* the handle in the partition's record: "none", or whose it is
  sub,             \* the subscription: "none", "creating", "active", "cancelled"
  has,             \* what is in it: "none", "pending", "ready"
  early,           \* history: things taken for done while they were pending
  denied,          \* history: the role's request failed, and nobody minded
  torn, ptorn,     \* history: cancelled, or identity deleted, and still recorded
  faults, edits

vars == <<declared, conf, at, polling, want, vid, handle, phandle, sub, has, early, denied, torn, ptorn,
          faults, edits>>
yaml == <<declared, conf>>
call == <<at, polling, want, vid>>
records == <<handle, phandle, torn, ptorn>>
bounds == <<faults, edits>>

Point == {"idle", "sub", "group", "rg", "mi", "vnet", "getVnet", "zone", "link", "save",
          "pmi", "role", "savePartition", "terraform", "deletePmi", "forgetPartition",
          "removePmi", "cancel", "forget"}
Id == {"", "op", "vnet"}         \* none, that of an operation, the network's own
Handles == [done : BOOLEAN, vid : Id, zone : BOOLEAN]
NoHandle == [done |-> FALSE, vid |-> "", zone |-> FALSE]
Nothing == [x \in Thing |-> "none"]

YamlTyped == declared \in BOOLEAN /\ conf \in SUBSET Extra
CallTyped == at \in Point /\ polling \in BOOLEAN /\ want \in SUBSET Extra /\ vid \in Id
RecordsTyped ==
  /\ handle \in Handles /\ phandle \in {"none", "driver", "terraform"}
  /\ torn \in BOOLEAN /\ ptorn \in BOOLEAN
CloudTyped ==
  /\ sub \in {"none", "creating", "active", "cancelled"}
  /\ has \in [Thing -> {"none", "pending", "ready"}]
  /\ early \in SUBSET Long /\ denied \in BOOLEAN
BoundsKept == faults \in 0 .. MaxFaults /\ edits \in 0 .. MaxEdits

TypeOK == YamlTyped /\ CallTyped /\ RecordsTyped /\ CloudTyped /\ BoundsKept

Init ==
  /\ declared = TRUE /\ conf \in SUBSET Extra
  /\ at = "idle" /\ polling = FALSE /\ want = {} /\ vid = "" /\ handle = NoHandle /\ phandle = "none"
  /\ sub = "none" /\ has = Nothing
  /\ early = {} /\ denied = FALSE /\ torn = FALSE /\ ptorn = FALSE
  /\ faults = 0 /\ edits = 0

----------------------------------------------------------------------------
(* The course of a call. *)

Learn(v, point) == at' = point /\ polling' = FALSE /\ vid' = v /\ UNCHANGED want
Goto(point) == Learn(vid, point)
Poll == polling' = TRUE /\ UNCHANGED <<at, want, vid>>
Return == at' = "idle" /\ polling' = FALSE /\ want' = {} /\ vid' = ""
Fault == faults < MaxFaults /\ faults' = faults + 1

\* What follows x, given the network's id.  Without one, no link.
After(x, v) ==
  IF x = "rg" THEN "mi"
  ELSE IF x = "mi" /\ "vnet" \in want THEN "vnet"
  ELSE IF x \in {"mi", "vnet"} /\ "zone" \in want THEN "zone"
  ELSE IF x = "zone" /\ v # "" THEN "link" ELSE "save"

\* What the cloud needs before it takes the request.  The identity's name where the
\* subscription's id should be is no subscription at all.
Accepts(x) ==
  /\ sub = "active"
  /\ x \notin {"group", "rg"} => has["rg"] = "ready"
  /\ x = "link" => vid = "vnet" /\ has["vnet"] = "ready" /\ has["zone"] = "ready"
  /\ x = "pmi" => HasInput

----------------------------------------------------------------------------
(* provision_enclave *)

\* A complete handle ends the call at once, whatever the YAML asks for by now.
Apply ==
  /\ at = "idle" /\ declared /\ ~ handle.done
  /\ at' = "sub" /\ polling' = FALSE /\ want' = conf /\ vid' = ""
  /\ UNCHANGED <<yaml, records, sub, has, early, denied, bounds>>

\* create_subscription: a new alias is answered 202, or 201 before it has an id.
NewSubscription ==
  /\ at = "sub" /\ ~ polling /\ sub = "none" /\ sub' = "creating"
  /\ Return \/ Poll
  /\ UNCHANGED <<yaml, records, has, early, denied, bounds>>

\* An alias that exists gives its id, be it of a subscription cancelled since; one
\* still being made has none to give.  So do 409 and a GET.
OldSubscription_faulty ==
  /\ at = "sub" /\ ~ polling /\ sub # "none" /\ Return
  /\ UNCHANGED <<yaml, records, sub, has, early, denied, bounds>>

OldSubscription ==
  /\ at = "sub" /\ ~ polling /\ sub # "none"
  /\ IF sub = "creating" THEN Return ELSE Goto("group")
  /\ UNCHANGED <<yaml, records, sub, has, early, denied, bounds>>

PolledSubscription ==
  /\ at = "sub" /\ polling /\ sub # "creating"
  /\ IF sub = "none" THEN Return ELSE Goto("group")
  /\ UNCHANGED <<yaml, records, sub, has, early, denied, bounds>>

\* move_to_management_group, create_managed_identity: done when answered.
PutShort(x, next) ==
  /\ at = x /\ Accepts(x)
  /\ has' = [has EXCEPT ![x] = "ready"] /\ Goto(next)
  /\ UNCHANGED <<yaml, records, sub, early, denied, bounds>>

MoveToGroup == PutShort("group", "rg")

CreateIdentity == PutShort("mi", After("mi", ""))

\* arm_put_and_wait, answered 200 or 201: taken for done, with the resource's own id,
\* though a new resource may still be pending, and so may an old one.
PutDone(x) ==
  /\ at = x /\ ~ polling /\ x \in Long /\ Accepts(x)
  /\ \/ has[x] # "pending" /\ has' = [has EXCEPT ![x] = "ready"] /\ early' = early \ {x}
     \/ has[x] # "ready" /\ has' = [has EXCEPT ![x] = "pending"]
        /\ early' = early \cup {x}
  /\ LET v == IF x = "vnet" THEN "vnet" ELSE vid IN Learn(v, After(x, v))
  /\ UNCHANGED <<yaml, records, sub, denied, bounds>>

\* 202 with the address of an operation.
PutAccepted(x) ==
  /\ at = x /\ ~ polling /\ x \in Long /\ Accepts(x) /\ has[x] = "none"
  /\ has' = [has EXCEPT ![x] = "pending"] /\ Poll
  /\ UNCHANGED <<yaml, records, sub, early, denied, bounds>>

\* 409, from what is still being made.
PutConflict(x) ==
  /\ at = x /\ ~ polling /\ x \in Long \ {"rg"} /\ has[x] = "pending" /\ Return
  /\ UNCHANGED <<yaml, records, sub, has, early, denied, bounds>>

\* create_resource_group takes a resource group in conflict for made.
ResourceGroupConflict ==
  /\ at = "rg" /\ ~ polling /\ Accepts("rg") /\ has["rg"] = "pending"
  /\ early' = early \cup {"rg"} /\ Goto("mi")
  /\ UNCHANGED <<yaml, records, sub, has, denied, bounds>>

\* wait_for_operation.  What it returns is the operation, whose id is not the
\* network's; one without an id has the driver ask for the network.
Polled_faulty(x) ==
  /\ at = x /\ polling /\ x \in Long
  /\ \/ x = "vnet" /\ (Learn("op", After(x, "op")) \/ Goto("getVnet"))
     \/ x # "vnet" /\ Goto(After(x, vid))
  /\ UNCHANGED <<yaml, records, sub, has, early, denied, bounds>>

Polled(x) ==
  /\ at = x /\ polling /\ x \in Long /\ has[x] = "ready"
  /\ \/ x = "vnet" /\ (Learn("op", After(x, "op")) \/ Goto("getVnet"))
     \/ x # "vnet" /\ Goto(After(x, vid))
  /\ UNCHANGED <<yaml, records, sub, has, early, denied, bounds>>

PollFailed(x) ==
  /\ at = x /\ polling /\ x \in Long /\ has[x] = "none" /\ Return
  /\ UNCHANGED <<yaml, records, sub, has, early, denied, bounds>>

\* The status of this GET is not looked at: a failed one leaves the id empty.
GetNetwork ==
  /\ at = "getVnet"
  /\ \/ has["vnet"] # "none" /\ Learn("vnet", After("vnet", "vnet")) /\ UNCHANGED faults
     \/ Learn("", After("vnet", "")) /\ Fault
  /\ UNCHANGED <<yaml, records, sub, has, early, denied, edits>>

\* Every step went through: the handle is stamped, and the reconciler stores it.
Save ==
  /\ at = "save"
  /\ handle' = [done |-> TRUE, vid |-> vid, zone |-> "zone" \in want]
  /\ torn' = FALSE /\ Return
  /\ UNCHANGED <<yaml, phandle, ptorn, sub, has, early, denied, bounds>>

----------------------------------------------------------------------------
(* provision_partition and teardown_partition *)

\* With a handle of this driver only Terraform is left to run.
ApplyPartition ==
  /\ at = "idle" /\ declared /\ handle.done /\ phandle # "terraform"
  /\ Goto(IF phandle = "driver" THEN "terraform" ELSE "pmi")
  /\ UNCHANGED <<yaml, records, sub, has, early, denied, bounds>>

\* A partition that was applied is applied again when it has changed, and Terraform's
\* handle is none of this driver.
ChangePartition ==
  /\ at = "idle" /\ declared /\ handle.done /\ phandle = "terraform"
  /\ edits < MaxEdits /\ edits' = edits + 1 /\ Goto("pmi")
  /\ UNCHANGED <<yaml, records, sub, has, early, denied, faults>>

CreatePartitionIdentity == PutShort("pmi", "role")

\* assign_role, under a new name each time; 409 says that it was there.  Any other
\* answer is a warning.
AssignRole_faulty ==
  /\ at = "role" /\ Goto("savePartition")
  /\ UNCHANGED <<yaml, records, sub, has, early, denied, bounds>>

AssignRole ==
  /\ at = "role" /\ Goto("savePartition")
  /\ \/ has' = [has EXCEPT !["role"] = "ready"] /\ denied' = FALSE /\ UNCHANGED faults
     \/ denied' = TRUE /\ UNCHANGED has /\ Fault
  /\ UNCHANGED <<yaml, records, sub, early, edits>>

SavePartition ==
  /\ at = "savePartition" /\ phandle' = "driver" /\ ptorn' = FALSE /\ Goto("terraform")
  /\ UNCHANGED <<yaml, handle, torn, sub, has, early, denied, bounds>>

\* What is stored after Terraform's success is its handle, which names no subscription.
Terraform ==
  /\ at = "terraform" /\ Return
  /\ \/ sub = "active" /\ phandle' = "terraform"
     \/ sub # "active" /\ UNCHANGED phandle
  /\ UNCHANGED <<yaml, handle, torn, ptorn, sub, has, early, denied, bounds>>

\* delete_partition, by hand.  A handle without a subscription ends the driver's part
\* with Ok: of a partition that Terraform applied, the identity and its role stay.
TearDownPartition ==
  /\ at = "idle" /\ phandle # "none" /\ edits < MaxEdits /\ edits' = edits + 1
  /\ Goto(IF phandle = "driver" THEN "deletePmi" ELSE "forgetPartition")
  /\ UNCHANGED <<yaml, records, sub, has, early, denied, faults>>

\* arm_delete: an identity that is gone counts as deleted, and so, with a warning,
\* does one that could not be.  Its role goes with it.  With resources_only the
\* subscription stays.
DeletePartitionIdentity ==
  /\ \/ at = "deletePmi" /\ Goto("forgetPartition")
     \/ at = "removePmi" /\ (Goto("cancel") \/ Goto("forget"))
  /\ ptorn' = TRUE
  /\ \/ sub = "active" /\ has' = [has EXCEPT !["pmi"] = "none", !["role"] = "none"]
        /\ UNCHANGED faults
     \/ sub # "active" /\ UNCHANGED <<has, faults>>
     \/ Fault /\ UNCHANGED has
  /\ UNCHANGED <<yaml, handle, phandle, torn, sub, early, denied, edits>>

ForgetPartition ==
  /\ at = "forgetPartition" /\ phandle' = "none" /\ ptorn' = FALSE /\ Return
  /\ UNCHANGED <<yaml, handle, torn, sub, has, early, denied, bounds>>

----------------------------------------------------------------------------
(* teardown_enclave, for a record the configuration no longer has *)

TearDown ==
  /\ at = "idle" /\ ~ declared /\ handle.done
  /\ IF phandle = "driver" THEN Goto("removePmi") ELSE Goto("cancel") \/ Goto("forget")
  /\ UNCHANGED <<yaml, records, sub, has, early, denied, bounds>>

\* One that is gone counts as cancelled; one cancelled before is an error.  An error
\* ends a reconcile; delete_enclave goes on to forget.
Cancel ==
  /\ at = "cancel"
  /\ \/ sub = "active" /\ sub' = "cancelled" /\ torn' = TRUE /\ Goto("forget")
     \/ sub = "none" /\ Goto("forget") /\ UNCHANGED <<sub, torn>>
     \/ sub = "cancelled" /\ (Return \/ Goto("forget")) /\ UNCHANGED <<sub, torn>>
  /\ UNCHANGED <<yaml, handle, phandle, ptorn, has, early, denied, bounds>>

CancelError ==
  /\ at = "cancel" /\ Fault /\ Goto("forget")
  /\ UNCHANGED <<yaml, records, sub, has, early, denied, edits>>

Forget ==
  /\ at = "forget" /\ handle' = NoHandle /\ phandle' = "none"
  /\ torn' = FALSE /\ ptorn' = FALSE /\ Return
  /\ UNCHANGED <<yaml, sub, has, early, denied, bounds>>

----------------------------------------------------------------------------
(* The cloud, the operator, and what goes wrong *)

SubscriptionMade ==
  /\ sub = "creating" /\ sub' = "active"
  /\ UNCHANGED <<yaml, call, records, has, early, denied, bounds>>

SubscriptionNotMade ==
  /\ sub = "creating" /\ sub' = "none" /\ Fault
  /\ UNCHANGED <<yaml, call, records, has, early, denied, edits>>

Made(x) ==
  /\ has[x] = "pending" /\ has' = [has EXCEPT ![x] = "ready"] /\ early' = early \ {x}
  /\ UNCHANGED <<yaml, call, records, sub, denied, bounds>>

NotMade(x) ==
  /\ has[x] = "pending" /\ has' = [has EXCEPT ![x] = "none"] /\ Fault
  /\ UNCHANGED <<yaml, call, records, sub, early, denied, edits>>

\* The end of the 90 days.
Purge ==
  /\ sub = "cancelled" /\ sub' = "none" /\ has' = Nothing /\ early' = {}
  /\ UNCHANGED <<yaml, call, records, denied, bounds>>

Refused ==
  /\ at \in Thing \ {"role"} /\ ~ polling /\ ~ Accepts(at) /\ Return
  /\ UNCHANGED <<yaml, records, sub, has, early, denied, bounds>>

\* A timeout, an error reply, a token that expired while polling, a crash.
Fail ==
  /\ at # "idle" /\ Fault /\ Return
  /\ UNCHANGED <<yaml, records, sub, has, early, denied, edits>>

\* The request is carried out and its reply never arrives.
LostReply ==
  /\ ~ polling /\ Fault /\ Return
  /\ \/ /\ at = "sub" /\ sub = "none" /\ sub' = "creating" /\ UNCHANGED <<has, torn>>
     \/ /\ at \in Thing /\ Accepts(at) /\ has[at] = "none"
        /\ has' = [has EXCEPT ![at] = IF at \in Long THEN "pending" ELSE "ready"]
        /\ UNCHANGED <<sub, torn>>
     \/ /\ at = "cancel" /\ sub = "active" /\ sub' = "cancelled" /\ torn' = TRUE
        /\ UNCHANGED has
  /\ UNCHANGED <<yaml, handle, phandle, ptorn, early, denied, edits>>

Edit ==
  /\ edits < MaxEdits /\ edits' = edits + 1
  /\ \/ declared' = ~ declared /\ UNCHANGED conf
     \/ conf' \in (SUBSET Extra) \ {conf} /\ UNCHANGED declared
  /\ UNCHANGED <<call, records, sub, has, early, denied, faults>>

Driver ==
  \/ NewSubscription \/ OldSubscription \/ PolledSubscription
  \/ MoveToGroup \/ CreateIdentity \/ ResourceGroupConflict \/ GetNetwork \/ Save \/ Refused
  \/ \E x \in Long : PutDone(x) \/ PutAccepted(x) \/ PutConflict(x) \/ Polled(x) \/ PollFailed(x)
  \/ CreatePartitionIdentity \/ AssignRole \/ SavePartition \/ Terraform
  \/ DeletePartitionIdentity \/ ForgetPartition \/ Cancel \/ Forget

Cloud == SubscriptionMade \/ Purge \/ \E x \in Long : Made(x)

Next ==
  \/ Driver \/ Apply \/ ApplyPartition \/ ChangePartition \/ TearDownPartition \/ TearDown
  \/ Cloud \/ SubscriptionNotMade \/ (\E x \in Long : NotMade(x))
  \/ CancelError \/ Fail \/ LostReply \/ Edit

Spec == Init /\ [][Next]_vars

\* Calls run to their end, configurations are applied again and again, and the cloud
\* finishes what it has begun.
FairSpec ==
  /\ Spec /\ WF_vars(Driver) /\ WF_vars(Apply) /\ WF_vars(ApplyPartition) /\ WF_vars(TearDown)
  /\ WF_vars(SubscriptionMade) /\ WF_vars(Purge) /\ \A x \in Long : WF_vars(Made(x))

----------------------------------------------------------------------------
(* Properties. *)

\* A complete handle is never a lie, whatever failed, was retried, edited, removed and
\* added on the way: an active subscription with the group, the identity and what the
\* handle names in it, but for what was taken for done while it was pending; and where
\* it names both a network and a zone, they are linked.
CompleteIsReal ==
  handle.done /\ ~ torn =>
    /\ sub = "active"
    /\ \A x \in {"group", "rg", "mi"} : has[x] = "ready"
    /\ handle.vid # "" /\ "vnet" \notin early => has["vnet"] = "ready"
    /\ handle.zone /\ "zone" \notin early => has["zone"] = "ready"
    /\ handle.vid # "" /\ handle.zone /\ "link" \notin early => has["link"] = "ready"

\* A partition's handle, the driver's or Terraform's, means an identity that exists and
\* can act, unless granting its role failed, which nothing repairs, or a teardown has
\* begun.
IdentityIsReal ==
  phandle # "none" /\ ~ ptorn /\ ~ torn =>
    has["pmi"] = "ready" /\ (has["role"] = "ready" \/ denied)

\* An enclave that stays declared ends up complete for good however often it was cut
\* short, and so does its partition, if the subscription is known to it and was not
\* cancelled by half a teardown; one that stays removed ends up forgotten.
Settles ==
  /\ <>[]declared => <>[](handle.done /\ (HasInput /\ ~ torn => phandle # "none"))
  /\ <>[]~ declared => <>[](~ handle.done /\ phandle = "none")

=============================================================================
