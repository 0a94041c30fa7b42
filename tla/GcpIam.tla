------------------------------- MODULE GcpIam -------------------------------
(***************************************************************************)
(* The partition service accounts of a GCP project and the two role        *)
(* bindings each of them needs: provision_partition, teardown_partition    *)
(* and the read-modify-write of ensure_iam_role_binding.  Nothing keeps    *)
(* the calls for two partitions apart, nor from a teardown or from an      *)
(* operator who edits the project's policy.  A policy is the set of        *)
(* bindings it has; binding p of the account's own policy lets the         *)
(* enclave's account act as partition p, binding p of the project's makes  *)
(* p an editor.                                                            *)
(* No name of GcpEnclave is used again: GcpProofs extends both modules.    *)
(***************************************************************************)
EXTENDS Integers

CONSTANTS
  Partition,     \* partitions of the enclave
  Other,         \* bindings the operator grants and revokes in the project's policy
  MaxFailures, MaxChanges

ASSUME IamAssumption ==
  /\ Partition \cap Other = {}
  /\ MaxFailures \in Nat /\ MaxChanges \in Nat

Binding == Partition \cup Other
Policies == {"account", "project"}

VARIABLES
  account,   \* the partitions whose service account exists
  actAs,     \* the partitions whose account's policy has its binding
  policy,    \* the project's policy
  phase,     \* where the call for a partition is
  read,      \* the policy its getIamPolicy gave
  granted,   \* the policies the last call for a partition left Ok
  meant,     \* history: what nclav and the operator have granted in the project
  missed,    \* history: of the bindings, those whose state the read policy has wrong
  harmed,    \* history: those that a call has written back without knowing better
  failures, changes

iamVars == <<account, actAs, policy, phase, read, granted, meant, missed, harmed,
             failures, changes>>
iamBounds == <<failures, changes>>
history == <<meant, missed, harmed>>

BindingPoints == {"idle", "getAccount", "setAccount", "getProject", "setProject", "done"}

IamTypeOK ==
  /\ account \subseteq Partition /\ actAs \subseteq account
  /\ policy \subseteq Binding /\ meant \subseteq Binding
  /\ phase \in [Partition -> BindingPoints] /\ read \in [Partition -> SUBSET Binding]
  /\ granted \in [Partition -> SUBSET Policies]
  /\ missed \in [Partition -> SUBSET Binding] /\ harmed \subseteq Binding
  /\ failures \in 0 .. MaxFailures /\ changes \in 0 .. MaxChanges

IamInit ==
  /\ account = {} /\ actAs = {}
  /\ policy = Other /\ meant = Other    \* the project's creator has made it
  /\ phase = [p \in Partition |-> "idle"] /\ read = [p \in Partition |-> {}]
  /\ granted = [p \in Partition |-> {}]
  /\ missed = [p \in Partition |-> {}] /\ harmed = {}
  /\ failures = 0 /\ changes = 0

Failure == failures < MaxFailures /\ failures' = failures + 1
GoOn(p, point) == phase' = [phase EXCEPT ![p] = point]
Grant(p, r) == granted' = [granted EXCEPT ![p] = @ \cup {r}]

\* The project's policy changes in the bindings S: a call between its read of it and its
\* write does not know.
Miss(S) ==
  missed' = [p \in Partition |-> IF phase'[p] = "setProject" THEN missed[p] \cup S ELSE {}]
Drop(p) == read' = [read EXCEPT ![p] = {}] /\ Miss({})

\* The service account is made, or exists.
CreateAccount(p) ==
  /\ phase[p] = "idle"
  /\ account' = account \cup {p} /\ granted' = [granted EXCEPT ![p] = {}]
  /\ GoOn(p, "getAccount")
  /\ UNCHANGED <<actAs, policy, read, history, iamBounds>>

\* ensure_iam_role_binding, on the account: nobody else writes that policy.  That of an
\* account deleted in between cannot be read, and counts as empty.
GetAccount(p) ==
  /\ phase[p] = "getAccount"
  /\ IF p \in actAs THEN Grant(p, "account") /\ GoOn(p, "getProject")
     ELSE UNCHANGED granted /\ GoOn(p, "setAccount")
  /\ UNCHANGED <<account, actAs, policy, read, history, iamBounds>>

SetAccount(p) ==
  /\ phase[p] = "setAccount" /\ p \in account
  /\ actAs' = actAs \cup {p} /\ Grant(p, "account") /\ GoOn(p, "getProject")
  /\ UNCHANGED <<account, policy, read, history, iamBounds>>

\* And on the project.  The write is skipped if the binding is there.
GetProject(p) ==
  /\ phase[p] = "getProject"
  /\ IF p \in policy
     THEN UNCHANGED read /\ Grant(p, "project") /\ GoOn(p, "done")
     ELSE read' = [read EXCEPT ![p] = policy] /\ UNCHANGED granted /\ GoOn(p, "setProject")
  /\ UNCHANGED <<account, actAs, policy, history, iamBounds>>

\* An error reply counts as a policy without bindings.
GetFails(p) ==
  /\ phase[p] = "getProject" /\ Failure
  /\ read' = [read EXCEPT ![p] = {}] /\ missed' = [missed EXCEPT ![p] = policy]
  /\ GoOn(p, "setProject")
  /\ UNCHANGED <<account, actAs, policy, granted, meant, harmed, changes>>

Written_faulty(p) == {p}

\* The whole policy is replaced, with no etag, by the one that was read and the binding.
Written(p) == read[p] \cup {p}

SetPolicy(p) ==
  /\ phase[p] = "setProject" /\ p \in account
  /\ policy' = Written(p)
  /\ meant' = meant \cup {p} /\ harmed' = (harmed \cup missed[p]) \ {p}
  /\ Grant(p, "project") /\ GoOn(p, "done") /\ read' = [read EXCEPT ![p] = {}]
  /\ Miss({b \in Binding : (b \in policy) # (b \in policy')})
  /\ UNCHANGED <<account, actAs, iamBounds>>

\* A binding that cannot be made is logged and passed over.
NotBound_faulty(p) ==
  /\ phase[p] \in {"getAccount", "setAccount", "setProject"} /\ Failure
  /\ Grant(p, "project")
  /\ GoOn(p, IF phase[p] = "setProject" THEN "done" ELSE "getProject") /\ Drop(p)
  /\ UNCHANGED <<account, actAs, policy, meant, harmed, changes>>

NotBound(p) ==
  /\ phase[p] \in {"getAccount", "setAccount", "setProject"} /\ Failure
  /\ GoOn(p, IF phase[p] = "setProject" THEN "done" ELSE "getProject") /\ Drop(p)
  /\ UNCHANGED <<account, actAs, policy, granted, meant, harmed, changes>>

\* So is one of or to an account that a teardown has deleted in between.
AccountGone(p) ==
  /\ phase[p] \in {"setAccount", "setProject"} /\ p \notin account
  /\ GoOn(p, IF phase[p] = "setProject" THEN "done" ELSE "getProject") /\ Drop(p)
  /\ UNCHANGED <<account, actAs, policy, granted, meant, harmed, iamBounds>>

\* The handle is returned, with both bindings or without.
Finish(p) ==
  /\ phase[p] = "done" /\ GoOn(p, "idle")
  /\ UNCHANGED <<account, actAs, policy, read, granted, history, iamBounds>>

\* A crash, or a request that never gets its answer, anywhere.
Abandon(p) ==
  /\ phase[p] # "idle" /\ Failure
  /\ GoOn(p, "idle") /\ granted' = [granted EXCEPT ![p] = {}] /\ Drop(p)
  /\ UNCHANGED <<account, actAs, policy, meant, harmed, changes>>

\* teardown_partition.  The cloud drops a deleted account from every binding; an
\* account already gone counts as deleted, one that cannot be deleted is passed over.
DeleteAccount(p) ==
  /\ p \in account
  /\ account' = account \ {p} /\ actAs' = actAs \ {p}
  /\ policy' = policy \ {p} /\ meant' = meant \ {p}
  /\ harmed' = harmed \ {p} /\ granted' = [granted EXCEPT ![p] = {}]
  /\ UNCHANGED <<phase, read, iamBounds>> /\ Miss({p})

\* The operator's edits of the project's policy.
EditPolicy(o) ==
  /\ changes < MaxChanges /\ changes' = changes + 1
  /\ \/ o \in policy /\ policy' = policy \ {o} /\ meant' = meant \ {o}
     \/ o \notin policy /\ policy' = policy \cup {o} /\ meant' = meant \cup {o}
  /\ harmed' = harmed \ {o}
  /\ UNCHANGED <<account, actAs, phase, read, granted, failures>> /\ Miss({o})

Provision(p) ==
  \/ CreateAccount(p) \/ GetAccount(p) \/ SetAccount(p) \/ GetProject(p) \/ GetFails(p)
  \/ SetPolicy(p) \/ NotBound(p) \/ AccountGone(p) \/ Finish(p) \/ Abandon(p)

IamNext ==
  \/ \E p \in Partition : Provision(p) \/ DeleteAccount(p)
  \/ \E o \in Other : EditPolicy(o)

IamSpec == IamInit /\ [][IamNext]_iamVars

----------------------------------------------------------------------------
(* Properties. *)

\* The project's policy is what nclav and the operator have made of it: a call brings back
\* a binding somebody revoked, or drops one somebody granted, only if that happened after
\* the call had read the policy, or if the read failed.
PolicyIsMeant == \A b \in Binding \ harmed : b \in policy <=> b \in meant

\* A binding reported as made is there until the account is deleted -- that of the
\* project's policy unless a call that did not know of it has written since.
Ensured ==
  \A p \in Partition : /\ "account" \in granted[p] => p \in actAs
                       /\ "project" \in granted[p] => p \in policy \cup harmed

=============================================================================
