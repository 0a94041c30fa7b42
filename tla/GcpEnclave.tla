----------------------------- MODULE GcpEnclave -----------------------------
(***************************************************************************)
(* provision_enclave and teardown_enclave of the GCP driver, one request   *)
(* to the cloud at a time, with the cloud and the stored handle around     *)
(* them.  An enclave is a project with the things in it that Steps names,  *)
(* made in that order; some of them are long-running operations the driver *)
(* waits for.  A request may be applied, its reply lost; an operation may  *)
(* fail after the driver has stopped waiting; a deleted project stays,     *)
(* pending, until the cloud purges it.  Applies are repeated, and always   *)
(* by the Reconciler: one at a time of one enclave.                        *)
(***************************************************************************)
EXTENDS Integers, Sequences, SequencesExt

CONSTANTS
  Enclave, Project,
  ProjectOf,     \* the project id derived from an enclave's
  Wants,         \* the steps an enclave's configuration calls for
  MaxFaults,     \* timeouts, lost replies, failed operations, crashes
  MaxEdits       \* times an enclave is removed from the configuration or added

Steps == <<"billing", "apis", "sa", "vpc", "subnet", "dns">>
Step == ToSet(Steps)
Long == {"apis", "vpc", "subnet"}    \* answered with an operation to wait for

ASSUME GcpAssumption ==
  /\ ProjectOf \in [Enclave -> Project]
  /\ Wants \in [Enclave -> SUBSET Step]
  /\ \A e \in Enclave : /\ {"billing", "apis", "sa"} \subseteq Wants[e]
                        /\ {"subnet", "dns"} \cap Wants[e] # {} => "vpc" \in Wants[e]
  /\ MaxFaults \in Nat /\ MaxEdits \in Nat

VARIABLES
  declared,  \* the enclave is in the configuration
  handle,    \* its record has the handle stamped provisioning_complete
  at,        \* where the driver's call for it is
  step,      \* and of which step
  project,   \* the lifecycle of a project: "none", "creating", "active", "deleting"
  has,       \* what is in it: "none", "pending", "ready"
  left,      \* history: steps whose operation nobody was waiting for any more
  torn,      \* history: the project was deleted, the handle is still recorded
  faults, edits

vars == <<declared, handle, at, step, project, has, left, torn, faults, edits>>
cloud == <<project, has, left>>
bounds == <<faults, edits>>

Points == {"idle", "look", "create", "waitProject", "fetch", "undelete", "ask", "wait",
           "save", "delete", "forget"}

TypeOK ==
  /\ declared \in [Enclave -> BOOLEAN] /\ handle \in [Enclave -> BOOLEAN]
  /\ at \in [Enclave -> Points] /\ step \in [Enclave -> Step]
  /\ project \in [Project -> {"none", "creating", "active", "deleting"}]
  /\ has \in [Project -> [Step -> {"none", "pending", "ready"}]]
  /\ left \in [Project -> SUBSET Step] /\ torn \in [Enclave -> BOOLEAN]
  /\ faults \in 0 .. MaxFaults /\ edits \in 0 .. MaxEdits

Empty == [s \in Step |-> "none"]

Init ==
  /\ declared = [e \in Enclave |-> TRUE]
  /\ handle = [e \in Enclave |-> FALSE]
  /\ at = [e \in Enclave |-> "idle"] /\ step = [e \in Enclave |-> Head(Steps)]
  /\ project = [p \in Project |-> "none"] /\ has = [p \in Project |-> Empty]
  /\ left = [p \in Project |-> {}] /\ torn = [e \in Enclave |-> FALSE]
  /\ faults = 0 /\ edits = 0

----------------------------------------------------------------------------
(* The course of a call. *)

Goto(e, point) == at' = [at EXCEPT ![e] = point] /\ UNCHANGED step
Ask(e, s) == at' = [at EXCEPT ![e] = "ask"] /\ step' = [step EXCEPT ![e] = s]
Return(e) == Goto(e, "idle")

\* The next of Steps that the enclave wants, or the handle.
Advance(e) ==
  LET i == CHOOSE n \in DOMAIN Steps : Steps[n] = step[e]
      later == {n \in DOMAIN Steps : n > i /\ Steps[n] \in Wants[e]}
  IN IF later = {} THEN Goto(e, "save")
     ELSE Ask(e, Steps[CHOOSE n \in later : \A k \in later : n <= k])

SetHas(p, s, x) == has' = [has EXCEPT ![p][s] = x]
SetProject(p, x) == project' = [project EXCEPT ![p] = x]
Fault == faults < MaxFaults /\ faults' = faults + 1

----------------------------------------------------------------------------
(* provision_enclave *)

\* Only a complete handle makes the driver look before it starts.
Apply(e) ==
  /\ at[e] = "idle" /\ declared[e]
  /\ Goto(e, IF handle[e] THEN "look" ELSE "create")
  /\ UNCHANGED <<declared, handle, cloud, torn, bounds>>

\* Whatever state the project is in, a GET that succeeds ends the call.
Look(e) ==
  /\ at[e] = "look"
  /\ \/ project[ProjectOf[e]] # "none" /\ Return(e)
     \/ project[ProjectOf[e]] = "none" /\ Goto(e, "create")
  /\ UNCHANGED <<declared, handle, cloud, torn, bounds>>

\* Any other answer to the GET is taken for an absent project.
LookError(e) ==
  /\ at[e] = "look" /\ Fault /\ Goto(e, "create")
  /\ UNCHANGED <<declared, handle, cloud, torn, edits>>

CreateProject(e) ==
  LET p == ProjectOf[e] IN
  /\ at[e] = "create"
  /\ \/ project[p] = "none" /\ SetProject(p, "creating") /\ Goto(e, "waitProject")
     \/ project[p] # "none" /\ Goto(e, "fetch") /\ UNCHANGED project
  /\ UNCHANGED <<declared, handle, has, left, torn, bounds>>

WaitProject(e) ==
  LET p == ProjectOf[e] IN
  /\ at[e] = "waitProject"
  /\ \/ project[p] \in {"active", "deleting"} /\ Ask(e, "billing")
     \/ project[p] = "none" /\ Return(e)
  /\ UNCHANGED <<declared, handle, cloud, torn, bounds>>

\* "Already exists": only a project pending deletion is treated differently.
Fetch(e) ==
  /\ at[e] = "fetch"
  /\ IF project[ProjectOf[e]] = "deleting" THEN Goto(e, "undelete") ELSE Ask(e, "billing")
  /\ UNCHANGED <<declared, handle, cloud, torn, bounds>>

\* The body of an error has no lifecycleState: the project passes for active.
FetchError(e) ==
  /\ at[e] = "fetch" /\ Fault /\ Ask(e, "billing")
  /\ UNCHANGED <<declared, handle, cloud, torn, edits>>

\* The undelete and the wait for it.
Undelete_faulty(e) ==
  LET p == ProjectOf[e] IN
  /\ at[e] = "undelete"
  /\ SetProject(p, "restoring") /\ Ask(e, "billing")
  /\ UNCHANGED <<declared, handle, has, left, torn, bounds>>

Undelete(e) ==
  LET p == ProjectOf[e] IN
  /\ at[e] = "undelete"
  /\ \/ project[p] = "deleting" /\ SetProject(p, "active") /\ Ask(e, "billing")
     \/ project[p] # "deleting" /\ Return(e) /\ UNCHANGED project
  /\ UNCHANGED <<declared, handle, has, left, torn, bounds>>

\* What the cloud needs before it takes the request.
Accepts(p, s) == project[p] = "active" /\ (s \in {"subnet", "dns"} => has[p]["vpc"] = "ready")

Refused(e) ==
  /\ at[e] = "ask" /\ ~ Accepts(ProjectOf[e], step[e])
  /\ Return(e)
  /\ UNCHANGED <<declared, handle, cloud, torn, bounds>>

\* Billing link, service account, DNS zone: done when answered.  An account or a
\* zone that exists is taken as made.
AskShort(e) ==
  LET p == ProjectOf[e] IN
  /\ at[e] = "ask" /\ step[e] \notin Long /\ Accepts(p, step[e])
  /\ SetHas(p, step[e], "ready") /\ Advance(e)
  /\ UNCHANGED <<declared, handle, project, left, torn, bounds>>

AskLong(e) ==
  LET p == ProjectOf[e] IN
  /\ at[e] = "ask" /\ step[e] \in Long /\ Accepts(p, step[e])
  /\ has[p][step[e]] = "none"
  /\ SetHas(p, step[e], "pending") /\ Goto(e, "wait")
  /\ UNCHANGED <<declared, handle, project, left, torn, bounds>>

\* Enabling APIs again gives an operation to wait for; a network or a subnet that
\* already exists, made or being made, does not.
AskAgain_faulty(e) ==
  LET p == ProjectOf[e] IN
  /\ at[e] = "ask" /\ step[e] \in Long /\ Accepts(p, step[e])
  /\ has[p][step[e]] # "none"
  /\ IF step[e] = "apis" THEN Goto(e, "wait") ELSE Return(e)
  /\ UNCHANGED <<declared, handle, cloud, torn, bounds>>

AskAgain(e) ==
  LET p == ProjectOf[e] IN
  /\ at[e] = "ask" /\ step[e] \in Long /\ Accepts(p, step[e])
  /\ has[p][step[e]] # "none"
  /\ IF step[e] = "apis" THEN Goto(e, "wait") ELSE Advance(e)
  /\ UNCHANGED <<declared, handle, cloud, torn, bounds>>

\* A loop that stops without asking what came of the operation.
Waited_faulty(e) ==
  /\ at[e] = "wait" /\ Advance(e)
  /\ UNCHANGED <<declared, handle, cloud, torn, bounds>>

Waited(e) ==
  /\ at[e] = "wait" /\ has[ProjectOf[e]][step[e]] = "ready"
  /\ Advance(e)
  /\ UNCHANGED <<declared, handle, cloud, torn, bounds>>

OperationFailed(e) ==
  /\ at[e] = "wait" /\ has[ProjectOf[e]][step[e]] = "none"
  /\ Return(e)
  /\ UNCHANGED <<declared, handle, cloud, torn, bounds>>

\* Every step went through: the handle is stamped, and the reconciler stores it.
Save(e) ==
  /\ at[e] = "save"
  /\ handle' = [handle EXCEPT ![e] = TRUE] /\ torn' = [torn EXCEPT ![e] = FALSE]
  /\ Return(e)
  /\ UNCHANGED <<declared, cloud, bounds>>

----------------------------------------------------------------------------
(* teardown_enclave, called when the configuration no longer has the enclave *)

TearDown(e) ==
  /\ at[e] = "idle" /\ ~ declared[e] /\ handle[e]
  /\ Goto(e, "delete")
  /\ UNCHANGED <<declared, handle, cloud, torn, bounds>>

\* resources_only: the record goes, the project stays.
ForgetOnly(e) ==
  /\ at[e] = "idle" /\ ~ declared[e] /\ handle[e]
  /\ handle' = [handle EXCEPT ![e] = FALSE] /\ torn' = [torn EXCEPT ![e] = FALSE]
  /\ UNCHANGED <<declared, at, step, cloud, bounds>>

\* The project enters its 30 days.  One that is already in them, the cloud may
\* accept or refuse; one that is gone (404) counts as deleted.
DeleteProject(e) ==
  LET p == ProjectOf[e] IN
  /\ at[e] = "delete"
  /\ \/ /\ project[p] \in {"creating", "active"}
        /\ SetProject(p, "deleting") /\ torn' = [torn EXCEPT ![e] = TRUE]
        /\ Goto(e, "forget")
     \/ /\ project[p] \in {"none", "deleting"}
        /\ Goto(e, "forget") /\ UNCHANGED <<project, torn>>
     \/ /\ project[p] = "deleting"
        /\ Return(e) /\ UNCHANGED <<project, torn>>
  /\ UNCHANGED <<declared, handle, has, left, bounds>>

Forget(e) ==
  /\ at[e] = "forget"
  /\ handle' = [handle EXCEPT ![e] = FALSE] /\ torn' = [torn EXCEPT ![e] = FALSE]
  /\ Return(e)
  /\ UNCHANGED <<declared, cloud, bounds>>

----------------------------------------------------------------------------
(* The cloud, the operator, and what goes wrong *)

ProjectMade(p) ==
  /\ project[p] = "creating" /\ SetProject(p, "active")
  /\ UNCHANGED <<declared, handle, at, step, has, left, torn, bounds>>

Made(p, s) ==
  /\ has[p][s] = "pending" /\ SetHas(p, s, "ready")
  /\ left' = [left EXCEPT ![p] = @ \ {s}]
  /\ UNCHANGED <<declared, handle, at, step, project, torn, bounds>>

ProjectNotMade(p) ==
  /\ project[p] = "creating" /\ SetProject(p, "none") /\ Fault
  /\ UNCHANGED <<declared, handle, at, step, has, left, torn, edits>>

NotMade(p, s) ==
  /\ has[p][s] = "pending" /\ SetHas(p, s, "none") /\ Fault
  /\ UNCHANGED <<declared, handle, at, step, project, left, torn, edits>>

Purge(p) ==
  /\ project[p] = "deleting" /\ SetProject(p, "none")
  /\ has' = [has EXCEPT ![p] = Empty] /\ left' = [left EXCEPT ![p] = {}]
  /\ UNCHANGED <<declared, handle, at, step, torn, bounds>>

\* A timeout, an error reply, a crash: the call ends, the cloud goes on.
Fail(e) ==
  /\ at[e] # "idle" /\ Fault
  /\ left' = IF at[e] = "wait" /\ has[ProjectOf[e]][step[e]] = "pending"
             THEN [left EXCEPT ![ProjectOf[e]] = @ \cup {step[e]}] ELSE left
  /\ Return(e)
  /\ UNCHANGED <<declared, handle, project, has, torn, edits>>

\* The request is carried out and its reply never arrives.
LostReply(e) ==
  LET p == ProjectOf[e] IN
  /\ Fault /\ Return(e)
  /\ \/ /\ at[e] = "create" /\ project[p] = "none" /\ SetProject(p, "creating")
        /\ UNCHANGED <<has, left, torn>>
     \/ /\ at[e] = "delete" /\ project[p] \in {"creating", "active"}
        /\ SetProject(p, "deleting") /\ torn' = [torn EXCEPT ![e] = TRUE]
        /\ UNCHANGED <<has, left>>
     \/ /\ at[e] = "ask" /\ Accepts(p, step[e]) /\ has[p][step[e]] = "none"
        /\ IF step[e] \in Long
           THEN SetHas(p, step[e], "pending") /\ left' = [left EXCEPT ![p] = @ \cup {step[e]}]
           ELSE SetHas(p, step[e], "ready") /\ UNCHANGED left
        /\ UNCHANGED <<project, torn>>
  /\ UNCHANGED <<declared, handle, edits>>

Edit(e) ==
  /\ edits < MaxEdits /\ edits' = edits + 1
  /\ declared' = [declared EXCEPT ![e] = ~ @]
  /\ UNCHANGED <<handle, at, step, cloud, torn, faults>>

Driver(e) ==
  \/ Look(e) \/ CreateProject(e) \/ WaitProject(e) \/ Fetch(e) \/ Undelete(e)
  \/ Refused(e) \/ AskShort(e) \/ AskLong(e) \/ AskAgain(e) \/ Waited(e)
  \/ OperationFailed(e) \/ Save(e) \/ DeleteProject(e) \/ Forget(e)

Next ==
  \/ \E e \in Enclave : Driver(e) \/ Apply(e) \/ TearDown(e) \/ ForgetOnly(e)
                        \/ LookError(e) \/ FetchError(e) \/ Fail(e) \/ LostReply(e)
                        \/ Edit(e)
  \/ \E p \in Project : \/ ProjectMade(p) \/ ProjectNotMade(p) \/ Purge(p)
                        \/ \E s \in Step : Made(p, s) \/ NotMade(p, s)

Spec == Init /\ [][Next]_vars

\* Calls run to their end, configurations are applied again and again, and the cloud
\* finishes what it has begun.
FairSpec ==
  /\ Spec
  /\ \A e \in Enclave : WF_vars(Driver(e)) /\ WF_vars(Apply(e)) /\ WF_vars(TearDown(e))
  /\ \A p \in Project : /\ WF_vars(ProjectMade(p)) /\ WF_vars(Purge(p))
                        /\ \A s \in Step : WF_vars(Made(p, s))

----------------------------------------------------------------------------
(* Properties. *)

\* A handle stamped complete is never a lie, whatever failed, was retried, removed
\* and added on the way: the project is active and holds everything the enclave
\* wants.  Two exceptions bound what the code gives: an operation that nobody was
\* waiting for any more, and a teardown that got as far as the project only.
CompleteIsReal ==
  \A e \in Enclave : handle[e] /\ ~ torn[e] =>
    /\ project[ProjectOf[e]] = "active"
    /\ \A s \in Wants[e] \ left[ProjectOf[e]] : has[ProjectOf[e]][s] = "ready"

\* An enclave that stays declared ends up complete for good however often its
\* provisioning was cut short, and one that stays removed ends up forgotten.
Settles ==
  \A e \in Enclave : /\ <>[]declared[e] => <>[]handle[e]
                     /\ <>[]~ declared[e] => <>[]~ handle[e]

=============================================================================
