----------------------------- MODULE Reconciler -----------------------------
(***************************************************************************)
(* The reconcile loop of nclav and the two destroy endpoints of its API,   *)
(* as requests that run concurrently over one StateStore and one cloud.    *)
(*                                                                         *)
(* A request is a program that the server may suspend at every await:     *)
(* each action below is the code between two awaits that touch the store   *)
(* or the cloud.  No lock is held across them.                             *)
(*                                                                         *)
(* Data abstracted away: a desired configuration is a version number per   *)
(* partition (0: not declared), so compute_desired_hash is the version     *)
(* itself; a handle is a boolean; the outputs of a partition are the       *)
(* version that produced them (0: no outputs).  An enclave's own hash and  *)
(* its `desired' copy steer nothing in the loop and are left out, as are   *)
(* audit events: a failing append_event ends a request like any other      *)
(* failing store call (AbortRequest).                                      *)
(***************************************************************************)
EXTENDS Integers, FiniteSets

CONSTANTS
  Enclave, Part,   \* enclave ids; partition ids (unique within an enclave)
  Request,         \* HTTP requests the server can have in flight
  Imports,         \* pairs <<importer, exporter>>: the `imports:' of the YAML
  ExportOf,        \* the target_partition of each enclave's export
  Removable,       \* enclaves a commit may take out of the YAML
  DriverSets,      \* the driver registries a (re)started server may have
  Ops,             \* the endpoints called: "apply", "destroy", "destroy_part"
  ResourcesOnly,   \* the values of resources_only the callers pass
  Overlap,         \* may a request start while another one is in flight?
  Reverts,         \* may a commit bring back an earlier configuration?
  MaxVersion,      \* bound: number of YAML versions
  MaxFaults        \* bound: failed external calls, failed store calls, crashes

ASSUME ConstantsAssumption ==
  /\ Enclave # {} /\ Part # {}
  /\ Imports \subseteq Enclave \X Enclave
  /\ ExportOf \in [Enclave -> Part]
  /\ Removable \subseteq Enclave
  /\ DriverSets \subseteq SUBSET Enclave
  /\ Ops \subseteq {"apply", "destroy", "destroy_part"}
  /\ ResourcesOnly \subseteq BOOLEAN
  /\ Overlap \in BOOLEAN /\ Reverts \in BOOLEAN
  /\ MaxVersion \in Nat \ {0} /\ MaxFaults \in Nat

VARIABLES
  listed, conf, version,  \* the YAML: listed enclaves, their partitions, commits
  drivers,                \* enclaves whose resolved cloud has a driver
  store,                  \* the StateStore: one EnclaveState per enclave
  project, sa, res,       \* what exists outside nclav: projects, service
                          \* accounts, Terraform resources and their version
  workspace,              \* pairs <<e, p>> with a workspace directory on the
                          \* server's disk; nothing but the disk's loss ends it
  locked,                 \* pairs <<e, p>> whose Terraform state is locked by a
                          \* run that died: every later run is refused
  run,                    \* the state of each request
  faults,                 \* faults so far
  torn                    \* history: pairs <<e, p>> a teardown has touched since
                          \* p was last applied or its record was last forgotten

yamlVars == <<listed, conf, version>>
cloudVars == <<project, sa, res, workspace, locked>>
vars == <<listed, conf, version, drivers, store, project, sa, res, workspace, locked,
          run, faults, torn>>

----------------------------------------------------------------------------
(* Data *)

Version  == 0 .. MaxVersion
NoHandle == -1
Handle   == {NoHandle} \cup Version  \* an export handle carries outputs
Broken   == -1
Resource == {Broken} \cup Version    \* 0: no resources, Broken: half applied

\* The statuses the code writes; "none" is the absence of a record.  Degraded,
\* Deleting, Deleted and (once stored) Pending are never written.
Status == {"none", "provisioning", "active", "updating", "error"}

PartRec == [status : Status, hash : Version, handle : BOOLEAN, out : Version]
NoPart  == [status |-> "none", hash |-> 0, handle |-> FALSE, out |-> 0]

EncRec == [status : Status, handle : BOOLEAN, parts : [Part -> PartRec],
           export : Handle, imports : [Enclave -> Handle]]
NoRec  == [status |-> "none", handle |-> FALSE, parts |-> [p \in Part |-> NoPart],
           export |-> NoHandle, imports |-> [e \in Enclave |-> NoHandle]]

PC == {"idle", "list", "remove", "td", "td_sa", "forget", "enclaves", "enc",
       "enc_err", "parts", "sa", "sa_save", "tf", "save", "imports", "imp"}

RunRec == [op : {"none", "apply", "destroy", "destroy_part"}, pc : PC, ro : BOOLEAN,
           want : SUBSET Enclave, conf : [Enclave -> [Part -> Version]],
           snap : [Enclave -> EncRec], todo : SUBSET Enclave, enc : Enclave,
           mem : EncRec, pend : SUBSET Part, part : Part, wire : SUBSET Enclave,
           changed : BOOLEAN, errs : BOOLEAN]
IdleRun == [op |-> "none", pc |-> "idle", ro |-> FALSE, want |-> {},
            conf |-> [e \in Enclave |-> [p \in Part |-> 0]],
            snap |-> [e \in Enclave |-> NoRec], todo |-> {},
            enc |-> CHOOSE e \in Enclave : TRUE, mem |-> NoRec, pend |-> {},
            part |-> CHOOSE p \in Part : TRUE, wire |-> {},
            changed |-> FALSE, errs |-> FALSE]

TypeOK ==
  /\ listed \subseteq Enclave /\ conf \in [Enclave -> [Part -> Version]]
  /\ version \in 1 .. MaxVersion
  /\ drivers \subseteq Enclave
  /\ store \in [Enclave -> EncRec]
  /\ project \subseteq Enclave
  /\ sa \subseteq Enclave \X Part
  /\ res \in [Enclave \X Part -> Resource]
  /\ workspace \subseteq Enclave \X Part /\ locked \subseteq Enclave \X Part
  /\ run \in [Request -> RunRec]
  /\ faults \in 0 .. MaxFaults
  /\ torn \subseteq Enclave \X Part

Recorded(rec)    == {p \in Part : rec.parts[p].status # "none"}
Exporters        == {i[2] : i \in Imports}
ImportsFrom(e)   == {x \in Enclave : <<e, x>> \in Imports}
Declared(cf, e)  == {p \in Part : cf[e][p] # 0}

SetPart(rec, p, ps)  == [rec EXCEPT !.parts = [rec.parts EXCEPT ![p] = ps]]
SetImport(rec, x, h) == [rec EXCEPT !.imports = [rec.imports EXCEPT ![x] = h]]

\* Faulty variants, one definition each (named ..._faulty), stand before the
\* definition they replace; the properties below must reject them.
MarkActiveKeepsHash_faulty(ps, v) == [ps EXCEPT !.status = "active"]
MarkErrorClearsHash_faulty(ps)    == [ps EXCEPT !.status = "error", !.hash = 0]

\* ResourceMeta::mark_active and mark_error: an error keeps the old hash.
MarkActive(ps, v) == [ps EXCEPT !.status = "active", !.hash = v]
MarkError(ps)     == [ps EXCEPT !.status = "error"]

\* The status stored before the driver is called.
InFlight(known) == IF known THEN "updating" ELSE "provisioning"

HashUnchangedKnown_faulty(ps, v) == ps.status # "none"

\* A partition whose stored hash is the hash of its YAML is left alone.
HashUnchanged(ps, v) == ps.hash = v

UpsertedLate_faulty(old, mem) ==
  IF mem.status \in {"provisioning", "updating"} THEN old ELSE mem

\* upsert_enclave replaces the whole record, whatever it holds by now.
Upserted(old, mem) == mem

----------------------------------------------------------------------------
(* Environment: the YAML in Git, crashes, the server process. *)

Init ==
  /\ listed = Enclave /\ version = 1
  /\ conf = [e \in Enclave |-> [p \in Part |-> 1]]
  /\ drivers \in DriverSets
  /\ store = [e \in Enclave |-> NoRec]
  /\ project = {} /\ sa = {}
  /\ res = [i \in Enclave \X Part |-> 0]
  /\ workspace = {} /\ locked = {}
  /\ run = [r \in Request |-> IdleRun]
  /\ faults = 0 /\ torn = {}

\* A commit removes an enclave, or edits the partitions of one enclave: each
\* keeps its configuration, is dropped, or gets a new (or an old) one.
Commit(e, cf) ==
  /\ version < MaxVersion
  /\ version' = version + 1
  /\ \/ /\ e \in listed \cap Removable
        /\ cf = [p \in Part |-> 0]
        /\ listed' = listed \ {e}
     \/ /\ \A p \in Part : cf[p] \in {0, conf[e][p], version + 1}
                                      \cup (IF Reverts THEN 0 .. version ELSE {})
        /\ e \in listed => cf # conf[e]
        /\ listed' = listed \cup {e}
  /\ conf' = [conf EXCEPT ![e] = cf]
  /\ UNCHANGED <<drivers, store, cloudVars, run, faults, torn>>

Fault == /\ faults < MaxFaults
         /\ faults' = faults + 1

NoFault == UNCHANGED faults

Become(r, rec) == run' = [run EXCEPT ![r] = rec]

\* What a terraform apply of version v, or a terraform destroy, may leave that does
\* not end well.
HalfApplied(i, v) == {res[i]} \cup (IF i[1] \in project THEN {Broken, v} ELSE {})
HalfDestroyed(i)  == {res[i]} \cup (IF res[i] = 0 THEN {} ELSE {Broken, 0})

\* The process that a request was waiting for ends by itself, or dies with the server
\* and may leave its lock.
CutApply(q) ==
  LET i == <<q.enc, q.part>> IN
  /\ q.pc = "tf" /\ i \notin locked
  /\ \E left \in HalfApplied(i, q.conf[q.enc][q.part]) : res' = [res EXCEPT ![i] = left]
  /\ workspace' = workspace \cup {i}
  /\ locked' \in {locked, locked \cup {i}}
  /\ UNCHANGED torn

CutDestroy(q, p) ==
  LET i == <<q.enc, p>> IN
  /\ q.pc = "td" /\ p \in q.pend /\ i \in workspace \ locked
  /\ \E left \in HalfDestroyed(i) : res' = [res EXCEPT ![i] = left]
  /\ locked' \in {locked, locked \cup {i}}
  /\ torn' = torn \cup {i}
  /\ UNCHANGED workspace

\* A store call fails and `?' returns, or the client goes away and the
\* handler's future is dropped at an await, maybe while Terraform runs.
AbortRequest(r) ==
  /\ run[r].pc # "idle"
  /\ Fault
  /\ Become(r, IdleRun)
  /\ \/ UNCHANGED <<res, workspace, locked, torn>>
     \/ CutApply(run[r])
     \/ \E p \in Part : CutDestroy(run[r], p)
  /\ UNCHANGED <<yamlVars, drivers, store, project, sa>>

\* The server dies and is started again, maybe with other cloud credentials, maybe
\* on an empty disk (a container's).  What its death does to the Terraform that a
\* request was waiting for is AbortRequest, just before.
Restart(D) ==
  /\ Fault
  /\ run' = [r \in Request |-> IdleRun]
  /\ drivers' = D
  /\ workspace' \in {workspace, {}}
  /\ UNCHANGED <<yamlVars, store, project, sa, res, locked, torn>>

\* An operator deletes a lock nobody holds any more.
ForceUnlock(i) ==
  /\ i \in locked
  /\ locked' = locked \ {i}
  /\ UNCHANGED <<yamlVars, drivers, store, project, sa, res, workspace, run, faults, torn>>

----------------------------------------------------------------------------
(* Requests begin. *)

MayStart(r) ==
  /\ run[r].pc = "idle"
  /\ Overlap \/ \A q \in Request : run[q].pc = "idle"

\* Every import names an enclave of the YAML: validate() accepts the graph.
GraphValid == \A i \in Imports : i[1] \in listed => i[2] \in listed

LoadYaml(r, ro) ==
  /\ "apply" \in Ops
  /\ MayStart(r)
  /\ GraphValid
  /\ Become(r, [IdleRun EXCEPT !.op = "apply", !.pc = "list", !.ro = ro,
                               !.want = listed, !.conf = conf])
  /\ UNCHANGED <<yamlVars, drivers, store, cloudVars, faults, torn>>

ListStore(r) ==
  /\ run[r].pc = "list"
  /\ Become(r, [run[r] EXCEPT !.pc = "remove", !.snap = store,
                  !.todo = {e \in Enclave : store[e].status # "none"} \ run[r].want])
  /\ UNCHANGED <<yamlVars, drivers, store, cloudVars, faults, torn>>

\* DELETE /enclaves/{id}
DestroyEnclave(r, e, ro) ==
  /\ "destroy" \in Ops
  /\ MayStart(r)
  /\ store[e].status # "none" /\ e \in drivers
  /\ Become(r, [IdleRun EXCEPT !.op = "destroy", !.ro = ro, !.enc = e,
                  !.snap = [@ EXCEPT ![e] = store[e]],
                  !.pend = IF store[e].handle THEN Recorded(store[e]) ELSE {},
                  !.pc = IF store[e].handle THEN "td" ELSE "forget"])
  /\ UNCHANGED <<yamlVars, drivers, store, cloudVars, faults, torn>>

\* DELETE /enclaves/{id}/partitions/{part}
DestroyPartition(r, e, p) ==
  /\ "destroy_part" \in Ops
  /\ MayStart(r)
  /\ p \in Recorded(store[e]) /\ e \in drivers
  /\ Become(r, [IdleRun EXCEPT !.op = "destroy_part", !.enc = e, !.snap = [@ EXCEPT ![e] = store[e]],
                  !.pend = {p}, !.part = p, !.pc = "td"])
  /\ UNCHANGED <<yamlVars, drivers, store, cloudVars, faults, torn>>

----------------------------------------------------------------------------
(* Teardown: step 6 of reconcile() for each removed enclave, and the body of *)
(* the two destroy handlers.  They differ in which errors they report and in *)
(* what a failing teardown_enclave does.                                     *)

\* The next enclave to remove.  Without a driver or a handle no teardown is
\* attempted, and the record is deleted all the same.
RemoveEnclave(r, e) ==
  LET tear == run[r].snap[e].handle /\ e \in drivers IN
  /\ run[r].pc = "remove" /\ e \in run[r].todo
  /\ Become(r, [run[r] EXCEPT !.enc = e, !.todo = @ \ {e},
                  !.pend = IF tear THEN Recorded(run[r].snap[e]) ELSE {},
                  !.pc = IF tear THEN "td" ELSE "forget"])
  /\ UNCHANGED <<yamlVars, drivers, store, cloudVars, faults, torn>>

\* terraform destroy; an error is reported and the teardown goes on.  Without a
\* workspace directory nothing is run, and that is a success.
TerraformDestroy(r, p) ==
  LET e == run[r].enc IN
  /\ run[r].pc = "td" /\ p \in run[r].pend
  /\ \/ /\ <<e, p>> \notin workspace
        /\ NoFault
        /\ UNCHANGED <<res, locked>>
        /\ Become(r, [run[r] EXCEPT !.pc = "td_sa", !.part = p])
     \/ /\ <<e, p>> \in workspace \ locked
        /\ NoFault
        /\ res' = [res EXCEPT ![<<e, p>>] = 0]
        /\ UNCHANGED locked
        /\ Become(r, [run[r] EXCEPT !.pc = "td_sa", !.part = p])
     \/ /\ <<e, p>> \in workspace \cap locked
        /\ NoFault
        /\ UNCHANGED <<res, locked>>
        /\ Become(r, [run[r] EXCEPT !.pc = "td_sa", !.part = p, !.errs = TRUE])
     \/ /\ <<e, p>> \in workspace \ locked
        /\ Fault
        /\ \E left \in HalfDestroyed(<<e, p>>) : res' = [res EXCEPT ![<<e, p>>] = left]
        /\ locked' \in {locked, locked \cup {<<e, p>>}}
        /\ Become(r, [run[r] EXCEPT !.pc = "td_sa", !.part = p, !.errs = TRUE])
  /\ torn' = torn \cup {<<e, p>>}
  /\ UNCHANGED <<yamlVars, drivers, store, project, sa, workspace>>

\* The partition's service account, if its handle was known when the request
\* read the store.  A driver that cannot delete it may say Ok all the same, and so
\* do AWS's and Azure's of any handle that Terraform's has replaced.  reconcile()
\* only logs an error, the handlers report it.
TeardownPartition(r) ==
  LET e == run[r].enc  p == run[r].part IN
  /\ run[r].pc = "td_sa"
  /\ \/ /\ run[r].snap[e].parts[p].handle
        /\ NoFault
        /\ sa' \in {sa, sa \ {<<e, p>>}}
        /\ Become(r, [run[r] EXCEPT !.pc = "td", !.pend = @ \ {p}])
     \/ /\ run[r].snap[e].parts[p].handle
        /\ Fault
        /\ sa' \in {sa, sa \ {<<e, p>>}}
        /\ Become(r, [run[r] EXCEPT !.pc = "td", !.pend = @ \ {p},
                                    !.errs = @ \/ run[r].op # "apply"])
     \/ /\ ~ run[r].snap[e].parts[p].handle
        /\ NoFault /\ UNCHANGED sa
        /\ Become(r, [run[r] EXCEPT !.pc = "td", !.pend = @ \ {p}])
  /\ UNCHANGED <<yamlVars, drivers, store, project, res, workspace, locked, torn>>

AfterFailedTeardownQuiet_faulty(q) ==
  IF q.op = "apply" THEN IdleRun ELSE [q EXCEPT !.pc = "forget"]

\* After a failed teardown_enclave: reconcile() returns the error with `?',
\* the handler collects it and goes on.
AfterFailedTeardown(q) ==
  IF q.op = "apply" THEN IdleRun ELSE [q EXCEPT !.pc = "forget", !.errs = TRUE]

\* Deleting the project deletes everything in it.
DeleteProject(e) ==
  /\ project' = project \ {e}
  /\ sa' = sa \ ({e} \X Part)
  /\ res' = [i \in Enclave \X Part |-> IF i[1] = e THEN 0 ELSE res[i]]

TeardownEnclave(r) ==
  LET e == run[r].enc IN
  /\ run[r].pc = "td" /\ run[r].pend = {}
  /\ \/ /\ run[r].op = "destroy_part" \/ run[r].ro
        /\ Become(r, [run[r] EXCEPT !.pc = "forget"])
        /\ UNCHANGED <<cloudVars, faults, torn>>
     \/ /\ run[r].op # "destroy_part" /\ ~ run[r].ro
        /\ NoFault
        /\ DeleteProject(e) /\ UNCHANGED <<workspace, locked>>
        /\ torn' = torn \cup ({e} \X Part)
        /\ Become(r, [run[r] EXCEPT !.pc = "forget"])
     \/ /\ run[r].op # "destroy_part" /\ ~ run[r].ro
        /\ Fault
        /\ UNCHANGED cloudVars \/ (DeleteProject(e) /\ UNCHANGED <<workspace, locked>>)
        /\ torn' = torn \cup ({e} \X Part)
        /\ Become(r, AfterFailedTeardown(run[r]))
  /\ UNCHANGED <<yamlVars, drivers, store>>

\* store.delete_enclave or store.delete_partition, whatever failed before.
\* A destroy request then replies; reconcile() takes the next removed enclave.
Forget(r) ==
  LET e == run[r].enc  p == run[r].part IN
  /\ run[r].pc = "forget"
  /\ \/ /\ run[r].op = "destroy_part"
        /\ store' = [store EXCEPT ![e] = SetPart(@, p, NoPart)]
        /\ torn' = torn \ {<<e, p>>}
     \/ /\ run[r].op # "destroy_part"
        /\ store' = [store EXCEPT ![e] = NoRec]
        /\ torn' = torn \ ({e} \X Part)
  /\ Become(r, IF run[r].op = "apply" THEN [run[r] EXCEPT !.pc = "remove"]
                                      ELSE IdleRun)
  /\ UNCHANGED <<yamlVars, drivers, cloudVars, faults>>

----------------------------------------------------------------------------
(* Step 7 of reconcile(): provision the enclaves of the YAML, exporters       *)
(* before importers.                                                          *)

BeginEnclaves(r) ==
  /\ run[r].pc = "remove" /\ run[r].todo = {}
  /\ Become(r, [run[r] EXCEPT !.pc = "enclaves", !.todo = run[r].want])
  /\ UNCHANGED <<yamlVars, drivers, store, cloudVars, faults, torn>>

NextInOrder(q, e) == e \in q.todo /\ ImportsFrom(e) \cap (q.todo \ {e}) = {}

\* No driver for the enclave's cloud: an error of this enclave only.
SkipEnclave(r, e) ==
  /\ run[r].pc = "enclaves" /\ NextInOrder(run[r], e)
  /\ e \notin drivers
  /\ Become(r, [run[r] EXCEPT !.todo = @ \ {e}, !.errs = TRUE])
  /\ UNCHANGED <<yamlVars, drivers, store, cloudVars, faults, torn>>

\* The snapshot of the record, marked in flight, is stored before the driver
\* is called.
EnclaveBegin(r, e) ==
  LET known == run[r].snap[e].status # "none"
      mem   == [run[r].snap[e] EXCEPT !.status = InFlight(known)] IN
  /\ run[r].pc = "enclaves" /\ NextInOrder(run[r], e)
  /\ e \in drivers
  /\ store' = [store EXCEPT ![e] = Upserted(@, mem)]
  /\ Become(r, [run[r] EXCEPT !.pc = "enc", !.enc = e, !.mem = mem, !.todo = @ \ {e}])
  /\ UNCHANGED <<yamlVars, drivers, cloudVars, faults, torn>>

\* A project that was provisioned before is not provisioned again: the complete
\* handle is returned, by AWS's and Azure's driver without a look at the cloud, by
\* GCP's also of a project that is pending deletion.
ProvisionEnclave(r) ==
  LET e == run[r].enc
      ok == [run[r] EXCEPT !.pc = "parts", !.pend = Declared(run[r].conf, e),
               !.mem = [@ EXCEPT !.handle = TRUE, !.status = "active"]] IN
  /\ run[r].pc = "enc"
  /\ \/ /\ NoFault
        /\ project' = project \cup {e}
        /\ Become(r, ok)
     \/ /\ run[r].mem.handle
        /\ NoFault
        /\ UNCHANGED project
        /\ Become(r, ok)
     \/ /\ Fault
        /\ project' \in {project, project \cup {e}}
        /\ Become(r, [run[r] EXCEPT !.pc = "enc_err", !.errs = TRUE,
                                    !.mem = [@ EXCEPT !.status = "error"]])
  /\ UNCHANGED <<yamlVars, drivers, store, sa, res, workspace, locked, torn>>

\* The error is stored and the partitions of this enclave are skipped.
EnclaveError(r) ==
  /\ run[r].pc = "enc_err"
  /\ store' = [store EXCEPT ![run[r].enc] = Upserted(@, run[r].mem)]
  /\ Become(r, [run[r] EXCEPT !.pc = "enclaves"])
  /\ UNCHANGED <<yamlVars, drivers, cloudVars, faults, torn>>

SkipPartitionForever_faulty(r, p) ==
  /\ run[r].pc = "parts" /\ p \in run[r].pend
  /\ HashUnchanged(run[r].mem.parts[p], run[r].conf[run[r].enc][p])
  /\ UNCHANGED vars

SkipPartition(r, p) ==
  /\ run[r].pc = "parts" /\ p \in run[r].pend
  /\ HashUnchanged(run[r].mem.parts[p], run[r].conf[run[r].enc][p])
  /\ Become(r, [run[r] EXCEPT !.pend = @ \ {p}])
  /\ UNCHANGED <<yamlVars, drivers, store, cloudVars, faults, torn>>

PartitionBegin(r, p) ==
  LET e   == run[r].enc
      old == run[r].mem.parts[p]
      mem == SetPart(run[r].mem, p, [old EXCEPT !.status = InFlight(old.handle)]) IN
  /\ run[r].pc = "parts" /\ p \in run[r].pend
  /\ ~ HashUnchanged(run[r].mem.parts[p], run[r].conf[e][p])
  /\ store' = [store EXCEPT ![e] = Upserted(@, mem)]
  /\ Become(r, [run[r] EXCEPT !.pc = "sa", !.part = p, !.mem = mem,
                              !.pend = @ \ {p}])
  /\ UNCHANGED <<yamlVars, drivers, cloudVars, faults, torn>>

PartitionFailedQuiet_faulty(q, p) ==
  [q EXCEPT !.pc = "parts", !.mem = SetPart(@, p, MarkError(q.mem.parts[p]))]

PartitionFailed(q, p) ==
  [q EXCEPT !.pc = "parts", !.errs = TRUE,
            !.mem = SetPart(@, p, MarkError(q.mem.parts[p]))]

\* The partition's service account; it needs the enclave's project.
ProvisionPartition(r) ==
  LET e == run[r].enc
      p == run[r].part
      new == [run[r].mem.parts[p] EXCEPT !.handle = TRUE] IN
  /\ run[r].pc = "sa"
  /\ \/ /\ NoFault
        /\ e \in project
        /\ sa' = sa \cup {<<e, p>>}
        /\ Become(r, [run[r] EXCEPT !.pc = "sa_save", !.mem = SetPart(@, p, new)])
     \/ /\ IF e \in project THEN Fault ELSE NoFault
        /\ \/ UNCHANGED sa
           \/ e \in project /\ sa' = sa \cup {<<e, p>>}
        /\ Become(r, PartitionFailed(run[r], p))
  /\ UNCHANGED <<yamlVars, drivers, store, project, res, workspace, locked, torn>>

\* The new handle is stored at once; an error of this one upsert is ignored.
SaveHandle(r) ==
  /\ run[r].pc = "sa_save"
  /\ \/ NoFault /\ store' = [store EXCEPT ![run[r].enc] = Upserted(@, run[r].mem)]
     \/ Fault /\ UNCHANGED store
  /\ Become(r, [run[r] EXCEPT !.pc = "tf"])
  /\ UNCHANGED <<yamlVars, drivers, cloudVars, torn>>

\* terraform apply, which makes the workspace directory.  On success the record is
\* Active in memory only: it is stored with the next partition or with the enclave.
\* Without a project, or against a lock, Terraform fails.
TerraformApply(r) ==
  LET e == run[r].enc
      p == run[r].part
      v == run[r].conf[e][p]
      new == [MarkActive(run[r].mem.parts[p], v) EXCEPT !.out = v] IN
  /\ run[r].pc = "tf"
  /\ workspace' = workspace \cup {<<e, p>>}
  /\ \/ /\ e \in project /\ <<e, p>> \notin locked
        /\ NoFault
        /\ res' = [res EXCEPT ![<<e, p>>] = v]
        /\ torn' = torn \ {<<e, p>>}
        /\ UNCHANGED locked
        /\ Become(r, [run[r] EXCEPT !.pc = "parts", !.mem = SetPart(@, p, new)])
     \/ /\ e \notin project \/ <<e, p>> \in locked
        /\ NoFault
        /\ UNCHANGED <<res, locked, torn>>
        /\ Become(r, PartitionFailed(run[r], p))
     \/ /\ <<e, p>> \notin locked
        /\ Fault
        /\ \E left \in HalfApplied(<<e, p>>, v) : res' = [res EXCEPT ![<<e, p>>] = left]
        /\ locked' \in {locked, locked \cup {<<e, p>>}}
        /\ UNCHANGED torn
        /\ Become(r, PartitionFailed(run[r], p))
  /\ UNCHANGED <<yamlVars, drivers, store, project, sa>>

\* The export is wired with the stored outputs of its target partition, also
\* when that partition has just failed.
ProvisionExport(r) ==
  LET e == run[r].enc IN
  /\ run[r].pc = "parts" /\ run[r].pend = {}
  /\ \/ /\ e \in Exporters
        /\ NoFault
        /\ Become(r, [run[r] EXCEPT !.pc = "save",
                        !.mem = [@ EXCEPT !.export = run[r].mem.parts[ExportOf[e]].out]])
     \/ /\ e \in Exporters
        /\ Fault
        /\ Become(r, [run[r] EXCEPT !.pc = "save", !.errs = TRUE])
     \/ /\ e \notin Exporters
        /\ NoFault
        /\ Become(r, [run[r] EXCEPT !.pc = "save"])
  /\ UNCHANGED <<yamlVars, drivers, store, cloudVars, torn>>

SaveEnclave(r) ==
  /\ run[r].pc = "save"
  /\ store' = [store EXCEPT ![run[r].enc] = Upserted(@, run[r].mem)]
  /\ Become(r, [run[r] EXCEPT !.pc = "enclaves"])
  /\ UNCHANGED <<yamlVars, drivers, cloudVars, faults, torn>>

----------------------------------------------------------------------------
(* Step 8 of reconcile(): wire the imports, from records read again. *)

BeginImports(r) ==
  /\ run[r].pc = "enclaves" /\ run[r].todo = {}
  /\ Become(r, [run[r] EXCEPT !.pc = "imports", !.todo = run[r].want])
  /\ UNCHANGED <<yamlVars, drivers, store, cloudVars, faults, torn>>

ReadImporter(r, e) ==
  /\ run[r].pc = "imports" /\ e \in run[r].todo
  /\ \/ /\ e \in drivers /\ store[e].status # "none"
        /\ Become(r, [run[r] EXCEPT !.pc = "imp", !.todo = @ \ {e}, !.enc = e,
                        !.mem = store[e], !.wire = ImportsFrom(e), !.changed = FALSE])
     \/ /\ e \notin drivers \/ store[e].status = "none"
        /\ Become(r, [run[r] EXCEPT !.todo = @ \ {e}])
  /\ UNCHANGED <<yamlVars, drivers, store, cloudVars, faults, torn>>

\* An import is wired once: an existing handle is never looked at again, and
\* an exporter without the export is passed over without an error.
Wirable(q, x) == q.mem.imports[x] = NoHandle /\ store[x].export # NoHandle

WireImport(r, x) ==
  /\ run[r].pc = "imp" /\ x \in run[r].wire
  /\ \/ /\ Wirable(run[r], x)
        /\ NoFault
        /\ Become(r, [run[r] EXCEPT !.wire = @ \ {x}, !.changed = TRUE,
                                    !.mem = SetImport(@, x, store[x].export)])
     \/ /\ Wirable(run[r], x)
        /\ Fault
        /\ Become(r, [run[r] EXCEPT !.wire = @ \ {x}, !.errs = TRUE])
     \/ /\ ~ Wirable(run[r], x)
        /\ NoFault
        /\ Become(r, [run[r] EXCEPT !.wire = @ \ {x}])
  /\ UNCHANGED <<yamlVars, drivers, store, cloudVars, torn>>

SaveImporter(r) ==
  /\ run[r].pc = "imp" /\ run[r].wire = {}
  /\ store' = [store EXCEPT ![run[r].enc] =
                IF run[r].changed THEN Upserted(@, run[r].mem) ELSE @]
  /\ Become(r, [run[r] EXCEPT !.pc = "imports"])
  /\ UNCHANGED <<yamlVars, drivers, cloudVars, faults, torn>>

\* reconcile() returns its report.
Finish(r) ==
  /\ run[r].pc = "imports" /\ run[r].todo = {}
  /\ Become(r, IdleRun)
  /\ UNCHANGED <<yamlVars, drivers, store, cloudVars, faults, torn>>

----------------------------------------------------------------------------
Start(r) ==
  \/ \E ro \in ResourcesOnly : LoadYaml(r, ro)
  \/ \E e \in Enclave, ro \in ResourcesOnly : DestroyEnclave(r, e, ro)
  \/ \E e \in Enclave, p \in Part : DestroyPartition(r, e, p)

Proceed(r) ==
  \/ ListStore(r)
  \/ \E e \in Enclave : RemoveEnclave(r, e)
  \/ \E p \in Part : TerraformDestroy(r, p)
  \/ TeardownPartition(r) \/ TeardownEnclave(r) \/ Forget(r)
  \/ BeginEnclaves(r)
  \/ \E e \in Enclave : SkipEnclave(r, e) \/ EnclaveBegin(r, e)
  \/ ProvisionEnclave(r) \/ EnclaveError(r)
  \/ \E p \in Part : SkipPartition(r, p) \/ PartitionBegin(r, p)
  \/ ProvisionPartition(r) \/ SaveHandle(r) \/ TerraformApply(r)
  \/ ProvisionExport(r) \/ SaveEnclave(r)
  \/ BeginImports(r)
  \/ \E e \in Enclave : ReadImporter(r, e)
  \/ \E x \in Enclave : WireImport(r, x)
  \/ SaveImporter(r) \/ Finish(r)

Next ==
  \/ \E e \in Enclave, cf \in [Part -> Version] : Commit(e, cf)
  \/ \E D \in DriverSets : Restart(D)
  \/ \E i \in locked : ForceUnlock(i)
  \/ \E r \in Request : Start(r) \/ Proceed(r) \/ AbortRequest(r)

Spec == Init /\ [][Next]_vars

----------------------------------------------------------------------------
(* Properties. *)

Provisions == {"enc", "enc_err", "parts", "sa", "sa_save", "tf", "save"}

Provisioning(r) == run[r].pc \in Provisions

\* The store knows of a thing before it exists: no project is created without
\* an enclave record, and no service account or Terraform resource without a
\* partition record and a stored enclave handle.  The orphan scan calls every
\* resource of an unrecorded partition an orphan, and teardown starts from
\* the stored handle; both rely on the upserts that precede the driver calls.
CreatesRecorded ==
  \A e \in Enclave :
    /\ e \in project' \ project => store[e].status # "none"
    /\ \A p \in Part :
         <<e, p>> \in sa' \ sa \/ (res[<<e, p>>] = 0 /\ res'[<<e, p>>] # 0) =>
            store[e].handle /\ store[e].parts[p].status # "none"

RecordedBeforeCreated == [][CreatesRecorded]_vars

\* An Active partition is the truth: the cloud holds the version whose hash is
\* stored ("Last provision/update succeeded; resource should exist") -- except
\* where a teardown has begun, for the code never stores Deleting.
ActiveIsApplied ==
  \A e \in Enclave, p \in Part :
    store[e].parts[p].status = "active" /\ <<e, p>> \notin torn =>
      e \in project /\ res[<<e, p>>] = store[e].parts[p].hash

\* A report without errors means what the operator reads into it: the record of
\* every enclave of the loaded YAML is Active, its declared partitions are
\* Active at that YAML's version and exist (unless an unfinished teardown took
\* them), its imports are wired, and no
\* enclave outside the YAML has a record.
ReportsTruly ==
  \A r \in Request : run[r].pc = "imports" /\ Finish(r) /\ ~ run[r].errs =>
    \A e \in Enclave :
      IF e \notin run[r].want THEN store[e] = NoRec
      ELSE /\ store[e].status = "active"
           /\ \A p \in Declared(run[r].conf, e) :
                /\ store[e].parts[p].status = "active"
                /\ store[e].parts[p].hash = run[r].conf[e][p]
                /\ <<e, p>> \notin torn => res[<<e, p>>] = run[r].conf[e][p]
           /\ \A x \in ImportsFrom(e) : store[e].imports[x] # NoHandle

ConvergedWhenClean == [][ReportsTruly]_vars

\* What a teardown that met no error has done for a partition: its resources are
\* gone, or it had no workspace directory, and Terraform was never run.
Destroyed(e, p) == res[<<e, p>>] = 0 \/ <<e, p>> \notin workspace

\* A record that has a handle is not forgotten quietly: unless the request
\* reports an error (or finds no driver), the project is gone if it was to go, and
\* so are the Terraform resources the record stood for -- but for those a server
\* without their workspace directory never looked for.
ForgetsOpenly ==
  \A r \in Request : run[r].pc = "forget" /\ Forget(r) /\ ~ run[r].errs =>
    LET e == run[r].enc IN
    IF run[r].op = "destroy_part" THEN Destroyed(e, run[r].part)
    ELSE run[r].snap[e].handle /\ e \in drivers =>
           /\ \A p \in Recorded(run[r].snap[e]) : Destroyed(e, p)
           /\ ~ run[r].ro => e \notin project

NoSilentForget == [][ForgetsOpenly]_vars

\* Each partition's record and resources go through ResourceLifecycle, as long
\* as requests do not overlap.
Life(e, p) == INSTANCE ResourceLifecycle WITH
  status <- store[e].parts[p].status, hash <- store[e].parts[p].hash,
  handle <- store[e].parts[p].handle, real <- res[<<e, p>>]

LifecycleStep ==
  \A e \in Enclave, p \in Part : [Life(e, p)!Next]_(Life(e, p)!vars)

PartitionLifecycle ==
  /\ \A e \in Enclave, p \in Part : Life(e, p)!Init
  /\ [][LifecycleStep]_vars

----------------------------------------------------------------------------
(* The inductive invariant of requests that do not overlap. *)

AtMostOne == \A r, q \in Request : run[r].pc # "idle" /\ run[q].pc # "idle" => r = q

\* While an enclave is provisioned its record is stored, and its handle is known
\* from the moment its partitions are.
BookedEnclave(q) ==
  /\ q.pc \in {"enc", "enc_err", "parts", "sa", "sa_save", "tf", "save"} =>
       store[q.enc].status # "none" /\ q.mem.status # "none"
  /\ q.pc \in {"parts", "sa", "sa_save", "tf", "save"} => q.mem.handle

\* While the driver works on a partition, its stored record says so.
BookedPartition(q) ==
  q.pc \in {"sa", "sa_save", "tf"} =>
    /\ store[q.enc].handle
    /\ store[q.enc].parts[q.part].status \in {"provisioning", "updating"}
    /\ q.mem.parts[q.part].status \in {"provisioning", "updating"}

\* The snapshot is still the store's content for the enclaves to come.
FreshSnapshot(q) ==
  /\ q.op = "apply" /\ q.pc \in {"remove", "td", "td_sa", "forget"} =>
       /\ \A e \in q.want : q.snap[e] = store[e]
       /\ q.todo \cap q.want = {}
       /\ q.pc # "remove" => q.enc \notin q.want
  /\ q.pc \in {"enclaves", "enc", "enc_err", "parts", "sa", "sa_save", "tf", "save"} =>
       /\ \A e \in q.todo : q.snap[e] = store[e]
       /\ q.pc # "enclaves" => q.enc \notin q.todo
  /\ q.pc \in {"list", "remove", "enclaves", "enc", "enc_err", "parts", "sa",
              "sa_save", "tf", "save"} => q.op = "apply"

\* The copy in memory tells the truth as the store does.
TruthfulCopy(q) ==
  /\ q.pc \in {"enc", "enc_err", "parts", "sa", "sa_save", "tf", "save"} =>
       \A p \in Part :
         q.mem.parts[p].status = "active" /\ <<q.enc, p>> \notin torn =>
           q.enc \in project /\ res[<<q.enc, p>>] = q.mem.parts[p].hash
  /\ q.pc = "imp" => q.mem.parts = store[q.enc].parts

RequestOK(q) == /\ BookedEnclave(q) /\ BookedPartition(q)
                /\ FreshSnapshot(q) /\ TruthfulCopy(q)

\* What a serial request relies on between its own awaits: the lost updates and
\* phantom resources of overlapping requests all begin by breaking this.
SerialInv == AtMostOne /\ ActiveIsApplied /\ \A r \in Request : RequestOK(run[r])

----------------------------------------------------------------------------
(* What a serial request has done so far. *)

OnPartition == {"sa", "sa_save", "tf"}

SameBook(m, s) == m.status = s.status /\ m.hash = s.hash /\ m.handle = s.handle

\* The outcome of the driver calls for partition p that is not stored yet.
AheadBy(q, p) ==
  LET m == q.mem.parts[p]  s == store[q.enc].parts[p] IN
  /\ s.status \in {"provisioning", "updating"}
  /\ \/ q.pc \in {"sa_save", "tf"} /\ m.status = s.status /\ m.hash = s.hash
     \/ /\ q.pc \in {"parts", "save"}
        /\ m.status = "active" /\ m.handle
        /\ m.hash = q.conf[q.enc][p] /\ res[<<q.enc, p>>] = m.hash
     \/ /\ q.pc \in {"parts", "save"}
        /\ m.status = "error" /\ m.hash = s.hash /\ (s.handle => m.handle)

\* The copy of a record that a request works on is ahead of the stored record
\* by the outcome of one partition at most.
CopyFollows(q) ==
  q.pc \in Provisions =>
    /\ \A p \in Part : \/ SameBook(q.mem.parts[p], store[q.enc].parts[p])
                       \/ p = q.part /\ p \notin q.pend /\ AheadBy(q, p)
    /\ q.pc \in OnPartition => q.part \notin q.pend
    /\ q.pc \in {"sa_save", "tf"} => q.mem.parts[q.part].handle

\* A teardown without errors is done with what it does not have to do any more.
Emptied(q) ==
  /\ q.op = "destroy_part" /\ q.pc \in {"td", "td_sa", "forget"} =>
       /\ q.pend \subseteq {q.part}
       /\ q.errs \/ (q.pc = "td" /\ q.part \in q.pend) \/ Destroyed(q.enc, q.part)
  /\ q.op # "destroy_part" /\ q.pc \in {"td", "td_sa"} =>
       \A p \in Recorded(q.snap[q.enc]) :
          \/ q.errs
          \/ p \in q.pend /\ (q.pc = "td" \/ p # q.part)
          \/ Destroyed(q.enc, p)
  /\ q.op # "destroy_part" /\ q.pc = "forget" =>
       \/ q.errs \/ ~ q.snap[q.enc].handle \/ q.enc \notin drivers
       \/ /\ \A p \in Recorded(q.snap[q.enc]) : Destroyed(q.enc, p)
          /\ ~ q.ro => q.enc \notin project

CopiesFollow   == \A r \in Request : CopyFollows(run[r])
TeardownsEmpty == \A r \in Request : Emptied(run[r])

\* Without reverts, a hash that equals the YAML's is that of a success: what is
\* recorded of a partition is older than the version v asked for, or is v.
UpTo(ps, v) == v = 0 \/ ps.hash < v \/ (ps.hash = v /\ ps.status = "active")

RecordsBehind ==
  \A e \in Enclave, p \in Part :
    /\ store[e].parts[p].hash <= version /\ conf[e][p] <= version
    /\ UpTo(store[e].parts[p], conf[e][p])

CallBehind(q) ==
  q.op = "apply" /\ q.pc # "idle" =>
    \A e \in Enclave, p \in Part :
      /\ q.conf[e][p] <= version
      /\ conf[e][p] = 0 \/ q.conf[e][p] <= conf[e][p]
      /\ UpTo(store[e].parts[p], q.conf[e][p])

BehindInv == RecordsBehind /\ \A r \in Request : CallBehind(run[r])

\* A record with no status is no record.
Absent == \A e \in Enclave : store[e].status = "none" => store[e] = NoRec

\* Records of enclaves that left the YAML are gone, or their turn is to come.
Unwanted(q) ==
  /\ q.op = "apply" /\ q.pc \in {"remove", "td", "td_sa", "forget"} =>
       \A e \in Enclave \ q.want : \/ store[e] = NoRec \/ e \in q.todo
                                   \/ q.pc # "remove" /\ e = q.enc
  /\ q.pc \in Provisions \cup {"enclaves", "imports", "imp"} =>
       \A e \in Enclave \ q.want : store[e] = NoRec

\* An apply works on the enclaves it loaded, and on their declared partitions.
Scope(q) ==
  /\ q.pc \in Provisions \cup {"enclaves", "imports", "imp"} =>
       q.op = "apply" /\ q.todo \subseteq q.want
  /\ q.pc \in Provisions \cup {"imp"} => q.enc \in q.want /\ q.enc \in drivers
  /\ q.pc \in OnPartition \cup {"parts", "save"} => q.pend \subseteq Declared(q.conf, q.enc)
  /\ q.pc = "save" => q.pend = {}
  /\ q.pc = "enc_err" => q.errs
  /\ q.op = "apply" /\ q.pc # "idle" =>
       \A i \in Imports : i[1] \in q.want => i[2] \in q.want
  /\ q.pc = "imp" => /\ q.mem.status = store[q.enc].status /\ q.mem.status # "none"
                     /\ q.mem.export = store[q.enc].export
                     /\ q.changed \/ q.mem.imports = store[q.enc].imports

Done(q, e) ==
  /\ e \in drivers /\ store[e].status = "active"
  /\ \A p \in Declared(q.conf, e) :
       store[e].parts[p].status = "active" /\ store[e].parts[p].hash = q.conf[e][p]
  /\ e \in Exporters => store[e].export # NoHandle

\* An apply without errors has done what it does not have to do any more.
Converging(q) ==
  ~ q.errs =>
    /\ q.pc \in Provisions \cup {"enclaves"} =>
         \A e \in q.want \ q.todo : Done(q, e) \/ (q.pc # "enclaves" /\ e = q.enc)
    /\ q.pc \in OnPartition \cup {"parts", "save"} =>
         /\ q.mem.status = "active"
         /\ \A p \in Declared(q.conf, q.enc) :
              \/ p \in q.pend
              \/ q.pc \in OnPartition /\ p = q.part
              \/ /\ q.mem.parts[p].status = "active"
                 /\ q.mem.parts[p].hash = q.conf[q.enc][p]
    /\ q.pc = "save" /\ q.enc \in Exporters => q.mem.export # NoHandle
    /\ q.pc \in {"imports", "imp"} =>
         \A e \in q.want :
           /\ Done(q, e)
           /\ \/ e \in q.todo \/ (q.pc = "imp" /\ e = q.enc)
              \/ \A x \in ImportsFrom(e) : store[e].imports[x] # NoHandle
    /\ q.pc = "imp" =>
         \A x \in ImportsFrom(q.enc) : x \in q.wire \/ q.mem.imports[x] # NoHandle

ApplyInv == Absent /\ \A r \in Request : /\ Unwanted(run[r]) /\ Scope(run[r])
                                         /\ Converging(run[r])

\* What a request has done so far is in the store and in the cloud: no upsert of
\* a whole record loses the outcome of an earlier step, and what a request that
\* reports no error has passed over is as it should be.
LoopInv == CopiesFollow /\ TeardownsEmpty /\ (~ Reverts => BehindInv /\ ApplyInv)

----------------------------------------------------------------------------
(* Liveness: the server's tasks are scheduled fairly, and somebody -- the      *)
(* operator, a pipeline -- keeps calling apply.  Nothing else is fair.         *)

FairSpec ==
  /\ Spec
  /\ \A r \in Request : WF_vars(Proceed(r))
  /\ WF_vars(\E r \in Request, ro \in ResourcesOnly : LoadYaml(r, ro))

\* Every request ends: no step waits for anything but its own call.
RequestsEnd == \A r \in Request : run[r].pc # "idle" ~> run[r].pc = "idle"

\* What keeps Terraform from a partition however often apply is called: a lock that
\* nobody deletes, and a project that is gone while the record has its handle.
Blocked(e, p) == <<e, p>> \in locked \/ (e \notin project /\ store[e].handle)

\* Once nobody destroys any more (commits and faults are bounded), every declared
\* partition becomes and stays Active at the version the YAML asks for, whatever
\* happened before, unless it is blocked: no other trace of an earlier failure, cut
\* or crash keeps apply from it, and an operator who deletes the lock frees it.
EventuallyApplied ==
  <>[](\A r \in Request : run[r].op \notin {"destroy", "destroy_part"}) =>
  <>[](GraphValid =>
        \A e \in listed \cap drivers : \A p \in Declared(conf, e) :
          \/ Blocked(e, p)
          \/ /\ store[e].parts[p].status = "active"
             /\ store[e].parts[p].hash = conf[e][p]
             /\ <<e, p>> \notin torn => res[<<e, p>>] = conf[e][p])

----------------------------------------------------------------------------
(* What a test says and the code does not do. *)

\* The test apply_sets_active_status: an apply whose report has no errors leaves
\* every partition Active.
CleanApplyIsActive ==
  [][\A r \in Request : run[r].pc = "imports" /\ Finish(r) /\ ~ run[r].errs =>
       \A e \in run[r].want : \A p \in Declared(run[r].conf, e) :
         store[e].parts[p].status = "active"]_vars

=============================================================================
